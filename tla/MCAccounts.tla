------------------------------ MODULE MCAccounts ------------------------------
(* Model checking of the account modules. They share no state: a behaviour     *)
(* runs one of them, the part chosen at the start; the others stay as they are.*)
EXTENDS Accounts, TLC

CONSTANTS s1, s2, r1, r2, m1, x1, x2

TwoSessions  == {s1, s2}
TwoRequests  == {r1, r2}
OneEmail     == {m1}
TwoSubjects  == {x1, x2}
OneSubject   == {x1}

VARIABLE part

\* No property names one of these values.
Symmetric == Permutations(TwoSessions) \union Permutations(TwoRequests)

PartsInit ==
  /\ part \in {"sessions", "codes", "identities", "deletion"}
  /\ Init /\ Codes!Init /\ Ids!Init /\ Reauth!Init
  /\ part # "deletion" => hash = 0

PartsNext ==
  /\ part' = part
  /\ \/ part = "sessions" /\ Next /\ UNCHANGED <<codeVars, identityVars, deletionVars>>
     \/ part = "codes" /\ Codes!Next /\ UNCHANGED <<vars, identityVars, deletionVars>>
     \/ part = "identities" /\ Ids!Next /\ UNCHANGED <<vars, codeVars, deletionVars>>
     \/ part = "deletion" /\ Reauth!Next /\ UNCHANGED <<vars, codeVars, identityVars>>

PartsSpec ==
  PartsInit /\ [][PartsNext]_<<part, vars, codeVars, identityVars, deletionVars>>
=============================================================================
