------------------------------- MODULE Accounts -------------------------------
(***************************************************************************)
(* The requests about accounts, side by side: sign-in and tokens (module   *)
(* AuthSessions, extended), the codes that verify an email and reset a     *)
(* password, identities, and the deletion of an account. Each module       *)
(* models, as actions of its own, what it needs to know of the others (a   *)
(* reset, a logout, a deletion), and the lock of the account's row that    *)
(* their transactions have in common. So none reads what another writes,   *)
(* and the system does what each of the four specifications allows.        *)
(***************************************************************************)
EXTENDS AuthSessions

CONSTANTS
  \* AuthChallenges
  Purpose, CodeCoolDown, CodeTtl, CodeWindow, MaxCodesPerHour, MaxGuesses, MaxCodes, MaxCodeTime,
  \* AccountIdentities
  Email, Provider, Subject, MaxUsers, MaxHashes, Nobody,
  \* AccountDeletionReauth; its account has subjects of its own
  OwnSubject, ReauthTtl, ReauthWindow, MaxReauthsPerHour, MaxAttempts, MaxReauths, MaxGrants,
  MaxOwnHashes, MaxLost, MaxReauthTime, Nothing

VARIABLES
  codeNow, codeRow, verified, codeRequest, wrong, accepted,
  user, owner, lastPassword, identityRequest,
  clock, present, hash, linked, login, challenge, grant, proof, guesses, lost

Codes == INSTANCE AuthChallenges WITH
  CoolDown <- CodeCoolDown, Ttl <- CodeTtl, Window <- CodeWindow, MaxPerHour <- MaxCodesPerHour,
  MaxChallenges <- MaxCodes, MaxTime <- MaxCodeTime,
  now <- codeNow, challenge <- codeRow, request <- codeRequest

Ids == INSTANCE AccountIdentities WITH
  MaxPassword <- MaxHashes, password <- lastPassword, request <- identityRequest

Reauth == INSTANCE AccountDeletionReauth WITH
  Subject <- OwnSubject, Ttl <- ReauthTtl, Window <- ReauthWindow,
  MaxPerHour <- MaxReauthsPerHour, MaxChallenges <- MaxReauths, MaxPassword <- MaxOwnHashes,
  MaxTime <- MaxReauthTime,
  now <- clock, password <- hash, session <- login, request <- proof

ASSUME AccountsAssumption ==
  Codes!LimitsAssumption /\ Ids!BoundsAssumption /\ Reauth!ReauthAssumption

codeVars     == <<codeNow, codeRow, verified, codeRequest, wrong, accepted>>
identityVars == <<user, owner, lastPassword, identityRequest>>
deletionVars == <<clock, present, hash, linked, login, challenge, grant, proof, guesses, lost>>

AccountsSpec == Spec /\ Codes!Spec /\ Ids!Spec /\ Reauth!Spec

\* The type invariants of all parts.
TypesOK == TypeOK /\ Codes!TypeOK /\ Ids!TypeOK /\ Reauth!TypeOK

\* The properties of the parts: each is stated, with the code it is about, in its module.
IssueLimit              == Codes!IssueLimit
AlwaysSignIn            == Ids!AlwaysSignIn
LinkedWithProof         == Ids!LinkedWithProof
DeletedWithCurrentProof == Reauth!DeletedWithCurrentProof
ChallengeOrGrant        == Reauth!ChallengeOrGrant
GuessesLimited          == Codes!GuessesBounded /\ Reauth!GuessesLimited
=============================================================================
