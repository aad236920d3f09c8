------------------------------ MODULE MCServices ------------------------------
(* Model checking of the migrations runner, the wallet requests and the token  *)
(* prices. They share no state: a behaviour runs the part chosen at the start, *)
(* the others stay in their initial state.                                     *)
EXTENDS Services, FiniteSets, TLC

CONSTANTS m1, m2, m3, r1, r2, r3, a1, a2, c1, c2

Runs  == {m1, m2, m3}
Lasts == m1 :> 2 @@ m2 :> 3 @@ m3 :> 3

ThreeRequests == {r1, r2, r3}
TwoAddresses  == {a1, a2}
TwoChains     == {c1, c2}

VARIABLE part

\* No property names one of these values.
Symmetric == Permutations(ThreeRequests) \union Permutations(TwoAddresses) \union Permutations(TwoChains)

PartsInit ==
  /\ part \in {"migrations", "wallets", "prices"}
  /\ Init /\ Wallets!Init /\ Prices!Init

\* The bound of the prices: two requests for any of three tokens, or three requests for two.
Affordable(request) ==
  \/ Cardinality({r \in PriceRequest : request[r].pc # "new"}) <= 2
  \/ \A r \in PriceRequest : request[r].wants \subseteq {1, 2}

\* The bound of the wallets: of three requests, or of two and the deletion of the account.
Spared == account' \/ Cardinality({r \in WalletRequest : walletRequest'[r].pc # "new"}) <= 2

PartsNext ==
  /\ part' = part
  /\ \/ part = "migrations" /\ Next /\ UNCHANGED <<walletVars, priceVars>>
     \/ part = "wallets" /\ Wallets!Next /\ Spared /\ UNCHANGED <<vars, priceVars>>
     \/ part = "prices" /\ Prices!Next /\ Affordable(priceRequest') /\ UNCHANGED <<vars, walletVars>>

PartsSpec == PartsInit /\ [][PartsNext]_<<part, vars, walletVars, priceVars>>
=============================================================================
