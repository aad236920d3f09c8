----------------------------- MODULE MCPortfolio -----------------------------
(* Model checking of the portfolio modules: holdings, positions and snapshots. *)
(* A behaviour runs the part chosen at the start, within its bounds; what      *)
(* belongs to the other modules stays as it is.                                *)
EXTENDS Portfolio, FiniteSets

VARIABLE part

allVars == <<part, vars, positionsVars, snapshotVars>>

PartsInit ==
  /\ part \in {"moving holdings", "aging holdings", "chains of holdings", "moving positions",
               "aging positions", "chains of positions", "cycles", "aging summaries"}
  /\ Init /\ Positions!Init /\ Snapshots!Init
  /\ enabled = IF part = "chains of holdings" THEN Chain ELSE {CHOOSE c \in Chain : TRUE}
  /\ numEnabled = IF part = "chains of positions" THEN NumChains ELSE 1

\* What the provider answers is complete.
Complete ==
  \A k \in Address \X Chain :
    chainCache'[k] # None => chainCache'[k].value.quality = "complete"

\* One of the two modes has no answer and none under way.
OneMode == \E m \in Mode : joint'[m] = NoJoint /\ cache'[m] = None /\ good'[m] = None

\* A wallet that changes its address, for longer while requests are of one mode; one whose
\* holdings get old, requests of both modes; and one on two chains, requests of one mode.
MovingHoldings ==
  /\ part = "moving holdings" /\ Next /\ Complete
  /\ changedAt' <= 1 /\ (~OneMode => now' <= 1)
AgingHoldings  == part = "aging holdings" /\ Next /\ changedAt' = -1
ChainsHoldings ==
  part = "chains of holdings" /\ Next /\ changedAt' = -1 /\ (~OneMode => now' = 0)

\* A wallet that changes its address; one whose positions get old; and one on two chains.
MovingPositions ==
  part = "moving positions" /\ Positions!Next /\ positionsNow' <= 4 /\ zerionAnswers' <= 2
AgingPositions == part = "aging positions" /\ Positions!Next /\ movedAt' = -1
ChainsPositions ==
  part = "chains of positions" /\ Positions!Next /\ movedAt' = -1 /\ positionsNow' <= 3

Started == Cardinality({k \in Snapshots!Cycle : cycle'[k].at # "unused"})

\* All that a wallet holds has a price.
Priced(w) ==
  /\ promise'[w] # Snapshots!NoPromise =>
       "underpriced" \notin {promise'[w].holdings, promise'[w].positions}
  /\ summary'[w] # Snapshots!None =>
       "underpriced" \notin {summary'[w].value.holdings, summary'[w].value.positions}

\* Two cycles, or a third one without performance requests, and one wallet may lack prices; and
\* two cycles within more time, of which all wallets but the first have no summary.
Cycles ==
  /\ part = "cycles" /\ Snapshots!Next /\ time' <= 1
  /\ Started = 3 => requests' = 0
  /\ \A w \in Snapshots!Wallet \ {1} : Priced(w)

AgingSummaries ==
  /\ part = "aging summaries" /\ Snapshots!Next
  /\ Started <= 2 /\ \A w \in Snapshots!Wallet \ {1} : summary'[w] = Snapshots!None
  /\ \A w \in Snapshots!Wallet : Priced(w)

PartsNext ==
  /\ part' = part
  /\ \/ /\ MovingHoldings \/ AgingHoldings \/ ChainsHoldings
        /\ UNCHANGED <<positionsVars, snapshotVars>>
     \/ (MovingPositions \/ AgingPositions \/ ChainsPositions) /\ UNCHANGED <<vars, snapshotVars>>
     \/ (Cycles \/ AgingSummaries) /\ UNCHANGED <<vars, positionsVars>>

PartsSpec == PartsInit /\ [][PartsNext]_allVars
=============================================================================
