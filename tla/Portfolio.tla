------------------------------ MODULE Portfolio ------------------------------
(***************************************************************************)
(* What the API says a wallet is worth, from three specifications side by  *)
(* side: the holdings of one wallet (extended), its protocol positions, and*)
(* the snapshots taken from the summaries of all wallets. They have no     *)
(* state in common: holdings and positions each have caches and a table of *)
(* their own, and the snapshots see them through calls that may end in any *)
(* way the two allow, at any time. The system does what each of the three  *)
(* specifications allows; each part has the clock as a variable of its own.*)
(***************************************************************************)
EXTENDS WalletHoldings

CONSTANTS
  NumChains, PositionsTtl, PositionsDegradedTtl, PositionsGoodTtl, CoolDown, PositionsMaxAge,
  LoopTime, PositionsAnswers, PositionsTime,                              \* WalletPositions
  NumWallets, SummaryTtl, PartialTtl, FetchTime, MaxCycles, MaxRequests,
  SnapshotsTime                                                           \* PortfolioSnapshots

VARIABLES
  positionsNow, owner, movedAt, numEnabled, persisted, positionsCache, lastGood, coolUntil,
  positions, sharing, positionsRequest, zerionAnswers,
  time, summary, promise, job, lastRun, cycle, snapshots, requests

Positions == INSTANCE WalletPositions WITH
  Ttl <- PositionsTtl, DegradedTtl <- PositionsDegradedTtl, GoodTtl <- PositionsGoodTtl,
  MaxAge <- PositionsMaxAge, MaxAnswers <- PositionsAnswers, MaxTime <- PositionsTime,
  now <- positionsNow, address <- owner, changedAt <- movedAt, enabled <- numEnabled,
  stored <- persisted, chainCache <- positionsCache, chainGood <- lastGood, cache <- positions,
  joint <- sharing, request <- positionsRequest, answers <- zerionAnswers

Snapshots == INSTANCE PortfolioSnapshots WITH
  Ttl <- SummaryTtl, MaxTime <- SnapshotsTime, now <- time

ASSUME PortfolioAssumption ==
  HoldingsAssumption /\ Positions!PositionsAssumption /\ Snapshots!SnapshotsAssumption

positionsVars == <<positionsNow, owner, movedAt, numEnabled, persisted, positionsCache, lastGood,
                   coolUntil, positions, sharing, positionsRequest, zerionAnswers>>
snapshotVars  == <<time, summary, promise, job, lastRun, cycle, snapshots, requests>>

PortfolioSpec == Spec /\ Positions!Spec /\ Snapshots!Spec

\* The type invariants of all parts.
TypesOK == TypeOK /\ Positions!TypeOK /\ Snapshots!TypeOK

\* The properties of the parts: each is stated, with the code it is about, in its module.
HonestPositions   == Positions!HonestPositions
DetailResultKept  == Positions!DetailResultKept
SnapshotsSound    == Snapshots!SnapshotsSound
=============================================================================
