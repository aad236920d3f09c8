\* Holdings, positions and snapshots, each within bounds of its own.
\* The parts may stop: time up and every answer and cycle used.
SPECIFICATION PartsSpec
CONSTANTS
  Address = {a1, a2}
  Request = {r1}
  DatabaseTime = 0
  Chain = {c1, c2}
  Quality = {"complete", "cut"}
  Ttl = 1
  DegradedTtl = 1
  ChainDegradedTtl = 1
  GoodTtl = 2
  MaxAge = 2
  Timeout = 1
  MaxAnswers = 2
  MaxTime = 3
  NumChains = 2
  PositionsTtl = 1
  PositionsDegradedTtl = 1
  PositionsGoodTtl = 2
  CoolDown = 1
  PositionsMaxAge = 2
  LoopTime = 1
  PositionsAnswers = 3
  PositionsTime = 7
  NumWallets = 2
  SummaryTtl = 2
  PartialTtl = 1
  FetchTime = 1
  MaxCycles = 3
  MaxRequests = 1
  SnapshotsTime = 3
CHECK_DEADLOCK FALSE
INVARIANTS
  TypesOK
  HonestAnswers
  HonestPositions
  SnapshotsSound
PROPERTIES
  DetailResultKept
