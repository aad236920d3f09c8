\* Two trackers with different settings share one cursor; one transfer may be dropped.
\* The system may stop when the wallet is deleted.
SPECIFICATION FairSpec
CONSTANTS
  w1 = w1
  w2 = w2
  e1 = e1
  e2 = e2
  e3 = e3
  k1 = k1
  k2 = k2
  h1 = h1
  h2 = h2
  Wallet <- OneWallet
  Event <- ThreeEvents
  WalletOf <- AllOnOne
  BlockOf <- OneThenTwo
  Malformed <- None
  Omissible <- LastEvent
  Tracker <- TwoTrackers
  Handler <- None
  MaxBlock = 4
  Confirmations = 1
  BatchSize = 1
  StartBlock <- SecondStarts
  ResetCursor <- SecondResets
  InitialCursor = 0
  Faults = {"provider", "database", "crash", "answer", "logs"}
  MaxFailures = 2
CHECK_DEADLOCK FALSE
INVARIANTS
  CursorPassesNothing
PROPERTIES
  ConfirmedIsStored
