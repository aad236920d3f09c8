\* Two webhook requests and the tracker store the same two transfers of a block.
\* The system may stop: every block delivered, every wallet deleted.
SPECIFICATION Spec
CONSTANTS
  w1 = w1
  w2 = w2
  e1 = e1
  e2 = e2
  e3 = e3
  k1 = k1
  k2 = k2
  h1 = h1
  h2 = h2
  Wallet <- OneWallet
  Event <- TwoEvents
  WalletOf <- BothOnOne
  BlockOf <- SameBlock
  Malformed <- None
  Omissible <- None
  Tracker <- OneTracker
  Handler <- TwoHandlers
  MaxBlock = 3
  Confirmations = 1
  BatchSize = 1
  StartBlock <- DefaultStart
  ResetCursor <- None
  InitialCursor = 0
  Faults = {"provider", "database", "crash", "answer", "logs"}
  MaxFailures = 2
CHECK_DEADLOCK FALSE
INVARIANTS
  TypeOK
  AnsweredIsStored
  AlertedOnce
