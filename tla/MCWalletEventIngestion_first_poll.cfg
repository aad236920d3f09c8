\* A tracker with the default start block and no stored cursor.
\* The system may stop when the wallet is deleted.
SPECIFICATION FairSpec
CONSTANTS
  w1 = w1
  w2 = w2
  e1 = e1
  e2 = e2
  e3 = e3
  k1 = k1
  k2 = k2
  h1 = h1
  h2 = h2
  Wallet <- OneWallet
  Event <- TwoEvents
  WalletOf <- BothOnOne
  BlockOf <- SameBlock
  Malformed <- None
  Omissible <- None
  Tracker <- OneTracker
  Handler <- None
  MaxBlock = 3
  Confirmations = 1
  BatchSize = 1
  StartBlock <- DefaultStart
  ResetCursor <- None
  InitialCursor <- NoCursor
  Faults = {}
  MaxFailures = 0
CHECK_DEADLOCK FALSE
PROPERTIES
  PollingGetsGoing
