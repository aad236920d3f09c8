\* One pair, two workers, every failure, the sweep and drift.
SPECIFICATION FairSpec
CONSTANTS
  u1 = u1
  u2 = u2
  w1 = w1
  w2 = w2
  k1 = k1
  k2 = k2
  Nobody = Nobody
  NumChains = 1
  NumAddresses = 1
  User <- OneUser
  Wallet <- OneWallet
  Owner <- OwnWallet
  Worker <- TwoWorkers
  Faults = {"abort", "provider", "database", "crash", "lease", "drift"}
  SweepEnabled = TRUE
  MaxGeneration = 1
INVARIANTS
  TypeOK
  DivergenceIsMarked
PROPERTIES
  ClaimEndedByHolderOrMark
  FreshMarkStaysDue
  EventuallyConverged
