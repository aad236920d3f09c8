\* Two accounts, two chains: wallet transactions and crashes under a worker; no circular
\* wait.
SPECIFICATION FairSpec
CONSTANTS
  u1 = u1
  u2 = u2
  w1 = w1
  w2 = w2
  k1 = k1
  k2 = k2
  Nobody = Nobody
  NumChains = 2
  NumAddresses = 1
  User <- TwoUsers
  Wallet <- TwoWallets
  Owner <- OwnWallets
  Worker <- OneWorker
  Faults = {"abort", "crash"}
  SweepEnabled = FALSE
  MaxGeneration = 1
INVARIANTS
  DesiredStableUnderLock
PROPERTIES
  RefinesAddressWatch
  TransactionsEnd
