\* Migrations, wallet requests and token prices, two or three requests at a time.
\* The parts may stop: every run and request ends.
SPECIFICATION PartsSpec
CONSTANTS
  m1 = m1
  m2 = m2
  m3 = m3
  r1 = r1
  r2 = r2
  r3 = r3
  a1 = a1
  a2 = a2
  c1 = c1
  c2 = c2
  Run <- Runs
  NumFiles = 3
  Last <- Lasts
  Nobody = Nobody
  WalletRequest <- ThreeRequests
  NumWallets = 2
  Address <- TwoAddresses
  Chain <- TwoChains
  Same = Same
  PriceRequest <- ThreeRequests
  NumTokens = 3
  ChunkSize = 2
SYMMETRY Symmetric
CHECK_DEADLOCK FALSE
INVARIANTS
  TypesOK
  MigrationsSound
  RequestsExplained
  UnpricedExplained
