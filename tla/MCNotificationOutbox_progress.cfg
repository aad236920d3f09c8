\* One event, one device, two workers, every failure, claims that overlap.
\* The system may stop: every event handled, every bound reached.
SPECIFICATION FairSpec
CONSTANTS
  u1 = u1
  u2 = u2
  e1 = e1
  e2 = e2
  d1 = d1
  d2 = d2
  k1 = k1
  k2 = k2
  Nobody = Nobody
  User <- OneUser
  Event <- OneEvent
  Owner <- OwnEvent
  Device <- OneDevice
  Worker <- TwoWorkers
  Faults = {"crash", "database", "answer", "slow"}
  MaxAttempts = 2
  BatchSize = 1
  MaxRegistrations = 1
  MaxIncidents = 2
CHECK_DEADLOCK FALSE
INVARIANTS
  TypeOK
  DuplicatesExplained
  RetriesPaidFor
PROPERTIES
  FinishedStaysFinished
  NothingTakenBack
