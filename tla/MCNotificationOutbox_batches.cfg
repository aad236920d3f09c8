\* Two events in batches of two, two workers: no job is left behind by an aborted batch.
\* The system may stop: every event handled, every bound reached.
SPECIFICATION FairSpec
CONSTANTS
  u1 = u1
  u2 = u2
  e1 = e1
  e2 = e2
  d1 = d1
  d2 = d2
  k1 = k1
  k2 = k2
  Nobody = Nobody
  User <- OneUser
  Event <- TwoEvents
  Owner <- OwnEvents
  Device <- OneDevice
  Worker <- TwoWorkers
  Faults = {"crash", "database", "slow"}
  MaxAttempts = 2
  BatchSize = 2
  MaxRegistrations = 0
  MaxIncidents = 1
CHECK_DEADLOCK FALSE
PROPERTIES
  EveryJobFinishes
