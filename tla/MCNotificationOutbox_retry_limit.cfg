\* One event, one device, one worker that may crash.
\* The system may stop: every event handled, every bound reached.
SPECIFICATION Spec
CONSTANTS
  u1 = u1
  u2 = u2
  e1 = e1
  e2 = e2
  d1 = d1
  d2 = d2
  k1 = k1
  k2 = k2
  Nobody = Nobody
  User <- OneUser
  Event <- OneEvent
  Owner <- OwnEvent
  Device <- OneDevice
  Worker <- OneWorker
  Faults = {"crash"}
  MaxAttempts = 3
  BatchSize = 1
  MaxRegistrations = 1
  MaxIncidents = 1
CHECK_DEADLOCK FALSE
INVARIANTS
  RetryLimit
