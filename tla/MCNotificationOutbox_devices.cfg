\* One event, two devices that register again and change hands, one worker.
\* The system may stop: every event handled, every bound reached.
SPECIFICATION Spec
CONSTANTS
  u1 = u1
  u2 = u2
  e1 = e1
  e2 = e2
  d1 = d1
  d2 = d2
  k1 = k1
  k2 = k2
  Nobody = Nobody
  User <- TwoUsers
  Event <- OneEvent
  Owner <- OwnEvent
  Device <- TwoDevices
  Worker <- OneWorker
  Faults = {"crash", "answer"}
  MaxAttempts = 2
  BatchSize = 1
  MaxRegistrations = 2
  MaxIncidents = 1
SYMMETRY DeviceSymmetry
CHECK_DEADLOCK FALSE
PROPERTIES
  SentOnlyWhenSettled
  NewerRegistrationKept
