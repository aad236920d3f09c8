------------------------ MODULE MCNotificationOutbox ------------------------
(* Values for model checking NotificationOutbox.                             *)
EXTENDS NotificationOutbox, TLC

CONSTANTS u1, u2, e1, e2, d1, d2, k1, k2

OneUser    == {u1}
TwoUsers   == {u1, u2}
OneEvent   == {e1}
TwoEvents  == {e1, e2}
OneDevice  == {d1}
TwoDevices == {d1, d2}
OneWorker  == {k1}
TwoWorkers == {k1, k2}

OwnEvent   == [e \in OneEvent |-> u1]
OwnEvents  == [e \in TwoEvents |-> u1]

\* No safety property names a worker or a device.
WorkerSymmetry == Permutations(TwoWorkers)
DeviceSymmetry == Permutations(TwoDevices)
=============================================================================
