---------------------------- MODULE MCAlchemyReconciliation ----------------------------
(* Values for model checking AlchemyReconciliation.                          *)
EXTENDS AlchemyReconciliation, TLC

CONSTANTS u1, u2, w1, w2, k1, k2

OneWallet    == {w1}
TwoWallets   == {w1, w2}
OneUser      == {u1}
TwoUsers     == {u1, u2}
OneWorker    == {k1}
TwoWorkers   == {k1, k2}

OwnWallet    == [w \in OneWallet |-> u1]
OwnWallets   == [w \in TwoWallets |-> IF w = w1 THEN u1 ELSE u2]

\* Workers are interchangeable: no property names one.
WorkerSymmetry == Permutations(TwoWorkers)
=======================================================================================
