----------------------- MODULE MCWalletEventIngestion -----------------------
(* Values for model checking WalletEventIngestion.                           *)
EXTENDS WalletEventIngestion, TLC

CONSTANTS w1, w2, e1, e2, e3, k1, k2, h1, h2

None        == {}
OneWallet   == {w1}
TwoWallets  == {w1, w2}
TwoEvents   == {e1, e2}
ThreeEvents == {e1, e2, e3}
LastEvent   == {e3}
OneTracker  == {k1}
TwoTrackers == {k1, k2}
OneHandler  == {h1}
TwoHandlers == {h1, h2}

DefaultStart == [k \in OneTracker |-> 0]
SecondStarts == [k \in TwoTrackers |-> IF k = k1 THEN 0 ELSE 1]
SecondResets == {k2}

BothOnOne  == [e \in TwoEvents |-> w1]
OneEach    == [e \in TwoEvents |-> IF e = e1 THEN w1 ELSE w2]

SameBlock   == [e \in TwoEvents |-> 2]

\* Three transfers of one wallet, two of them in one block.
AllOnOne      == [e \in ThreeEvents |-> w1]
OneThenTwo    == [e \in ThreeEvents |-> IF e = e1 THEN 2 ELSE 3]
=============================================================================
