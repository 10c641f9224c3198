--------------------------- MODULE MCDownloadQueue ---------------------------
(* Instances of DownloadQueue for TLC.                                     *)
EXTENDS DownloadQueue, TLC

CONSTANTS p1, p2

TwoPeers == {p1, p2}
OnePeer == {p1}
PeerSymmetry == Permutations(Peers)

(* Bound: any two of an expiry, a lost request and a disconnect.             *)
TwoUpsets == expiries + lost + drops <= 2

NoNoop == [k \in Kinds |-> {}]
EmptyFirst == [k \in Kinds |-> IF k = "body" THEN {1} ELSE {}]
EmptyReceipts == [k \in Kinds |-> IF k = "receipt" THEN {2} ELSE {}]
=============================================================================
