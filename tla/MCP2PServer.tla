---------------------------- MODULE MCP2PServer ----------------------------
(* A small server: two remote nodes, static once AddPeer names them, and two *)
(* connections at a time.  Nodes are alike, and so are connections.          *)
EXTENDS P2PServer, TLC

CONSTANTS n1, n2, n3, c1, c2

Alike == Permutations(Conns) \cup Permutations(Nodes)

(* Bound: a server of four peers, the least at which newTasks draws random   *)
(* nodes, is followed for its dynamic dials, without AddPeer and Stop.       *)
DynamicOnly == MaxPeers = 4 => static = {} /\ stop = "no"
=============================================================================
