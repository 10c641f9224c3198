---------------------------- MODULE MCStateSync ----------------------------
(* Two pivot states that share nodes: r1 has the child a twice and the child *)
(* b; the accounts in a and b share the storage trie s, and the one in b has *)
(* the code c; r2 keeps a and replaces b.                                    *)
EXTENDS StateSync
CONSTANTS r1, r2, a, b, s, c, p1, p2
MCNodes == {r1, r2, a, b, s, c}
MCRefs == [n \in MCNodes |->
  CASE n = r1 -> <<a, b, a>> [] n = r2 -> <<a, s>> [] OTHER -> << >>]
MCLeaves == [n \in MCNodes |->
  CASE n = a -> <<s>> [] n = b -> <<s, c>> [] OTHER -> << >>]
OneRoot == <<r1>>
TwoRoots == <<r1, r2>>
TwoPeers == {p1, p2}
OnePeer == {p1}
MCHave == [p \in Peers |-> IF p = p2 THEN {r1, a, s} ELSE MCNodes]
=============================================================================
