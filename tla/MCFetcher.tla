------------------------------ MODULE MCFetcher ------------------------------
(* Small instances of the fetcher.  a1 is a child of the genesis block with  *)
(* a body, seen as a future block; b2 is a child of a1 without a body that   *)
(* fails validation; c1 is a sibling of a1 with the same body.               *)
EXTENDS Fetcher

CONSTANTS a1, b2, c1, p1, p2, empty, full

MCParent == [h \in Hashes |-> IF h = b2 THEN a1 ELSE Genesis]
MCNumber == [h \in Hashes |-> IF h = b2 THEN 2 ELSE 1]
MCBody   == [h \in Hashes |-> IF h = b2 THEN empty ELSE full]
MCVerdict ==
  [h \in Hashes |-> CASE h = a1 -> "future" [] h = b2 -> "bad" [] OTHER -> "ok"]
=============================================================================
