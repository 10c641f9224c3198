---------------------------- MODULE MCDiscovery ----------------------------
(* Two nodes and a bucket of one entry, so that each contests the other's    *)
(* place, and one bonding slot, so that bonds queue for it.                  *)
EXTENDS Discovery

CONSTANTS n1, n2

(* Bound: a behaviour with a clock jump is followed as long as a reply is    *)
(* pending.  It satisfies both liveness properties as it is, since they      *)
(* excuse a jump.                                                            *)
JumpWhilePending == warps > 0 => plist # << >>
=============================================================================
