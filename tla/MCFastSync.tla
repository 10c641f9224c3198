----------------------------- MODULE MCFastSync -----------------------------
(***************************************************************************)
(* Two branches of three blocks from the genesis block; the pivot is at 2. *)
(* The b branch is the heavier one, at the same heights.                   *)
(***************************************************************************)
EXTENDS FastSync, TLC

CONSTANTS g, a1, a2, a3, b1, b2, b3

MCBlocks == {g, a1, a2, a3, b1, b2, b3}
MCParent ==
  g :> g @@ a1 :> g @@ a2 :> a1 @@ a3 :> a2 @@ b1 :> g @@ b2 :> b1 @@ b3 :> b2
MCNumber == g :> 0 @@ a1 :> 1 @@ a2 :> 2 @@ a3 :> 3 @@ b1 :> 1 @@ b2 :> 2 @@ b3 :> 3
MCDifficulty ==
  g :> 1 @@ a1 :> 1 @@ a2 :> 1 @@ a3 :> 1 @@ b1 :> 1 @@ b2 :> 2 @@ b3 :> 2
MCTd == g :> 1 @@ a1 :> 2 @@ a2 :> 3 @@ a3 :> 4 @@ b1 :> 2 @@ b2 :> 4 @@ b3 :> 6
MCAncestorsOf ==
  g :> {g} @@ a1 :> {g, a1} @@ a2 :> {g, a1, a2} @@ a3 :> {g, a1, a2, a3}
    @@ b1 :> {g, b1} @@ b2 :> {g, b1, b2} @@ b3 :> {g, b1, b2, b3}
MCBadSets == {{}, {b3}}
=============================================================================
