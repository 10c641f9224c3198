---------------------------- MODULE MCBlockChain ----------------------------
(***************************************************************************)
(* A tree with two branches from the genesis block: a1-a2-a3, longer and   *)
(* lighter, and b1-b2, shorter and heavier; a2 and b1 tie.                 *)
(***************************************************************************)
EXTENDS BlockChain, TLC

CONSTANTS g, a1, a2, a3, b1, b2, t1, t2, t3

MCBlocks == {g, a1, a2, a3, b1, b2}
MCParent == a1 :> g @@ a2 :> a1 @@ a3 :> a2 @@ b1 :> g @@ b2 :> b1 @@ g :> g
MCDifficulty == g :> 1 @@ a1 :> 1 @@ a2 :> 1 @@ a3 :> 1 @@ b1 :> 2 @@ b2 :> 2
MCNumber == g :> 0 @@ a1 :> 1 @@ a2 :> 2 @@ a3 :> 3 @@ b1 :> 1 @@ b2 :> 2
MCTd == g :> 1 @@ a1 :> 2 @@ a2 :> 3 @@ a3 :> 4 @@ b1 :> 3 @@ b2 :> 5
MCAncestorsOf ==
  g :> {g} @@ a1 :> {g, a1} @@ a2 :> {g, a1, a2} @@ a3 :> {g, a1, a2, a3}
    @@ b1 :> {g, b1} @@ b2 :> {g, b1, b2}
MCVerdict == [b \in MCBlocks |-> IF b = b1 THEN "future" ELSE "ok"]
\* b2 repeats a transaction of a1; those of a2 and a3 are only there.
MCTxsIn == [b \in MCBlocks |-> CASE b = a1 -> {t1} [] b = a2 -> {t2}
                                  [] b = b1 -> {t3} [] b = b2 -> {t1} [] OTHER -> {}]
MCMinedSets == {{}, {a3, b2}}
=============================================================================
