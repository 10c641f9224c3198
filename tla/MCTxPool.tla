------------------------------ MODULE MCTxPool ------------------------------
(***************************************************************************)
(* Six transactions of one sender: two with nonce 0, two with nonce 1, one *)
(* each with nonce 2 and 3.  z0 and y1 are dear, so including one makes    *)
(* others unaffordable.                                                    *)
(***************************************************************************)
EXTENDS TxPool, TLC

CONSTANTS acc, x0, z0, x1, y1, x2, x3

\* The attributes of the transactions of this instance.
Attr(f) == [tx \in Txs |-> f[tx]]
MCSender == [tx \in Txs |-> acc]
MCNonce == Attr(x0 :> 0 @@ z0 :> 0 @@ x1 :> 1 @@ y1 :> 1 @@ x2 :> 2 @@ x3 :> 3)
MCCost == Attr(x0 :> 1 @@ z0 :> 3 @@ x1 :> 2 @@ y1 :> 3 @@ x2 :> 1 @@ x3 :> 1)
MCPrice == Attr(x0 :> 1 @@ z0 :> 2 @@ x1 :> 2 @@ y1 :> 2 @@ x2 :> 2 @@ x3 :> 2)
MCFunds == acc :> 4
=============================================================================
