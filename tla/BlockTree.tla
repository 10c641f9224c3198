------------------------------ MODULE BlockTree ------------------------------
(***************************************************************************)
(* The tree of blocks a node may come across.  A block's hash fixes its    *)
(* header, hence its parent, its number and, through its ancestors'        *)
(* difficulties, its total difficulty (core/types/block.go); these are     *)
(* constants.  AncestorsOf[b] is the chain from b down to the genesis.     *)
(***************************************************************************)
EXTENDS Integers, FiniteSets

CONSTANTS
  Blocks,
  Genesis,
  Parent,       \* [Blocks -> Blocks]; the genesis block is its own parent
  Number,       \* [Blocks -> Nat]
  Difficulty,   \* [Blocks -> Nat]
  Td,           \* [Blocks -> Nat]: total difficulty
  AncestorsOf   \* [Blocks -> SUBSET Blocks], the block itself included

ASSUME TreeAssumption ==
  /\ IsFiniteSet(Blocks) /\ Genesis \in Blocks
  /\ Parent \in [Blocks -> Blocks] /\ Parent[Genesis] = Genesis
  /\ Number \in [Blocks -> Nat] /\ Number[Genesis] = 0
  /\ Difficulty \in [Blocks -> Nat \ {0}]
  /\ Td \in [Blocks -> Nat] /\ Td[Genesis] = Difficulty[Genesis]
  /\ AncestorsOf \in [Blocks -> SUBSET Blocks]
  /\ AncestorsOf[Genesis] = {Genesis}
  /\ \A b \in Blocks \ {Genesis} :
       /\ Number[b] = Number[Parent[b]] + 1
       /\ Td[b] = Td[Parent[b]] + Difficulty[b]
       /\ AncestorsOf[b] = {b} \cup AncestorsOf[Parent[b]]

Numbers == {Number[b] : b \in Blocks}

\* The ancestor of b at height n.
AncestorAt(b, n) == CHOOSE c \in AncestorsOf[b] : Number[c] = n
=============================================================================
