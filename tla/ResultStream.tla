---------------------------- MODULE ResultStream ----------------------------
(***************************************************************************)
(* What the download queue promises to the process goroutine that imports  *)
(* its results (exp/downloader/queue.go, WaitResults): the blocks of the   *)
(* scheduled headers come out complete, in order of their numbers, each    *)
(* exactly once, and the pivot of a fast sync comes out alone.  Parts are  *)
(* taken in at most Window blocks ahead of the next one to come out.       *)
(* Peers, requests, time-outs and re-assignments are not visible here.     *)
(***************************************************************************)
EXTENDS Integers

CONSTANTS
  Parts,            \* the kinds of parts a block is put together from
  Required(_, _),   \* Required(k, n): block n is not complete without part k
  Window,           \* blocks a part may be ahead
  Apart(_)          \* Apart(n): block n is never handed out with another one

VARIABLES
  known,  \* blocks 1..known are to be delivered
  have,   \* [Parts -> blocks not yet handed out whose part is there]
  next    \* the next block to hand out

stream == <<known, have, next>>

Init == known = 0 /\ have = [k \in Parts |-> {}] /\ next = 1

\* More blocks are to be delivered.
Extend == known' > known /\ UNCHANGED <<have, next>>

\* Parts of kind k that were missing come in.
Arrive(k) ==
  \E S \in SUBSET {n \in next..known : Required(k, n) /\ n < next + Window} :
    /\ S \cap have[k] = {}
    /\ have' = [have EXCEPT ![k] = @ \cup S]
    /\ UNCHANGED <<known, next>>

\* The blocks next..upto-1, all of them complete, are handed out.
HandOut(upto) ==
  /\ \A n \in next..(upto - 1) :
       /\ \A k \in Parts : Required(k, n) => n \in have[k]
       /\ Apart(n) => upto = next + 1
  /\ next' = upto
  /\ have' = [k \in Parts |-> have[k] \ (next..(upto - 1))]
  /\ UNCHANGED known

Next ==
  \/ Extend
  \/ \E k \in Parts : Arrive(k)
  \/ \E upto \in (next + 1)..(known + 1) : HandOut(upto)

Spec == Init /\ [][Next]_stream
=============================================================================
