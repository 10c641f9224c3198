--------------------------- MODULE AncestorSearch ---------------------------
(***************************************************************************)
(* findAncestor and findAncestor61 of exp/downloader/downloader.go: where  *)
(* the local chain and a peer's chain part.  The top of the local chain is *)
(* requested first; if none of the peer's headers at those numbers is      *)
(* known, a bisection over the local numbers follows.                      *)
(*                                                                         *)
(* A header of the peer's chain is its number, 0..height; headers and      *)
(* states are the numbers of that chain that are known locally, and known  *)
(* with their state.  The peer is honest.  A packet it sent to an earlier, *)
(* cancelled cycle may arrive first: packets carry no request number.      *)
(***************************************************************************)
EXTENDS Integers, Sequences, FiniteSets

CONSTANTS
  Fetch,      \* MaxHeaderFetch, MaxHashFetch
  MaxHeight,  \* model bound: height of either chain
  MaxLate     \* model bound: packets of earlier cycles still to arrive

Modes == {"eth61", "full", "fast", "light"}   \* findAncestor61, or d.mode

ASSUME AncestorAssumption ==
  Fetch \in Nat \ {0} /\ MaxHeight \in Nat \ {0} /\ MaxLate \in Nat

VARIABLES
  mode,
  height,  \* the peer's head number
  head,    \* the local head number of this mode
  headers, states,
  late,    \* packets of earlier cycles that arrive first
  net,     \* packets from the peer, each the numbers first..last
  pc, start, end, check,
  result   \* the number returned, or None

chains == <<mode, height, head, headers, states, late>>
vars == <<chains, net, pc, start, end, check, result>>

None == -1

\* What the peer answers a request for count headers with.
Packet(first, count) ==
  [first |-> first,
   last  |-> IF first + count - 1 < height THEN first + count - 1 ELSE height]
Empty(m) == m.last < m.first

\* The first number asked for.
From == IF head - Fetch + 1 < 0 THEN 0 ELSE head - Fetch + 1

Packets == {m \in [first : 0..height, last : 0..height] : m.first <= m.last}

\* The headers are known up to some number, as an import needs the parent.  After a
\* fast sync only the genesis and the blocks from the pivot on have a state.
Init ==
  /\ mode \in Modes
  /\ height \in 0..MaxHeight /\ head \in 0..MaxHeight
  /\ \E top \in 0..height : \E pivot \in 0..(top + 1) :
       headers = 0..top /\ states = {0} \cup (pivot..top)
  /\ late \in 0..MaxLate /\ net \in [1..late -> Packets]
  /\ pc = "request" /\ start = 0 /\ end = 0 /\ check = 0 /\ result = None

Request ==
  /\ pc = "request"
  /\ net' = Append(net, Packet(From, Fetch))
  /\ pc' = "head"
  /\ UNCHANGED <<chains, start, end, check, result>>

Return(n) == pc' = "done" /\ result' = n
Fail == pc' = "bad" /\ UNCHANGED result

\* Mutant of KnownAtHead: the last header of the packet is not looked at.
KnownBeforeLast(m) ==
  (m.first..(m.last - 1)) \cap (IF mode = "light" THEN headers ELSE states)

\* The headers of a packet that count as common at the top.
KnownAtHead(m) ==
  (m.first..m.last) \cap (IF mode = "light" THEN headers ELSE states)

\* The number returned for the header n of packet m.
Numbered(m, n) == IF mode = "eth61" THEN From + (n - m.first) ELSE n

HeadReply ==
  /\ pc = "head" /\ net # << >>
  /\ net' = Tail(net)
  /\ LET m == Head(net)
     IN \/ Empty(m) /\ Fail /\ UNCHANGED <<start, end>>
        \/ \E n \in KnownAtHead(m) :
             /\ \A k \in KnownAtHead(m) : k <= n
             /\ Return(Numbered(m, n)) /\ UNCHANGED <<start, end>>
        \/ /\ ~Empty(m) /\ KnownAtHead(m) = {}
           /\ pc' = "search" /\ start' = 0 /\ end' = head /\ UNCHANGED result
  /\ UNCHANGED <<chains, check>>

\* Mutant of Split: an interval of neighbours is split again.
SplitForever ==
  /\ pc = "search" /\ start < end
  /\ check' = (start + end) \div 2
  /\ net' = Append(net, Packet(check', 1))
  /\ pc' = "wait"
  /\ UNCHANGED <<chains, start, end, result>>

\* One round of the bisection begins, or it is over.
Split ==
  /\ pc = "search" /\ start + 1 < end
  /\ check' = (start + end) \div 2
  /\ net' = Append(net, Packet(check', 1))
  /\ pc' = "wait"
  /\ UNCHANGED <<chains, start, end, result>>

Found ==
  /\ pc = "search" /\ ~(start + 1 < end)
  /\ Return(start)
  /\ UNCHANGED <<chains, net, start, end, check>>

\* The numbers that count as common in the bisection.
Known == IF mode \in {"eth61", "full"} THEN states ELSE headers

\* The interval after the reply n to the request for check.
Narrow(n) ==
  IF n \in Known THEN start' = check /\ UNCHANGED end ELSE end' = check /\ UNCHANGED start

\* Mutant of Expected: any single header is taken for the answer.
ExpectedAny(n) == TRUE

\* The reply is unknown, or the header asked for.
Expected(n) == n \in Known => n = check

SearchReply ==
  /\ pc = "wait" /\ net # << >>
  /\ net' = Tail(net)
  /\ LET m == Head(net)
     IN \/ m.first # m.last /\ Fail /\ UNCHANGED <<start, end>>
        \/ /\ m.first = m.last /\ ~Expected(m.first)
           /\ Fail /\ UNCHANGED <<start, end>>
        \/ /\ m.first = m.last /\ Expected(m.first)
           /\ Narrow(m.first) /\ pc' = "search" /\ UNCHANGED result
  /\ UNCHANGED <<chains, check>>

\* The reply takes too long, or the cycle is cancelled.
Interrupted ==
  /\ pc \in {"head", "wait"}
  /\ pc' = "failed"
  /\ UNCHANGED <<chains, net, start, end, check, result>>

Ended == pc \in {"done", "bad", "failed"} /\ UNCHANGED vars

Next ==
  Request \/ HeadReply \/ Split \/ Found \/ SearchReply \/ Interrupted \/ Ended

Spec == Init /\ [][Next]_vars

-----------------------------------------------------------------------------
(* Properties.                                                             *)

\* Every variable has its type, and the search interval lies in the local chain.
TypeOK ==
  /\ mode \in Modes /\ height \in Nat /\ head \in Nat
  /\ headers \subseteq Nat /\ states \subseteq headers
  /\ late \in Nat /\ net \in Seq([first : Nat, last : Int])
  /\ pc \in {"request", "head", "search", "wait", "done", "bad", "failed"}
  /\ start \in Nat /\ end \in Nat /\ check \in Nat /\ start <= head /\ end <= head
  /\ result \in Nat \cup {None}

\* The number returned is that of a block both chains have: the download starts above
\* it and must find its parent.  In eth/62 this holds whatever packets of earlier
\* cycles arrive; findAncestor61 numbers a hash by its place in the packet.
AncestorCommon == pc = "done" /\ (mode = "eth61" => late = 0) => result \in headers

\* "findAncestor tries to locate the common ancestor link of the local chain and a
\* remote peers blockchain": no higher number up to the local head is common, if
\* every common block has its state and no packet of an earlier cycle arrives.
AncestorHighest ==
  pc = "done" /\ states = headers /\ late = 0 =>
    \A n \in headers : n <= head => n <= result

\* "Make sure the peer actually gave something valid": an honest peer whose replies
\* come in order, and whose chain is as long as the local one, is never taken for a
\* bad one.
HonestNotBad == late = 0 /\ head <= height => pc # "bad"

\* The search ends.
SearchEnds == <>(pc \in {"done", "bad", "failed"})

LiveSpec ==
  Spec /\ WF_vars(Request \/ HeadReply \/ Split \/ Found \/ SearchReply)
=============================================================================
