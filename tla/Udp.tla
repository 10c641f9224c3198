------------------------------- MODULE Udp -------------------------------
(***************************************************************************)
(* The request/reply transport of p2p/discover/udp.go: the list of pending  *)
(* replies, the one timer that serves it, and the select loop that owns     *)
(* both.  Callers meet the loop on the unbuffered channel addpending and    *)
(* then wait on an error channel of their own (errc, of capacity 1).        *)
(*                                                                         *)
(* Time is abstract: the timer may fire at any moment after it is armed.    *)
(* Every case of the select ends with the resetTimeout that opens the next  *)
(* round of the loop; nothing in between blocks.                            *)
(***************************************************************************)
EXTENDS Integers, Sequences, FiniteSets, FiniteSetsExt

CONSTANTS
  Nodes,        \* remote nodes
  MaxWarps      \* bound: backward jumps of the system clock

\* The goroutines that call the transport.  Table.bond runs at most once at a
\* time for a node and an origin (model bound); one lookup runs at a time.
Bonders == Nodes \X {"ping", "lookup"}
Looker == <<"doRefresh", "lookup">>
Callers == Bonders \cup {Looker}

Failures == {"timeout", "warp", "closed"}

VARIABLES
  plist,        \* plist: pending replies [proc, from, ptype], oldest first
  headTimed,    \* nextTimeout is the front of plist
  timer,        \* "off", "armed", or what waits in timeout.C: "due" (sent for the
                \* front) or "stale" (sent for an entry that has gone)
  errc,         \* what the caller's errc holds: "none", "ok" or a failure
  looping,      \* udp.loop has not returned
  closing,      \* udp.closing is closed
  warps         \* clock jumps so far

udpVars == <<plist, headTimed, timer, errc, looping, closing, warps>>

UdpInit ==
  /\ plist = << >> /\ headTimed = FALSE /\ timer = "off"
  /\ errc = [p \in Callers |-> "none"]
  /\ looping = TRUE /\ closing = FALSE /\ warps = 0

\* resetTimeout, on what a case of the select left behind: the list, whether
\* nextTimeout is its front, the timer, the error channels.  A timer that still
\* runs, or has fired, when the list is empty wakes the loop once and for nothing:
\* its tick is older than every later deadline.  When the deadline of the front is
\* too far away the walk over the list ends with that first removal, as Remove
\* clears the links that Next follows.
ResetTimeout(list, next, sent, out) ==
  \/ /\ list = << >>
     /\ plist' = list /\ headTimed' = FALSE /\ timer' = "off" /\ errc' = out
     /\ UNCHANGED warps
  \/ /\ list # << >> /\ next
     /\ plist' = list /\ headTimed' = TRUE /\ timer' = sent /\ errc' = out
     /\ UNCHANGED warps
  \/ /\ list # << >> /\ ~next
     /\ plist' = list /\ headTimed' = TRUE /\ errc' = out
     /\ timer' = IF sent = "stale" THEN "stale" ELSE "armed"
     /\ UNCHANGED warps
  \/ /\ list # << >> /\ ~next /\ warps < MaxWarps
     /\ plist' = Tail(list) /\ headTimed' = FALSE
     /\ errc' = [out EXCEPT ![Head(list).proc] = "warp"]
     /\ timer' = IF sent = "stale" /\ Len(list) > 1 THEN "stale" ELSE "off"
     /\ warps' = warps + 1

\* pending: the loop takes the request, or the transport is closing.
Pending(p, from, ptype) ==
  /\ UNCHANGED <<looping, closing>>
  /\ \/ /\ looping
        /\ ResetTimeout(Append(plist, [proc |-> p, from |-> from, ptype |-> ptype]),
                        headTimed, timer, errc)
     \/ /\ closing
        /\ errc' = [errc EXCEPT ![p] = "closed"]
        /\ UNCHANGED <<plist, headTimed, timer, warps>>

\* The caller has read errc.
Received(p) == /\ errc' = [errc EXCEPT ![p] = "none"]
               /\ UNCHANGED <<plist, headTimed, timer, looping, closing, warps>>

Matches(from, ptype) ==
  {i \in DOMAIN plist : plist[i].from = from /\ plist[i].ptype = ptype}

\* The entries one of which a reply may complete.  A ping or a pong completes the
\* first match; neighbors complete a findnode when bucketSize nodes have come.
Completed(from, ptype) ==
  LET found == Matches(from, ptype)
  IN  IF ptype = "neighbors" THEN found ELSE {i \in found : \A j \in found : i <= j}

\* Mutant of Resolve: the entry stays in the list.
ResolveKept(i) ==
  ResetTimeout(plist, headTimed, timer, [errc EXCEPT ![plist[i].proc] = "ok"])

\* list.Remove, and append(s[:i], s[i+1:]...): the list without its i-th entry.
Removed(s, i) == SubSeq(s, 1, i - 1) \o SubSeq(s, i + 1, Len(s))

\* A callback says done: nil goes to errc, the entry leaves, and the walk over the
\* list ends there (Next of a removed element is nil).
Resolve(i) ==
  ResetTimeout(Removed(plist, i), headTimed /\ i # 1,
               IF i = 1 /\ timer = "due" THEN "stale" ELSE timer,
               [errc EXCEPT ![plist[i].proc] = "ok"])

\* A reply reaches the loop and completes a request.
GotReply(from, ptype) ==
  /\ looping
  /\ \E i \in Completed(from, ptype) : Resolve(i)
  /\ UNCHANGED <<looping, closing>>

\* The runtime's timer.
Fire ==
  /\ timer = "armed"
  /\ timer' = "due"
  /\ UNCHANGED <<plist, headTimed, errc, looping, closing, warps>>

\* Mutant of TimedOut: nextTimeout keeps its value.
TimedOutKeepsNext ==
  /\ looping /\ timer \in {"due", "stale"}
  /\ \/ ResetTimeout(Tail(plist), headTimed, "off",
                     [errc EXCEPT ![Head(plist).proc] = "timeout"])
     \/ timer = "stale" /\ ResetTimeout(plist, headTimed, "off", errc)
  /\ UNCHANGED <<looping, closing>>

\* The timer's case: the front is removed when its deadline has passed, which an
\* older tick leaves open; again the walk ends with the first removal.
TimedOut ==
  /\ looping /\ timer \in {"due", "stale"}
  /\ \/ ResetTimeout(Tail(plist), FALSE, "off", [errc EXCEPT ![Head(plist).proc] = "timeout"])
     \/ timer = "stale" /\ ResetTimeout(plist, FALSE, "off", errc)
  /\ UNCHANGED <<looping, closing>>

\* The closing case: every waiting caller is told, the timer stops, loop returns.
LoopCloses ==
  /\ looping /\ closing
  /\ looping' = FALSE /\ timer' = "off"
  /\ errc' = [p \in Callers |->
                IF \E i \in DOMAIN plist : plist[i].proc = p THEN "closed" ELSE errc[p]]
  /\ plist' = << >> /\ headTimed' = FALSE
  /\ UNCHANGED <<closing, warps>>
=============================================================================
