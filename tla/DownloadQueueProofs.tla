------------------------ MODULE DownloadQueueProofs ------------------------
(***************************************************************************)
(* Proofs about the download queue, for any number of peers and headers    *)
(* and any size of the result cache: every part is in exactly one place,   *)
(* results count their missing parts, and the queue's internal errors      *)
(* ("index allocation went beyond available resultCache space",            *)
(* errInvalidChain from a delivery, the hard panic of a double request)    *)
(* never occur; the queue implements the abstract stream of results; and    *)
(* process is never left asleep on a result and gets everything in the end. *)
(***************************************************************************)
EXTENDS DownloadQueue, FiniteSetTheorems, TLAPS

Points == {"select", "update", "drained", "round", "done", "failed", "corrupt"}
Rounds == [idles : SUBSET Peers, all : BOOLEAN, progress : BOOLEAN,
           throttled : BOOLEAN, running : BOOLEAN]

\* The types that the arguments below rest on.
QueueTypes ==
  /\ sched \in 0..N
  /\ queue \in [Kinds -> SUBSET Headers] /\ done \in [Kinds -> SUBSET Headers]
  /\ pend \in [Kinds -> [Peers -> SUBSET Headers]]
  /\ result \in [Headers -> Int]
  /\ offset \in Nat \ {0} /\ offset <= sched + 1

FetcherTypes ==
  /\ fpc \in [Kinds -> Points]
  /\ busy \in [Kinds -> [Peers -> BOOLEAN]]
  /\ round \in [Kinds -> Rounds]

\* ExactlyOnePlace, header by header.
Placed ==
  \A k \in Kinds, n \in Headers :
    /\ (n \in queue[k] \/ n \in done[k] \/ \E p \in Peers : n \in pend[k][p])
         <=> (offset <= n /\ n <= sched /\ Needs(k, n))
    /\ ~(n \in queue[k] /\ n \in done[k])
    /\ \A p \in Peers : n \in pend[k][p] => n \notin queue[k] /\ n \notin done[k]
    /\ \A p, q \in Peers : n \in pend[k][p] /\ n \in pend[k][q] => p = q

\* What is requested or done has a slot in the result cache, and only scheduled
\* headers have one.
Slots ==
  /\ \A k \in Kinds, n \in Headers :
       n \in done[k] \/ (\E p \in Peers : n \in pend[k][p]) => result[n] # None
  /\ \A n \in Headers : result[n] # None => n <= sched

\* The peers of a round of reservations are idle.
RoundIdle ==
  \A k \in Kinds : fpc[k] = "round" => \A p \in round[k].idles : ~busy[k][p]

QInv == QueueTypes /\ Placed /\ Slots /\ PendingCounts
FInv == FetcherTypes /\ RoundIdle /\ NeverCorrupt
IInv == QInv /\ FInv

-----------------------------------------------------------------------------
\* The header by header form says the same as ExactlyOnePlace.
LEMMA PlacedIsExact ==
  ASSUME QueueTypes, Placed PROVE ExactlyOnePlace
<1> SUFFICES ASSUME NEW k \in Kinds
             PROVE  /\ queue[k] \cup InFlightSet(k) \cup done[k]
                         = {n \in offset..sched : Needs(k, n)}
                    /\ queue[k] \cap InFlightSet(k) = {}
                    /\ done[k] \cap (queue[k] \cup InFlightSet(k)) = {}
                    /\ \A p, q \in Peers : p # q => pend[k][p] \cap pend[k][q] = {}
  BY Zenon DEF ExactlyOnePlace
<1>1. \A n : n \in InFlightSet(k) <=> \E p \in Peers : n \in pend[k][p]
  BY Zenon DEF InFlightSet
<1>2. \A n : n \in queue[k] \/ n \in done[k] \/ n \in InFlightSet(k) => n \in Headers
  BY <1>1 DEF QueueTypes
<1>3. \A n \in offset..sched : n \in Headers
  BY QueueAssumption DEF QueueTypes, Headers
<1>4. queue[k] \cup InFlightSet(k) \cup done[k] = {n \in offset..sched : Needs(k, n)}
  BY <1>1, <1>2, <1>3, QueueAssumption, SMTT(60) DEF Placed, QueueTypes, Headers
<1> QED BY <1>1, <1>2, <1>4, Zenon DEF Placed, QueueTypes

\* The headers in flight are no more than reserveHeaders counts, which adds up
\* the sizes of the requests.
LEMMA InFlightBound ==
  ASSUME QueueTypes, NEW k \in Kinds
  PROVE  /\ IsFiniteSet(InFlightSet(k)) /\ Requested(k) \in Nat
         /\ Cardinality(InFlightSet(k)) <= Requested(k)
<1> DEFINE Pairs == {t \in Peers \X Headers : t[2] \in pend[k][t[1]]}
<1> DEFINE f == [t \in Pairs |-> t[2]]
<1>1. IsFiniteSet(Headers) BY FS_Interval, QueueAssumption DEF Headers
<1>2. IsFiniteSet(Peers \X Headers) BY <1>1, FS_Product, QueueAssumption, Zenon
<1>3. IsFiniteSet(Pairs) BY <1>2, FS_Subset, Zenon
<1>4. f \in [Pairs -> InFlightSet(k)] BY Zenon DEF InFlightSet
<1>5. \A n \in InFlightSet(k) : \E t \in Pairs : f[t] = n
  <2> TAKE n \in InFlightSet(k)
  <2>1. PICK p \in Peers : n \in pend[k][p] BY Zenon DEF InFlightSet
  <2>2. n \in Headers BY <2>1 DEF QueueTypes
  <2>3. <<p, n>> \in Pairs BY <2>1, <2>2, Zenon
  <2> QED BY <2>3, Zenon
<1>6. f \in Surjection(Pairs, InFlightSet(k))
  BY <1>4, <1>5, Zenon DEF Surjection
<1> HIDE DEF f
<1>7. IsFiniteSet(InFlightSet(k)) /\ Cardinality(InFlightSet(k)) <= Cardinality(Pairs)
  BY <1>3, <1>6, FS_Surjection, Zenon
<1>8. Cardinality(Pairs) \in Nat BY <1>3, FS_CardinalityType, Zenon
<1> QED BY <1>7, <1>8, Zenon DEF Requested

\* The union of two finite sets is at most as large as both together.
LEMMA UnionBound ==
  ASSUME NEW S, NEW T, IsFiniteSet(S), IsFiniteSet(T)
  PROVE  /\ IsFiniteSet(S \cup T)
         /\ Cardinality(S) \in Nat /\ Cardinality(T) \in Nat
         /\ Cardinality(S \cup T) \in Nat
         /\ Cardinality(S \cup T) <= Cardinality(S) + Cardinality(T)
<1>1. IsFiniteSet(S \cap T) BY FS_Subset, Zenon
<1>2. Cardinality(S) \in Nat /\ Cardinality(T) \in Nat /\ Cardinality(S \cap T) \in Nat
  BY <1>1, FS_CardinalityType, Zenon
<1>3. /\ IsFiniteSet(S \cup T)
      /\ Cardinality(S \cup T) = Cardinality(S) + Cardinality(T) - Cardinality(S \cap T)
  BY FS_Union, Zenon
<1>4. Cardinality(S \cup T) \in Nat BY <1>3, FS_CardinalityType, Zenon
<1> QED BY <1>2, <1>3, <1>4

\* Everything below a popped header is queued, requested or done, so the space
\* that is left keeps the header within the result cache.
LEMMA PoppedFits ==
  ASSUME QueueTypes, Placed, NEW k \in Kinds, NEW p \in Peers, NEW count \in Nat,
         NEW n \in Popped(k, p, count)
  PROVE  InCache(n)
<1> DEFINE Lower == {m \in queue[k] : m < n}
<1> DEFINE Span == offset..(n - 1)
<1>1. n \in queue[k] /\ n \in Headers /\ Cardinality(Lower) < Space(k)
  BY Zenon DEF Popped, QueueTypes
<1>2. offset <= n /\ n <= sched /\ Needs(k, n) /\ n \in Nat
  BY <1>1, QueueAssumption DEF Placed, Headers
<1>3. IsFiniteSet(Headers) BY FS_Interval, QueueAssumption DEF Headers
<1>4. IsFiniteSet(queue[k]) /\ IsFiniteSet(done[k]) BY <1>3, FS_Subset, Zenon DEF QueueTypes
<1>5. IsFiniteSet(Lower) BY <1>4, FS_Subset, Zenon
<1>6. Span \subseteq (Lower \cup done[k]) \cup InFlightSet(k)
  <2> SUFFICES ASSUME NEW m \in Span PROVE m \in (Lower \cup done[k]) \cup InFlightSet(k)
    BY Zenon
  <2>1. m \in Headers /\ offset <= m /\ m < n /\ m <= sched
    BY <1>1, <1>2, QueueAssumption DEF QueueTypes, Headers
  <2>2. Needs(k, m) BY <1>2, <2>1, QueueAssumption DEF Needs, Headers
  <2>3. m \in queue[k] \/ m \in done[k] \/ \E q \in Peers : m \in pend[k][q]
    BY <2>1, <2>2, Zenon DEF Placed
  <2> QED BY <2>1, <2>3, Zenon DEF InFlightSet
<1>7. /\ IsFiniteSet(InFlightSet(k)) /\ Requested(k) \in Nat
      /\ Cardinality(InFlightSet(k)) <= Requested(k)
  BY InFlightBound, Zenon
<1>8. /\ IsFiniteSet(Lower \cup done[k])
      /\ Cardinality(Lower) \in Nat /\ Cardinality(done[k]) \in Nat
      /\ Cardinality(Lower \cup done[k]) \in Nat
      /\ Cardinality(Lower \cup done[k]) <= Cardinality(Lower) + Cardinality(done[k])
  BY <1>4, <1>5, UnionBound, Zenon
<1> DEFINE All == (Lower \cup done[k]) \cup InFlightSet(k)
<1>9. /\ IsFiniteSet(All) /\ Cardinality(All) \in Nat
      /\ Cardinality(InFlightSet(k)) \in Nat
      /\ Cardinality(All) <= Cardinality(Lower \cup done[k]) + Cardinality(InFlightSet(k))
  BY <1>7, <1>8, UnionBound, Zenon
<1>10. Cardinality(Span) = n - offset
  BY <1>2, FS_Interval DEF QueueTypes
<1>11. Cardinality(Span) <= Cardinality(All)
  BY <1>6, <1>9, FS_Subset, ZenonT(30)
<1> HIDE DEF Lower, Span, All
<1>12. n - offset < CacheSize
  BY <1>1, <1>2, <1>7, <1>8, <1>9, <1>10, <1>11, QueueAssumption DEF Space, QueueTypes
<1> QED BY <1>2, <1>12, QueueAssumption DEF InCache, QueueTypes

-----------------------------------------------------------------------------
(* Each action preserves the invariant.                                    *)

\* A step that leaves the task pools and the schedule alone keeps the queue part.
LEMMA QFrame ==
  ASSUME QInv, UNCHANGED <<tasks, sched>> PROVE QInv'
<1> USE DEF tasks, InFlightSet
<1>1. QueueTypes' BY Zenon DEF QInv, QueueTypes
<1>2. Placed' BY DEF QInv, Placed
<1>3. Slots' BY Zenon DEF QInv, Slots
<1>4. PendingCounts' BY Zenon DEF QInv, PendingCounts, InCache, Missing
<1> QED BY <1>1, <1>2, <1>3, <1>4, Zenon DEF QInv

\* A step that leaves the fetchers alone keeps their part.
LEMMA FFrame ==
  ASSUME FInv, UNCHANGED <<fpc, busy, round>> PROVE FInv'
BY Zenon DEF FInv, FetcherTypes, RoundIdle, NeverCorrupt

\* A fetcher that moves elsewhere than into a round.
LEMMA FMove ==
  ASSUME FInv, NEW k \in Kinds, NEW where \in Points, where # "round", where # "corrupt",
         Go(k, where), UNCHANGED <<busy, round>>
  PROVE  FInv'
BY Zenon DEF FInv, FetcherTypes, RoundIdle, NeverCorrupt, Go

\* A peer is made idle.
LEMMA FIdle ==
  ASSUME FInv, NEW k \in Kinds, NEW p \in Peers, Idle(k, p), UNCHANGED <<fpc, round>>
  PROVE  FInv'
<1>1. FetcherTypes' BY Zenon DEF FInv, FetcherTypes, Idle
<1>2. \A j \in Kinds, q \in Peers : ~busy[j][q] => ~busy'[j][q]
  BY Zenon DEF FInv, FetcherTypes, Idle
<1>3. \A j \in Kinds : round[j].idles \subseteq Peers
  BY Zenon DEF FInv, FetcherTypes, Rounds
<1>4. RoundIdle' BY <1>2, <1>3, Zenon DEF FInv, RoundIdle
<1>5. NeverCorrupt' BY Zenon DEF FInv, NeverCorrupt
<1> QED BY <1>1, <1>4, <1>5, Zenon DEF FInv

\* The inductive invariant holds when a cycle starts (Reset, Prepare).
LEMMA InitInv == ASSUME Init PROVE IInv
<1> USE QueueAssumption DEF Init
<1>1. QueueTypes BY DEF QueueTypes, Headers, None
<1>2. FetcherTypes
  <2>1. NoRound \in Rounds BY Zenon DEF NoRound, Rounds
  <2>2. round \in [Kinds -> Rounds] BY <2>1, Zenon
  <2>3. busy \in [Kinds -> [Peers -> BOOLEAN]] BY Zenon
  <2>4. fpc \in [Kinds -> Points] BY Zenon DEF Points
  <2> QED BY <2>2, <2>3, <2>4, Zenon DEF FetcherTypes
<1>3. Placed BY DEF Placed, Headers
<1>4. Slots BY Zenon DEF Slots
<1>5. PendingCounts BY Zenon DEF PendingCounts, None
<1>6. RoundIdle BY Zenon DEF RoundIdle
<1>7. NeverCorrupt BY Zenon DEF NeverCorrupt
<1> QED BY <1>1, <1>2, <1>3, <1>4, <1>5, <1>6, <1>7, Zenon DEF IInv, QInv, FInv

\* Schedule puts new headers in the task queues and nowhere else.
LEMMA ScheduleInv ==
  ASSUME IInv, NEW m \in 1..N, Schedule(m) PROVE IInv'
<1> USE DEF IInv, QInv, Schedule
<1>1. FInv' BY FFrame, Zenon DEF fetchers, peers
<1>2. sched' = sched + m /\ sched' \in 0..N /\ sched \in 0..N
  BY QueueAssumption DEF QueueTypes
<1>3. \A k \in Kinds, n \in Headers :
        n \in queue'[k] <=> n \in queue[k] \/ (n > sched /\ n <= sched' /\ Needs(k, n))
  BY <1>2, QueueAssumption, SMTT(60) DEF QueueTypes, Headers
<1>4. QueueTypes'
  BY <1>2, QueueAssumption, SMTT(60) DEF QueueTypes, Headers
<1>5. Placed'
  <2> SUFFICES ASSUME NEW k \in Kinds, NEW n \in Headers
               PROVE  /\ (n \in queue'[k] \/ n \in done[k] \/ \E p \in Peers : n \in pend[k][p])
                           <=> (offset <= n /\ n <= sched' /\ Needs(k, n))
                      /\ ~(n \in queue'[k] /\ n \in done[k])
                      /\ \A p \in Peers : n \in pend[k][p] => n \notin queue'[k] /\ n \notin done[k]
                      /\ \A p, q \in Peers : n \in pend[k][p] /\ n \in pend[k][q] => p = q
    BY DEF Placed, Needs
  <2>1. n \in Nat BY QueueAssumption DEF Headers
  <2> QED BY <1>2, <1>3, <2>1 DEF Placed, QueueTypes
<1>6. Slots' BY <1>2, QueueAssumption DEF Slots, Headers
<1>7. PendingCounts' BY Zenon DEF PendingCounts, InCache, Missing, Needs
<1> QED BY <1>1, <1>4, <1>5, <1>6, <1>7

\* Requests move back into the task queue: those of peer p for the kinds K.
LEMMA GiveBack ==
  ASSUME QInv, NEW K \in SUBSET Kinds, NEW p \in Peers,
         queue' \in [Kinds -> SUBSET Headers],
         pend' \in [Kinds -> [Peers -> SUBSET Headers]],
         \A k \in Kinds, n \in Headers :
           n \in queue'[k] <=> n \in queue[k] \/ (k \in K /\ n \in pend[k][p]),
         \A k \in Kinds, q \in Peers, n \in Headers :
           n \in pend'[k][q] <=> n \in pend[k][q] /\ ~(k \in K /\ q = p),
         UNCHANGED <<sched, done, result, offset>>
  PROVE  QInv'
<1>1. QueueTypes' BY Zenon DEF QInv, QueueTypes
<1>2. Placed'
  <2> SUFFICES ASSUME NEW k \in Kinds, NEW n \in Headers
               PROVE  /\ (n \in queue'[k] \/ n \in done[k] \/ \E q \in Peers : n \in pend'[k][q])
                           <=> (offset <= n /\ n <= sched /\ Needs(k, n))
                      /\ ~(n \in queue'[k] /\ n \in done[k])
                      /\ \A q \in Peers : n \in pend'[k][q] => n \notin queue'[k] /\ n \notin done[k]
                      /\ \A q, r \in Peers : n \in pend'[k][q] /\ n \in pend'[k][r] => q = r
    BY DEF Placed, Needs
  <2>1. /\ (n \in queue[k] \/ n \in done[k] \/ \E q \in Peers : n \in pend[k][q])
             <=> (offset <= n /\ n <= sched /\ Needs(k, n))
        /\ ~(n \in queue[k] /\ n \in done[k])
        /\ \A q \in Peers : n \in pend[k][q] => n \notin queue[k] /\ n \notin done[k]
        /\ \A q, r \in Peers : n \in pend[k][q] /\ n \in pend[k][r] => q = r
    BY Zenon DEF QInv, Placed
  <2>2. n \in queue'[k] <=> n \in queue[k] \/ (k \in K /\ n \in pend[k][p])
    BY Zenon
  <2>3. \A q \in Peers : n \in pend'[k][q] <=> n \in pend[k][q] /\ ~(k \in K /\ q = p)
    BY Zenon
  <2> QED BY <2>1, <2>2, <2>3, Zenon
<1>3. Slots' BY Zenon DEF QInv, Slots
<1>4. PendingCounts' BY Zenon DEF QInv, PendingCounts, InCache, Missing, Needs
<1> QED BY <1>1, <1>2, <1>3, <1>4, Zenon DEF QInv

\* A request that times out goes back to the task queue (expire).
LEMMA ExpireInv ==
  ASSUME IInv, NEW k \in Kinds, NEW p \in Peers, Expire(k, p) PROVE IInv'
<1> USE DEF IInv, Expire
<1>1. QInv'
  <2>1. /\ queue' \in [Kinds -> SUBSET Headers]
        /\ pend' \in [Kinds -> [Peers -> SUBSET Headers]]
    BY DEF QInv, QueueTypes
  <2>2. \A j \in Kinds, n \in Headers :
          n \in queue'[j] <=> n \in queue[j] \/ (j \in {k} /\ n \in pend[j][p])
    BY Zenon DEF QInv, QueueTypes
  <2>3. \A j \in Kinds, q \in Peers, n \in Headers :
          n \in pend'[j][q] <=> n \in pend[j][q] /\ ~(j \in {k} /\ q = p)
    BY Zenon DEF QInv, QueueTypes
  <2> HIDE DEF Expire
  <2>4. UNCHANGED <<sched, done, result, offset>> BY Zenon DEF Expire
  <2>5. {k} \in SUBSET Kinds BY Zenon
  <2> QED BY <2>1, <2>2, <2>3, <2>4, <2>5, GiveBack, ZenonT(30)
<1>2. FInv'
  <2>1. UNCHANGED <<fpc, round>> BY Zenon DEF fetchers
  <2>2. UNCHANGED busy \/ Idle(k, p) BY Zenon
  <2> QED BY <2>1, <2>2, FIdle, FFrame, Zenon
<1> QED BY <1>1, <1>2, Zenon

\* The requests of a peer that left go back to the task queues (Revoke).
LEMMA RevokeInv ==
  ASSUME IInv, NEW p \in Peers, Revoke(p) PROVE IInv'
<1> USE DEF IInv, Revoke
<1>1. QInv'
  <2>1. /\ queue' \in [Kinds -> SUBSET Headers]
        /\ pend' \in [Kinds -> [Peers -> SUBSET Headers]]
    BY DEF QInv, QueueTypes
  <2>2. \A j \in Kinds, n \in Headers :
          n \in queue'[j] <=> n \in queue[j] \/ (j \in Kinds /\ n \in pend[j][p])
    BY Zenon DEF QInv, QueueTypes
  <2>3. \A j \in Kinds, q \in Peers, n \in Headers :
          n \in pend'[j][q] <=> n \in pend[j][q] /\ ~(j \in Kinds /\ q = p)
    BY Zenon DEF QInv, QueueTypes
  <2>4. UNCHANGED <<sched, done, result, offset>> BY Zenon
  <2>5. Kinds \in SUBSET Kinds BY Zenon
  <2> HIDE DEF Revoke
  <2> QED BY <2>1, <2>2, <2>3, <2>4, <2>5, GiveBack, ZenonT(30)
<1>2. FInv' BY FFrame, Zenon DEF fetchers
<1> QED BY <1>1, <1>2, Zenon

\* Taking results off the front of the cache: they are complete, so nothing of
\* them is queued or requested any more.
LEMMA TakeInv ==
  ASSUME IInv, NEW upto \in 1..(N + 1), TakeResults(upto) PROVE IInv'
<1> USE DEF IInv, TakeResults
<1>1. FInv' BY FFrame, Zenon DEF fetchers, peers
<1>2. \A n \in offset..(upto - 1) : n \in Headers /\ result[n] = 0
  BY Zenon DEF Processable, StopsAt, Ready
<1>3. offset \in Nat /\ upto \in Nat /\ upto > offset /\ sched \in Nat /\ offset <= sched + 1
  BY QueueAssumption DEF QInv, QueueTypes
<1>4. \A n \in offset..(upto - 1) : n <= sched
  BY <1>2 DEF QInv, Slots, None
<1>5. upto <= sched + 1
  <2>1. upto - 1 \in offset..(upto - 1) BY <1>3
  <2> QED BY <1>3, <1>4, <2>1
<1>6. \A n \in offset..(upto - 1), k \in Kinds : Needs(k, n) => n \in done[k]
  <2> SUFFICES ASSUME NEW n \in offset..(upto - 1), NEW k \in Kinds, Needs(k, n)
               PROVE  n \in done[k]
    BY Zenon
  <2>1. n \in Headers /\ Missing("body", n) + Missing("receipt", n) = 0
    BY <1>2, SMTT(60) DEF QInv, PendingCounts, None
  <2>2. Missing("body", n) \in {0, 1} /\ Missing("receipt", n) \in {0, 1}
    BY Zenon DEF Missing
  <2>3. Missing("body", n) = 0 /\ Missing("receipt", n) = 0 BY <2>1, <2>2
  <2> QED BY <2>3 DEF Missing, Kinds
<1>7. QueueTypes'
  <2>1. result' \in [Headers -> Int] BY DEF QInv, QueueTypes, None
  <2>2. done' \in [Kinds -> SUBSET Headers] BY Zenon DEF QInv, QueueTypes
  <2> QED BY <1>3, <1>5, <2>1, <2>2 DEF QInv, QueueTypes
<1>8. \A k \in Kinds, n \in Headers : n \in done'[k] <=> n \in done[k] /\ n >= upto
  <2> TAKE k \in Kinds, n \in Headers
  <2>1. n \in Int BY DEF Headers
  <2>2. n \in done[k] => n >= offset BY Zenon DEF QInv, Placed
  <2>3. done'[k] = done[k] \ (offset..(upto - 1)) BY Zenon
  <2> HIDE DEF TakeResults
  <2> QED BY <1>3, <2>1, <2>2, <2>3
<1>9. Placed'
  <2> SUFFICES ASSUME NEW k \in Kinds, NEW n \in Headers
               PROVE  /\ (n \in queue[k] \/ n \in done'[k] \/ \E q \in Peers : n \in pend[k][q])
                           <=> (upto <= n /\ n <= sched /\ Needs(k, n))
                      /\ ~(n \in queue[k] /\ n \in done'[k])
                      /\ \A q \in Peers : n \in pend[k][q] => n \notin queue[k] /\ n \notin done'[k]
                      /\ \A q, r \in Peers : n \in pend[k][q] /\ n \in pend[k][r] => q = r
    BY SMTT(60) DEF Placed, Needs
  <2>1. /\ (n \in queue[k] \/ n \in done[k] \/ \E q \in Peers : n \in pend[k][q])
             <=> (offset <= n /\ n <= sched /\ Needs(k, n))
        /\ ~(n \in queue[k] /\ n \in done[k])
        /\ \A q \in Peers : n \in pend[k][q] => n \notin queue[k] /\ n \notin done[k]
        /\ \A q, r \in Peers : n \in pend[k][q] /\ n \in pend[k][r] => q = r
    BY Zenon DEF QInv, Placed
  <2>2. n \in Int BY DEF Headers
  <2>3. CASE n >= upto
    BY <1>3, <1>8, <2>1, <2>2, <2>3, SMTT(60)
  <2>4. CASE n < upto
    <3>1. n \notin done'[k] BY <1>3, <1>8, <2>2, <2>4, SMTT(60)
    <3>2. offset <= n /\ Needs(k, n) => n \in done[k] BY <1>3, <1>6, <2>2, <2>4
    <3> QED BY <1>3, <2>1, <2>2, <2>4, <3>1, <3>2, SMTT(60)
  <2> QED BY <1>3, <2>2, <2>3, <2>4, SMTT(60)
<1>10. \A n \in Headers : /\ result'[n] # None => result'[n] = result[n] /\ n >= upto
                          /\ n >= upto => result'[n] = result[n]
  BY <1>3, SMTT(60) DEF QInv, QueueTypes, Headers
<1>11. Slots'
  <2>1. \A n \in Headers : n \in Int BY SMTT(60) DEF Headers
  <2>2. \A k \in Kinds, n \in Headers, p \in Peers : n \in pend[k][p] => n >= upto
    <3> SUFFICES ASSUME NEW k \in Kinds, NEW n \in Headers, NEW p \in Peers, n \in pend[k][p]
                 PROVE  n >= upto
      BY Zenon
    <3>1. offset <= n /\ Needs(k, n) /\ n \notin done[k] BY Zenon DEF QInv, Placed
    <3> QED BY <1>3, <1>6, <2>1, <3>1
  <2> QED BY <1>8, <1>10, <2>2, SMTT(60) DEF QInv, Slots
<1>12. PendingCounts'
  <2> SUFFICES ASSUME NEW n \in Headers, result'[n] # None
               PROVE  InCache(n)' /\ result'[n] = Missing("body", n)' + Missing("receipt", n)'
    BY Zenon DEF PendingCounts
  <2>1. result'[n] = result[n] /\ n >= upto BY <1>10, Zenon
  <2>2. InCache(n) /\ result[n] = Missing("body", n) + Missing("receipt", n)
    BY <2>1, Zenon DEF QInv, PendingCounts
  <2>3. \A k \in Kinds : n \in done'[k] <=> n \in done[k] BY <1>8, <2>1, Zenon
  <2>4. n \in Int BY DEF Headers
  <2>5. InCache(n)' BY <1>3, <2>1, <2>2, <2>4, QueueAssumption, SMTT(60) DEF InCache
  <2>6. Missing("body", n)' = Missing("body", n) /\ Missing("receipt", n)' = Missing("receipt", n)
    BY <2>3, Zenon DEF Missing, Needs, Kinds
  <2> QED BY <2>1, <2>2, <2>5, <2>6, Zenon
<1> QED BY <1>1, <1>7, <1>9, <1>11, <1>12, Zenon DEF QInv

\* What a reservation does to the queue: popped headers get a slot, empty ones
\* are done, the rest that the peer may have is requested.
ReserveTasks(k, p, count) ==
  LET popped == Popped(k, p, count)
      empty == popped \cap Noop[k]
      send == popped \ (Noop[k] \cup lacking[p])
  IN /\ queue' = [queue EXCEPT ![k] = @ \ (empty \cup send)]
     /\ result' = [n \in Headers |->
          IF n \in popped
            THEN (IF result[n] = None THEN Components(n) ELSE result[n])
                   - (IF n \in empty THEN 1 ELSE 0)
            ELSE result[n]]
     /\ done' = [done EXCEPT ![k] = @ \cup empty]
     /\ pend' = [pend EXCEPT ![k][p] = send]
     /\ UNCHANGED <<sched, offset>>

\* reserveHeaders moves headers to one request or the done pool, within the cache.
LEMMA ReserveQueue ==
  ASSUME QInv, NEW k \in Kinds, NEW p \in Peers, NEW count \in Nat,
         pend[k][p] = {}, ReserveTasks(k, p, count)
  PROVE  QInv'
<1> DEFINE popped == Popped(k, p, count)
           empty == popped \cap Noop[k]
           send == popped \ (Noop[k] \cup lacking[p])
<1>a. empty \subseteq popped /\ send \subseteq popped /\ empty \cap send = {} BY Zenon
<1>b. /\ queue' = [queue EXCEPT ![k] = @ \ (empty \cup send)]
      /\ result' = [n \in Headers |->
           IF n \in popped
             THEN (IF result[n] = None THEN Components(n) ELSE result[n])
                    - (IF n \in empty THEN 1 ELSE 0)
             ELSE result[n]]
      /\ done' = [done EXCEPT ![k] = @ \cup empty]
      /\ pend' = [pend EXCEPT ![k][p] = send]
      /\ UNCHANGED <<sched, offset>>
  BY Zenon DEF ReserveTasks
<1>c. popped = Popped(k, p, count) BY Zenon
<1> HIDE DEF popped, empty, send
<1> USE <1>a, <1>b, <1>c
<1>1. \A n \in popped : n \in queue[k] /\ n \in Headers
  BY Zenon DEF Popped, QInv, QueueTypes
<1>2. \A n \in popped : InCache(n) BY PoppedFits, Zenon DEF QInv
<1>3. \A n \in Headers : Components(n) \in Int /\ n \in Int
  BY DEF Components, Headers
<1>4. QueueTypes'
  <2>1. result' \in [Headers -> Int] BY <1>3, SMTT(60) DEF QInv, QueueTypes
  <2>2. done' \in [Kinds -> SUBSET Headers] BY <1>1, Zenon DEF QInv, QueueTypes
  <2>3. queue' \in [Kinds -> SUBSET Headers] BY Zenon DEF QInv, QueueTypes
  <2>4. pend' \in [Kinds -> [Peers -> SUBSET Headers]] BY <1>1, Zenon DEF QInv, QueueTypes
  <2> QED BY <2>1, <2>2, <2>3, <2>4, Zenon DEF QInv, QueueTypes
<1>5. \A j \in Kinds, n \in Headers :
        /\ n \in queue'[j] <=> n \in queue[j] /\ ~(j = k /\ (n \in empty \/ n \in send))
        /\ n \in done'[j] <=> n \in done[j] \/ (j = k /\ n \in empty)
  BY Zenon DEF QInv, QueueTypes
<1>6. \A j \in Kinds, q \in Peers, n \in Headers :
        n \in pend'[j][q] <=> n \in pend[j][q] \/ (j = k /\ q = p /\ n \in send)
  BY Zenon DEF QInv, QueueTypes
<1>7. Placed'
  <2> SUFFICES ASSUME NEW j \in Kinds, NEW n \in Headers
               PROVE  /\ (n \in queue'[j] \/ n \in done'[j] \/ \E q \in Peers : n \in pend'[j][q])
                           <=> (offset <= n /\ n <= sched /\ Needs(j, n))
                      /\ ~(n \in queue'[j] /\ n \in done'[j])
                      /\ \A q \in Peers : n \in pend'[j][q] => n \notin queue'[j] /\ n \notin done'[j]
                      /\ \A q, r \in Peers : n \in pend'[j][q] /\ n \in pend'[j][r] => q = r
    BY DEF Placed, Needs
  <2>1. /\ (n \in queue[j] \/ n \in done[j] \/ \E q \in Peers : n \in pend[j][q])
             <=> (offset <= n /\ n <= sched /\ Needs(j, n))
        /\ ~(n \in queue[j] /\ n \in done[j])
        /\ \A q \in Peers : n \in pend[j][q] => n \notin queue[j] /\ n \notin done[j]
        /\ \A q, r \in Peers : n \in pend[j][q] /\ n \in pend[j][r] => q = r
    BY Zenon DEF QInv, Placed
  <2>2. j = k /\ (n \in empty \/ n \in send) => n \in queue[j] BY <1>1, Zenon
  <2>3. ~(n \in empty /\ n \in send) BY Zenon
  <2>4. /\ n \in queue'[j] <=> n \in queue[j] /\ ~(j = k /\ (n \in empty \/ n \in send))
        /\ n \in done'[j] <=> n \in done[j] \/ (j = k /\ n \in empty)
        /\ \A q \in Peers : n \in pend'[j][q] <=> n \in pend[j][q] \/ (j = k /\ q = p /\ n \in send)
    BY <1>5, <1>6, Zenon
  <2> QED BY <2>1, <2>2, <2>3, <2>4, ZenonT(60)
<1>8. PendingCounts'
  <2> SUFFICES ASSUME NEW n \in Headers, result'[n] # None
               PROVE  InCache(n)' /\ result'[n] = Missing("body", n)' + Missing("receipt", n)'
    BY Zenon DEF PendingCounts
  <2>1. InCache(n)' <=> InCache(n) BY Zenon DEF InCache
  <2>2. CASE n \notin popped
    <3>1. result'[n] = result[n] /\ n \notin empty BY <2>2, Zenon
    <3>2. \A j \in Kinds : n \in done'[j] <=> n \in done[j] BY <1>5, <3>1, Zenon
    <3>3. Missing("body", n)' = Missing("body", n) /\ Missing("receipt", n)' = Missing("receipt", n)
      BY <3>2, Zenon DEF Missing, Needs, Kinds
    <3> QED BY <2>1, <3>1, <3>3, Zenon DEF QInv, PendingCounts
  <2>3. CASE n \in popped
    <3> DEFINE base == IF result[n] = None THEN Components(n) ELSE result[n]
               less == IF n \in empty THEN 1 ELSE 0
    <3>1. base = Missing("body", n) + Missing("receipt", n)
      <4>1. CASE result[n] = None
        <5>1. n \notin done["body"] /\ n \notin done["receipt"]
          BY <4>1, Zenon DEF QInv, Slots, Kinds
        <5> QED BY <4>1, <5>1 DEF Missing, Components, Needs
      <4>2. CASE result[n] # None
        BY <4>2, Zenon DEF QInv, PendingCounts
      <4> QED BY <4>1, <4>2, Zenon
    <3>2. n \in queue[k] /\ n \notin done[k] /\ Needs(k, n)
      BY <1>1, <2>3, Zenon DEF QInv, Placed
    <3>3. Missing("body", n)' + Missing("receipt", n)'
            = Missing("body", n) + Missing("receipt", n) - less
      <4>1. \A j \in Kinds : n \in done'[j] <=> n \in done[j] \/ (j = k /\ n \in empty)
        BY <1>5, Zenon
      <4>2. k = "body" \/ k = "receipt" BY Zenon DEF Kinds
      <4>3. \A j \in Kinds : Needs(j, n)' <=> Needs(j, n) BY Zenon DEF Needs
      <4>4. CASE k = "body"
        BY <3>2, <4>1, <4>3, <4>4, SMTT(60) DEF Missing, Kinds
      <4>5. CASE k = "receipt"
        BY <3>2, <4>1, <4>3, <4>5, SMTT(60) DEF Missing, Kinds
      <4> QED BY <4>2, <4>4, <4>5, Zenon
    <3>4. result'[n] = base - less BY <2>3, Zenon
    <3>5. InCache(n)' BY <1>2, <2>1, <2>3, Zenon
    <3> HIDE DEF base, less
    <3>6. result'[n] = Missing("body", n)' + Missing("receipt", n)'
      <4>1. /\ Missing("body", n) \in Int /\ Missing("receipt", n) \in Int /\ less \in Int
            /\ Missing("body", n)' \in Int /\ Missing("receipt", n)' \in Int
        BY DEF Missing, less
      <4> QED BY <3>1, <3>3, <3>4, <4>1, SMTT(60)
    <3> QED BY <3>5, <3>6, Zenon
  <2> QED BY <2>2, <2>3, Zenon
<1>9. Slots'
  <2>1. \A n \in popped : result'[n] # None
    <3> TAKE n \in popped
    <3>1. n \in Headers /\ n \in queue[k] /\ n \notin done[k] /\ Needs(k, n)
      BY <1>1, Zenon DEF QInv, Placed
    <3>2. CASE result[n] = None
      BY <3>1, <3>2 DEF Components, None
    <3>3. CASE result[n] # None
      <4>1. result[n] = Missing("body", n) + Missing("receipt", n)
        BY <3>1, <3>3, Zenon DEF QInv, PendingCounts
      <4>2. Missing("body", n) \in {0, 1} /\ Missing("receipt", n) \in {0, 1} BY Zenon DEF Missing
      <4>3. result[n] >= 0 /\ result[n] \in Int BY <4>1, <4>2
      <4>4. Missing(k, n) = 1 BY <3>1, Zenon DEF Missing
      <4>5. result[n] >= 1 BY <4>1, <4>2, <4>4 DEF Kinds
      <4>6. result'[n] = result[n] - (IF n \in empty THEN 1 ELSE 0) BY <3>1, <3>3, Zenon
      <4> QED BY <4>3, <4>5, <4>6 DEF None
    <3> QED BY <3>2, <3>3, Zenon
  <2>2. \A n \in Headers : n \notin popped => result'[n] = result[n] BY Zenon
  <2>3. \A n \in popped : n <= sched BY <1>1, Zenon DEF QInv, Placed
  <2>4. \A j \in Kinds, n \in Headers :
          n \in done'[j] \/ (\E q \in Peers : n \in pend'[j][q]) => result'[n] # None
    BY <1>5, <1>6, <2>1, <2>2, SMTT(60) DEF QInv, Slots
  <2>5. \A n \in Headers : result'[n] # None => n <= sched'
    BY <2>2, <2>3, Zenon DEF QInv, Slots
  <2> QED BY <2>4, <2>5, Zenon DEF Slots
<1> QED BY <1>4, <1>7, <1>8, <1>9, Zenon DEF QInv

\* A reservation keeps the whole invariant, the fetcher that makes it included.
LEMMA ReserveInv ==
  ASSUME IInv, NEW k \in Kinds, NEW p \in Peers, NEW count \in Nat, Reserve(k, p, count)
  PROVE  IInv'
<1> DEFINE popped == Popped(k, p, count)
           empty == popped \cap Noop[k]
           send == popped \ (Noop[k] \cup lacking[p])
<1>1. fpc[k] = "round" /\ p \in round[k].idles BY Zenon DEF Reserve
<1>2. ~busy[k][p] BY <1>1, Zenon DEF IInv, FInv, RoundIdle
<1>3. \A n \in popped : InCache(n) BY PoppedFits, Zenon DEF IInv, QInv
<1>4. CASE pend[k][p] # {}
  <2>1. UNCHANGED <<tasks, sched, busy, fpc>> /\ round' = [round EXCEPT ![k].idles = @ \ {p}]
    BY <1>4, Zenon DEF Reserve
  <2>2. QInv' BY <2>1, QFrame, Zenon DEF IInv
  <2>3. \A j \in Kinds : /\ round'[j] \in Rounds
                         /\ round'[j].idles \subseteq round[j].idles
    BY <2>1 DEF IInv, FInv, FetcherTypes, Rounds
  <2>4. round' \in [Kinds -> Rounds] BY <2>1, <2>3, ZenonT(30) DEF IInv, FInv, FetcherTypes
  <2>5. FInv' BY <2>1, <2>3, <2>4, Zenon DEF IInv, FInv, FetcherTypes, RoundIdle, NeverCorrupt
  <2> QED BY <2>2, <2>5, Zenon DEF IInv
<1>5. CASE pend[k][p] = {}
  <2>1. ~((\E n \in popped : ~InCache(n)) \/ (send # {} /\ busy[k][p])) BY <1>2, <1>3, Zenon
  <2>2. /\ ReserveTasks(k, p, count)
        /\ IF send = {} THEN UNCHANGED <<busy, net>>
           ELSE /\ busy' = [busy EXCEPT ![k][p] = TRUE]
                /\ net' = [net EXCEPT ![k][p] = Append(@, send)]
        /\ round' = [round EXCEPT ![k].idles = @ \ {p},
                                  ![k].progress = @ \/ empty # {},
                                  ![k].running = @ \/ send # {}]
        /\ UNCHANGED fpc
    BY <1>5, <2>1, ZenonT(60) DEF Reserve, ReserveTasks
  <2>4. QInv' BY <1>5, <2>2, ReserveQueue, ZenonT(30) DEF IInv
  <2> HIDE DEF popped, empty, send
  <2>5. busy' \in [Kinds -> [Peers -> BOOLEAN]] /\
        \A j \in Kinds, q \in Peers : ~busy[j][q] /\ ~(j = k /\ q = p) => ~busy'[j][q]
    <3>1. CASE send = {}
      <4>1. busy' = busy BY <2>2, <3>1, ZenonT(30)
      <4> QED BY <4>1, ZenonT(60) DEF IInv, FInv, FetcherTypes
    <3>2. CASE send # {}
      <4>1. busy' = [busy EXCEPT ![k][p] = TRUE] BY <2>2, <3>2, ZenonT(30)
      <4>2. busy \in [Kinds -> [Peers -> BOOLEAN]] BY Zenon DEF IInv, FInv, FetcherTypes
      <4> QED BY <4>1, <4>2, Zenon
    <3> QED BY <3>1, <3>2, Zenon
  <2>6. \A j \in Kinds : j # k => round'[j] = round[j]
    BY <2>2, ZenonT(30) DEF IInv, FInv, FetcherTypes
  <2>7. round[k] \in Rounds BY Zenon DEF IInv, FInv, FetcherTypes
  <2>8. round'[k] = [round[k] EXCEPT !.idles = @ \ {p},
                                     !.progress = @ \/ empty # {},
                                     !.running = @ \/ send # {}]
    <3>1. k \in DOMAIN round BY Zenon DEF IInv, FInv, FetcherTypes
    <3> QED BY <2>2, <3>1, Zenon
  <2>9. round'[k] \in Rounds /\ round'[k].idles = round[k].idles \ {p}
    BY <2>7, <2>8, ZenonT(60) DEF Rounds
  <2>10. round' \in [Kinds -> Rounds]
    <3>1. DOMAIN round' = Kinds /\ round' = [j \in Kinds |-> round'[j]]
      BY <2>2, ZenonT(30) DEF IInv, FInv, FetcherTypes
    <3>2. \A j \in Kinds : round'[j] \in Rounds
      BY <2>6, <2>9, Zenon DEF IInv, FInv, FetcherTypes
    <3> QED BY <3>1, <3>2, Zenon
  <2>11. RoundIdle'
    <3> SUFFICES ASSUME NEW j \in Kinds, fpc[j] = "round", NEW q \in round'[j].idles
                 PROVE  ~busy'[j][q]
      BY <2>2, ZenonT(30) DEF RoundIdle
    <3>1. q \in round[j].idles /\ ~(j = k /\ q = p) BY <2>6, <2>9, Zenon
    <3>2. q \in Peers BY <3>1, Zenon DEF IInv, FInv, FetcherTypes, Rounds
    <3>3. ~busy[j][q] BY <3>1, Zenon DEF IInv, FInv, RoundIdle
    <3> QED BY <2>5, <3>1, <3>2, <3>3, Zenon
  <2>12. NeverCorrupt' BY <2>2, ZenonT(30) DEF IInv, FInv, NeverCorrupt
  <2>13. FetcherTypes' BY <2>2, <2>5, <2>10, ZenonT(30) DEF IInv, FInv, FetcherTypes
  <2> QED BY <2>4, <2>11, <2>12, <2>13, Zenon DEF IInv, FInv
<1> QED BY <1>4, <1>5, Zenon

\* What a delivery does to the queue, when nothing is corrupt.
DeliverTasks(k, p, accepted) ==
  /\ pend' = [pend EXCEPT ![k][p] = {}]
  /\ queue' = [queue EXCEPT ![k] = @ \cup Requeued(pend[k][p], accepted)]
  /\ done' = [done EXCEPT ![k] = @ \cup accepted]
  /\ result' = [n \in Headers |-> IF n \in accepted THEN result[n] - 1 ELSE result[n]]
  /\ UNCHANGED <<sched, offset>>

\* deliver moves accepted headers to the done pool and returns the others.
LEMMA DeliverQueue ==
  ASSUME QInv, NEW k \in Kinds, NEW p \in Peers, NEW reply,
         DeliverTasks(k, p, Accepted(pend[k][p], reply))
  PROVE  QInv'
<1> DEFINE accepted == Accepted(pend[k][p], reply)
<1>1. accepted \subseteq pend[k][p] BY Zenon DEF Accepted
<1>2. \A n \in pend[k][p] : n \in Headers BY DEF QInv, QueueTypes
<1>3. DeliverTasks(k, p, accepted) BY Zenon
<1> HIDE DEF accepted
<1>4. /\ QueueTypes
      /\ \A j \in Kinds, n \in Headers :
        /\ n \in queue'[j] <=> n \in queue[j] \/ (j = k /\ n \in pend[k][p] /\ n \notin accepted)
        /\ n \in done'[j] <=> n \in done[j] \/ (j = k /\ n \in accepted)
  BY <1>3, SMTT(60) DEF QInv, QueueTypes, DeliverTasks, Requeued
<1>5. \A j \in Kinds, q \in Peers, n \in Headers :
        n \in pend'[j][q] <=> n \in pend[j][q] /\ ~(j = k /\ q = p)
  BY <1>3, SMTT(60) DEF QInv, QueueTypes, DeliverTasks
<1>6. QueueTypes'
  <2>1. result' \in [Headers -> Int] BY <1>3, SMTT(60) DEF QInv, QueueTypes, DeliverTasks
  <2>2. done' \in [Kinds -> SUBSET Headers]
    BY <1>1, <1>2, <1>3, SMTT(60) DEF QInv, QueueTypes, DeliverTasks
  <2>3. queue' \in [Kinds -> SUBSET Headers]
    BY <1>2, <1>3, SMTT(60) DEF QInv, QueueTypes, DeliverTasks, Requeued
  <2>4. pend' \in [Kinds -> [Peers -> SUBSET Headers]]
    BY <1>3, SMTT(60) DEF QInv, QueueTypes, DeliverTasks
  <2> QED BY <1>3, <2>1, <2>2, <2>3, <2>4, Zenon DEF QInv, QueueTypes, DeliverTasks
<1>7. Placed'
  <2> SUFFICES ASSUME NEW j \in Kinds, NEW n \in Headers
               PROVE  /\ (n \in queue'[j] \/ n \in done'[j] \/ \E q \in Peers : n \in pend'[j][q])
                           <=> (offset <= n /\ n <= sched /\ Needs(j, n))
                      /\ ~(n \in queue'[j] /\ n \in done'[j])
                      /\ \A q \in Peers : n \in pend'[j][q] => n \notin queue'[j] /\ n \notin done'[j]
                      /\ \A q, r \in Peers : n \in pend'[j][q] /\ n \in pend'[j][r] => q = r
    BY <1>3, SMTT(60) DEF Placed, Needs, DeliverTasks
  <2>1. /\ (n \in queue[j] \/ n \in done[j] \/ \E q \in Peers : n \in pend[j][q])
             <=> (offset <= n /\ n <= sched /\ Needs(j, n))
        /\ ~(n \in queue[j] /\ n \in done[j])
        /\ \A q \in Peers : n \in pend[j][q] => n \notin queue[j] /\ n \notin done[j]
        /\ \A q, r \in Peers : n \in pend[j][q] /\ n \in pend[j][r] => q = r
    BY Zenon DEF QInv, Placed
  <2>2. n \in accepted => n \in pend[k][p] BY <1>1, Zenon
  <2>3. /\ n \in queue'[j] <=> n \in queue[j] \/ (j = k /\ n \in pend[k][p] /\ n \notin accepted)
        /\ n \in done'[j] <=> n \in done[j] \/ (j = k /\ n \in accepted)
        /\ \A q \in Peers : n \in pend'[j][q] <=> n \in pend[j][q] /\ ~(j = k /\ q = p)
    BY <1>4, <1>5, Zenon
  <2> QED BY <2>1, <2>2, <2>3, ZenonT(60)
<1>8. \A n \in accepted : /\ n \in Headers /\ Needs(k, n) /\ n \notin done[k] /\ result[n] # None
                          /\ result[n] = Missing("body", n) + Missing("receipt", n)
  BY <1>1, <1>2, Zenon DEF QInv, Placed, Slots, PendingCounts
<1>9. \A n \in Headers : result'[n] = IF n \in accepted THEN result[n] - 1 ELSE result[n]
  BY <1>3, Zenon DEF DeliverTasks
<1>10. \A n \in Headers, j \in {"body", "receipt"} :
         /\ Missing(j, n) \in {0, 1} /\ Missing(j, n)' \in {0, 1}
         /\ j # k \/ n \notin accepted => Missing(j, n)' = Missing(j, n)
         /\ j = k /\ n \in accepted => Missing(j, n)' = 0 /\ Missing(j, n) = 1
  BY <1>4, <1>8, SMTT(60) DEF Missing, Needs, Kinds
<1>11. k = "body" \/ k = "receipt" BY Zenon DEF Kinds
<1>12. \A n \in accepted : result[n] >= 1 /\ result[n] \in Int
  BY <1>8, <1>10, <1>11, SMTT(60)
<1>13. PendingCounts'
  <2> SUFFICES ASSUME NEW n \in Headers, result'[n] # None
               PROVE  InCache(n)' /\ result'[n] = Missing("body", n)' + Missing("receipt", n)'
    BY Zenon DEF PendingCounts
  <2>1. InCache(n)' <=> InCache(n) BY <1>3, Zenon DEF InCache, DeliverTasks
  <2>2. result[n] # None BY <1>8, <1>9, Zenon
  <2>3. InCache(n) /\ result[n] = Missing("body", n) + Missing("receipt", n)
    BY <2>2, Zenon DEF QInv, PendingCounts
  <2>4. CASE n \in accepted
    <3>1. result'[n] = result[n] - 1 BY <1>9, <2>4, Zenon
    <3>2. CASE k = "body" BY <1>10, <2>1, <2>3, <2>4, <3>1, <3>2, SMTT(60)
    <3>3. CASE k = "receipt" BY <1>10, <2>1, <2>3, <2>4, <3>1, <3>3, SMTT(60)
    <3> QED BY <1>11, <3>2, <3>3, Zenon
  <2>5. CASE n \notin accepted BY <1>9, <1>10, <2>1, <2>3, <2>5, Zenon
  <2> QED BY <2>4, <2>5, Zenon
<1>14. Slots'
  <2>1. \A n \in Headers : result[n] # None => result'[n] # None
    BY <1>9, <1>12, SMTT(60) DEF None
  <2>2. \A n \in Headers : result'[n] # None => result[n] # None
    BY <1>8, <1>9, Zenon
  <2>3. sched' = sched BY <1>3, Zenon DEF DeliverTasks
  <2> QED BY <1>4, <1>5, <1>8, <2>1, <2>2, <2>3, SMTT(60) DEF QInv, Slots
<1> QED BY <1>6, <1>7, <1>13, <1>14, Zenon DEF QInv

\* A delivery keeps the whole invariant, the fetcher that handles it included.
LEMMA DeliverInv ==
  ASSUME IInv, NEW k \in Kinds, NEW p \in Peers, NEW reply, Deliver(k, p, reply)
  PROVE  IInv'
<1> DEFINE accepted == Accepted(pend[k][p], reply)
<1>1. UNCHANGED <<sched, offset, round>> BY Zenon DEF Deliver
<1>2. CASE p \notin registered
  <2>1. UNCHANGED <<tasks, sched, fpc, busy, round>> BY <1>2, Zenon DEF Deliver, tasks
  <2> QED BY <2>1, QFrame, FFrame, Zenon DEF IInv
<1>3. CASE p \in registered
  <2>1. DeliverReply(k, p, reply) BY <1>3, Zenon DEF Deliver
  <2>2. ~ \E n \in accepted : ~InCache(n) \/ result[n] = None
    <3>1. \A n \in accepted : n \in pend[k][p] /\ n \in Headers
      BY SMTT(60) DEF Accepted, IInv, QInv, QueueTypes
    <3> QED BY <3>1, Zenon DEF IInv, QInv, Slots, PendingCounts
  <2>3. /\ DeliverTasks(k, p, accepted)
        /\ UNCHANGED busy \/ Idle(k, p)
        /\ UNCHANGED fpc
    BY <1>1, <2>1, <2>2, Zenon DEF DeliverReply, DeliverTasks
  <2>4. QInv' BY <2>3, DeliverQueue, Zenon DEF IInv
  <2>5. FInv' BY <1>1, <2>3, FIdle, FFrame, Zenon DEF IInv
  <2> QED BY <2>4, <2>5, Zenon DEF IInv
<1> QED BY <1>2, <1>3, Zenon

\* The steps of fetchParts between reservations and deliveries keep the invariant.
LEMMA FetchInv ==
  ASSUME IInv, NEW k \in Kinds, Fetch(k) PROVE IInv'
<1> USE DEF IInv, Points
<1>1. CASE Tick(k)
  <2>1. UNCHANGED <<tasks, sched, busy, round>> BY <1>1, Zenon DEF Tick, peers
  <2>2. Go(k, "failed") \/ Go(k, "update") BY <1>1, Zenon DEF Tick
  <2> QED BY <2>1, <2>2, QFrame, FMove, Zenon
<1>2. CASE NothingPending(k) \/ NothingLeft(k)
  <2>1. UNCHANGED <<tasks, sched, busy, round>>
    BY <1>2, Zenon DEF NothingPending, NothingLeft, peers
  <2>2. Go(k, "done") \/ Go(k, "select") \/ Go(k, "drained")
    BY <1>2, Zenon DEF NothingPending, NothingLeft
  <2> QED BY <2>1, <2>2, QFrame, FMove, Zenon
<1>3. CASE EndRound(k)
  <2>1. UNCHANGED <<tasks, sched, busy, round>> BY <1>3, Zenon DEF EndRound, peers
  <2>2. Go(k, "failed") \/ Go(k, "select") BY <1>3, Zenon DEF EndRound
  <2> QED BY <2>1, <2>2, QFrame, FMove, Zenon
<1>4. CASE Cancelled(k)
  <2>1. UNCHANGED <<tasks, sched, busy, round>> /\ Go(k, "done") BY <1>4, Zenon DEF Cancelled, peers
  <2> QED BY <2>1, QFrame, FMove, Zenon
<1>5. CASE StartRound(k)
  <2> DEFINE idles == {p \in Peers : p \in registered /\ ~busy[k][p]}
             r == [NoRound EXCEPT !.idles = idles, !.all = (idles = registered),
                                  !.running = InFlight(k)]
  <2>1. UNCHANGED <<tasks, sched, busy>> /\ Go(k, "round") /\ round' = [round EXCEPT ![k] = r]
    BY <1>5, Zenon DEF StartRound, peers
  <2>2. QInv' BY <2>1, QFrame, Zenon
  <2>3. r \in Rounds /\ r.idles = idles BY Zenon DEF NoRound, Rounds, InFlight
  <2> HIDE DEF r
  <2>4. /\ round' \in [Kinds -> Rounds] /\ round'[k] = r
        /\ \A j \in Kinds : j # k => round'[j] = round[j]
    BY <2>1, <2>3, Zenon DEF FInv, FetcherTypes
  <2>5. fpc' \in [Kinds -> Points] /\ \A j \in Kinds : j # k => fpc'[j] = fpc[j]
    BY <2>1, Zenon DEF FInv, FetcherTypes, Go
  <2>6. fpc'[k] = "round" BY <2>1, Zenon DEF FInv, FetcherTypes, Go
  <2>7. FetcherTypes' BY <2>1, <2>4, <2>5, Zenon DEF FInv, FetcherTypes
  <2>8. RoundIdle' BY <2>1, <2>3, <2>4, <2>5 DEF FInv, RoundIdle
  <2>9. NeverCorrupt' BY <2>5, <2>6, Zenon DEF FInv, NeverCorrupt
  <2> QED BY <2>2, <2>7, <2>8, <2>9, Zenon DEF FInv
<1>6. CASE Throttle(k)
  <2>1. /\ UNCHANGED <<tasks, sched, busy, fpc>>
        /\ round' = [round EXCEPT ![k].idles = {}, ![k].throttled = TRUE]
    BY <1>6, Zenon DEF Throttle, peers
  <2>2. QInv' BY <2>1, QFrame, Zenon
  <2>3. round[k] \in Rounds BY Zenon DEF FInv, FetcherTypes
  <2>4. /\ round'[k] = [round[k] EXCEPT !.idles = {}, !.throttled = TRUE]
        /\ \A j \in Kinds : j # k => round'[j] = round[j]
        /\ round' = [j \in Kinds |-> round'[j]]
    BY <2>1, ZenonT(30) DEF FInv, FetcherTypes
  <2>5. round'[k] \in Rounds /\ round'[k].idles = {} BY <2>3, <2>4, Zenon DEF Rounds
  <2>6. round' \in [Kinds -> Rounds] BY <2>4, <2>5, Zenon DEF FInv, FetcherTypes
  <2>7. FetcherTypes' BY <2>1, <2>6, Zenon DEF FInv, FetcherTypes
  <2>8. RoundIdle' BY <2>1, <2>4, <2>5, ZenonT(30) DEF FInv, RoundIdle
  <2>9. NeverCorrupt' BY <2>1, Zenon DEF FInv, NeverCorrupt
  <2> QED BY <2>2, <2>7, <2>8, <2>9, Zenon DEF FInv
<1> QED BY <1>1, <1>2, <1>3, <1>4, <1>5, <1>6, Zenon DEF Fetch

\* Every step of the queue, its fetchers and process preserves the invariant.
LEMMA NextInv == ASSUME IInv, [Next]_vars PROVE IInv'
<1>1. ASSUME NEW m \in 1..N, Schedule(m) PROVE IInv' BY <1>1, ScheduleInv, Zenon
<1>2. CASE HeadersEnd \/ NoResults \/ Wait \/ StateProcessed \/ Close
  <2>1. UNCHANGED <<tasks, sched, fpc, busy, round>>
    BY <1>2, Zenon DEF HeadersEnd, NoResults, Wait, StateProcessed, Close, peers, fetchers
  <2> QED BY <2>1, QFrame, FFrame, Zenon DEF IInv
<1>3. ASSUME NEW k \in Kinds, Fetch(k) PROVE IInv' BY <1>3, FetchInv, Zenon
<1>4. ASSUME NEW k \in Kinds, Reservation(k) PROVE IInv'
  <2>1. PICK p \in Peers, count \in 1..MaxCount : Reserve(k, p, count)
    BY <1>4, Zenon DEF Reservation
  <2>2. count \in Nat BY QueueAssumption
  <2> QED BY <2>1, <2>2, ReserveInv, Zenon
<1>5. ASSUME NEW k \in Kinds, NEW p \in Peers, Expire(k, p) PROVE IInv' BY <1>5, ExpireInv, Zenon
<1>6. ASSUME NEW k \in Kinds, NEW p \in Peers, Delivery(k, p) PROVE IInv'
  BY <1>6, DeliverInv, Zenon DEF Delivery
<1>7. ASSUME NEW k \in Kinds, NEW p \in Peers, Lose(k, p) PROVE IInv'
  <2>1. UNCHANGED <<tasks, sched, fpc, busy, round>> BY <1>7, Zenon DEF Lose, fetchers
  <2> QED BY <2>1, QFrame, FFrame, Zenon DEF IInv
<1>8. ASSUME NEW p \in Peers, Unregister(p) PROVE IInv'
  <2>1. UNCHANGED <<tasks, sched, fpc, busy, round>> BY <1>8, Zenon DEF Unregister, fetchers
  <2> QED BY <2>1, QFrame, FFrame, Zenon DEF IInv
<1>9. ASSUME NEW p \in Peers, Revoke(p) PROVE IInv' BY <1>9, RevokeInv, Zenon
<1>10. ASSUME NEW upto \in 1..(N + 1), TakeResults(upto) PROVE IInv' BY <1>10, TakeInv, Zenon
<1>11. CASE UNCHANGED vars
  <2>1. UNCHANGED <<tasks, sched, fpc, busy, round>> BY <1>11, Zenon DEF vars, peers, fetchers
  <2> QED BY <2>1, QFrame, FFrame, Zenon DEF IInv
<1> QED
  BY <1>1, <1>2, <1>3, <1>4, <1>5, <1>6, <1>7, <1>8, <1>9, <1>10, <1>11 DEF Next, Process

\* The inductive invariant holds in every reachable state.
THEOREM QueueInvariance == Spec => []IInv
<1>1. Init => IInv BY InitInv, Zenon
<1>2. IInv /\ [Next]_vars => IInv' BY NextInv, Zenon
<1> QED BY <1>1, <1>2, PTL DEF Spec

\* Whatever is answered late, in part or never, and whoever disconnects: every
\* scheduled part that was not handed out is in exactly one of the task queue,
\* the request of one peer, and the done pool.
THEOREM QueueExactlyOnePlace == Spec => []ExactlyOnePlace
<1>1. IInv => ExactlyOnePlace BY PlacedIsExact, Zenon DEF IInv, QInv
<1> QED BY <1>1, QueueInvariance, PTL

\* A cached result counts exactly the parts that are still missing.
THEOREM QueuePendingCounts == Spec => []PendingCounts
<1>1. IInv => PendingCounts BY Zenon DEF IInv, QInv
<1> QED BY <1>1, QueueInvariance, PTL

\* reserveHeaders never allocates beyond the result cache, deliver never finds
\* a slot missing, and no peer is asked while it has a request.
THEOREM QueueNeverCorrupt == Spec => []NeverCorrupt
<1>1. IInv => NeverCorrupt BY Zenon DEF IInv, FInv
<1> QED BY <1>1, QueueInvariance, PTL

-----------------------------------------------------------------------------
(* The queue implements the stream of results that process reads.          *)

\* Parts of one kind that are queued or requested, fit the cache and become
\* done are an arrival of the stream.
LEMMA ArriveStep ==
  ASSUME QInv, NEW k \in Kinds, NEW S,
         \A n \in S : /\ n \in Headers /\ n \notin done[k] /\ InCache(n)
                      /\ n \in queue[k] \/ \E p \in Peers : n \in pend[k][p],
         done' = [done EXCEPT ![k] = @ \cup S], UNCHANGED <<sched, offset>>
  PROVE  Stream!Next
<1>1. \A n \in S : n \in offset..sched /\ Needs(k, n) /\ n < offset + CacheSize
  <2> TAKE n \in S
  <2>1. offset <= n /\ n <= sched /\ Needs(k, n) BY Zenon DEF QInv, Placed
  <2>2. n \in Int BY DEF Headers
  <2> QED BY <2>1, <2>2 DEF InCache
<1>2. S \in SUBSET {n \in offset..sched : Needs(k, n) /\ n < offset + CacheSize} BY <1>1, Zenon
<1>3. S \cap done[k] = {} BY Zenon
<1>4. Stream!Arrive(k)
  <2> SUFFICES \E T \in SUBSET {n \in offset..sched : Needs(k, n) /\ n < offset + CacheSize} :
                 /\ T \cap done[k] = {}
                 /\ done' = [done EXCEPT ![k] = @ \cup T]
                 /\ UNCHANGED <<sched, offset>>
    BY Zenon DEF Stream!Arrive
  <2> QED BY <1>2, <1>3, Zenon
<1> QED BY <1>4, Zenon DEF Stream!Next

\* A reservation makes the empty parts among the popped headers done.
LEMMA ReserveStep ==
  ASSUME IInv, NEW k \in Kinds, NEW p \in Peers, NEW count \in Nat, Reserve(k, p, count)
  PROVE  Stream!Next \/ UNCHANGED <<sched, done, offset>>
<1> DEFINE popped == Popped(k, p, count)
           empty == popped \cap Noop[k]
           send == popped \ (Noop[k] \cup lacking[p])
<1>1. \A n \in popped : InCache(n) BY PoppedFits, Zenon DEF IInv, QInv
<1>2. \A n \in popped : n \in queue[k] /\ n \in Headers
  BY Zenon DEF Popped, IInv, QInv, QueueTypes
<1>a. fpc[k] = "round" /\ p \in round[k].idles BY Zenon DEF Reserve
<1>3. ~busy[k][p] BY <1>a, Zenon DEF IInv, FInv, RoundIdle
<1>4. CASE pend[k][p] # {}
  BY <1>4, Zenon DEF Reserve, tasks
<1>5. CASE pend[k][p] = {}
  <2>1. ~((\E n \in popped : ~InCache(n)) \/ (send # {} /\ busy[k][p])) BY <1>1, <1>3, Zenon
  <2>a. ReserveTasks(k, p, count) BY <1>5, <2>1, ZenonT(60) DEF Reserve, ReserveTasks
  <2>2. done' = [done EXCEPT ![k] = @ \cup empty] /\ UNCHANGED <<sched, offset>>
    BY <2>a, Zenon DEF ReserveTasks
  <2>3. \A n \in empty : n \in popped BY Zenon
  <2> HIDE DEF empty, popped
  <2>4. \A n \in empty : /\ n \in Headers /\ n \notin done[k] /\ InCache(n)
                         /\ n \in queue[k] \/ \E q \in Peers : n \in pend[k][q]
    BY <1>1, <1>2, <2>3, ZenonT(30) DEF IInv, QInv, Placed
  <2>5. QInv BY Zenon DEF IInv
  <2>6. Stream!Next BY <2>2, <2>4, <2>5, ArriveStep, Zenon
  <2> QED BY <2>6, Zenon
<1> QED BY <1>4, <1>5, Zenon

\* A delivery makes the accepted part of a request done.
LEMMA DeliverStep ==
  ASSUME IInv, NEW k \in Kinds, NEW p \in Peers, NEW reply, Deliver(k, p, reply)
  PROVE  Stream!Next \/ UNCHANGED <<sched, done, offset>>
<1> DEFINE accepted == Accepted(pend[k][p], reply)
<1>1. CASE UNCHANGED done
  <2>1. UNCHANGED <<sched, offset>> BY Zenon DEF Deliver
  <2> QED BY <1>1, <2>1, Zenon
<1>2. CASE ~UNCHANGED done
  <2>1. done' = [done EXCEPT ![k] = @ \cup accepted] /\ UNCHANGED <<sched, offset>>
    BY <1>2, Zenon DEF Deliver, DeliverReply
  <2>2. \A n \in accepted : n \in pend[k][p] /\ n \in Headers
    BY DEF Accepted, IInv, QInv, QueueTypes
  <2> HIDE DEF accepted
  <2>3. \A n \in accepted : n \notin done[k] BY <2>2, ZenonT(30) DEF IInv, QInv, Placed
  <2>4. \A n \in accepted : InCache(n)
    BY <2>2, ZenonT(30) DEF IInv, QInv, Slots, PendingCounts
  <2>5. \A n \in accepted : /\ n \in Headers /\ n \notin done[k] /\ InCache(n)
                            /\ n \in queue[k] \/ \E q \in Peers : n \in pend[k][q]
    BY <2>2, <2>3, <2>4, Zenon
  <2>6. QInv BY Zenon DEF IInv
  <2>7. Stream!Next BY <2>1, <2>5, <2>6, ArriveStep, Zenon
  <2> QED BY <2>7, Zenon
<1> QED BY <1>1, <1>2, Zenon

\* Taking results hands out complete blocks, and the pivot by itself.
LEMMA TakeStep ==
  ASSUME IInv, NEW upto \in 1..(N + 1), TakeResults(upto)
  PROVE  Stream!Next
<1>1. /\ upto > offset /\ offset' = upto /\ UNCHANGED sched
      /\ done' = [k \in Kinds |-> done[k] \ (offset..(upto - 1))]
      /\ \A n \in offset..(upto - 1) : ~StopsAt(n)
  BY Zenon DEF TakeResults, Processable
<1>2. offset \in Nat /\ upto \in Nat /\ sched \in Nat
  BY QueueAssumption, SMTT(60) DEF IInv, QInv, QueueTypes
<1>3. \A n \in offset..(upto - 1) : n \in Headers /\ result[n] = 0
  BY <1>1, Zenon DEF StopsAt, Ready
<1>4. \A n \in offset..(upto - 1) : n <= sched
  BY <1>3 DEF IInv, QInv, Slots, None
<1>5. upto \in (offset + 1)..(sched + 1)
  <2>1. upto - 1 \in offset..(upto - 1) BY <1>1, <1>2
  <2>2. upto - 1 <= sched BY <1>4, <2>1, Zenon
  <2> QED BY <1>1, <1>2, <2>2, SMTT(60)
<1>6. \A n \in offset..(upto - 1), k \in Kinds : Needs(k, n) => n \in done[k]
  <2> SUFFICES ASSUME NEW n \in offset..(upto - 1), NEW k \in Kinds, Needs(k, n)
               PROVE  n \in done[k]
    BY Zenon
  <2>1. n \in Headers /\ Missing("body", n) + Missing("receipt", n) = 0
    BY <1>3, SMTT(60) DEF IInv, QInv, PendingCounts, None
  <2>2. Missing("body", n) \in {0, 1} /\ Missing("receipt", n) \in {0, 1}
    BY Zenon DEF Missing
  <2>3. Missing("body", n) = 0 /\ Missing("receipt", n) = 0 BY <2>1, <2>2
  <2> QED BY <2>3 DEF Missing, Kinds
<1>7. \A n \in offset..(upto - 1) : Apart(n) => upto = offset + 1
  <2> SUFFICES ASSUME NEW n \in offset..(upto - 1), Fast, n = Pivot
               PROVE  upto = offset + 1
    BY Zenon DEF Apart
  <2>1. n \in Int /\ n >= offset /\ n <= upto - 1 BY <1>2
  <2>2. ~(n > offset) BY <1>1, Zenon DEF StopsAt
  <2>3. n = offset BY <1>2, <2>1, <2>2
  <2>4. ASSUME offset + 1 <= upto - 1 PROVE FALSE
    <3>1. n + 1 \in offset..(upto - 1) BY <1>2, <2>3, <2>4, SMTT(60)
    <3>2. ~StopsAt(n + 1) BY <1>1, <3>1, Zenon
    <3>3. n + 1 > offset /\ n + 1 = Pivot + 1 BY <1>2, <2>3, SMTT(60)
    <3> QED BY <3>2, <3>3, Zenon DEF StopsAt
  <2> QED BY <1>1, <1>2, <2>4
<1>8. Stream!HandOut(upto) BY <1>1, <1>6, <1>7, Zenon DEF Stream!HandOut
<1> QED BY <1>5, <1>8, Zenon DEF Stream!Next

\* Every step of the queue is a step of the stream or leaves it alone.
LEMMA StreamStep ==
  ASSUME IInv, [Next]_vars PROVE [Stream!Next]_(Stream!stream)
<1> SUFFICES Stream!Next \/ UNCHANGED <<sched, done, offset>> BY Zenon DEF Stream!stream
<1>1. ASSUME NEW m \in 1..N, Schedule(m) PROVE Stream!Next
  <2>1. sched' = sched + m /\ UNCHANGED <<done, offset>> BY <1>1, Zenon DEF Schedule
  <2>2. sched \in Nat /\ m \in Nat /\ m >= 1 BY QueueAssumption DEF IInv, QInv, QueueTypes
  <2>3. sched' > sched BY <2>1, <2>2, SMTT(60)
  <2> QED BY <2>1, <2>3, Zenon DEF Stream!Next, Stream!Extend
<1>2. CASE HeadersEnd \/ NoResults \/ Wait \/ StateProcessed \/ Close
  BY <1>2, Zenon DEF HeadersEnd, NoResults, Wait, StateProcessed, Close, tasks
<1>3. ASSUME NEW k \in Kinds, Fetch(k) PROVE UNCHANGED <<sched, done, offset>>
  BY <1>3, Zenon DEF Fetch, Tick, NothingPending, NothingLeft, StartRound, Throttle, EndRound,
                     Cancelled, tasks
<1>4. ASSUME NEW k \in Kinds, Reservation(k)
      PROVE  Stream!Next \/ UNCHANGED <<sched, done, offset>>
  <2>1. PICK p \in Peers, count \in 1..MaxCount : Reserve(k, p, count)
    BY <1>4, Zenon DEF Reservation
  <2>2. count \in Nat BY QueueAssumption
  <2> QED BY <2>1, <2>2, ReserveStep, Zenon
<1>5. ASSUME NEW k \in Kinds, NEW p \in Peers, Delivery(k, p)
      PROVE  Stream!Next \/ UNCHANGED <<sched, done, offset>>
  BY <1>5, DeliverStep, Zenon DEF Delivery
<1>6. ASSUME NEW k \in Kinds, NEW p \in Peers, Expire(k, p) \/ Lose(k, p)
      PROVE  UNCHANGED <<sched, done, offset>>
  BY <1>6, Zenon DEF Expire, Lose, tasks
<1>7. ASSUME NEW p \in Peers, Unregister(p) \/ Revoke(p)
      PROVE  UNCHANGED <<sched, done, offset>>
  BY <1>7, Zenon DEF Unregister, Revoke, tasks
<1>8. ASSUME NEW upto \in 1..(N + 1), TakeResults(upto) PROVE Stream!Next
  BY <1>8, TakeStep, Zenon
<1>9. CASE UNCHANGED vars BY <1>9, Zenon DEF vars, tasks
<1> QED
  BY <1>1, <1>2, <1>3, <1>4, <1>5, <1>6, <1>7, <1>8, <1>9, Zenon DEF Next, Process

\* The queue with all its peers, requests and time-outs implements the abstract
\* stream of results: blocks come out complete, in order and exactly once, the
\* pivot comes out alone, and parts stay within the result cache.
THEOREM QueueImplementsStream == Spec => ImplementsStream
<1>1. Init => Stream!Init BY Zenon DEF Init, Stream!Init
<1>2. IInv /\ [Next]_vars => [Stream!Next]_(Stream!stream) BY StreamStep, Zenon
<1> QED BY <1>1, <1>2, QueueInvariance, PTL DEF Spec, ImplementsStream, Stream!Spec

-----------------------------------------------------------------------------
(* process is never left asleep on a result, and gets everything.          *)

\* process is about to wait, or waits, only on an open queue whose next result is
\* not complete; the pivot is left to the state processor.
Asleep ==
  /\ wpc \in {"check", "park", "wait", "done"}
  /\ wpc \in {"park", "wait"} => ~closed /\ (~Ready(offset) \/ Apart(offset))

Final == {"failed", "corrupt", "done"}
NoneOut(k) == \A p \in Peers : pend[k][p] = {}

\* No header is to come, and nothing was pending before peers began to leave.
Emptied(k) == ended /\ (queue[k] = {} \/ registered # Peers)
Drained(k) == Emptied(k) /\ NoneOut(k)

\* Only the requests of peers that have left are revoked.
Leavers == revoking \subseteq Peers \ registered

\* Unless a fetcher failed: one that is done has drained its queue, the queue is
\* closed only when all are, and process has returned with nothing left to take.
Ending ==
  /\ \A k \in Kinds : fpc[k] = "drained" => Emptied(k)
  /\ \A k \in Kinds : fpc[k] = "done" => Failed \/ Drained(k)
  /\ closed => Failed \/ AllDone
  /\ wpc = "done" => closed /\ (Failed \/ StopsAt(offset))

EndInv == Asleep /\ Ending /\ Leavers

\* What a step may do to the end of a cycle.
Progress ==
  /\ \A k \in Kinds : fpc[k] \in Final => fpc'[k] = fpc[k]
  /\ \A k \in Kinds : fpc'[k] = "drained" => fpc[k] = "drained" \/ Emptied(k)'
  /\ \A k \in Kinds : fpc[k] = "drained" /\ Emptied(k) => Emptied(k)'
  /\ \A k \in Kinds : fpc'[k] = "done" => fpc[k] = "done" \/ closed \/ Drained(k)'
  /\ \A k \in Kinds : fpc[k] = "done" /\ Drained(k) => Drained(k)'
  /\ ended => ended'
  /\ closed => closed'
  /\ closed' => stateLeft' = stateLeft /\ (closed \/ Failed \/ AllDone)
  /\ wpc' = "done" =>
       wpc = "done" \/ (closed /\ StopsAt(offset) /\ UNCHANGED <<result, offset, closed>>)
  /\ wpc = "done" /\ (\A k \in Kinds : fpc[k] = "done") => UNCHANGED <<result, offset>>

\* What a step may do to process while it is about to wait or waits.
Wakes ==
  /\ wpc' \in {"check", "park", "wait", "done"}
  /\ wpc' \in {"park", "wait"} =>
       /\ closed' = closed
       /\ \/ wpc \in {"park", "wait"} /\ offset' = offset /\ (Ready(offset)' => Ready(offset))
          \/ ~closed /\ StopsAt(offset) /\ UNCHANGED <<result, offset>>

\* Signal wakes process; nobody else does.
LEMMA SignalWakes ==
  ASSUME Asleep, LockFree, Signal PROVE wpc' \in {"check", "done"} /\ (wpc' = "done" <=> wpc = "done")
BY Zenon DEF Asleep, LockFree, Signal

\* A step of that kind leaves process asleep only where it may be.
LEMMA AsleepStep == ASSUME QueueTypes, Asleep, Wakes PROVE Asleep'
<1>1. ASSUME wpc' \in {"park", "wait"}, wpc \in {"park", "wait"}, offset' = offset,
             Ready(offset)' => Ready(offset), closed' = closed
      PROVE  ~closed' /\ (~Ready(offset)' \/ Apart(offset)')
  BY <1>1, Zenon DEF Asleep, Apart
<1>2. ASSUME ~closed, closed' = closed, StopsAt(offset), UNCHANGED <<result, offset>>
      PROVE  ~closed' /\ (~Ready(offset)' \/ Apart(offset)')
  <2>1. ~(offset > offset)
    BY SMT DEF QueueTypes
  <2>2. ~Ready(offset) \/ Apart(offset)
    BY <1>2, <2>1, Zenon DEF StopsAt, Apart
  <2> QED BY <1>2, <2>2, Zenon DEF Ready, Apart
<1> QED BY <1>1, <1>2, Zenon DEF Asleep, Wakes

\* A step of that kind keeps what is known of the end of a cycle.
LEMMA EndingStep == ASSUME FetcherTypes, Ending, Progress PROVE Ending'
<1>1. Failed => Failed'
  BY Zenon DEF Progress, Failed, Final
<1>2. closed /\ ~Failed => AllDone /\ (\A k \in Kinds : fpc[k] = "done")
  BY Zenon DEF Ending, AllDone
<1>3. \A k \in Kinds : fpc'[k] = "done" => Failed' \/ Drained(k)'
  <2> SUFFICES ASSUME NEW k \in Kinds, fpc'[k] = "done", ~Failed' PROVE Drained(k)'
    BY Zenon
  <2>1. CASE fpc[k] = "done" BY <1>1, <2>1, Zenon DEF Ending, Progress
  <2>2. CASE fpc[k] # "done" BY <1>1, <1>2, <2>2, Zenon DEF Progress
  <2> QED BY <2>1, <2>2, Zenon
<1>4. \A k \in Kinds : fpc'[k] = "drained" => Emptied(k)'
  BY Zenon DEF Ending, Progress
<1>5. closed' => Failed' \/ AllDone'
  <2> SUFFICES ASSUME closed', ~Failed' PROVE AllDone'
    BY Zenon
  <2>1. AllDone BY <1>1, <1>2, Zenon DEF Progress
  <2>2. stateLeft' = stateLeft /\ ended' BY <2>1, Zenon DEF Progress, AllDone
  <2>3. \A k \in Kinds : fpc'[k] = "done" BY <2>1, Zenon DEF Progress, AllDone, Final
  <2> QED BY <2>1, <2>2, <2>3, Zenon DEF AllDone
<1>6. ASSUME wpc' = "done" PROVE closed' /\ (Failed' \/ StopsAt(offset)')
  <2>1. closed BY <1>6, Zenon DEF Progress, Ending
  <2>2. closed' /\ stateLeft' = stateLeft BY <2>1, Zenon DEF Progress
  <2>3. ASSUME ~Failed' PROVE StopsAt(offset) /\ UNCHANGED <<result, offset, stateLeft>>
    BY <1>1, <1>2, <1>6, <2>1, <2>2, <2>3, Zenon DEF Progress, Ending
  <2> QED BY <2>2, <2>3, Zenon DEF StopsAt, Ready, Allocated, InCache
<1> QED BY <1>3, <1>4, <1>5, <1>6, Zenon DEF Ending

\* A queue stays emptied when it is left alone and peers only leave.
LEMMA EmptiedStays ==
  ASSUME NEW k \in Kinds, queue'[k] = queue[k], ended => ended',
         registered' = registered \/ registered' # Peers
  PROVE  Emptied(k) => Emptied(k)'
BY Zenon DEF Emptied

\* Steps that touch neither the pools nor process: where fetchers go.
LEMMA GoEnds ==
  ASSUME FetcherTypes, Asleep, NEW k \in Kinds, NEW where, Go(k, where), fpc[k] \notin Final,
         UNCHANGED <<tasks, ended, stateLeft, wpc, closed, registered>>,
         where = "drained" => Emptied(k), where = "done" => closed \/ Drained(k)
  PROVE  Progress /\ Wakes
<1>1. fpc'[k] = where /\ \A j \in Kinds : j # k => fpc'[j] = fpc[j]
  BY Zenon DEF FetcherTypes, Go
<1>2. /\ queue' = queue /\ pend' = pend /\ result' = result /\ offset' = offset
      /\ (ended' <=> ended) /\ stateLeft' = stateLeft /\ wpc' = wpc /\ closed' = closed
      /\ (closed' <=> closed) /\ registered' = registered
  BY Zenon DEF tasks
<1>3. \A j \in Kinds : (Emptied(j)' <=> Emptied(j)) /\ (Drained(j)' <=> Drained(j))
  BY <1>2, Zenon DEF Emptied, Drained, NoneOut
<1>4. Ready(offset)' <=> Ready(offset)
  BY <1>2, Zenon DEF Ready
<1>5. "done" \in Final
  BY Zenon DEF Final
<1>6. Progress
  BY <1>1, <1>2, <1>3, <1>5, Zenon DEF Progress
<1>7. Wakes
  BY <1>2, <1>4, Zenon DEF Wakes, Asleep
<1> QED BY <1>6, <1>7, Zenon

\* So do steps that leave the fetchers where they are as well.
LEMMA StillEnds ==
  ASSUME Asleep, UNCHANGED <<tasks, ended, stateLeft, wpc, closed, fpc>>,
         registered' = registered \/ registered' # Peers
  PROVE  Progress /\ Wakes
<1>1. /\ queue' = queue /\ pend' = pend /\ result' = result /\ offset' = offset
      /\ (ended' <=> ended) /\ stateLeft' = stateLeft /\ wpc' = wpc /\ closed' = closed
      /\ (closed' <=> closed) /\ fpc' = fpc
  BY Zenon DEF tasks
<1>2. \A j \in Kinds : (Emptied(j) => Emptied(j)') /\ (Drained(j) => Drained(j)')
  BY <1>1, EmptiedStays, Zenon DEF Drained, NoneOut
<1>3. Ready(offset)' <=> Ready(offset)
  BY <1>1, Zenon DEF Ready
<1>4. Progress
  BY <1>1, <1>2, Zenon DEF Progress
<1>5. Wakes
  BY <1>1, <1>3, Zenon DEF Wakes, Asleep
<1> QED BY <1>4, <1>5, Zenon

\* The steps of fetchParts: a fetcher ends when it has drained its queue after the
\* last wake signal, or when the cycle is cancelled.
LEMMA FetchEnds ==
  ASSUME FetcherTypes, Asleep, Ending, NEW k \in Kinds, Fetch(k) PROVE Progress /\ Wakes
<1>0. /\ "select" \notin Final /\ "update" \notin Final /\ "round" \notin Final
      /\ "drained" \notin Final /\ "drained" # "done"
      /\ "select" # "done" /\ "failed" # "done" /\ "update" # "done" /\ "round" # "done"
      /\ "select" # "drained" /\ "failed" # "drained" /\ "update" # "drained"
      /\ "round" # "drained" /\ "done" # "drained"
  BY Zenon DEF Final
<1>1. CASE Tick(k)
  <2>1. \E where : Go(k, where) /\ where # "done" /\ where # "drained"
    BY <1>0, <1>1, Zenon DEF Tick
  <2>2. fpc[k] \notin Final /\ UNCHANGED <<tasks, ended, stateLeft, wpc, closed, registered>>
    BY <1>0, <1>1, Zenon DEF Tick, peers, links
  <2> QED BY <2>1, <2>2, GoEnds, Zenon
<1>2. CASE NothingPending(k)
  <2>1. \E where : Go(k, where) /\ where # "done" /\ (where = "drained" => ended)
    BY <1>0, <1>2, Zenon DEF NothingPending
  <2>2. /\ fpc[k] \notin Final /\ queue[k] = {}
        /\ UNCHANGED <<tasks, ended, stateLeft, wpc, closed, registered>>
    BY <1>0, <1>2, Zenon DEF NothingPending, peers, links
  <2>3. ended => Emptied(k) BY <2>2, Zenon DEF Emptied
  <2> QED BY <2>1, <2>2, <2>3, GoEnds, Zenon
<1>3. CASE NothingLeft(k)
  <2>1. \E where : Go(k, where) /\ where # "drained" /\ (where = "done" => ~InFlight(k))
    BY <1>0, <1>3, Zenon DEF NothingLeft
  <2>2. /\ fpc[k] = "drained" /\ fpc[k] \notin Final
        /\ UNCHANGED <<tasks, ended, stateLeft, wpc, closed, registered>>
    BY <1>0, <1>3, Zenon DEF NothingLeft, peers, links
  <2>3. ~InFlight(k) => Drained(k)
    BY <2>2, Zenon DEF Ending, InFlight, Drained, NoneOut
  <2> QED BY <2>1, <2>2, <2>3, GoEnds, Zenon
<1>4. CASE EndRound(k)
  <2>1. \E where : Go(k, where) /\ where # "done" /\ where # "drained"
    BY <1>0, <1>4, Zenon DEF EndRound
  <2>2. fpc[k] \notin Final /\ UNCHANGED <<tasks, ended, stateLeft, wpc, closed, registered>>
    BY <1>0, <1>4, Zenon DEF EndRound, peers, links
  <2> QED BY <2>1, <2>2, GoEnds, Zenon
<1>5. CASE Cancelled(k)
  <2>1. /\ Go(k, "done") /\ closed /\ fpc[k] \notin Final
        /\ UNCHANGED <<tasks, ended, stateLeft, wpc, closed, registered>>
    BY <1>0, <1>5, Zenon DEF Cancelled, peers, links
  <2> QED BY <2>1, GoEnds, Zenon
<1>6. CASE StartRound(k)
  <2>1. /\ Go(k, "round") /\ fpc[k] \notin Final
        /\ UNCHANGED <<tasks, ended, stateLeft, wpc, closed, registered>>
    BY <1>0, <1>6, Zenon DEF StartRound, peers, links
  <2> QED BY <1>0, <2>1, GoEnds, Zenon
<1>7. CASE Throttle(k)
  <2>1. UNCHANGED <<tasks, ended, stateLeft, wpc, closed, fpc, registered>>
    BY <1>7, Zenon DEF Throttle, peers, links
  <2> QED BY <2>1, StillEnds, Zenon
<1> QED BY <1>1, <1>2, <1>4, <1>5, <1>6, <1>7, <1>3, Zenon DEF Fetch

\* A step of one fetcher on the queue under q.lock, after which process is awake if
\* a result may have become complete.
LEMMA WorkEnds ==
  ASSUME Asleep, LockFree, NEW k \in Kinds, fpc[k] \notin Final \cup {"drained"},
         fpc'[k] \notin {"done", "drained"},
         \A j \in Kinds : j # k => /\ fpc'[j] = fpc[j] /\ queue'[j] = queue[j]
                                   /\ pend'[j] = pend[j],
         UNCHANGED <<ended, stateLeft, closed, offset>>,
         registered' = registered \/ registered' # Peers,
         \/ UNCHANGED wpc /\ (Ready(offset)' => Ready(offset))
         \/ Signal
  PROVE  Progress /\ Wakes
<1>0. "done" \in Final BY Zenon DEF Final
<1>1. \A j \in Kinds : j # k => (Emptied(j) => Emptied(j)') /\ (Drained(j) => Drained(j)')
  BY EmptiedStays, Zenon DEF Drained, NoneOut
<1>2. wpc' = "done" => wpc = "done"
  BY SignalWakes, Zenon
<1>3. ~(\A j \in Kinds : fpc[j] = "done")
  BY <1>0, Zenon
<1>4. Progress
  BY <1>0, <1>1, <1>2, <1>3, Zenon DEF Progress
<1>5. Wakes
  <2>1. CASE UNCHANGED wpc /\ (Ready(offset)' => Ready(offset))
    BY <2>1, Zenon DEF Wakes, Asleep
  <2>2. CASE Signal
    <3>1. wpc' \in {"check", "done"} BY <2>2, SignalWakes, Zenon
    <3> QED BY <3>1, Zenon DEF Wakes
  <2> QED BY <2>1, <2>2, Zenon
<1> QED BY <1>4, <1>5, Zenon

\* A reservation completes a result only with an empty part, and then it signals.
LEMMA ReserveEnds ==
  ASSUME IInv, Asleep, NEW k \in Kinds, NEW p \in Peers, NEW count \in Nat, Reserve(k, p, count)
  PROVE  Progress /\ Wakes
<1> DEFINE popped == Popped(k, p, count)
           empty == popped \cap Noop[k]
           send == popped \ (Noop[k] \cup lacking[p])
<1>1. /\ LockFree /\ fpc[k] = "round" /\ UNCHANGED <<ended, stateLeft, closed, registered>>
  BY Zenon DEF Reserve
<1>2. fpc[k] \notin Final \cup {"drained"} /\ "round" \notin {"done", "drained"}
      /\ "corrupt" \notin {"done", "drained"}
  BY <1>1, Zenon DEF Final
<1>3. ASSUME UNCHANGED <<tasks, wpc>>, UNCHANGED fpc \/ Go(k, "corrupt") PROVE Progress /\ Wakes
  <2>1. queue' = queue /\ pend' = pend /\ result' = result /\ offset' = offset
    BY <1>3, Zenon DEF tasks
  <2>2. fpc'[k] \notin {"done", "drained"} /\ \A j \in Kinds : j # k => fpc'[j] = fpc[j]
    BY <1>1, <1>2, <1>3, Zenon DEF IInv, FInv, FetcherTypes, Go
  <2>3. Ready(offset)' => Ready(offset) BY <2>1, Zenon DEF Ready
  <2> QED BY <1>1, <1>2, <1>3, <2>1, <2>2, <2>3, WorkEnds, Zenon
<1>4. CASE pend[k][p] # {}
  <2>1. UNCHANGED <<tasks, fpc, wpc>> BY <1>4, Zenon DEF Reserve
  <2> QED BY <1>3, <2>1, Zenon
<1>5. CASE pend[k][p] = {} /\ ((\E n \in popped : ~InCache(n)) \/ (send # {} /\ busy[k][p]))
  <2>1. UNCHANGED <<tasks, wpc>> /\ Go(k, "corrupt") BY <1>5, Zenon DEF Reserve
  <2> QED BY <1>3, <2>1, Zenon
<1>6. CASE pend[k][p] = {} /\ ~((\E n \in popped : ~InCache(n)) \/ (send # {} /\ busy[k][p]))
  <2>1. /\ queue' = [queue EXCEPT ![k] = @ \ (empty \cup send)]
        /\ result' = [n \in Headers |->
             IF n \in popped
               THEN (IF result[n] = None THEN Components(n) ELSE result[n])
                      - (IF n \in empty THEN 1 ELSE 0)
               ELSE result[n]]
        /\ pend' = [pend EXCEPT ![k][p] = send]
        /\ IF empty # {} THEN Signal ELSE UNCHANGED wpc
        /\ offset' = offset /\ fpc' = fpc
    BY <1>6, ZenonT(60) DEF Reserve
  <2> HIDE DEF popped, empty, send
  <2>2. \A j \in Kinds : j # k => queue'[j] = queue[j] /\ pend'[j] = pend[j] /\ fpc'[j] = fpc[j]
    BY <2>1, Zenon DEF IInv, QInv, QueueTypes
  <2>3. fpc'[k] \notin {"done", "drained"} BY <1>1, <1>2, <2>1, Zenon
  <2>4. CASE empty # {}
    <3>1. Signal BY <2>1, <2>4, Zenon
    <3> QED BY <1>1, <1>2, <2>1, <2>2, <2>3, <3>1, WorkEnds, Zenon
  <2>5. CASE empty = {}
    <3>1. UNCHANGED wpc BY <2>1, <2>5, ZenonT(60)
    <3>2. ASSUME NEW n \in Headers, result'[n] = 0 PROVE result[n] = 0
      <4>1. result'[n] = IF n \in popped
               THEN (IF result[n] = None THEN Components(n) ELSE result[n]) - 0 ELSE result[n]
        BY <2>1, <2>5, Zenon
      <4>2. result[n] \in Int /\ Components(n) \in {1, 2}
        BY Zenon DEF IInv, QInv, QueueTypes, Components
      <4> QED BY <3>2, <4>1, <4>2, SMT
    <3>3. Ready(offset)' => Ready(offset)
      BY <2>1, <3>2, Zenon DEF Ready
    <3> QED BY <1>1, <1>2, <2>1, <2>2, <2>3, <3>1, <3>3, WorkEnds, Zenon
  <2> QED BY <2>4, <2>5, Zenon
<1> QED BY <1>4, <1>5, <1>6, Zenon

\* A delivery that completes a part signals.
LEMMA DeliverEnds ==
  ASSUME IInv, Asleep, NEW k \in Kinds, NEW p \in Peers, NEW reply, Deliver(k, p, reply)
  PROVE  Progress /\ Wakes
<1> DEFINE accepted == Accepted(pend[k][p], reply)
<1>1. /\ LockFree /\ fpc[k] = "select" /\ UNCHANGED <<ended, stateLeft, closed, registered>>
      /\ offset' = offset
  BY Zenon DEF Deliver
<1>2. fpc[k] \notin Final \cup {"drained"} /\ "select" \notin {"done", "drained"}
      /\ "corrupt" \notin {"done", "drained"}
  BY <1>1, Zenon DEF Final
<1>3. CASE p \notin registered
  <2>1. queue' = queue /\ pend' = pend /\ result' = result /\ fpc' = fpc /\ UNCHANGED wpc
    BY <1>3, Zenon DEF Deliver
  <2>2. Ready(offset)' => Ready(offset) BY <1>1, <2>1, Zenon DEF Ready
  <2>3. fpc'[k] \notin {"done", "drained"} BY <1>1, <1>2, <2>1, Zenon
  <2> QED BY <1>1, <1>2, <2>1, <2>2, <2>3, WorkEnds, Zenon
<1>4. CASE p \in registered
  <2>0. DeliverReply(k, p, reply) BY <1>4, Zenon DEF Deliver
  <2>1. pend' = [pend EXCEPT ![k][p] = {}]
    BY <2>0, Zenon DEF DeliverReply
  <2>2. \A j \in Kinds : j # k => pend'[j] = pend[j]
    BY <2>1, Zenon DEF IInv, QInv, QueueTypes
  <2>3. CASE \E n \in accepted : ~InCache(n) \/ result[n] = None
    <3>1. Go(k, "corrupt") /\ queue' = queue /\ result' = result /\ UNCHANGED wpc
      BY <2>0, <2>3, Zenon DEF DeliverReply
    <3>2. fpc'[k] \notin {"done", "drained"} /\ \A j \in Kinds : j # k => fpc'[j] = fpc[j]
      BY <1>2, <3>1, Zenon DEF IInv, FInv, FetcherTypes, Go
    <3>3. Ready(offset)' => Ready(offset) BY <1>1, <3>1, Zenon DEF Ready
    <3> QED BY <1>1, <1>2, <2>2, <3>1, <3>2, <3>3, WorkEnds, Zenon
  <2>4. CASE ~ \E n \in accepted : ~InCache(n) \/ result[n] = None
    <3>1. /\ queue' = [queue EXCEPT ![k] = @ \cup Requeued(pend[k][p], accepted)]
          /\ result' = [n \in Headers |-> IF n \in accepted THEN result[n] - 1 ELSE result[n]]
          /\ IF accepted # {} THEN Signal ELSE UNCHANGED wpc
          /\ fpc' = fpc
      BY <2>0, <2>4, Zenon DEF DeliverReply
    <3> HIDE DEF accepted
    <3>2. \A j \in Kinds : j # k => queue'[j] = queue[j] /\ fpc'[j] = fpc[j]
      BY <3>1, Zenon DEF IInv, QInv, QueueTypes
    <3>3. fpc'[k] \notin {"done", "drained"} BY <1>1, <1>2, <3>1, Zenon
    <3>4. CASE accepted # {}
      <4>1. Signal BY <3>1, <3>4, Zenon
      <4> QED BY <1>1, <1>2, <2>2, <3>2, <3>3, <4>1, WorkEnds, Zenon
    <3>5. CASE accepted = {}
      <4>1. UNCHANGED wpc BY <3>1, <3>5, Zenon
      <4>2. \A n \in Headers : result'[n] = result[n] BY <3>1, <3>5, Zenon
      <4>3. Ready(offset)' => Ready(offset) BY <1>1, <4>2, Zenon DEF Ready
      <4> QED BY <1>1, <1>2, <2>2, <3>2, <3>3, <4>1, <4>3, WorkEnds, Zenon
    <3> QED BY <3>4, <3>5, Zenon
  <2> QED BY <2>3, <2>4, Zenon
<1> QED BY <1>3, <1>4, Zenon

\* Requests that time out go back to a queue that is not drained, and those of a peer
\* that has left may go back to any.
LEMMA GiveBackEnds ==
  ASSUME IInv, Asleep, Leavers, NEW p \in Peers, Revoke(p) \/ \E k \in Kinds : Expire(k, p)
  PROVE  Progress /\ Wakes
<1>1. CASE Revoke(p)
  <2>1. /\ queue' = [k \in Kinds |-> queue[k] \cup pend[k][p]]
        /\ pend' = [k \in Kinds |-> [pend[k] EXCEPT ![p] = {}]]
        /\ result' = result /\ offset' = offset /\ (ended' <=> ended) /\ fpc' = fpc
        /\ stateLeft' = stateLeft /\ wpc' = wpc /\ closed' = closed /\ (closed' <=> closed)
        /\ registered' = registered /\ p \in revoking
    BY <1>1, Zenon DEF Revoke, fetchers
  <2>2. registered' # Peers BY <2>1, Zenon DEF Leavers
  <2>3. ASSUME NEW k \in Kinds, Drained(k) PROVE Drained(k)'
    <3>1. Emptied(k)' BY <2>1, <2>3, <2>2, Zenon DEF Drained, Emptied
    <3>2. pend'[k] = [pend[k] EXCEPT ![p] = {}] /\ pend[k] \in [Peers -> SUBSET Headers]
      BY <2>1, Zenon DEF IInv, QInv, QueueTypes
    <3>3. \A q \in Peers : pend'[k][q] = {}
      BY <2>3, <3>2, Zenon DEF Drained, NoneOut
    <3> QED BY <3>1, <3>3, Zenon DEF Drained, NoneOut
  <2>4. Ready(offset)' <=> Ready(offset) BY <2>1, Zenon DEF Ready
  <2>5. \A k \in Kinds : Emptied(k) => Emptied(k)' BY <2>1, <2>2, Zenon DEF Emptied
  <2>6. Progress BY <2>1, <2>3, <2>5, Zenon DEF Progress
  <2>7. Wakes BY <2>1, <2>4, Zenon DEF Wakes, Asleep
  <2> QED BY <2>6, <2>7, Zenon
<1>2. ASSUME NEW k \in Kinds, Expire(k, p) PROVE Progress /\ Wakes
  <2>1. /\ LockFree /\ fpc[k] = "update"
        /\ queue' = [queue EXCEPT ![k] = @ \cup pend[k][p]]
        /\ pend' = [pend EXCEPT ![k][p] = {}]
        /\ result' = result /\ offset' = offset /\ fpc' = fpc
        /\ UNCHANGED <<ended, stateLeft, closed>> /\ UNCHANGED wpc
    BY <1>2, Zenon DEF Expire, fetchers
  <2>2. registered' = registered \/ registered' # Peers
    BY <1>2, Zenon DEF Expire
  <2>3. fpc[k] \notin Final \cup {"drained"} /\ fpc'[k] \notin {"done", "drained"}
    BY <2>1, Zenon DEF Final
  <2>4. \A j \in Kinds : j # k => queue'[j] = queue[j] /\ pend'[j] = pend[j] /\ fpc'[j] = fpc[j]
    BY <2>1, Zenon DEF IInv, QInv, QueueTypes
  <2>5. Ready(offset)' => Ready(offset) BY <2>1, Zenon DEF Ready
  <2> QED BY <2>1, <2>3, <2>4, <2>5, <2>2, WorkEnds, Zenon
<1> QED BY <1>1, <1>2, Zenon

\* New headers come only before the last wake signal, on an open queue.
LEMMA HeaderEnds ==
  ASSUME Asleep, HeadersEnd \/ \E m \in 1..N : Schedule(m) PROVE Progress /\ Wakes
<1>0. /\ ~ended /\ ~closed
      /\ UNCHANGED <<pend, result, offset, fpc, wpc, closed>>
  BY Zenon DEF HeadersEnd, Schedule, tasks, fetchers
<1>1. /\ ~ended /\ ~closed
      /\ pend' = pend /\ result' = result /\ offset' = offset /\ fpc' = fpc
      /\ wpc' = wpc /\ closed' = closed /\ (closed' <=> closed)
  BY <1>0, Zenon
<1>2. Ready(offset)' <=> Ready(offset) BY <1>1, Zenon DEF Ready
<1>3. Progress BY <1>1, Zenon DEF Progress, Drained, Emptied
<1>4. Wakes BY <1>1, <1>2, Zenon DEF Wakes, Asleep
<1> QED BY <1>3, <1>4, Zenon

\* process itself: it waits after it has found nothing to take, under one hold of
\* q.lock.
LEMMA ProcessEnds ==
  ASSUME Asleep, Process PROVE Progress /\ Wakes
<1>0. "check" \notin {"park", "wait", "done"} /\ "park" # "done" /\ "wait" # "done"
  BY Zenon
<1>1. CASE \E upto \in 1..(N + 1) : TakeResults(upto)
  <2>0. wpc = "check" /\ UNCHANGED <<wpc, queue, pend, fpc, ended, stateLeft, closed, registered>>
    BY <1>1, Zenon DEF TakeResults, fetchers, peers, links
  <2>1. /\ wpc = "check" /\ wpc' = wpc /\ queue' = queue /\ pend' = pend /\ fpc' = fpc
        /\ (ended' <=> ended) /\ stateLeft' = stateLeft /\ closed' = closed
        /\ (closed' <=> closed) /\ registered' = registered
    BY <2>0, Zenon
  <2>2. \A k \in Kinds : (Emptied(k)' <=> Emptied(k)) /\ (Drained(k)' <=> Drained(k))
    BY <2>1, Zenon DEF Emptied, Drained, NoneOut
  <2>3. Progress BY <1>0, <2>1, <2>2, Zenon DEF Progress
  <2>4. Wakes BY <1>0, <2>1, Zenon DEF Wakes
  <2> QED BY <2>3, <2>4, Zenon
<1>2. CASE NoResults \/ Wait
  <2>0. UNCHANGED <<result, offset, queue, pend, fpc, ended, stateLeft, closed, registered>>
    BY <1>2, Zenon DEF NoResults, Wait, tasks, fetchers, peers, links
  <2>1. /\ result' = result /\ offset' = offset /\ queue' = queue /\ pend' = pend /\ fpc' = fpc
        /\ (ended' <=> ended) /\ stateLeft' = stateLeft /\ closed' = closed
        /\ (closed' <=> closed) /\ registered' = registered
    BY <2>0, Zenon
  <2>2. \A k \in Kinds : (Emptied(k)' <=> Emptied(k)) /\ (Drained(k)' <=> Drained(k))
    BY <2>1, Zenon DEF Emptied, Drained, NoneOut
  <2>3. Ready(offset)' <=> Ready(offset) BY <2>1, Zenon DEF Ready
  <2>4. CASE NoResults
    <3>1. wpc = "check" /\ StopsAt(offset) /\ wpc' = IF closed THEN "done" ELSE "park"
      BY <2>4, Zenon DEF NoResults
    <3>2. Progress BY <1>0, <2>1, <2>2, <3>1, Zenon DEF Progress
    <3>3. Wakes BY <1>0, <2>1, <3>1, Zenon DEF Wakes
    <3> QED BY <3>2, <3>3, Zenon
  <2>5. CASE Wait
    <3>1. wpc = "park" /\ wpc' = "wait" BY <2>5, Zenon DEF Wait
    <3>2. Progress BY <1>0, <2>1, <2>2, <3>1, Zenon DEF Progress
    <3>3. Wakes BY <1>0, <2>1, <2>3, <3>1, Zenon DEF Wakes
    <3> QED BY <3>2, <3>3, Zenon
  <2> QED BY <1>2, <2>4, <2>5, Zenon
<1> QED BY <1>1, <1>2, Zenon DEF Process

\* The state processor works on an open queue only, and Close wakes process.
LEMMA CloseEnds ==
  ASSUME Asleep, StateProcessed \/ Close PROVE Progress /\ Wakes
<1>0. UNCHANGED <<result, offset, queue, pend, fpc, ended, registered>> /\ ~closed /\ Signal
  BY Zenon DEF StateProcessed, Close, tasks, fetchers, peers, links
<1>1. /\ result' = result /\ offset' = offset /\ queue' = queue /\ pend' = pend /\ fpc' = fpc
      /\ (ended' <=> ended) /\ ~closed /\ Signal /\ registered' = registered
  BY <1>0, Zenon
<1>2. \A k \in Kinds : (Emptied(k)' <=> Emptied(k)) /\ (Drained(k)' <=> Drained(k))
  BY <1>1, Zenon DEF Emptied, Drained, NoneOut
<1>3. Ready(offset)' <=> Ready(offset) BY <1>1, Zenon DEF Ready
<1>4. /\ wpc' \in {"check", "park", "done"} /\ (wpc' = "done" => wpc = "done")
      /\ (wpc' = "park" => wpc = "park")
  BY <1>1, Zenon DEF Signal, Asleep
<1>5. CASE StateProcessed
  <2>1. closed' = closed /\ (closed' <=> closed) BY <1>5, Zenon DEF StateProcessed
  <2>2. Progress BY <1>1, <1>2, <1>4, <2>1, Zenon DEF Progress
  <2>3. wpc' \in {"park", "wait"} => wpc = "park" BY <1>4, Zenon
  <2>4. Wakes BY <1>1, <1>3, <1>4, <2>1, <2>3, Zenon DEF Wakes
  <2> QED BY <2>2, <2>4, Zenon
<1>6. CASE Close
  <2>1. LockFree /\ (Failed \/ AllDone) /\ stateLeft' = stateLeft BY <1>6, Zenon DEF Close
  <2>2. wpc' \in {"check", "done"} BY <1>1, <2>1, SignalWakes, Zenon
  <2>3. wpc' \notin {"park", "wait"} BY <2>2, Zenon
  <2>4. Progress BY <1>1, <1>2, <1>4, <2>1, Zenon DEF Progress
  <2>5. Wakes BY <2>2, <2>3, Zenon DEF Wakes
  <2> QED BY <2>4, <2>5, Zenon
<1> QED BY <1>5, <1>6, Zenon

\* Only peers that leave the peer set have their requests revoked.
LEMMA LeaversStep == ASSUME Leavers, [Next]_vars PROVE Leavers'
<1>1. ASSUME NEW p \in Peers,
             UNCHANGED <<registered, revoking>>
               \/ (registered' = registered \ {p} /\ revoking' = revoking \cup {p})
               \/ (registered' = registered /\ revoking' = revoking \ {p})
      PROVE  Leavers'
  BY <1>1, Zenon DEF Leavers
<1>0. CASE UNCHANGED <<registered, revoking>> BY <1>0, Zenon DEF Leavers
<1>2. CASE \E m \in 1..N : Schedule(m) BY <1>0, <1>2, Zenon DEF Schedule, peers, links
<1>3. CASE HeadersEnd BY <1>0, <1>3, Zenon DEF HeadersEnd, peers, links
<1>4. ASSUME NEW k \in Kinds, Fetch(k) PROVE Leavers'
  <2>1. UNCHANGED <<registered, revoking>>
    BY <1>4, Zenon DEF Fetch, Tick, NothingPending, NothingLeft, StartRound, Throttle, EndRound,
                       Cancelled, peers, links
  <2> QED BY <1>0, <2>1, Zenon
<1>5. ASSUME NEW k \in Kinds, Reservation(k) PROVE Leavers'
  <2>1. UNCHANGED <<registered, revoking>> BY <1>5, Zenon DEF Reservation, Reserve
  <2> QED BY <1>0, <2>1, Zenon
<1>6. ASSUME NEW k \in Kinds, NEW p \in Peers, Expire(k, p) PROVE Leavers'
  BY <1>1, <1>6, Zenon DEF Expire
<1>7. ASSUME NEW k \in Kinds, NEW p \in Peers, Delivery(k, p) \/ Lose(k, p) PROVE Leavers'
  <2>1. UNCHANGED <<registered, revoking>> BY <1>7, Zenon DEF Delivery, Deliver, Lose
  <2> QED BY <1>0, <2>1, Zenon
<1>8. ASSUME NEW p \in Peers, Unregister(p) \/ Revoke(p) PROVE Leavers'
  BY <1>1, <1>8, Zenon DEF Unregister, Revoke
<1>9. CASE Process \/ StateProcessed \/ Close
  <2>1. UNCHANGED <<registered, revoking>>
    BY <1>9, Zenon DEF Process, TakeResults, NoResults, Wait, StateProcessed, Close, peers, links
  <2> QED BY <1>0, <2>1, Zenon
<1>10. CASE UNCHANGED vars BY <1>0, <1>10, Zenon DEF vars, peers, links
<1> QED
  BY <1>2, <1>3, <1>4, <1>5, <1>6, <1>7, <1>8, <1>9, <1>10, Zenon DEF Next

\* Every step, by its action.
LEMMA EndNext == ASSUME IInv, EndInv, [Next]_vars PROVE EndInv'
<1> SUFFICES Progress /\ Wakes
  BY AsleepStep, EndingStep, LeaversStep, Zenon DEF EndInv, IInv, QInv, FInv
<1>0. Asleep /\ Ending /\ Leavers BY Zenon DEF EndInv
<1>1. CASE HeadersEnd \/ \E m \in 1..N : Schedule(m) BY <1>0, <1>1, HeaderEnds, Zenon
<1>2. ASSUME NEW k \in Kinds, Fetch(k) PROVE Progress /\ Wakes
  BY <1>0, <1>2, FetchEnds, Zenon DEF IInv, FInv
<1>3. ASSUME NEW k \in Kinds, Reservation(k) PROVE Progress /\ Wakes
  <2>1. PICK p \in Peers, count \in 1..MaxCount : Reserve(k, p, count)
    BY <1>3, ZenonT(60) DEF Reservation
  <2>2. count \in Nat BY QueueAssumption, SMT
  <2> QED BY <1>0, <2>1, <2>2, ReserveEnds, Zenon
<1>4. ASSUME NEW k \in Kinds, NEW p \in Peers, Delivery(k, p) PROVE Progress /\ Wakes
  <2>1. PICK reply \in Replies(Head(net[k][p])) : Deliver(k, p, reply)
    BY <1>4, Zenon DEF Delivery
  <2> QED BY <1>0, <2>1, DeliverEnds, Zenon
<1>5. ASSUME NEW k \in Kinds, NEW p \in Peers, Expire(k, p) PROVE Progress /\ Wakes
  BY <1>0, <1>5, GiveBackEnds, Zenon
<1>6. ASSUME NEW p \in Peers, Revoke(p) PROVE Progress /\ Wakes
  BY <1>0, <1>6, GiveBackEnds, Zenon
<1>7. ASSUME NEW k \in Kinds, NEW p \in Peers, Lose(k, p) PROVE Progress /\ Wakes
  <2>1. UNCHANGED <<tasks, ended, stateLeft, wpc, closed, fpc, registered>>
    BY <1>7, Zenon DEF Lose, fetchers
  <2> QED BY <1>0, <2>1, StillEnds, Zenon
<1>8. ASSUME NEW p \in Peers, Unregister(p) PROVE Progress /\ Wakes
  <2>1. UNCHANGED <<tasks, ended, stateLeft, wpc, closed, fpc>>
    BY <1>8, Zenon DEF Unregister, fetchers
  <2>2. registered' # Peers BY <1>8, Zenon DEF Unregister
  <2> QED BY <1>0, <2>1, <2>2, StillEnds, Zenon
<1>9. CASE Process BY <1>0, <1>9, ProcessEnds, Zenon
<1>10. CASE StateProcessed \/ Close BY <1>0, <1>10, CloseEnds, Zenon
<1>11. CASE UNCHANGED vars
  <2>1. UNCHANGED <<tasks, ended, stateLeft, wpc, closed, fpc, registered>>
    BY <1>11, Zenon DEF vars, fetchers, peers, links
  <2> QED BY <1>0, <2>1, StillEnds, Zenon
<1> QED
  BY <1>1, <1>2, <1>3, <1>4, <1>5, <1>6, <1>7, <1>8, <1>9, <1>10, <1>11, ZenonT(60) DEF Next

\* What is known of process and of the end of a cycle holds in every reachable state.
THEOREM QueueEndInvariance == Spec => []EndInv
<1>1. Init => EndInv
  <2> SUFFICES ASSUME Init PROVE EndInv
    BY Zenon
  <2>1. /\ wpc = "check" /\ ~closed /\ \A k \in Kinds : fpc[k] = "select"
        /\ revoking = {}
    BY Zenon DEF Init
  <2>2. Asleep BY <2>1, Zenon DEF Asleep
  <2>3. wpc # "done" /\ \A k \in Kinds : fpc[k] # "done" /\ fpc[k] # "drained"
    BY <2>1, Zenon
  <2>4. Ending BY <2>1, <2>3, Zenon DEF Ending
  <2>5. Leavers BY <2>1, Zenon DEF Leavers
  <2> QED BY <2>2, <2>4, <2>5, Zenon DEF EndInv
<1>2. IInv /\ EndInv /\ [Next]_vars => EndInv' BY EndNext, Zenon
<1> QED BY <1>1, <1>2, QueueInvariance, PTL DEF Spec

\* process never sleeps on a result that it could take, nor on a closed queue: every
\* delivery, empty part and Close that ends its wait comes with a signal it cannot
\* miss (WaitResults; the pivot is left to the state processor).
THEOREM QueueNoLostWakeup == Spec => []NoLostWakeup
<1>1. EndInv => NoLostWakeup
  BY Zenon DEF EndInv, Asleep, NoLostWakeup, StopsAt, Apart
<1> QED BY <1>1, QueueEndInvariance, PTL

\* A cycle in which no fetcher failed has handed out all that was scheduled when
\* process returns, the pivot included when the headers that verify it follow; if
\* a peer has left, what is missing may be in the task queue instead, where Revoke
\* put it after the fetcher had found the queue empty.
THEOREM QueueAllHandedOut == Spec => []AllHandedOut
<1>1. IInv /\ EndInv => AllHandedOut
  <2> SUFFICES ASSUME IInv, EndInv, wpc = "done", ~Failed,
                      ~Fast \/ sched >= Pivot + ForceVerify, offset # sched + 1,
                      \/ registered = Peers \/ \A k \in Kinds : queue[k] = {}
                      \/ \E k \in Kinds : InFlight(k)
               PROVE  FALSE
    BY Zenon DEF AllHandedOut
  <2>0. AllDone /\ StopsAt(offset) /\ \A k \in Kinds : Drained(k)
    BY ZenonT(60) DEF EndInv, Ending, AllDone
  <2>1. AllDone /\ StopsAt(offset) /\ \A k \in Kinds : queue[k] = {} /\ NoneOut(k)
    BY <2>0, Zenon DEF Drained, Emptied, NoneOut, InFlight
  <2>2. /\ offset \in Nat \ {0} /\ sched \in 0..N /\ offset <= sched /\ stateLeft = 0
        /\ N \in Nat /\ Pivot \in Nat \ {0} /\ ForceVerify \in Nat
    BY <2>1, QueueAssumption, SMT DEF IInv, QInv, QueueTypes, AllDone
  <2>3. ASSUME NEW k \in Kinds, NEW n \in Headers, offset <= n, n <= sched, Needs(k, n)
        PROVE  n \in done[k]
    BY <2>1, <2>3, Zenon DEF IInv, QInv, Placed, NoneOut
  <2>4. ASSUME NEW n \in Headers, offset <= n, n <= sched
        PROVE  result[n] = 0 /\ InCache(n) /\ result[n] # None
    <3>1. "body" \in Kinds /\ "receipt" \in Kinds BY Zenon DEF Kinds
    <3>2. n \in done["body"] BY <2>3, <2>4, <3>1, Zenon DEF Needs
    <3>3. result[n] # None BY <3>1, <3>2, Zenon DEF IInv, QInv, Slots
    <3>4. Missing("body", n) = 0 /\ Missing("receipt", n) = 0
      BY <2>3, <2>4, <3>1, Zenon DEF Missing
    <3>5. InCache(n) /\ result[n] = Missing("body", n) + Missing("receipt", n)
      BY <3>3, Zenon DEF IInv, QInv, PendingCounts
    <3>6. result[n] = 0 BY <3>4, <3>5, SMTT(60)
    <3> QED BY <3>3, <3>5, <3>6, Zenon
  <2>5. offset \in Headers /\ offset <= offset BY <2>2, SMT DEF Headers
  <2>6. Ready(offset) BY <2>2, <2>4, <2>5, Zenon DEF Ready
  <2>7. ~(offset > offset) /\ ~(stateLeft > 0) BY <2>2, SMT
  <2>8. PICK j \in 1..ForceVerify : Fast /\ offset = Pivot /\ ~Allocated(offset + j)
    BY <2>1, <2>6, <2>7, Zenon DEF StopsAt
  <2>9. offset + j \in Headers /\ offset <= offset + j /\ offset + j <= sched
    BY <2>2, <2>8, SMT DEF Headers
  <2>10. Allocated(offset + j) BY <2>4, <2>9, Zenon DEF Allocated
  <2> QED BY <2>8, <2>10, Zenon
<1> QED BY <1>1, QueueInvariance, QueueEndInvariance, PTL
=============================================================================
