--------------------------- MODULE AncestorProofs ---------------------------
(***************************************************************************)
(* The ancestor search returns a common block, and the highest one when    *)
(* states are complete and replies in order, for chains of any height and  *)
(* any number of packets of earlier cycles.                                *)
(***************************************************************************)
EXTENDS AncestorSearch, SequenceTheorems, TLAPS

\* What is known of the peer's chain is its beginning.
ChainsOK == \E top \in 0..height : headers = 0..top

\* Without packets of earlier cycles, what arrives is the reply to the last request.
InOrder ==
  late = 0 =>
    /\ pc \in {"request", "search"} => net = << >>
    /\ pc = "head" => net = <<Packet(From, Fetch)>>
    /\ pc = "wait" => net = <<Packet(check, 1)>>

\* The bisection keeps a common number at its lower end and, when states are
\* complete and replies in order, a number that is not common at its upper end.
Bracket ==
  /\ start \in headers
  /\ pc = "wait" => check <= head
  /\ late = 0 /\ states = headers /\ pc \in {"search", "wait"} => end \notin headers

Inv ==
  /\ TypeOK /\ ChainsOK /\ InOrder /\ Bracket
  /\ AncestorCommon /\ AncestorHighest /\ HonestNotBad

\* The first number asked for lies between 0 and the head (downloader.go:956 to 965).
LEMMA FromFacts ==
  ASSUME TypeOK
  PROVE  From \in Nat /\ From <= head /\ (From = 0 \/ From = head - Fetch + 1)
  BY AncestorAssumption DEF TypeOK, From

\* What a reply holds: numbers of the peer's chain, at most as many as asked for.
LEMMA PacketType ==
  ASSUME TypeOK, NEW first \in Nat, NEW count \in Nat
  PROVE  Packet(first, count) \in [first : Nat, last : Int]
  BY DEF TypeOK, Packet

\* The inductive invariant holds when the search begins.
LEMMA InitInv == Init => Inv
<1> SUFFICES ASSUME Init PROVE Inv
  BY Zenon
<1>1. PICK top \in 0..height : \E pivot \in 0..(top + 1) :
        headers = 0..top /\ states = {0} \cup (pivot..top)
  BY Zenon DEF Init
<1>2. height \in Nat /\ head \in Nat /\ late \in Nat /\ top \in Nat
  BY <1>1, AncestorAssumption DEF Init
<1>3. headers = 0..top /\ states \subseteq headers
  BY <1>1, <1>2
<1>4. net \in Seq([first : Nat, last : Int])
  <2>1. Packets \subseteq [first : Nat, last : Int]
    BY <1>2 DEF Packets
  <2>2. net \in [1..late -> Packets]
    BY Zenon DEF Init
  <2>3. net \in [1..late -> [first : Nat, last : Int]]
    BY <2>1, <2>2, Zenon
  <2>4. \A S : \A n \in Nat : \A q \in [1..n -> S] : q \in Seq(S)
    BY SeqDef, Zenon
  <2> QED
    BY <2>3, <2>4, <1>2, ZenonT(30)
<1>5. late = 0 => net = << >>
  <2> SUFFICES ASSUME late = 0 PROVE net = << >>
    BY Zenon
  <2>1. net \in [1..0 -> Packets]
    BY Zenon DEF Init
  <2> QED
    BY <2>1, <1>4, EmptySeq
<1>6. TypeOK
  BY <1>2, <1>3, <1>4 DEF Init, TypeOK
<1>7. ChainsOK
  BY <1>3, Zenon DEF ChainsOK
<1>8. InOrder /\ Bracket /\ AncestorCommon /\ AncestorHighest /\ HonestNotBad
  BY <1>2, <1>3, <1>5, Zenon DEF Init, InOrder, Bracket, AncestorCommon, AncestorHighest,
     HonestNotBad
<1> QED
  BY <1>6, <1>7, <1>8, Zenon DEF Inv

\* The first request.
LEMMA RequestStep == Inv /\ Request => Inv'
<1> SUFFICES ASSUME Inv, Request PROVE Inv'
  BY Zenon
<1> USE DEF Inv, chains
<1>1. UNCHANGED <<mode, height, head, headers, states, late, start, end, check, result>>
      /\ pc = "request" /\ pc' = "head" /\ net' = Append(net, Packet(From, Fetch))
  BY Zenon DEF Request
<1>2. From' = From /\ Packet(From, Fetch)' = Packet(From, Fetch)
  BY <1>1, Zenon DEF From, Packet
<1>3. Packet(From, Fetch) \in [first : Nat, last : Int]
  BY FromFacts, PacketType, AncestorAssumption, ZenonT(30)
<1>4. TypeOK'
  BY <1>1, <1>3, AppendProperties, Zenon DEF TypeOK
<1>5. InOrder'
  <2>1. late = 0 => net = << >>
    BY <1>1, Zenon DEF InOrder
  <2> QED
    BY <1>1, <1>2, <2>1 DEF InOrder
<1>6. ChainsOK'
  BY <1>1, Zenon DEF ChainsOK
<1>7. Bracket' /\ AncestorCommon' /\ AncestorHighest' /\ HonestNotBad'
  BY <1>1, Zenon DEF Bracket, AncestorCommon, AncestorHighest, HonestNotBad
<1> QED
  BY <1>4, <1>5, <1>6, <1>7, Zenon

\* The reply to it.
LEMMA HeadReplyStep == Inv /\ HeadReply => Inv'
<1> SUFFICES ASSUME Inv, HeadReply PROVE Inv'
  BY Zenon
<1> USE DEF Inv, chains
<1> DEFINE m == Head(net)
<1>1. /\ UNCHANGED <<mode, height, head, headers, states, late, check>>
      /\ pc = "head" /\ net # << >> /\ net' = Tail(net)
  BY Zenon DEF HeadReply
<1>2. \/ Empty(m) /\ Fail /\ UNCHANGED <<start, end>>
      \/ \E n \in KnownAtHead(m) :
           /\ \A k \in KnownAtHead(m) : k <= n
           /\ Return(Numbered(m, n)) /\ UNCHANGED <<start, end>>
      \/ /\ ~Empty(m) /\ KnownAtHead(m) = {}
         /\ pc' = "search" /\ start' = 0 /\ end' = head /\ UNCHANGED result
  BY Zenon DEF HeadReply
<1>3. m \in [first : Nat, last : Int] /\ net' \in Seq([first : Nat, last : Int])
  BY <1>1, HeadTailProperties, ZenonT(30) DEF TypeOK
<1>4. late = 0 => m = Packet(From, Fetch) /\ net' = << >>
  BY <1>1 DEF InOrder
<1>5. late = 0 => /\ m.first = From
                  /\ m.last = IF From + Fetch - 1 < height THEN From + Fetch - 1
                                                          ELSE height
  BY <1>4 DEF Packet
<1>6. PICK top \in 0..height : headers = 0..top
  BY Zenon DEF ChainsOK
<1>7. top \in Nat /\ height \in Nat /\ head \in Nat /\ Fetch \in Nat \ {0}
  BY <1>6, AncestorAssumption DEF TypeOK
<1>8. From \in Nat /\ From <= head /\ (From = 0 \/ From = head - Fetch + 1)
      /\ head <= From + Fetch - 1
  BY <1>7, FromFacts, AncestorAssumption DEF From
<1>9. ChainsOK'
  BY <1>1, Zenon DEF ChainsOK
<1>10. KnownAtHead(m) \subseteq headers /\ KnownAtHead(m) \subseteq m.first..m.last
  BY Zenon DEF KnownAtHead, TypeOK
\* Every common number that the first request is about is in the reply.
<1>11. ASSUME late = 0, states = headers, NEW k \in headers, k <= head, From <= k
       PROVE  k \in KnownAtHead(m)
  <2>1. k \in Nat /\ k <= height
    BY <1>6, <1>7, <1>11
  <2>2. m.first <= k /\ k <= m.last /\ m.last \in Int /\ m.first \in Nat
    BY <1>3, <1>5, <1>7, <1>8, <1>11, <2>1
  <2> QED
    BY <2>1, <2>2, <1>11 DEF KnownAtHead
<1> HIDE DEF m
<1>12. CASE Empty(m) /\ Fail /\ UNCHANGED <<start, end>>
  <2>1. TypeOK' /\ Bracket' /\ InOrder' /\ AncestorCommon' /\ AncestorHighest'
    BY <1>1, <1>3, <1>12, Zenon DEF TypeOK, Bracket, Fail, InOrder, AncestorCommon,
       AncestorHighest
  <2>2. HonestNotBad'
    BY <1>1, <1>5, <1>7, <1>8, <1>12 DEF HonestNotBad, Empty
  <2> QED
    BY <1>9, <2>1, <2>2, Zenon
<1>13. CASE \E n \in KnownAtHead(m) :
              /\ \A k \in KnownAtHead(m) : k <= n
              /\ Return(Numbered(m, n)) /\ UNCHANGED <<start, end>>
  <2>1. PICK n \in KnownAtHead(m) :
              /\ \A k \in KnownAtHead(m) : k <= n
              /\ Return(Numbered(m, n)) /\ UNCHANGED <<start, end>>
    BY <1>13, Zenon
  <2>2. n \in headers /\ n \in Nat /\ m.first <= n /\ m.first \in Nat
    BY <1>3, <1>6, <1>7, <1>10, <2>1
  <2>3. pc' = "done" /\ result' = Numbered(m, n)
    BY <2>1, Zenon DEF Return
  <2>4. Numbered(m, n) \in Nat
    BY <1>8, <2>2 DEF Numbered
  <2>5. mode # "eth61" \/ late = 0 => Numbered(m, n) = n
    BY <1>5, <1>8, <2>2 DEF Numbered
  <2>6. TypeOK' /\ Bracket' /\ InOrder' /\ HonestNotBad'
    BY <1>1, <1>3, <2>1, <2>3, <2>4, Zenon DEF TypeOK, Bracket, InOrder, HonestNotBad
  <2>7. AncestorCommon'
    BY <1>1, <2>2, <2>3, <2>5, Zenon DEF AncestorCommon
  <2>8. AncestorHighest'
    <3> SUFFICES ASSUME late = 0, states = headers, NEW k \in headers, k <= head
                 PROVE  k <= n
      BY <1>1, <2>3, <2>5, Zenon DEF AncestorHighest
    <3>1. k \in Nat
      BY <1>6, <1>7
    <3>2. CASE From <= k
      BY <1>11, <2>1, <3>2, Zenon
    <3>3. CASE k < From
      BY <1>5, <1>8, <2>2, <3>1, <3>3
    <3> QED
      BY <1>8, <3>1, <3>2, <3>3
  <2> QED
    BY <1>9, <2>6, <2>7, <2>8, Zenon
<1>14. CASE /\ ~Empty(m) /\ KnownAtHead(m) = {}
            /\ pc' = "search" /\ start' = 0 /\ end' = head /\ UNCHANGED result
  <2>1. TypeOK' /\ InOrder' /\ AncestorCommon' /\ AncestorHighest' /\ HonestNotBad'
    BY <1>1, <1>3, <1>4, <1>7, <1>14 DEF TypeOK, InOrder, AncestorCommon,
       AncestorHighest, HonestNotBad
  <2>2. 0 \in headers
    BY <1>6, <1>7
  <2>3. late = 0 /\ states = headers => head \notin headers
    BY <1>7, <1>8, <1>11, <1>14
  <2>4. Bracket'
    BY <1>1, <1>14, <2>2, <2>3, Zenon DEF Bracket
  <2> QED
    BY <1>9, <2>1, <2>4, Zenon
<1> QED
  BY <1>2, <1>12, <1>13, <1>14, Zenon

\* A round of the bisection begins.
LEMMA SplitStep == Inv /\ Split => Inv'
<1> SUFFICES ASSUME Inv, Split PROVE Inv'
  BY Zenon
<1> USE DEF Inv, chains
<1>1. /\ UNCHANGED <<mode, height, head, headers, states, late, start, end, result>>
      /\ pc = "search" /\ pc' = "wait" /\ check' = (start + end) \div 2
      /\ net' = Append(net, Packet(check', 1))
  BY Zenon DEF Split
<1>2. start \in Nat /\ end \in Nat /\ head \in Nat /\ start <= head /\ end <= head
  BY Zenon DEF TypeOK
<1>3. check' \in Nat /\ check' <= head
  BY <1>1, <1>2
<1>4. Packet(check', 1) \in [first : Nat, last : Int]
  BY <1>3, PacketType, ZenonT(30)
<1>5. TypeOK'
  BY <1>1, <1>3, <1>4, AppendProperties, Zenon DEF TypeOK
<1>6. InOrder'
  <2>1. late = 0 => net = << >>
    BY <1>1, Zenon DEF InOrder
  <2> QED
    BY <1>1, <2>1 DEF InOrder, Packet
<1>7. ChainsOK'
  BY <1>1, Zenon DEF ChainsOK
<1>8. Bracket' /\ AncestorCommon' /\ AncestorHighest' /\ HonestNotBad'
  BY <1>1, <1>3, Zenon DEF Bracket, AncestorCommon, AncestorHighest, HonestNotBad
<1> QED
  BY <1>5, <1>6, <1>7, <1>8, Zenon

\* The bisection is over: its interval has closed on the last common number.
LEMMA FoundStep == Inv /\ Found => Inv'
<1> SUFFICES ASSUME Inv, Found PROVE Inv'
  BY Zenon
<1> USE DEF Inv, chains
<1>1. /\ UNCHANGED <<mode, height, head, headers, states, late, net, start, end, check>>
      /\ pc = "search" /\ ~(start + 1 < end) /\ pc' = "done" /\ result' = start
  BY Zenon DEF Found, Return
<1>2. PICK top \in 0..height : headers = 0..top
  BY Zenon DEF ChainsOK
<1>3. top \in Nat /\ start \in Nat /\ end \in Nat
  BY <1>2 DEF TypeOK
<1>4. TypeOK' /\ InOrder' /\ Bracket' /\ HonestNotBad'
  BY <1>1, Zenon DEF TypeOK, InOrder, Bracket, HonestNotBad
<1>5. ChainsOK'
  BY <1>1, Zenon DEF ChainsOK
<1>6. AncestorCommon'
  BY <1>1, Zenon DEF Bracket, AncestorCommon
<1>7. AncestorHighest'
  <2> SUFFICES ASSUME late = 0, states = headers, NEW n \in headers
               PROVE  n <= start
    BY <1>1, Zenon DEF AncestorHighest
  <2>1. end \notin headers
    BY <1>1, Zenon DEF Bracket
  <2> QED
    BY <1>1, <1>2, <1>3, <2>1
<1> QED
  BY <1>4, <1>5, <1>6, <1>7, Zenon

\* The reply of a round.
LEMMA SearchReplyStep == Inv /\ SearchReply => Inv'
<1> SUFFICES ASSUME Inv, SearchReply PROVE Inv'
  BY Zenon
<1> USE DEF Inv, chains
<1> DEFINE m == Head(net)
<1>1. /\ UNCHANGED <<mode, height, head, headers, states, late, check>>
      /\ pc = "wait" /\ net # << >> /\ net' = Tail(net)
  BY Zenon DEF SearchReply
<1>2. \/ m.first # m.last /\ Fail /\ UNCHANGED <<start, end>>
      \/ m.first = m.last /\ ~Expected(m.first) /\ Fail /\ UNCHANGED <<start, end>>
      \/ /\ m.first = m.last /\ Expected(m.first)
         /\ Narrow(m.first) /\ pc' = "search" /\ UNCHANGED result
  BY Zenon DEF SearchReply
<1>3. m \in [first : Nat, last : Int] /\ net' \in Seq([first : Nat, last : Int])
  BY <1>1, HeadTailProperties, ZenonT(30) DEF TypeOK
<1>4. late = 0 => m = Packet(check, 1) /\ net' = << >>
  BY <1>1 DEF InOrder
<1>5. height \in Nat /\ head \in Nat /\ check \in Nat /\ check <= head
  BY <1>1, Zenon DEF TypeOK, Bracket
<1>6. late = 0 => m.first = check /\ (head <= height => m.last = check)
  BY <1>4, <1>5 DEF Packet
<1>7. ChainsOK'
  BY <1>1, Zenon DEF ChainsOK
<1>8. Known \subseteq headers /\ (states = headers => Known = headers)
  BY Zenon DEF Known, TypeOK
<1> HIDE DEF m
<1>9. CASE Fail /\ UNCHANGED <<start, end>>
  <2>1. TypeOK' /\ Bracket' /\ InOrder' /\ AncestorCommon' /\ AncestorHighest'
    BY <1>1, <1>3, <1>9, Zenon DEF TypeOK, Bracket, Fail, InOrder, AncestorCommon,
       AncestorHighest
  <2>2. HonestNotBad'
    BY <1>1, <1>2, <1>6, <1>9, Zenon DEF HonestNotBad, Expected, Fail
  <2> QED
    BY <1>7, <2>1, <2>2, Zenon
<1>10. CASE /\ m.first = m.last /\ Expected(m.first)
            /\ Narrow(m.first) /\ pc' = "search" /\ UNCHANGED result
  <2>1. \/ m.first \in Known /\ m.first = check /\ start' = check /\ end' = end
        \/ m.first \notin Known /\ end' = check /\ start' = start
    BY <1>10, Zenon DEF Narrow, Expected
  <2>2. TypeOK'
    BY <1>1, <1>3, <1>5, <1>10, <2>1, Zenon DEF TypeOK
  <2>3. Bracket'
    BY <1>1, <1>6, <1>8, <1>10, <2>1, Zenon DEF Bracket
  <2>4. InOrder' /\ AncestorCommon' /\ AncestorHighest' /\ HonestNotBad'
    BY <1>1, <1>4, <1>10, Zenon DEF InOrder, AncestorCommon, AncestorHighest, HonestNotBad
  <2> QED
    BY <1>7, <2>2, <2>3, <2>4, Zenon
<1> QED
  BY <1>2, <1>9, <1>10, Zenon

\* The inductive invariant holds in every reachable state.
THEOREM Invariance == Spec => []Inv
<1>1. Inv /\ [Next]_vars => Inv'
  <2> SUFFICES ASSUME Inv, [Next]_vars PROVE Inv'
    BY Zenon
  <2>1. CASE Interrupted
    <3>1. UNCHANGED <<chains, net, start, end, check, result>> /\ pc' = "failed"
      BY <2>1, Zenon DEF Interrupted
    <3> QED
      BY <3>1, Zenon DEF Inv, chains, TypeOK, ChainsOK, InOrder, Bracket, AncestorCommon,
         AncestorHighest, HonestNotBad
  <2>2. CASE UNCHANGED vars
    BY <2>2, SMTT(60) DEF vars, chains, Inv, TypeOK, ChainsOK, InOrder, Bracket, AncestorCommon,
       AncestorHighest, HonestNotBad, Packet, From
  <2> QED
    BY <2>1, <2>2, RequestStep, HeadReplyStep, SplitStep, FoundStep, SearchReplyStep, Zenon
       DEF Next, Ended
<1> QED
  BY <1>1, InitInv, PTL DEF Spec

\* The download starts above a block that both chains have, also when packets of an
\* earlier cycle are taken for replies (downloader.go:1047 to 1056).
THEOREM SearchFindsCommon == Spec => []AncestorCommon
  BY Invariance, PTL DEF Inv

\* When every common block has its state and replies come in order, the number
\* returned is the highest common one (downloader.go:952 to 1076).
THEOREM SearchFindsHighest == Spec => []AncestorHighest
  BY Invariance, PTL DEF Inv

\* An honest peer with a chain at least as long as the local one is not dropped by
\* the search (downloader.go:985, 1042, 1053).
THEOREM SearchKeepsHonest == Spec => []HonestNotBad
  BY Invariance, PTL DEF Inv
=============================================================================
