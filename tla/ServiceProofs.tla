------------------------------- MODULE ServiceProofs -------------------------------
(* Theorems about the services: the timestamps compared as text and the events   *)
(* of a run, for any clock, any subscribers and any size of their queues; the    *)
(* requests the program sends, to arXiv, whose rate all searches share, and to   *)
(* the endpoints of the model provider, whose circuit breakers stop them; the    *)
(* tool calls of a run, for any number of callers and any budget; the patches of *)
(* the coding agent, for any contents, proposals and threads.                    *)
EXTENDS EventBus, SourceAccess, ProviderPool, ToolBudget, CodingPatch, SequenceTheorems,
        FiniteSetTheorems, TLAPS

--------------------------------------------------------------------------------
(* Timestamps.                                                                 *)

LEMMA SecondIsPositive == Second \in Nat /\ Second > 0
BY SMT DEF Second

\* The order of the texts is that of time unless both fall in one second: what
\* is before another as text is less than a second after it in time.
THEOREM TextOrderIsNearlyTime ==
  ASSUME NEW s \in Timestamp, NEW t \in Timestamp
  PROVE  /\ TextBefore(s, t) => Instant(s) < Instant(t) + Second
         /\ Instant(s) + Second <= Instant(t) => TextBefore(s, t)
BY SecondIsPositive DEF Timestamp, TextBefore, Instant

\* Two texts out of order are of one second, and the time that is earlier is
\* exactly on it.
LEMMA InvertedTexts ==
  ASSUME NEW s \in Timestamp, NEW t \in Timestamp, Instant(s) <= Instant(t), TextBefore(t, s)
  PROVE  s.sec = t.sec /\ s.micro = 0
BY SecondIsPositive DEF Timestamp, TextBefore, Instant

--------------------------------------------------------------------------------
(* The order of a listing.                                                     *)

\* Rows are inserted in the order of time.
ClockInv ==
  /\ busClock \in Times
  /\ published \in Nat /\ DOMAIN rows \subseteq 1..published
  /\ \A e \in DOMAIN rows : rows[e] \in Times /\ Instant(rows[e]) <= Instant(busClock)
  /\ \A d, e \in DOMAIN rows : d < e => Instant(rows[d]) <= Instant(rows[e])

LEMMA InstantsAreNumbers == \A t \in Times : t \in Timestamp /\ Instant(t) \in Nat
BY EventBusAssumption, SecondIsPositive DEF Timestamp, Instant

LEMMA ClockStep ==
  ASSUME ClockInv, EventBusNext
  PROVE  ClockInv'
<1> HIDE DEF Instant
<1>1. CASE BusTick
  <2>1. /\ busClock' \in Times /\ Instant(busClock') > Instant(busClock)
        /\ UNCHANGED <<published, rows>>
    BY <1>1 DEF BusTick
  <2>2. \A e \in DOMAIN rows : Instant(rows[e]) <= Instant(busClock')
    BY <2>1, InstantsAreNumbers DEF ClockInv
  <2> QED BY <2>1, <2>2 DEF ClockInv
<1>2. CASE RestartBus
  BY <1>2 DEF RestartBus, ClockInv
<1>3. ASSUME NEW stored \in BOOLEAN, Publish(stored) PROVE ClockInv'
  <2> DEFINE e == published + 1
  <2>1. /\ busClock' = busClock /\ published' = e
        /\ rows' = IF stored THEN [d \in DOMAIN rows \cup {e} |-> IF d = e THEN busClock ELSE rows[d]]
                   ELSE rows
    BY <1>3 DEF Publish
  <2>2. /\ published \in Nat /\ e \in Nat /\ e \notin DOMAIN rows
        /\ \A d \in DOMAIN rows : d \in Nat /\ d < e
    BY DEF ClockInv
  <2>3. CASE ~stored
    BY <2>1, <2>2, <2>3 DEF ClockInv
  <2>4. CASE stored
    <3>1. /\ DOMAIN rows' = DOMAIN rows \cup {e} /\ rows'[e] = busClock
          /\ \A d \in DOMAIN rows : rows'[d] = rows[d]
      BY <2>1, <2>2, <2>4
    <3> HIDE DEF e
    <3>2. DOMAIN rows' \subseteq 1..published'
      BY <2>1, <2>2, <3>1 DEF ClockInv, e
    <3>3. Instant(busClock) <= Instant(busClock)
      BY InstantsAreNumbers DEF ClockInv
    <3>4. ASSUME NEW d \in DOMAIN rows'
          PROVE  rows'[d] \in Times /\ Instant(rows'[d]) <= Instant(busClock')
      BY <2>1, <3>1, <3>3, <3>4 DEF ClockInv
    <3>5. ASSUME NEW d \in DOMAIN rows', NEW f \in DOMAIN rows', d < f
          PROVE  Instant(rows'[d]) <= Instant(rows'[f])
      <4>1. CASE f \in DOMAIN rows
        <5>1. d \in DOMAIN rows
          BY <2>2, <3>1, <3>5, <4>1
        <5> QED BY <3>1, <3>5, <4>1, <5>1 DEF ClockInv
      <4>2. CASE f = e
        BY <2>1, <3>1, <3>4, <4>2
      <4> QED BY <3>1, <4>1, <4>2
    <3> QED BY <2>1, <2>2, <3>2, <3>4, <3>5 DEF ClockInv
  <2> QED BY <2>3, <2>4
<1>4. ASSUME NEW s \in Subscriber, Subscribe(s) \/ Unsubscribe(s) \/ TakeEvent(s)
      PROVE  ClockInv'
  <2>1. UNCHANGED <<busClock, published, rows>>
    BY <1>4 DEF Subscribe, Unsubscribe, TakeEvent
  <2> QED BY <2>1 DEF ClockInv
<1> QED BY <1>1, <1>2, <1>3, <1>4 DEF EventBusNext

\* InvertedOnlyOnTheSecond: at any resolution of the clock, a listing inverts two
\* events only when they share a second and the first one is exactly on it.
THEOREM ListingsNearlyInOrder == EventBusSpec => []InvertedOnlyOnTheSecond
<1>1. EventBusInit => ClockInv
  BY DEF EventBusInit, ClockInv
<1>2. ClockInv /\ [EventBusNext]_busVars => ClockInv'
  <2>1. ASSUME ClockInv, UNCHANGED busVars PROVE ClockInv'
    BY <2>1 DEF busVars, ClockInv
  <2> QED BY <2>1, ClockStep
<1>3. ClockInv => InvertedOnlyOnTheSecond
  <2> SUFFICES ASSUME ClockInv, NEW d \in Events, NEW e \in Events, IsRow(d), IsRow(e), d < e,
                      ListedBefore(e, d)
               PROVE  rows[d].sec = rows[e].sec /\ rows[d].micro = 0
    BY DEF InvertedOnlyOnTheSecond
  <2>1. /\ rows[d] \in Timestamp /\ rows[e] \in Timestamp
        /\ Instant(rows[d]) <= Instant(rows[e])
    BY InstantsAreNumbers DEF ClockInv, IsRow
  <2>2. TextBefore(rows[e], rows[d])
    BY EventBusAssumption DEF ListedBefore, Events
  <2> QED BY <2>1, <2>2, InvertedTexts
<1> QED BY <1>1, <1>2, <1>3, PTL DEF EventBusSpec

--------------------------------------------------------------------------------
(* What a subscriber receives.                                                 *)

\* Taking an event moves it from the queue to what was taken.
LEMMA TakeKeeps ==
  ASSUME NEW S, NEW t \in Seq(S), NEW q \in Seq(S), q # << >>
  PROVE  Append(t, Head(q)) \o Tail(q) = t \o q
<1>1. Head(q) \in S /\ Tail(q) \in Seq(S) /\ <<Head(q)>> \in Seq(S)
  BY HeadTailProperties
<1>2. <<Head(q)>> \o Tail(q) = q
  BY <1>1
<1>3. Append(t, Head(q)) = t \o <<Head(q)>>
  BY <1>1, AppendIsConcat
<1> QED BY <1>1, <1>2, <1>3, ConcatAssociative

\* Offering one puts it at the end.
LEMMA OfferAppends ==
  ASSUME NEW S, NEW t \in Seq(S), NEW q \in Seq(S), NEW e \in S
  PROVE  t \o Append(q, e) = Append(t \o q, e)
<1>1. <<e>> \in Seq(S) /\ t \o q \in Seq(S)
  BY ConcatProperties
<1> QED BY <1>1, AppendIsConcat, ConcatAssociative

LEMMA AppendInOrder ==
  ASSUME NEW r \in Seq(Nat), InOrder(r), NEW e \in Nat, \A d \in Members(r) : d < e
  PROVE  InOrder(Append(r, e)) /\ Members(Append(r, e)) = Members(r) \cup {e}
<1>1. /\ Len(r) \in Nat /\ DOMAIN r = 1..Len(r)
      /\ DOMAIN Append(r, e) = 1..(Len(r) + 1)
      /\ \A i \in 1..Len(r) : Append(r, e)[i] = r[i]
      /\ Append(r, e)[Len(r) + 1] = e
  BY AppendProperties, LenProperties
<1>2. \A i \in 1..Len(r) : r[i] < e
  BY <1>1 DEF Members
<1>3. InOrder(Append(r, e))
  BY <1>1, <1>2 DEF InOrder
<1>4. \A x : x \in Members(Append(r, e)) <=> x \in Members(r) \cup {e}
  BY <1>1 DEF Members
<1> QED BY <1>3, <1>4

\* The events of a run are numbered in the order of publication, and a subscriber
\* has missed or received each row since it subscribed.
AgreeInv ==
  /\ published \in 0..MaxEvents /\ DOMAIN rows \subseteq 1..published
  /\ queue \in [Subscriber -> Seq(Events)] /\ taken \in [Subscriber -> Seq(Events)]
  /\ subscribed \subseteq Subscriber /\ since \in [Subscriber -> 0..published]
  /\ missed \in [Subscriber -> SUBSET (1..published)]
  /\ SubscribersAgreeWithListing

\* What the property says of one subscriber.
Agrees(s) ==
  /\ InOrder(Received(s))
  /\ {e \in Events : IsRow(e) /\ e > since[s]} = Members(Received(s)) \cup missed[s]
  /\ Members(Received(s)) \cap missed[s] = {}

\* A new subscriber, and one of a new process, has nothing to agree about.
LEMMA NothingReceived ==
  /\ << >> \in Seq(Events)
  /\ << >> \o << >> = << >>
  /\ InOrder(<< >>) /\ Members(<< >>) = {}
<1>1. << >> \in Seq(Events) /\ << >> \o << >> = << >>
  BY EmptySeq, ConcatEmptySeq
<1> QED BY <1>1 DEF InOrder, Members

LEMMA AgreeStep ==
  ASSUME AgreeInv, EventBusNext
  PROVE  AgreeInv'
<1> USE EventBusAssumption
<1>0. published \in Nat /\ Events \subseteq Nat /\ MaxEvents \in Nat
  BY DEF AgreeInv, Events
<1>1. CASE BusTick
  BY <1>1 DEF BusTick, AgreeInv, SubscribersAgreeWithListing, Received, IsRow
<1>2. CASE RestartBus
  <2>1. /\ subscribed' = {} /\ UNCHANGED <<published, rows>>
        /\ queue' \in [Subscriber -> Seq(Events)] /\ taken' \in [Subscriber -> Seq(Events)]
        /\ since' \in [Subscriber -> 0..published]
        /\ missed' \in [Subscriber -> SUBSET (1..published)]
    BY <1>0, <1>2, NothingReceived DEF RestartBus
  <2> QED BY <2>1 DEF AgreeInv, SubscribersAgreeWithListing
<1>3. ASSUME NEW s \in Subscriber, Subscribe(s) PROVE AgreeInv'
  <2>1. /\ subscribed' = subscribed \cup {s} /\ UNCHANGED <<published, rows>>
        /\ since' = [since EXCEPT ![s] = published]
        /\ queue' = [queue EXCEPT ![s] = << >>] /\ taken' = [taken EXCEPT ![s] = << >>]
        /\ missed' = [missed EXCEPT ![s] = {}]
    BY <1>3 DEF Subscribe
  <2>2. /\ queue' \in [Subscriber -> Seq(Events)] /\ taken' \in [Subscriber -> Seq(Events)]
        /\ since' \in [Subscriber -> 0..published']
        /\ missed' \in [Subscriber -> SUBSET (1..published')]
    BY <1>0, <2>1, NothingReceived DEF AgreeInv
  <2>3. Agrees(s)'
    <3>1. queue'[s] = << >> /\ taken'[s] = << >> /\ missed'[s] = {} /\ since'[s] = published
      BY <2>1 DEF AgreeInv
    <3>2. \A e \in Events : ~(e \in DOMAIN rows /\ e > published)
      BY <1>0 DEF AgreeInv
    <3> QED BY <2>1, <3>1, <3>2, NothingReceived DEF Agrees, Received, IsRow
  <2>4. ASSUME NEW q \in subscribed', q # s PROVE Agrees(q)'
    <3>1. /\ q \in subscribed /\ q \in Subscriber
          /\ queue'[q] = queue[q] /\ taken'[q] = taken[q] /\ missed'[q] = missed[q]
          /\ since'[q] = since[q]
      BY <2>1, <2>4 DEF AgreeInv
    <3>2. Agrees(q)
      BY <3>1 DEF AgreeInv, SubscribersAgreeWithListing, Agrees
    <3> QED BY <2>1, <3>1, <3>2 DEF Agrees, Received, IsRow
  <2>5. SubscribersAgreeWithListing'
    BY <2>3, <2>4 DEF SubscribersAgreeWithListing, Agrees
  <2> QED BY <2>1, <2>2, <2>5 DEF AgreeInv
<1>4. ASSUME NEW s \in Subscriber, Unsubscribe(s) PROVE AgreeInv'
  BY <1>4 DEF Unsubscribe, AgreeInv, SubscribersAgreeWithListing, Received, IsRow
<1>5. ASSUME NEW s \in Subscriber, TakeEvent(s) PROVE AgreeInv'
  <2>1. /\ queue[s] # << >> /\ queue' = [queue EXCEPT ![s] = Tail(@)]
        /\ taken' = [taken EXCEPT ![s] = Append(@, Head(queue[s]))]
        /\ UNCHANGED <<published, rows, subscribed, since, missed>>
    BY <1>5 DEF TakeEvent
  <2>2. queue[s] \in Seq(Events) /\ taken[s] \in Seq(Events)
    BY DEF AgreeInv
  <2>3. /\ Tail(queue[s]) \in Seq(Events)
        /\ Append(taken[s], Head(queue[s])) \in Seq(Events)
    BY <2>1, <2>2, HeadTailProperties, AppendProperties
  <2>4. queue' \in [Subscriber -> Seq(Events)] /\ taken' \in [Subscriber -> Seq(Events)]
    BY <2>1, <2>3 DEF AgreeInv
  <2>5. Append(taken[s], Head(queue[s])) \o Tail(queue[s]) = taken[s] \o queue[s]
    BY <2>1, <2>2, TakeKeeps
  <2>6. \A q \in Subscriber : Received(q)' = Received(q)
    BY <2>1, <2>5 DEF AgreeInv, Received
  <2> QED BY <2>1, <2>4, <2>6 DEF AgreeInv, SubscribersAgreeWithListing, IsRow
<1>6. ASSUME NEW stored \in BOOLEAN, Publish(stored) PROVE AgreeInv'
  <2> DEFINE e == published + 1
  <2>1. /\ published < MaxEvents /\ published' = e /\ Deliver(e, stored)
        /\ UNCHANGED <<taken, subscribed, since>>
        /\ rows' = IF stored THEN [d \in DOMAIN rows \cup {e} |-> IF d = e THEN busClock ELSE rows[d]]
                   ELSE rows
    BY <1>6 DEF Publish
  <2>2. /\ e \in Events /\ e \in Nat /\ published' \in 0..MaxEvents
        /\ \A d \in 1..published : d < e /\ d # e
        /\ 1..published \subseteq 1..published' /\ 0..published \subseteq 0..published'
        /\ e \in 1..published'
    BY <1>0, <2>1 DEF Events
  <2> HIDE DEF e
  <2>3. since' \in [Subscriber -> 0..published'] /\ taken' \in [Subscriber -> Seq(Events)]
    BY <2>1, <2>2 DEF AgreeInv
  <2>4. CASE ~stored
    <3>1. rows' = rows /\ queue' = queue /\ missed' = missed
      BY <2>1, <2>4 DEF Deliver
    <3> QED BY <2>1, <2>2, <2>3, <3>1 DEF AgreeInv, SubscribersAgreeWithListing, Received, IsRow
  <2>5. CASE stored
    <3>1. DOMAIN rows' = DOMAIN rows \cup {e}
      BY <2>1, <2>5
    <3>2. /\ queue' = [s \in Subscriber |-> IF s \in subscribed /\ ~Full(s)
                                            THEN Append(queue[s], e) ELSE queue[s]]
          /\ missed' = [s \in Subscriber |-> IF s \in subscribed /\ Full(s)
                                             THEN missed[s] \cup {e} ELSE missed[s]]
      BY <2>1, <2>5 DEF Deliver, Broadcast
    <3>3. \A s \in Subscriber : queue[s] \in Seq(Events) /\ taken[s] \in Seq(Events)
                                /\ Append(queue[s], e) \in Seq(Events)
      BY <2>2, AppendProperties DEF AgreeInv
    <3>4. queue' \in [Subscriber -> Seq(Events)]
      BY <3>2, <3>3
    <3>5. missed' \in [Subscriber -> SUBSET (1..published')]
      BY <2>2, <3>2 DEF AgreeInv
    <3>6. DOMAIN rows' \subseteq 1..published'
      BY <2>2, <3>1 DEF AgreeInv
    <3>7. ASSUME NEW s \in subscribed PROVE Agrees(s)'
      <4>1. /\ s \in Subscriber /\ Agrees(s) /\ taken[s] \in Seq(Events) /\ queue[s] \in Seq(Events)
            /\ since[s] \in 0..published /\ missed[s] \in SUBSET (1..published)
        BY <3>3 DEF AgreeInv, SubscribersAgreeWithListing, Agrees
      <4>2. /\ Received(s) \in Seq(Events) /\ Received(s) \in Seq(Nat)
        BY <1>0, <4>1, ConcatProperties, SeqMonotonic DEF Received
      <4>3. Members(Received(s)) \subseteq 1..published
        BY <4>1 DEF Agrees, AgreeInv, IsRow
      <4>4. \A d \in Members(Received(s)) : d < e
        BY <2>2, <4>3
      <4>5. e > since[s]
        BY <1>0, <2>2, <4>1 DEF e
      <4>6. {d \in Events : d \in DOMAIN rows' /\ d > since'[s]} =
              {d \in Events : d \in DOMAIN rows /\ d > since[s]} \cup {e}
        BY <2>1, <2>2, <3>1, <4>5
      <4>7. CASE Full(s)
        <5>1. Received(s)' = Received(s) /\ missed'[s] = missed[s] \cup {e}
          BY <2>1, <3>2, <4>1, <4>7 DEF Received
        <5>2. e \notin Members(Received(s))
          BY <2>2, <4>3
        <5> QED BY <4>1, <4>6, <5>1, <5>2 DEF Agrees, IsRow
      <4>8. CASE ~Full(s)
        <5>1. Received(s)' = Append(Received(s), e) /\ missed'[s] = missed[s]
          <6>1. queue'[s] = Append(queue[s], e) /\ taken'[s] = taken[s] /\ missed'[s] = missed[s]
            BY <2>1, <3>2, <4>1, <4>8
          <6>2. taken[s] \o Append(queue[s], e) = Append(taken[s] \o queue[s], e)
            <7>1. e \in Events /\ taken[s] \in Seq(Events) /\ queue[s] \in Seq(Events)
              BY <2>2, <4>1
            <7>2. \A t, q \in Seq(Events), x \in Events :
                    t \o Append(q, x) = Append(t \o q, x)
              BY OfferAppends
            <7> QED BY <7>1, <7>2
          <6> QED BY <6>1, <6>2 DEF Received
        <5>2. /\ InOrder(Append(Received(s), e))
              /\ Members(Append(Received(s), e)) = Members(Received(s)) \cup {e}
          BY <2>2, <4>1, <4>2, <4>4, AppendInOrder DEF Agrees
        <5>3. e \notin missed[s]
          BY <2>2, <4>1
        <5> QED BY <4>1, <4>6, <5>1, <5>2, <5>3 DEF Agrees, IsRow
      <4> QED BY <4>7, <4>8
    <3>8. SubscribersAgreeWithListing'
      BY <2>1, <3>7 DEF SubscribersAgreeWithListing, Agrees, AgreeInv
    <3> QED BY <2>1, <2>2, <2>3, <3>4, <3>5, <3>6, <3>8 DEF AgreeInv
  <2> QED BY <2>4, <2>5
<1> QED BY <1>1, <1>2, <1>3, <1>4, <1>5, <1>6 DEF EventBusNext

\* SubscribersAgreeWithListing: whatever the size of the queues, who subscribes
\* and leaves when, and which inserts fail, a subscriber gets the rows since it
\* subscribed, in order, but for those its queue was full for.
THEOREM SubscribersAgree == EventBusSpec => []SubscribersAgreeWithListing
<1>1. EventBusInit => AgreeInv
  BY EventBusAssumption, NothingReceived DEF EventBusInit, AgreeInv, SubscribersAgreeWithListing
<1>2. AgreeInv /\ [EventBusNext]_busVars => AgreeInv'
  <2>1. ASSUME AgreeInv, UNCHANGED busVars PROVE AgreeInv'
    BY <2>1 DEF busVars, AgreeInv, SubscribersAgreeWithListing, Received, IsRow
  <2> QED BY <2>1, AgreeStep
<1>3. AgreeInv => SubscribersAgreeWithListing
  BY DEF AgreeInv
<1> QED BY <1>1, <1>2, <1>3, PTL DEF EventBusSpec

\* What a subscriber has are numbers of published events.
LEMMA MorePublished ==
  ASSUME NEW few \in Nat, NEW many \in Nat, few <= many
  PROVE  /\ 0..few \subseteq 0..many /\ 1..few \subseteq 1..many
         /\ Seq(1..few) \subseteq Seq(1..many)
<1>1. 0..few \subseteq 0..many /\ 1..few \subseteq 1..many
  OBVIOUS
<1> QED BY <1>1, SeqMonotonic

\* The queues stay within their size, and everything is about published events.
THEOREM EventBusTypeCorrect == EventBusSpec => []EventBusTypeOK
<1> USE EventBusAssumption
<1>1. EventBusInit => EventBusTypeOK
  BY DEF EventBusInit, EventBusTypeOK
<1>2. EventBusTypeOK /\ [EventBusNext]_busVars => EventBusTypeOK'
  <2> SUFFICES ASSUME EventBusTypeOK, [EventBusNext]_busVars PROVE EventBusTypeOK'
    OBVIOUS
  <2> DEFINE Shapes(p) ==
        /\ queue' \in [Subscriber -> Seq(1..p)] /\ taken' \in [Subscriber -> Seq(1..p)]
        /\ since' \in [Subscriber -> 0..p] /\ missed' \in [Subscriber -> SUBSET (1..p)]
  <2>0. published \in Nat /\ <<>> \in Seq(1..published) /\ Len(<<>>) = 0
    BY DEF EventBusTypeOK
  <2>1. CASE BusTick \/ UNCHANGED busVars
    BY <2>1 DEF BusTick, busVars, EventBusTypeOK
  <2>2. CASE RestartBus
    <3>1. /\ queue' = [s \in Subscriber |-> <<>>] /\ taken' = queue' /\ subscribed' = {}
          /\ since' = [s \in Subscriber |-> 0] /\ missed' = [s \in Subscriber |-> {}]
          /\ UNCHANGED <<busClock, published, rows>>
      BY <2>2 DEF RestartBus
    <3>2. Shapes(published) /\ \A s \in Subscriber : Len(queue'[s]) <= QueueSize
      BY <2>0, <3>1
    <3> QED BY <3>1, <3>2 DEF EventBusTypeOK
  <2>3. ASSUME NEW s \in Subscriber, Subscribe(s) PROVE EventBusTypeOK'
    <3>1. /\ queue' = [queue EXCEPT ![s] = <<>>] /\ taken' = [taken EXCEPT ![s] = <<>>]
          /\ since' = [since EXCEPT ![s] = published] /\ missed' = [missed EXCEPT ![s] = {}]
          /\ subscribed' = subscribed \cup {s} /\ UNCHANGED <<busClock, published, rows>>
      BY <2>3 DEF Subscribe
    <3>2. Shapes(published)
      BY <2>0, <3>1 DEF EventBusTypeOK
    <3>3. \A q \in Subscriber : Len(queue'[q]) <= QueueSize
      BY <2>0, <3>1 DEF EventBusTypeOK
    <3> QED BY <3>1, <3>2, <3>3 DEF EventBusTypeOK
  <2>4. ASSUME NEW s \in Subscriber, Unsubscribe(s) PROVE EventBusTypeOK'
    BY <2>4 DEF Unsubscribe, EventBusTypeOK
  <2>5. ASSUME NEW s \in Subscriber, TakeEvent(s) PROVE EventBusTypeOK'
    <3>1. /\ queue[s] # <<>> /\ queue[s] \in Seq(1..published) /\ taken[s] \in Seq(1..published)
          /\ Len(queue[s]) <= QueueSize
      BY <2>5 DEF TakeEvent, EventBusTypeOK
    <3>2. /\ Tail(queue[s]) \in Seq(1..published) /\ Head(queue[s]) \in 1..published
          /\ Len(Tail(queue[s])) = Len(queue[s]) - 1
      BY <3>1, HeadTailProperties
    <3>a. Len(queue[s]) \in Nat
      BY <3>1, LenProperties
    <3>b. Len(Tail(queue[s])) <= QueueSize
      BY <3>1, <3>2, <3>a
    <3>c. Append(taken[s], Head(queue[s])) \in Seq(1..published)
      BY <3>1, <3>2, AppendProperties
    <3>3. /\ queue' = [queue EXCEPT ![s] = Tail(queue[s])]
          /\ taken' = [taken EXCEPT ![s] = Append(taken[s], Head(queue[s]))]
          /\ UNCHANGED <<busClock, published, rows, subscribed, since, missed>>
      BY <2>5 DEF TakeEvent
    <3>4. queue' \in [Subscriber -> Seq(1..published)] /\ taken' \in [Subscriber -> Seq(1..published)]
      BY <3>2, <3>c, <3>3 DEF EventBusTypeOK
    <3>5. \A q \in Subscriber : Len(queue'[q]) <= QueueSize
      BY <3>b, <3>3 DEF EventBusTypeOK
    <3> QED BY <3>3, <3>4, <3>5 DEF EventBusTypeOK
  <2>6. ASSUME NEW stored \in BOOLEAN, Publish(stored) PROVE EventBusTypeOK'
    <3> DEFINE e == published + 1
    <3>1. /\ published < MaxEvents /\ published' = e /\ Deliver(e, stored)
          /\ rows' = IF stored THEN [d \in DOMAIN rows \cup {e} |-> IF d = e THEN busClock ELSE rows[d]]
                     ELSE rows
          /\ UNCHANGED <<busClock, taken, subscribed, since>>
      BY <2>6 DEF Publish
    <3>2. e \in 0..MaxEvents /\ e \in 1..e /\ e \in Nat /\ published <= e
      BY <2>0, <3>1
    <3> HIDE DEF e
    <3>3. /\ 0..published \subseteq 0..e /\ 1..published \subseteq 1..e
          /\ Seq(1..published) \subseteq Seq(1..e)
      BY <2>0, <3>2, MorePublished
    <3>4. DOMAIN rows' \subseteq 1..e /\ \A d \in DOMAIN rows' : rows'[d] \in Times
      BY <3>1, <3>2, <3>3 DEF EventBusTypeOK
    <3>5. taken' \in [Subscriber -> Seq(1..e)] /\ since' \in [Subscriber -> 0..e]
      BY <3>1, <3>3 DEF EventBusTypeOK
    <3>6. /\ queue' \in [Subscriber -> Seq(1..e)] /\ missed' \in [Subscriber -> SUBSET (1..e)]
          /\ \A s \in Subscriber : Len(queue'[s]) <= QueueSize
      <4>1. CASE ~stored
        BY <3>1, <3>3, <4>1 DEF Deliver, EventBusTypeOK
      <4>2. CASE stored
        <5>1. /\ queue' = [s \in Subscriber |-> IF s \in subscribed /\ ~Full(s)
                                                THEN Append(queue[s], e) ELSE queue[s]]
              /\ missed' = [s \in Subscriber |-> IF s \in subscribed /\ Full(s)
                                                 THEN missed[s] \cup {e} ELSE missed[s]]
          BY <3>1, <4>2 DEF Deliver, Broadcast
        <5>2. ASSUME NEW s \in Subscriber
              PROVE  /\ queue[s] \in Seq(1..e) /\ missed[s] \in SUBSET (1..e)
                     /\ Append(queue[s], e) \in Seq(1..e)
                     /\ Len(queue[s]) <= QueueSize
                     /\ ~Full(s) => Len(Append(queue[s], e)) <= QueueSize
          <6>1. queue[s] \in Seq(1..e) /\ missed[s] \in SUBSET (1..e) /\ Len(queue[s]) <= QueueSize
            BY <3>3 DEF EventBusTypeOK
          <6>2. Append(queue[s], e) \in Seq(1..e) /\ Len(Append(queue[s], e)) = Len(queue[s]) + 1
            BY <3>2, <6>1, AppendProperties
          <6>3. Len(queue[s]) \in Nat
            BY <6>1, LenProperties
          <6> QED BY <6>1, <6>2, <6>3 DEF Full
        <5> QED BY <3>2, <5>1, <5>2
      <4> QED BY <4>1, <4>2
    <3> QED BY <3>1, <3>2, <3>4, <3>5, <3>6 DEF EventBusTypeOK
  <2> QED BY <2>1, <2>2, <2>3, <2>4, <2>5, <2>6 DEF EventBusNext
<1> QED BY <1>1, <1>2, PTL DEF EventBusSpec

--------------------------------------------------------------------------------
(* Searches of arXiv.                                                          *)

InSession == {"turn", "sent", "backoff"}

\* A search in the session holds the lock, so one is at most; the one that waits
\* for its turn wakes when the interval since the last request has passed, and one
\* that backs off has an attempt left.
TurnInv ==
  /\ SourceTypeOK
  /\ \A c \in Search : searchAt[c] \in InSession => session = c
  /\ \A c \in Search : searchAt[c] = "turn" /\ lastRequestAt # Never =>
       wakeAt[c] >= lastRequestAt + Interval
  /\ \A c \in Search : searchAt[c] = "backoff" => attempt[c] < MaxAttempts

\* the end of a wait is a time
LEMMA TurnAtType ==
  ASSUME SourceTypeOK
  PROVE  TurnAt \in Nat /\ (lastRequestAt # Never => TurnAt >= lastRequestAt + Interval)
BY SourceAssumption DEF SourceTypeOK, TurnAt, Never

LEMMA TurnStep ==
  ASSUME TurnInv, SourceNext
  PROVE  TurnInv'
<1> USE SourceAssumption DEF InSession, Never, SearchGoes
<1>0. SourceTypeOK
  BY DEF TurnInv
<1>1. CASE SourceTick
  BY <1>1 DEF SourceTick, TurnInv, SourceTypeOK
<1>2. CASE RestartSearches
  BY <1>2 DEF RestartSearches, TurnInv, SourceTypeOK
<1> SUFFICES ASSUME NEW c \in Search, SearchStep(c)
             PROVE  TurnInv'
  BY <1>1, <1>2 DEF SourceNext
<1>3. CASE LookUp(c)
  BY <1>3 DEF LookUp, TurnInv, SourceTypeOK
<1>4. CASE EnterSession(c)
  <2>1. TurnAt \in Nat /\ (lastRequestAt # Never => TurnAt >= lastRequestAt + Interval)
    BY <1>0, TurnAtType
  <2>2. \A d \in Search : searchAt[d] \notin InSession
    BY <1>4 DEF EnterSession, Free, TurnInv
  <2> HIDE DEF Never
  <2>3. SourceTypeOK'
    BY <1>0, <1>4, <2>1 DEF EnterSession, SourceTypeOK
  <2>4. \A d \in Search : searchAt'[d] \in InSession => d = c /\ session' = d
    BY <1>0, <1>4, <2>2 DEF EnterSession, SourceTypeOK
  <2>5. wakeAt'[c] = TurnAt /\ lastRequestAt' = lastRequestAt
    BY <1>0, <1>4 DEF EnterSession, SourceTypeOK
  <2>6. \A d \in Search : searchAt'[d] # "backoff"
    BY <1>0, <1>4, <2>2 DEF EnterSession, SourceTypeOK
  <2> QED BY <2>1, <2>3, <2>4, <2>5, <2>6 DEF TurnInv, Never
<1>5. CASE SendRequest(c)
  <2>1. \A d \in Search : searchAt'[d] # "turn"
    BY <1>0, <1>5 DEF SendRequest, TurnInv, SourceTypeOK
  <2> QED BY <1>5, <2>1 DEF SendRequest, TurnInv, SourceTypeOK
<1>6. CASE Answers(c)
  BY <1>6 DEF Answers, LeaveSession, TurnInv, SourceTypeOK
<1>7. CASE GivesUp(c)
  BY <1>7 DEF GivesUp, LeaveSession, TurnInv, SourceTypeOK
<1>8. CASE RetryNow(c)
  <2>1. TurnAt \in Nat /\ (lastRequestAt # Never => TurnAt >= lastRequestAt + Interval)
    BY <1>0, TurnAtType
  <2>2. session = c
    BY <1>8 DEF RetryNow, TurnInv
  <2>3. SourceTypeOK'
    <3>1. attempt[c] + 1 \in 0..MaxAttempts
      BY <1>8 DEF RetryNow, TurnInv, SourceTypeOK
    <3> QED BY <1>0, <1>8, <2>1, <3>1 DEF RetryNow, SourceTypeOK
  <2>4. \A d \in Search : searchAt'[d] \in InSession => d = c /\ session' = d
    BY <1>0, <1>8, <2>2 DEF RetryNow, SourceTypeOK, TurnInv
  <2>5. wakeAt'[c] = TurnAt /\ lastRequestAt' = lastRequestAt
    BY <1>0, <1>8 DEF RetryNow, SourceTypeOK
  <2>6. \A d \in Search : searchAt'[d] # "backoff"
    BY <1>0, <1>8, <2>2 DEF RetryNow, SourceTypeOK, TurnInv
  <2> QED BY <2>1, <2>3, <2>4, <2>5, <2>6 DEF TurnInv
<1>9. CASE StoreAnswer(c)
  BY <1>9 DEF StoreAnswer, TurnInv, SourceTypeOK
<1>10. ASSUME NEW delay \in 0..MaxRetryWait, RetryLater(c, delay) PROVE TurnInv'
  BY <1>10 DEF RetryLater, TurnInv, SourceTypeOK
<1> QED BY <1>3, <1>4, <1>5, <1>6, <1>7, <1>8, <1>9, <1>10 DEF SearchStep

\* The variables keep their types, and only the search that holds the session
\* waits for a turn.
THEOREM SourceTypeCorrect == SourceSpec => []SourceTypeOK
<1>1. SourceInit => TurnInv
  BY SourceAssumption DEF SourceInit, TurnInv, SourceTypeOK, InSession, Never
<1>2. TurnInv /\ [SourceNext]_sourceVars => TurnInv'
  <2>1. ASSUME TurnInv, UNCHANGED sourceVars PROVE TurnInv'
    BY <2>1 DEF sourceVars, TurnInv, SourceTypeOK
  <2> QED BY <2>1, TurnStep
<1>3. TurnInv => SourceTypeOK
  BY DEF TurnInv
<1> QED BY <1>1, <1>2, <1>3, PTL DEF SourceSpec

\* RequestsSpaced: whatever the number of searches and of retries, the requests
\* of one process are at least the interval apart.
THEOREM RequestsAreSpaced == SourceSpec => RequestsSpaced
<1>1. SourceInit => TurnInv
  BY SourceAssumption DEF SourceInit, TurnInv, SourceTypeOK, InSession, Never
<1>2. TurnInv /\ [SourceNext]_sourceVars => TurnInv'
  <2>1. ASSUME TurnInv, UNCHANGED sourceVars PROVE TurnInv'
    BY <2>1 DEF sourceVars, TurnInv, SourceTypeOK
  <2> QED BY <2>1, TurnStep
<1>3. TurnInv /\ [SourceNext]_sourceVars =>
        [\A c \in Search : SendRequest(c) /\ lastRequestAt # Never =>
           sourceTime >= lastRequestAt + Interval]_sourceVars
  <2> SUFFICES ASSUME TurnInv, NEW c \in Search, SendRequest(c), lastRequestAt # Never
               PROVE  sourceTime >= lastRequestAt + Interval
    OBVIOUS
  <2>1. wakeAt[c] >= lastRequestAt + Interval /\ sourceTime >= wakeAt[c]
    BY DEF TurnInv, SendRequest, SearchGoes
  <2> QED BY <2>1, SourceAssumption DEF TurnInv, SourceTypeOK, Never
<1> QED BY <1>1, <1>2, <1>3, PTL DEF SourceSpec, RequestsSpaced

--------------------------------------------------------------------------------
(* Circuit breakers.                                                           *)

CircuitTypeOK ==
  /\ poolTime \in Nat
  /\ circuit \in [Endpoint -> {"CLOSED", "OPEN", "HALF_OPEN"}]
  /\ failureCount \in [Endpoint -> Nat] /\ streak \in [Endpoint -> Nat]
  /\ lastFailure \in [Endpoint -> Nat] /\ lastHard \in [Endpoint -> Nat]
  /\ calling \in [ChatCall -> 0..Endpoints]

\* A closed circuit has counted every failure of the streak, and fewer than the
\* threshold; one that is half open after more was open until the last of them
\* was Recovery ago.
CircuitInv ==
  /\ CircuitTypeOK
  /\ \A e \in Endpoint :
       /\ circuit[e] = "CLOSED" => streak[e] = failureCount[e] /\ streak[e] < Threshold
       /\ streak[e] > 0 => lastFailure[e] = lastHard[e]
       /\ circuit[e] = "HALF_OPEN" /\ streak[e] >= Threshold =>
            poolTime >= lastHard[e] + Recovery

LEMMA CircuitStep ==
  ASSUME CircuitInv, ProviderPoolNext
  PROVE  CircuitInv'
<1> USE ProviderPoolAssumption
<1>1. CASE PoolTick
  BY <1>1 DEF PoolTick, CircuitInv, CircuitTypeOK
<1>2. CASE GetHealthStatus
  <2>1. CircuitTypeOK'
    BY <1>2 DEF GetHealthStatus, CircuitInv, CircuitTypeOK, Probed
  <2> QED BY <1>2, <2>1 DEF GetHealthStatus, CircuitInv, CircuitTypeOK, Probed, CooledDown
<1>3. ASSUME NEW e \in Endpoint, ResetCircuit(e) PROVE CircuitInv'
  BY <1>3 DEF ResetCircuit, CircuitInv, CircuitTypeOK
<1>4. ASSUME NEW c \in ChatCall, NextCandidate(c), CircuitTypeOK
      PROVE  calling' \in [ChatCall -> 0..Endpoints]
  BY <1>4 DEF NextCandidate, CircuitTypeOK
<1>5. ASSUME NEW c \in ChatCall, CompleteChat(c) PROVE CircuitInv'
  BY <1>5 DEF CompleteChat, CircuitInv, CircuitTypeOK
<1>6. ASSUME NEW c \in ChatCall, SkipCandidate(c) PROVE CircuitInv'
  <2>1. CircuitTypeOK'
    BY <1>4, <1>6 DEF SkipCandidate, CircuitInv, CircuitTypeOK, Probed
  <2> QED BY <1>6, <2>1 DEF SkipCandidate, CircuitInv, CircuitTypeOK, Probed, CooledDown
<1>7. ASSUME NEW c \in ChatCall, StartRequest(c) PROVE CircuitInv'
  <2>1. CircuitTypeOK'
    BY <1>7 DEF StartRequest, CircuitInv, CircuitTypeOK, Probed
  <2> QED BY <1>7, <2>1 DEF StartRequest, CircuitInv, CircuitTypeOK, Probed, CooledDown
<1>8. ASSUME NEW c \in ChatCall, Succeeds(c) PROVE CircuitInv'
  <2>1. CircuitTypeOK'
    <3>1. circuit' \in [Endpoint -> {"CLOSED", "OPEN", "HALF_OPEN"}]
      BY <1>8 DEF Succeeds, CircuitInv, CircuitTypeOK
    <3> QED BY <1>8, <3>1 DEF Succeeds, CircuitInv, CircuitTypeOK
  <2> QED BY <1>8, <2>1 DEF Succeeds, CircuitInv, CircuitTypeOK
<1>9. ASSUME NEW c \in ChatCall, FailsHard(c) PROVE CircuitInv'
  <2>1. CircuitTypeOK'
    <3>1. CircuitTypeOK /\ NextCandidate(c) /\ poolTime' = poolTime
      BY <1>9 DEF FailsHard, HardFailure, CircuitInv
    <3>2. calling' \in [ChatCall -> 0..Endpoints]
      BY <1>4, <3>1
    <3>3. Tripped(calling[c]) \in {"CLOSED", "OPEN", "HALF_OPEN"} \/ calling[c] \notin Endpoint
      BY <3>1 DEF Tripped, CircuitTypeOK
    <3>4. circuit' \in [Endpoint -> {"CLOSED", "OPEN", "HALF_OPEN"}]
      BY <1>9, <3>1, <3>3 DEF FailsHard, HardFailure, CircuitTypeOK
    <3>5. calling[c] \in Endpoint =>
            failureCount[calling[c]] + 1 \in Nat /\ streak[calling[c]] + 1 \in Nat
      BY <3>1 DEF CircuitTypeOK
    <3>7. /\ failureCount' \in {failureCount, [failureCount EXCEPT ![calling[c]] = @ + 1]}
          /\ streak' \in {streak, [streak EXCEPT ![calling[c]] = @ + 1]}
      <4>1. failureCount' \in {failureCount, [failureCount EXCEPT ![calling[c]] = @ + 1]}
        BY <1>9, <3>1, Zenon DEF FailsHard, HardFailure, CircuitTypeOK
      <4>2. streak' \in {streak, [streak EXCEPT ![calling[c]] = @ + 1]}
        BY <1>9, <3>1, Zenon DEF FailsHard, HardFailure, CircuitTypeOK
      <4> QED BY <4>1, <4>2
    <3>8. failureCount' \in [Endpoint -> Nat] /\ streak' \in [Endpoint -> Nat]
      BY <3>1, <3>5, <3>7 DEF CircuitTypeOK
    <3>6. lastFailure' \in [Endpoint -> Nat] /\ lastHard' \in [Endpoint -> Nat]
      BY <1>9, <3>1 DEF FailsHard, HardFailure, CircuitTypeOK
    <3> QED BY <3>1, <3>2, <3>4, <3>6, <3>8 DEF CircuitTypeOK
  <2>2. ASSUME NEW d \in Endpoint, d # calling[c]
        PROVE  /\ circuit'[d] = circuit[d] /\ failureCount'[d] = failureCount[d]
               /\ streak'[d] = streak[d] /\ lastFailure'[d] = lastFailure[d]
               /\ lastHard'[d] = lastHard[d]
    BY <1>9, <2>2 DEF FailsHard, HardFailure, CircuitInv, CircuitTypeOK
  <2>3. ASSUME NEW d \in Endpoint, d = calling[c]
        PROVE  /\ circuit'[d] = Tripped(d)
               /\ failureCount'[d] = IF circuit[d] = "CLOSED" THEN failureCount[d] + 1
                                     ELSE failureCount[d]
               /\ streak'[d] = IF streak[d] < Threshold THEN streak[d] + 1 ELSE streak[d]
               /\ lastFailure'[d] = lastHard'[d]
    BY <1>9, <2>3 DEF FailsHard, HardFailure, CircuitInv, CircuitTypeOK
  <2>4. poolTime' = poolTime
    BY <1>9 DEF FailsHard
  <2>5. ASSUME NEW d \in Endpoint, d = calling[c]
        PROVE  /\ circuit'[d] = "CLOSED" => streak'[d] = failureCount'[d] /\ streak'[d] < Threshold
               /\ circuit'[d] # "HALF_OPEN"
    BY <2>3, <2>5 DEF Tripped, CircuitInv, CircuitTypeOK
  <2> QED BY <2>1, <2>2, <2>3, <2>4, <2>5 DEF CircuitInv
<1>10. ASSUME NEW c \in ChatCall, FailsSoft(c) PROVE CircuitInv'
  BY <1>4, <1>10 DEF FailsSoft, CircuitInv, CircuitTypeOK
<1>11. ASSUME NEW c \in ChatCall, RetryWithoutToggle(c) PROVE CircuitInv'
  BY <1>11 DEF RetryWithoutToggle, CircuitInv, CircuitTypeOK
<1> QED BY <1>1, <1>2, <1>3, <1>5, <1>6, <1>7, <1>8, <1>9, <1>10, <1>11 DEF ProviderPoolNext

\* CoolsDown: whatever the number of endpoints and of concurrent calls, and
\* whatever was in flight, an endpoint that failed Threshold times in a row gets
\* no request until Recovery has passed since it last failed.
THEOREM EndpointsCoolDown == ProviderPoolSpec => CoolsDown
<1>1. ProviderPoolInit => CircuitInv
  BY ProviderPoolAssumption DEF ProviderPoolInit, CircuitInv, CircuitTypeOK, Endpoint
<1>2. CircuitInv /\ [ProviderPoolNext]_poolVars => CircuitInv'
  <2>1. ASSUME CircuitInv, UNCHANGED poolVars PROVE CircuitInv'
    BY <2>1 DEF poolVars, CircuitInv, CircuitTypeOK
  <2> QED BY <2>1, CircuitStep
<1>3. CircuitInv /\ [ProviderPoolNext]_poolVars =>
        [\A c \in ChatCall : StartRequest(c) =>
           \/ streak[calling[c]] < Threshold
           \/ poolTime >= lastHard[calling[c]] + Recovery]_poolVars
  <2> SUFFICES ASSUME CircuitInv, NEW c \in ChatCall, StartRequest(c),
                      ~(streak[calling[c]] < Threshold)
               PROVE  poolTime >= lastHard[calling[c]] + Recovery
    OBVIOUS
  <2> DEFINE e == calling[c]
  <2>0. e \in Endpoint
    BY ProviderPoolAssumption DEF StartRequest, CircuitInv, CircuitTypeOK, Endpoint
  <2>1. streak[e] >= Threshold /\ streak[e] > 0 /\ circuit[e] # "CLOSED"
    BY <2>0, ProviderPoolAssumption DEF CircuitInv, CircuitTypeOK
  <2>2. circuit[e] # "OPEN" \/ poolTime >= lastFailure[e] + Recovery
    BY DEF StartRequest, CanAttempt, CooledDown
  <2> QED BY <2>0, <2>1, <2>2 DEF CircuitInv, CircuitTypeOK
<1> QED BY <1>1, <1>2, <1>3, PTL DEF ProviderPoolSpec, CoolsDown

\* What is left of the requests of an endpoint are requests.
LEMMA StillRequests ==
  ASSUME NEW S, NEW s \in Seq(S)
  PROVE  StillInWindow(s) \in Seq(S)
<1> DEFINE gone == {i \in DOMAIN s : ~InWindow(s[i])}
<1>1. Len(s) \in Nat /\ DOMAIN s = 1..Len(s) /\ \A i \in 1..Len(s) : s[i] \in S
  BY LenProperties, ElementOfSeq
<1>2. IsFiniteSet(gone)
  <2>1. IsFiniteSet(1..Len(s))
    BY <1>1, FS_Interval
  <2> QED BY <1>1, <2>1, FS_Subset
<1>3. Cardinality(gone) \in Nat
  BY <1>2, FS_CardinalityType
<1> HIDE DEF gone
<1>4. \A i \in (1 + Cardinality(gone))..Len(s) : i \in 1..Len(s)
  BY <1>1, <1>3
<1>5. SubSeq(s, 1 + Cardinality(gone), Len(s)) \in Seq(S)
  BY <1>1, <1>3, <1>4, SubSeqProperties
<1> QED BY <1>5 DEF StillInWindow, gone

\* The types CircuitStep leaves open.
PoolRest ==
  /\ poolTime \in 0..MaxTime
  /\ lastFailure \in [Endpoint -> 0..MaxTime] /\ lastHard \in [Endpoint -> 0..MaxTime]
  /\ sent \in [Endpoint -> Seq([at : 0..MaxTime, recorded : BOOLEAN])]
  /\ toggle \subseteq Endpoint
  /\ onWire \in [ChatCall -> {"nothing", "request", "retry"}]

LEMMA PoolRestStep ==
  ASSUME PoolRest, ProviderPoolNext
  PROVE  PoolRest'
<1> USE ProviderPoolAssumption
<1>1. CASE PoolTick
  <2>1. poolTime' \in 0..MaxTime
    BY <1>1 DEF PoolTick, PoolRest
  <2> QED BY <1>1, <2>1 DEF PoolTick, PoolRest
<1>2. CASE GetHealthStatus
  BY <1>2 DEF GetHealthStatus, PoolRest
<1>3. ASSUME NEW e \in Endpoint, ResetCircuit(e) PROVE PoolRest'
  <2>1. 0 \in 0..MaxTime
    OBVIOUS
  <2>2. lastFailure' \in [Endpoint -> 0..MaxTime]
    BY <1>3, <2>1 DEF ResetCircuit, PoolRest
  <2> QED BY <1>3, <2>2 DEF ResetCircuit, PoolRest
<1>4. ASSUME NEW e, NEW recorded \in BOOLEAN, Send(e, recorded)
      PROVE  sent' \in [Endpoint -> Seq([at : 0..MaxTime, recorded : BOOLEAN])]
  <2> DEFINE Requests == [at : 0..MaxTime, recorded : BOOLEAN]
             request == [at |-> poolTime, recorded |-> recorded]
  <2>1. request \in Requests
    BY DEF PoolRest
  <2>2. ASSUME e \in Endpoint PROVE Append(StillInWindow(sent[e]), request) \in Seq(Requests)
    <3>1. sent[e] \in Seq(Requests)
      BY <2>2 DEF PoolRest
    <3>2. StillInWindow(sent[e]) \in Seq(Requests)
      BY <3>1, StillRequests
    <3> QED BY <2>1, <3>2, AppendProperties
  <2>3. sent' = [sent EXCEPT ![e] = Append(StillInWindow(sent[e]), request)]
    BY <1>4 DEF Send
  <2> HIDE DEF request
  <2> QED BY <2>2, <2>3 DEF PoolRest
<1>5. ASSUME NEW c \in ChatCall, CompleteChat(c) \/ SkipCandidate(c) PROVE PoolRest'
  BY <1>5 DEF CompleteChat, SkipCandidate, PoolRest
<1>6. ASSUME NEW c \in ChatCall, StartRequest(c) PROVE PoolRest'
  <2>1. /\ Send(calling[c], TRUE) /\ onWire' = [onWire EXCEPT ![c] = "request"]
        /\ UNCHANGED <<poolTime, lastFailure, toggle, lastHard>>
    BY <1>6 DEF StartRequest
  <2> QED BY <1>4, <2>1 DEF PoolRest
<1>7. ASSUME NEW c \in ChatCall, Succeeds(c) \/ FailsSoft(c) PROVE PoolRest'
  BY <1>7 DEF Succeeds, FailsSoft, PoolRest
<1>8. ASSUME NEW c \in ChatCall, FailsHard(c) PROVE PoolRest'
  BY <1>8 DEF FailsHard, HardFailure, PoolRest
<1>9. ASSUME NEW c \in ChatCall, RetryWithoutToggle(c) PROVE PoolRest'
  <2>1. /\ Send(calling[c], FALSE) /\ onWire' = [onWire EXCEPT ![c] = "retry"]
        /\ toggle' = toggle \ {calling[c]}
        /\ UNCHANGED <<poolTime, lastFailure, lastHard>>
    BY <1>9 DEF RetryWithoutToggle
  <2> QED BY <1>4, <2>1 DEF PoolRest
<1> QED BY <1>1, <1>2, <1>3, <1>5, <1>6, <1>7, <1>8, <1>9 DEF ProviderPoolNext

\* Every failure and every request has a time of the clock, and no call is at an
\* endpoint that does not exist.
THEOREM ProviderPoolTypeCorrect == ProviderPoolSpec => []ProviderPoolTypeOK
<1>1. ProviderPoolInit => CircuitInv /\ PoolRest
  <2> SUFFICES ASSUME ProviderPoolInit PROVE CircuitInv /\ PoolRest
    OBVIOUS
  <2>1. CircuitInv
    BY ProviderPoolAssumption DEF ProviderPoolInit, CircuitInv, CircuitTypeOK, Endpoint
  <2>2. << >> \in Seq([at : 0..MaxTime, recorded : BOOLEAN])
    BY EmptySeq
  <2>3. PoolRest
    BY <2>2, ProviderPoolAssumption DEF ProviderPoolInit, PoolRest
  <2> QED BY <2>1, <2>3
<1>2. CircuitInv /\ PoolRest /\ [ProviderPoolNext]_poolVars => (CircuitInv /\ PoolRest)'
  <2>1. ASSUME CircuitInv, PoolRest, UNCHANGED poolVars PROVE CircuitInv' /\ PoolRest'
    BY <2>1 DEF poolVars, CircuitInv, CircuitTypeOK, PoolRest
  <2> QED BY <2>1, CircuitStep, PoolRestStep
<1>3. CircuitInv /\ PoolRest => ProviderPoolTypeOK
  BY DEF CircuitInv, CircuitTypeOK, PoolRest, ProviderPoolTypeOK
<1> QED BY <1>1, <1>2, <1>3, PTL DEF ProviderPoolSpec

--------------------------------------------------------------------------------
(* The budget of tool calls.                                                   *)

Callers == Cardinality(Caller)

--------------------------------------------------------------------------------
(* Counting callers.                                                           *)

\* Sets of callers are finite and no larger than the set of all.
LEMMA CallersCount ==
  ASSUME NEW S \in SUBSET Caller
  PROVE  IsFiniteSet(S) /\ Cardinality(S) \in Nat /\ Callers \in Nat /\ Cardinality(S) <= Callers
BY FS_Subset, FS_CardinalityType, ToolBudgetAssumption DEF Callers

\* Sets of callers that have none in common count together no more than all.
LEMMA ApartCount ==
  ASSUME NEW S \in SUBSET Caller, NEW T \in SUBSET Caller, S \cap T = {}
  PROVE  Cardinality(S) + Cardinality(T) <= Callers
<1>1. /\ IsFiniteSet(S) /\ IsFiniteSet(T) /\ S \cup T \in SUBSET Caller
      /\ Cardinality(S) \in Nat /\ Cardinality(T) \in Nat
  BY CallersCount
<1>2. Cardinality(S \cup T) = Cardinality(S) + Cardinality(T) - Cardinality(S \cap T)
  BY <1>1, FS_Union
<1>3. Cardinality(S \cap T) = 0
  BY FS_EmptySet
<1>4. Cardinality(S \cup T) <= Callers
  BY <1>1, CallersCount
<1> QED BY <1>1, <1>2, <1>3, <1>4

\* What a caller that comes or goes does to the size of a set of callers.
LEMMA OneMore ==
  ASSUME NEW S \in SUBSET Caller, NEW c \in Caller, c \notin S
  PROVE  Cardinality(S \cup {c}) = Cardinality(S) + 1
BY CallersCount, FS_AddElement

LEMMA OneLess ==
  ASSUME NEW S \in SUBSET Caller, NEW c \in S
  PROVE  Cardinality(S \ {c}) = Cardinality(S) - 1 /\ Cardinality(S) >= 1
<1>1. IsFiniteSet(S) /\ Cardinality(S) \in Nat
  BY CallersCount
<1>2. Cardinality(S \ {c}) = Cardinality(S) - 1
  BY <1>1, FS_RemoveElement
<1>3. Cardinality(S \ {c}) \in Nat
  BY CallersCount
<1> QED BY <1>1, <1>2, <1>3

--------------------------------------------------------------------------------
(* Type correctness.                                                           *)

\* The rows, the reads and the places of the callers keep their types.
THEOREM ToolBudgetTypeCorrect == ToolBudgetSpec => []ToolBudgetTypeOK
<1>1. ToolBudgetInit => ToolBudgetTypeOK
  BY DEF ToolBudgetInit, ToolBudgetTypeOK
<1>2. ToolBudgetTypeOK /\ [ToolBudgetNext]_toolVars => ToolBudgetTypeOK'
  <2> SUFFICES ASSUME ToolBudgetTypeOK, [ToolBudgetNext]_toolVars
               PROVE  ToolBudgetTypeOK'
    OBVIOUS
  <2> USE DEF ToolBudgetTypeOK, Move
  <2>1. CASE UNCHANGED toolVars
    BY <2>1 DEF toolVars
  <2> SUFFICES ASSUME NEW c \in Caller, ToolBudgetStep(c)
               PROVE  ToolBudgetTypeOK'
    BY <2>1 DEF ToolBudgetNext
  <2>2. ASSUME NEW late \in BOOLEAN, ReadLimit(c, late) PROVE ToolBudgetTypeOK'
    BY <2>2 DEF ReadLimit
  <2>3. ASSUME NEW long \in BOOLEAN, ReadReservations(c, long) PROVE ToolBudgetTypeOK'
    BY <2>3 DEF ReadReservations
  <2>4. CASE ReadUsage(c)
    BY <2>4 DEF ReadUsage
  <2>5. CASE InsertReservation(c)
    BY <2>5 DEF InsertReservation
  <2>6. CASE SettleToolBudget(c)
    BY <2>6 DEF SettleToolBudget
  <2>7. CASE ReleaseToolBudget(c)
    BY <2>7 DEF ReleaseToolBudget
  <2>8. CASE Abandon(c)
    BY <2>8 DEF Abandon
  <2>9. CASE StopAfterDenial(c)
    BY <2>9 DEF StopAfterDenial
  <2>10. CASE FailRunAfterStop(c)
    BY <2>10 DEF FailRunAfterStop
  <2> QED BY <2>2, <2>3, <2>4, <2>5, <2>6, <2>7, <2>8, <2>9, <2>10 DEF ToolBudgetStep
<1> QED BY <1>1, <1>2, PTL DEF ToolBudgetSpec

--------------------------------------------------------------------------------
(* The limit.                                                                  *)

\* The callers that may still insert: what they have read lets them.
Entering == {c \in Caller : \/ callerAt[c] = "checked"
                            \/ callerAt[c] = "usage" /\ seenUsage[c] + orphans + 1 <= ToolLimit}

\* A caller joins the window having read the usage there is; those that hold a
\* reservation by then are not in the window.  From then on a caller leaves the
\* window when it inserts.
BoundInv ==
  /\ ToolBudgetTypeOK
  /\ ToolCallsBounded
  /\ Entering # {} => Charged + Cardinality(Entering) <= ToolLimit + Callers - 1

LEMMA WindowCount ==
  /\ Entering \in SUBSET Caller /\ Holding \in SUBSET Caller
  /\ Cardinality(Entering) \in Nat /\ Cardinality(Holding) \in Nat /\ Callers \in Nat
  /\ Cardinality(Entering) + Cardinality(Holding) <= Callers
<1>1. Entering \in SUBSET Caller /\ Holding \in SUBSET Caller /\ Entering \cap Holding = {}
  BY DEF Entering, Holding, At
<1> QED BY <1>1, CallersCount, ApartCount

\* A step that charges no call and lets nobody into the window.
LEMMA WindowShrinks ==
  ASSUME BoundInv, ToolBudgetTypeOK', Charged' <= Charged, Charged \in Int, Charged' \in Int,
         Entering' \in SUBSET Entering
  PROVE  BoundInv'
<1>1. /\ Entering \in SUBSET Caller /\ IsFiniteSet(Entering) /\ Cardinality(Entering) \in Nat
      /\ Callers \in Nat /\ ToolLimit \in Nat
  BY WindowCount, CallersCount, ToolBudgetAssumption
<1>2. Cardinality(Entering') <= Cardinality(Entering) /\ Cardinality(Entering') \in Nat
  BY <1>1, FS_Subset, FS_CardinalityType
<1>3. Entering' # {} => Entering # {}
  OBVIOUS
<1>4. ToolCallsBounded'
  BY <1>1 DEF BoundInv, ToolCallsBounded, Callers
<1>5. Entering' # {} => Charged' + Cardinality(Entering') <= ToolLimit + Callers - 1
  BY <1>1, <1>2, <1>3 DEF BoundInv
<1> QED BY <1>4, <1>5 DEF BoundInv, Callers

\* The numbers of the model, typed.
LEMMA Numbers ==
  ASSUME ToolBudgetTypeOK
  PROVE  /\ Cardinality(Holding) \in Nat /\ Cardinality(Entering) \in Nat /\ Callers \in Nat
         /\ Charged \in Nat /\ Reserved \in Nat
         /\ toolUsage \in Nat /\ orphans \in Nat /\ ToolLimit \in Nat
         /\ Charged = toolUsage + Cardinality(Holding) + orphans
BY WindowCount, ToolBudgetAssumption DEF ToolBudgetTypeOK, Charged, Reserved

\* Every step of a caller keeps the bound.
LEMMA BoundStep ==
  ASSUME BoundInv, ToolBudgetTypeOK', NEW c \in Caller, ToolBudgetStep(c)
  PROVE  BoundInv'
<1>1. ToolBudgetTypeOK
  BY DEF BoundInv
<1>2. Charged \in Nat /\ Charged' \in Nat /\ Cardinality(Holding) \in Nat
      /\ toolUsage \in Nat /\ orphans \in Nat
  <2>1. Holding' \in SUBSET Caller
    BY DEF Holding, At
  <2>2. Charged' \in Nat
    BY <2>1, CallersCount DEF ToolBudgetTypeOK, Charged, Reserved
  <2> QED BY <1>1, <2>2, Numbers
<1> USE DEF Move
<1>3. CASE /\ Holding' = Holding /\ toolUsage' = toolUsage /\ orphans' = orphans
           /\ Entering' \in SUBSET Entering
  BY <1>2, <1>3, WindowShrinks DEF Charged, Reserved
<1>4. ASSUME NEW late \in BOOLEAN, ReadLimit(c, late) PROVE BoundInv'
  BY <1>1, <1>3, <1>4 DEF ReadLimit, Holding, At, Entering, ToolBudgetTypeOK
<1>5. ASSUME NEW long \in BOOLEAN, ReadReservations(c, long) PROVE BoundInv'
  <2>1. Fits(c, long) => seenUsage[c] + orphans + 1 <= ToolLimit
    BY <1>1, <1>2, ToolBudgetAssumption DEF Fits, Reserved, ToolBudgetTypeOK
  <2>2. Entering' \in SUBSET Entering
    BY <1>1, <1>5, <2>1 DEF ReadReservations, Entering, ToolBudgetTypeOK
  <2> QED BY <1>1, <1>3, <1>5, <2>2 DEF ReadReservations, Holding, At, ToolBudgetTypeOK
<1>6. CASE ReadUsage(c)
  <2>1. Holding' = Holding /\ Charged' = Charged
    BY <1>1, <1>6 DEF ReadUsage, Holding, At, ToolBudgetTypeOK, Charged, Reserved
  <2>2. CASE toolUsage + orphans + 1 <= ToolLimit
    <3>0. /\ Entering' \in SUBSET Caller /\ Holding' \in SUBSET Caller
          /\ Entering' \cap Holding' = {}
      BY DEF Entering, Holding, At
    <3>1. /\ Cardinality(Entering') + Cardinality(Holding') <= Callers
          /\ Cardinality(Entering') \in Nat
          /\ Callers \in Nat /\ ToolLimit \in Nat
      BY <3>0, ApartCount, CallersCount, ToolBudgetAssumption
    <3>2. Charged' + Cardinality(Entering') <= ToolLimit + Callers - 1
      BY <1>1, <1>2, <2>1, <2>2, <3>1, Numbers
    <3> QED BY <2>1, <3>1, <3>2 DEF BoundInv, ToolCallsBounded, Callers
  <2>3. CASE ~(toolUsage + orphans + 1 <= ToolLimit)
    <3>1. Entering' \in SUBSET Entering
      BY <1>1, <1>6, <2>3 DEF ReadUsage, Entering, ToolBudgetTypeOK
    <3> QED BY <1>3, <1>6, <2>1, <3>1 DEF ReadUsage
  <2> QED BY <2>2, <2>3
<1>7. CASE InsertReservation(c)
  <2>1. c \in Entering /\ Entering' = Entering \ {c}
    BY <1>1, <1>7 DEF InsertReservation, Entering, ToolBudgetTypeOK
  <2>2. c \notin Holding /\ Holding' = Holding \cup {c}
    BY <1>1, <1>7 DEF InsertReservation, Holding, At, ToolBudgetTypeOK
  <2>3. Entering \in SUBSET Caller /\ Holding \in SUBSET Caller /\ Cardinality(Entering) \in Nat
        /\ Callers \in Nat /\ ToolLimit \in Nat
    BY <1>1, WindowCount, ToolBudgetAssumption
  <2>4. Cardinality(Entering') = Cardinality(Entering) - 1 /\ Cardinality(Entering) >= 1
    BY <2>1, <2>3, OneLess
  <2>5. Cardinality(Holding') = Cardinality(Holding) + 1
    BY <2>2, <2>3, OneMore
  <2>6. Charged' = Charged + 1
    BY <1>2, <1>7, <2>5 DEF InsertReservation, Charged, Reserved
  <2>7. Charged + Cardinality(Entering) <= ToolLimit + Callers - 1
    BY <2>1 DEF BoundInv
  <2> QED BY <1>2, <2>3, <2>4, <2>6, <2>7 DEF BoundInv, ToolCallsBounded, Callers
<1>8. ASSUME c \in Holding, Holding' = Holding \ {c}
      PROVE  Cardinality(Holding') = Cardinality(Holding) - 1
  BY <1>8, OneLess, WindowCount
<1>9. CASE SettleToolBudget(c)
  <2>1. c \in Holding /\ Holding' = Holding \ {c} /\ Entering' \in SUBSET Entering
    BY <1>1, <1>9 DEF SettleToolBudget, Holding, At, Entering, ToolBudgetTypeOK
  <2>2. Charged' = Charged
    BY <1>2, <1>8, <1>9, <2>1 DEF SettleToolBudget, Charged, Reserved
  <2> QED BY <1>2, <2>1, <2>2, WindowShrinks
<1>10. CASE ReleaseToolBudget(c)
  <2>1. c \in Holding /\ Holding' = Holding \ {c} /\ Entering' \in SUBSET Entering
    BY <1>1, <1>10 DEF ReleaseToolBudget, Holding, At, Entering, ToolBudgetTypeOK
  <2>2. Charged' = Charged - 1
    BY <1>2, <1>8, <1>10, <2>1 DEF ReleaseToolBudget, Charged, Reserved
  <2> QED BY <1>2, <2>1, <2>2, WindowShrinks
<1>11. CASE Abandon(c)
  <2>1. orphans' >= orphans /\ toolUsage' = toolUsage
    BY <1>2, <1>11 DEF Abandon
  <2>2. \A d \in Caller : d \in Entering' => d \in Entering
    BY <1>1, <1>2, <1>11, <2>1, ToolBudgetAssumption DEF Abandon, Entering, ToolBudgetTypeOK
  <2>3. Entering' \in SUBSET Entering
    BY <2>2 DEF Entering
  <2>4. CASE c \in Holding
    <3>1. Holding' = Holding \ {c}
      BY <1>1, <1>11, <2>4 DEF Abandon, Holding, At, ToolBudgetTypeOK
    <3>2. orphans' = orphans + 1
      BY <1>11, <2>4 DEF Abandon
    <3>3. Charged' = Charged
      BY <1>2, <1>8, <2>1, <2>4, <3>1, <3>2 DEF Charged, Reserved
    <3> QED BY <1>2, <2>3, <3>3, WindowShrinks
  <2>5. CASE c \notin Holding
    <3>1. Holding' = Holding /\ orphans' = orphans
      BY <1>1, <1>11, <2>5 DEF Abandon, Holding, At, ToolBudgetTypeOK
    <3> QED BY <1>3, <2>1, <2>3, <3>1
  <2> QED BY <2>4, <2>5
<1>12. CASE StopAfterDenial(c)
  BY <1>1, <1>3, <1>12 DEF StopAfterDenial, Holding, At, Entering, ToolBudgetTypeOK
<1>13. CASE FailRunAfterStop(c)
  BY <1>1, <1>3, <1>13 DEF FailRunAfterStop, Holding, At, Entering, ToolBudgetTypeOK
<1> QED BY <1>4, <1>5, <1>6, <1>7, <1>9, <1>10, <1>11, <1>12, <1>13 DEF ToolBudgetStep

\* ToolCallsBounded: for any number of callers and any limit, the calls charged and reserved pass
\* the limit by less than the number of callers.
THEOREM ToolCallsAreBounded == ToolBudgetSpec => []ToolCallsBounded
<1>1. ToolBudgetInit => BoundInv
  <2> SUFFICES ASSUME ToolBudgetInit PROVE BoundInv
    OBVIOUS
  <2>1. ToolBudgetTypeOK
    BY DEF ToolBudgetInit, ToolBudgetTypeOK
  <2>2. Entering = {} /\ Holding = {}
    BY DEF ToolBudgetInit, Entering, Holding, At
  <2>3. Charged = 0
    BY <2>2, FS_EmptySet DEF ToolBudgetInit, Charged, Reserved
  <2>4. Callers \in Nat /\ Callers # 0 /\ ToolLimit \in Nat
    BY FS_EmptySet, FS_CardinalityType, ToolBudgetAssumption DEF Callers
  <2> QED BY <2>1, <2>2, <2>3, <2>4 DEF BoundInv, ToolCallsBounded, Callers
<1>2. BoundInv /\ ToolBudgetTypeOK' /\ [ToolBudgetNext]_toolVars => BoundInv'
  <2>1. ASSUME BoundInv, UNCHANGED toolVars PROVE BoundInv'
    BY <2>1 DEF toolVars, BoundInv, ToolBudgetTypeOK, ToolCallsBounded, Entering, Charged,
       Reserved, Holding, At
  <2> QED BY <2>1, BoundStep DEF ToolBudgetNext
<1>3. BoundInv => ToolCallsBounded
  BY DEF BoundInv
<1> QED BY <1>1, <1>2, <1>3, ToolBudgetTypeCorrect, PTL DEF ToolBudgetSpec
--------------------------------------------------------------------------------
(* The stop.                                                                   *)

\* The callers that have read the limit and not yet inserted.
Underway == At({"limit", "usage", "checked"})

\* Once the budget has stopped nobody joins them.
StopInv ==
  /\ ToolBudgetTypeOK
  /\ toolState = "active" => lateStarts = 0
  /\ toolState = "stopped" => lateStarts + Cardinality(Underway) <= Callers - 1

\* A step that lets nobody join and starts nothing late.
LEMMA UnderwayShrinks ==
  ASSUME StopInv, ToolBudgetTypeOK', Underway' \in SUBSET Underway,
         toolState' = toolState, lateStarts' = lateStarts
  PROVE  StopInv'
<1>1. Underway \in SUBSET Caller
  BY DEF Underway, At
<1>2. /\ Cardinality(Underway') <= Cardinality(Underway) /\ Callers \in Nat
      /\ Cardinality(Underway') \in Nat /\ Cardinality(Underway) \in Nat
  BY <1>1, CallersCount, FS_Subset
<1> QED BY <1>1, <1>2 DEF StopInv, ToolBudgetTypeOK, Callers

LEMMA StopStep ==
  ASSUME StopInv, ToolBudgetTypeOK', NEW c \in Caller, ToolBudgetStep(c)
  PROVE  StopInv'
<1>1. ToolBudgetTypeOK
  BY DEF StopInv
<1>2. /\ Underway \in SUBSET Caller /\ Underway' \in SUBSET Caller
  BY DEF Underway, At
<1>3. /\ Cardinality(Underway) \in Nat /\ Cardinality(Underway') \in Nat /\ Callers \in Nat
      /\ lateStarts \in Nat
  BY <1>1, <1>2, CallersCount DEF ToolBudgetTypeOK
<1> USE DEF Move
<1>4. ASSUME NEW late \in BOOLEAN, ReadLimit(c, late) PROVE StopInv'
  <2>1. CASE toolState = "active"
    BY <1>4, <2>1 DEF ReadLimit, StopInv
  <2>2. CASE toolState # "active"
    <3>1. Underway' \in SUBSET Underway
      BY <1>1, <1>4, <2>2 DEF ReadLimit, MayReserve, Underway, At, ToolBudgetTypeOK
    <3> QED BY <1>4, <3>1, UnderwayShrinks DEF ReadLimit
  <2> QED BY <2>1, <2>2
<1>5. ASSUME NEW long \in BOOLEAN, ReadReservations(c, long) PROVE StopInv'
  <2>1. Underway' \in SUBSET Underway
    BY <1>1, <1>5 DEF ReadReservations, Underway, At, ToolBudgetTypeOK
  <2> QED BY <1>5, <2>1, UnderwayShrinks DEF ReadReservations
<1>6. CASE ReadUsage(c)
  <2>1. Underway' \in SUBSET Underway
    BY <1>1, <1>6 DEF ReadUsage, Underway, At, ToolBudgetTypeOK
  <2> QED BY <1>6, <2>1, UnderwayShrinks DEF ReadUsage
<1>7. CASE InsertReservation(c)
  <2>1. c \in Underway /\ Underway' = Underway \ {c}
    BY <1>1, <1>7 DEF InsertReservation, Underway, At, ToolBudgetTypeOK
  <2>2. Cardinality(Underway') = Cardinality(Underway) - 1
    BY <1>2, <2>1, OneLess
  <2> QED BY <1>3, <1>7, <2>2 DEF InsertReservation, StopInv, Callers
<1>8. CASE SettleToolBudget(c)
  <2>1. Underway' \in SUBSET Underway
    BY <1>1, <1>8 DEF SettleToolBudget, Underway, At, ToolBudgetTypeOK
  <2> QED BY <1>8, <2>1, UnderwayShrinks DEF SettleToolBudget
<1>9. CASE ReleaseToolBudget(c)
  <2>1. Underway' \in SUBSET Underway
    BY <1>1, <1>9 DEF ReleaseToolBudget, Underway, At, ToolBudgetTypeOK
  <2> QED BY <1>9, <2>1, UnderwayShrinks DEF ReleaseToolBudget
<1>10. CASE Abandon(c)
  <2>1. Underway' \in SUBSET Underway
    BY <1>1, <1>10 DEF Abandon, Underway, At, ToolBudgetTypeOK
  <2> QED BY <1>10, <2>1, UnderwayShrinks DEF Abandon
<1>11. CASE StopAfterDenial(c)
  <2>1. Underway' = Underway /\ c \notin Underway
    BY <1>1, <1>11 DEF StopAfterDenial, Underway, At, ToolBudgetTypeOK
  <2>2. Cardinality(Underway \cup {c}) <= Callers
    BY <1>2, CallersCount
  <2>3. Cardinality(Underway) + 1 <= Callers
    BY <1>2, <2>1, <2>2, OneMore
  <2> QED BY <1>1, <1>3, <1>11, <2>1, <2>3 DEF StopAfterDenial, StopInv, ToolBudgetTypeOK, Callers
<1>12. CASE FailRunAfterStop(c)
  <2>1. Underway' \in SUBSET Underway
    BY <1>1, <1>12 DEF FailRunAfterStop, Underway, At, ToolBudgetTypeOK
  <2> QED BY <1>12, <2>1, UnderwayShrinks DEF FailRunAfterStop
<1> QED BY <1>4, <1>5, <1>6, <1>7, <1>8, <1>9, <1>10, <1>11, <1>12 DEF ToolBudgetStep

\* LateStartsBounded: after the stop fewer calls start than there are callers.
THEOREM FewStartLate == ToolBudgetSpec => []LateStartsBounded
<1>1. Callers \in Nat /\ Callers # 0
  BY FS_EmptySet, FS_CardinalityType, ToolBudgetAssumption DEF Callers
<1>2. ToolBudgetInit => StopInv
  BY DEF ToolBudgetInit, StopInv, ToolBudgetTypeOK
<1>3. StopInv /\ ToolBudgetTypeOK' /\ [ToolBudgetNext]_toolVars => StopInv'
  <2>1. ASSUME StopInv, UNCHANGED toolVars PROVE StopInv'
    BY <2>1 DEF toolVars, StopInv, ToolBudgetTypeOK, Underway, At
  <2> QED BY <2>1, StopStep DEF ToolBudgetNext
<1>4. StopInv => LateStartsBounded
  <2>1. Underway \in SUBSET Caller
    BY DEF Underway, At
  <2>2. Cardinality(Underway) \in Nat
    BY <2>1, CallersCount
  <2> QED BY <1>1, <2>2 DEF StopInv, LateStartsBounded, ToolBudgetTypeOK, Callers
<1> QED BY <1>2, <1>3, <1>4, ToolBudgetTypeCorrect, PTL DEF ToolBudgetSpec

--------------------------------------------------------------------------------
(* Patches.                                                                    *)

PatchPlace == {"idle", "apply", "write", "replace", "revert", "unlink", "write back", "put back",
               "cleanup"}

\* What a thread knows of the file, of the temporary file and of its proposal.
ThreadKnows(t) ==
  /\ patching[t] # "idle" => target[t] \in Proposal
  /\ patching[t] \in {"revert", "unlink", "write back", "put back"} => target[t] \in known
  /\ t \notin disturbed =>
       /\ patching[t] \in {"write", "replace"} => Of(t).hash \in {NoFile, file}
       /\ patching[t] = "replace" => tmp = Of(t).proposed
       /\ patching[t] = "put back" => tmp = Of(t).original
  /\ target[t] \in known \ rebased =>
       /\ patching[t] = "unlink" => reviewed[target[t]] = NoFile
       /\ patching[t] \in {"write back", "put back"} => reviewed[target[t]] # NoFile
\* What a proposal tells of the file it was made from, and of the one it replaced.
ProposalTells(p) ==
  /\ proposal[p].original = IF reviewed[p] = NoFile THEN Empty ELSE reviewed[p]
  /\ p \notin rebased => /\ proposal[p].hash = reviewed[p]
                         /\ replaced[p] = NoFile \/ reviewed[p] \in {NoFile, replaced[p]}
PatchInv ==
  /\ CodingPatchTypeOK
  /\ \A t \in Thread : ThreadKnows(t)
  /\ \A p \in known : ProposalTells(p)

LEMMA PatchStarts ==
  ASSUME CodingPatchTypeOK, NEW t \in Thread, NEW p \in Proposal, NEW at \in PatchPlace, Starts(t, p, at)
  PROVE  /\ patching' \in [Thread -> PatchPlace] /\ target' \in [Thread -> Proposal \cup {NoFile}]
         /\ patchCalls' \in 0..MaxPatchCalls
         /\ patching'[t] = at /\ target'[t] = p
         /\ \A u \in Thread : u # t => patching'[u] = patching[u] /\ target'[u] = target[u]
<1>1. /\ patching \in [Thread -> PatchPlace] /\ target \in [Thread -> Proposal \cup {NoFile}]
      /\ patchCalls \in 0..MaxPatchCalls
  BY DEF CodingPatchTypeOK, PatchPlace
<1>2. patchCalls' \in 0..MaxPatchCalls
  <2>1. patchCalls < MaxPatchCalls /\ patchCalls' = patchCalls + 1
    BY DEF Starts
  <2> QED BY <1>1, <2>1, CodingPatchAssumption
<1> QED BY <1>1, <1>2 DEF Starts

LEMMA PatchGoes ==
  ASSUME CodingPatchTypeOK, NEW t \in Thread, NEW from \in PatchPlace, NEW to \in PatchPlace,
         Goes(t, from, to)
  PROVE  /\ patching' \in [Thread -> PatchPlace] /\ target' \in [Thread -> Proposal \cup {NoFile}]
         /\ patching[t] = from /\ patching'[t] = to /\ (to # "idle" => target'[t] = target[t])
         /\ target'[t] \in {target[t], NoFile}
         /\ \A u \in Thread : u # t => patching'[u] = patching[u] /\ target'[u] = target[u]
<1>1. /\ patching \in [Thread -> PatchPlace] /\ target \in [Thread -> Proposal \cup {NoFile}]
  BY DEF CodingPatchTypeOK, PatchPlace
<1> QED BY <1>1 DEF Goes

\* Of a thread that does nothing in a step it is enough to know that it is disturbed
\* by what changes.
LEMMA ThreadKept ==
  ASSUME NEW u \in Thread, ThreadKnows(u), NEW p, p = target[u],
         patching'[u] = patching[u], target'[u] = p,
         p \in known => p \in known',
         p \in known' \ rebased' => p \in known \ rebased /\ reviewed'[p] = reviewed[p],
         u \notin disturbed' /\ patching[u] # "idle" =>
           /\ u \notin disturbed /\ file' = file /\ tmp' = tmp
           /\ proposal'[p].hash = proposal[p].hash /\ proposal'[p].proposed = proposal[p].proposed
           /\ proposal'[p].original = proposal[p].original
  PROVE  ThreadKnows(u)'
<1>1. /\ patching'[u] # "idle" => p \in Proposal
      /\ patching'[u] \in {"revert", "unlink", "write back", "put back"} => p \in known'
  BY DEF ThreadKnows
<1>2. u \notin disturbed' =>
        /\ patching'[u] \in {"write", "replace"} => proposal'[p].hash \in {NoFile, file'}
        /\ patching'[u] = "replace" => tmp' = proposal'[p].proposed
        /\ patching'[u] = "put back" => tmp' = proposal'[p].original
  BY DEF ThreadKnows, Of
<1>3. p \in known' \ rebased' =>
        /\ patching'[u] = "unlink" => reviewed'[p] = NoFile
        /\ patching'[u] \in {"write back", "put back"} => reviewed'[p] # NoFile
  BY DEF ThreadKnows
<1> QED BY <1>1, <1>2, <1>3 DEF ThreadKnows, Of

\* A proposal keeps what it tells when the fields it tells of stay.
LEMMA ProposalKept ==
  ASSUME NEW p, ProposalTells(p),
         proposal'[p].original = proposal[p].original, reviewed'[p] = reviewed[p],
         p \notin rebased' => p \notin rebased /\ proposal'[p].hash = proposal[p].hash
                              /\ replaced'[p] = replaced[p]
  PROVE  ProposalTells(p)'
BY DEF ProposalTells

\* The endpoints and the editor.
LEMMA PatchUserKeeps ==
  ASSUME PatchInv, PatchUser
  PROVE  PatchInv'
<1>1. /\ CodingPatchTypeOK /\ \A t \in Thread : ThreadKnows(t)
      /\ \A p \in known : ProposalTells(p)
      /\ proposal \in [Proposal -> ProposalRecord] /\ known \subseteq Proposal
      /\ file \in FileState /\ reviewed \in [Proposal -> FileState] /\ replaced \in [Proposal -> FileState]
      /\ disturbed \subseteq Thread /\ rebased \subseteq Proposal
      /\ Empty \in Content /\ NoFile \notin Content /\ FileState = Content \cup {NoFile}
  BY CodingPatchAssumption DEF PatchInv, CodingPatchTypeOK, FileState
<1>2. ASSUME NEW p \in Proposal, NEW content \in Content, Propose(p, content)
      PROVE  PatchInv'
  <2>1. /\ p \notin known /\ \A t \in Thread : target[t] # p
        /\ known' = known \cup {p}
        /\ reviewed' = [reviewed EXCEPT ![p] = file] /\ replaced' = [replaced EXCEPT ![p] = NoFile]
        /\ rebased' = rebased \ {p}
        /\ UNCHANGED <<file, tmp, patchCalls, patching, target, disturbed>>
    BY <1>2 DEF Propose, Sharing
  <2>2. /\ proposal'[p] = [hash |-> file, original |-> IF file = NoFile THEN Empty ELSE file,
                           proposed |-> content, applied |-> FALSE]
        /\ \A q \in Proposal : q # p => proposal'[q] = proposal[q]
        /\ proposal' \in [Proposal -> ProposalRecord]
    <3> DEFINE r == [hash |-> file, original |-> IF file = NoFile THEN Empty ELSE file,
                     proposed |-> content, applied |-> FALSE]
    <3>1. r \in ProposalRecord
      BY <1>1 DEF ProposalRecord
    <3>2. proposal' = [proposal EXCEPT ![p] = r]
      BY <1>2 DEF Propose
    <3> HIDE DEF r
    <3>3. proposal'[p] = r /\ proposal' \in [Proposal -> ProposalRecord]
      BY <1>1, <3>1, <3>2
    <3> QED BY <1>1, <3>2, <3>3 DEF r
  <2>3. CodingPatchTypeOK'
    BY <1>1, <2>1, <2>2 DEF CodingPatchTypeOK
  <2>4. ASSUME NEW u \in Thread PROVE ThreadKnows(u)'
    <3>1. target[u] # p /\ target'[u] = target[u] /\ patching'[u] = patching[u] /\ ThreadKnows(u)
      BY <1>1, <2>1
    <3>2. target[u] \in known' \ rebased' =>
            target[u] \in known \ rebased /\ reviewed'[target[u]] = reviewed[target[u]]
      BY <1>1, <2>1, <3>1
    <3>3. patching[u] # "idle" => proposal'[target[u]] = proposal[target[u]]
      BY <1>1, <2>2, <3>1 DEF ThreadKnows
    <3> QED BY <2>1, <3>1, <3>2, <3>3, ThreadKept
  <2>5. ASSUME NEW q \in known' PROVE ProposalTells(q)'
    <3>1. CASE q = p
      BY <1>1, <2>1, <2>2, <3>1 DEF ProposalTells
    <3>2. CASE q # p
      BY <1>1, <2>1, <2>2, <2>5, <3>2, ProposalKept
    <3> QED BY <3>1, <3>2
  <2> QED BY <2>3, <2>4, <2>5 DEF PatchInv
<1>3. ASSUME NEW t \in Thread, NEW p \in Proposal, NEW hash \in FileState, NEW content \in FileState,
             RequestApply(t, p, hash, content)
      PROVE  PatchInv'
  <2>1. /\ p \in known /\ Starts(t, p, "apply")
        /\ rebased' = IF hash \in {NoFile, reviewed[p]} THEN rebased ELSE rebased \cup {p}
        /\ disturbed' = (disturbed \cup IF proposal'[p] # proposal[p] THEN Sharing(p) ELSE {}) \ {t}
        /\ UNCHANGED <<file, tmp, known, reviewed, replaced>>
    BY <1>3 DEF RequestApply
  <2>2. "apply" \in PatchPlace
    BY DEF PatchPlace
  <2>3. /\ patching' \in [Thread -> PatchPlace] /\ target' \in [Thread -> Proposal \cup {NoFile}]
        /\ patchCalls' \in 0..MaxPatchCalls
        /\ patching'[t] = "apply" /\ target'[t] = p
        /\ \A u \in Thread : u # t => patching'[u] = patching[u] /\ target'[u] = target[u]
    BY <1>1, <2>1, <2>2, PatchStarts
  <2>4. /\ proposal'[p].hash = IF hash = NoFile THEN proposal[p].hash ELSE hash
        /\ proposal'[p].original = proposal[p].original
        /\ \A q \in Proposal : q # p => proposal'[q] = proposal[q]
        /\ proposal' \in [Proposal -> ProposalRecord]
    <3> DEFINE r == [proposal[p] EXCEPT !.hash = IF hash = NoFile THEN @ ELSE hash,
                                        !.proposed = IF content = NoFile THEN @ ELSE content]
    <3>1. proposal' = [proposal EXCEPT ![p] = r]
      BY <1>3 DEF RequestApply
    <3>2. proposal[p] \in ProposalRecord
      BY <1>1
    <3>3. /\ r \in ProposalRecord /\ r.original = proposal[p].original
          /\ r.hash = IF hash = NoFile THEN proposal[p].hash ELSE hash
      BY <1>1, <3>2 DEF ProposalRecord
    <3> HIDE DEF r
    <3> QED BY <1>1, <3>1, <3>3
  <2>5. CodingPatchTypeOK'
    <3>1. rebased' \subseteq Proposal
      BY <1>1, <2>1
    <3>2. disturbed' \subseteq Thread
      BY <1>1, <2>1 DEF Sharing
    <3> QED BY <1>1, <2>1, <2>3, <2>4, <3>1, <3>2 DEF CodingPatchTypeOK, PatchPlace
  <2>6. ASSUME NEW u \in Thread PROVE ThreadKnows(u)'
    <3>1. CASE u = t
      BY <2>3, <3>1 DEF ThreadKnows
    <3>2. CASE u # t
      <4>1. ThreadKnows(u) /\ patching'[u] = patching[u] /\ target'[u] = target[u]
        BY <1>1, <2>3, <3>2
      <4>2. u \notin disturbed' /\ patching[u] # "idle" =>
              u \notin disturbed /\ proposal'[target[u]] = proposal[target[u]]
        BY <2>1, <2>4, <3>2, <4>1 DEF ThreadKnows, Sharing
      <4>3. target[u] \in known' \ rebased' =>
              target[u] \in known \ rebased /\ reviewed'[target[u]] = reviewed[target[u]]
        BY <2>1
      <4> QED BY <2>1, <4>1, <4>2, <4>3, ThreadKept
    <3> QED BY <3>1, <3>2
  <2>7. ASSUME NEW q \in known' PROVE ProposalTells(q)'
    <3>1. ProposalTells(q) /\ q \in Proposal
      BY <1>1, <2>1, <2>7
    <3>2. q \notin rebased' => q \notin rebased /\ proposal'[q].hash = proposal[q].hash
      BY <2>1, <2>4, <3>1 DEF ProposalTells
    <3> QED BY <2>1, <2>4, <3>1, <3>2, ProposalKept
  <2> QED BY <2>5, <2>6, <2>7 DEF PatchInv
<1>4. ASSUME NEW t \in Thread, NEW p \in Proposal, NEW hash \in FileState,
             NEW content \in Content \ {Empty}, RequestReconstructed(t, p, hash, content)
      PROVE  PatchInv'
  <2>1. /\ p \notin known /\ Starts(t, p, "apply") /\ \A u \in Thread : target[u] # p
        /\ proposal' = [proposal EXCEPT ![p] = [Blank EXCEPT !.hash = hash, !.proposed = content]]
        /\ disturbed' = disturbed \ {t}
        /\ UNCHANGED <<file, tmp, known, reviewed, rebased, replaced>>
    BY <1>4 DEF RequestReconstructed, Sharing
  <2>2. "apply" \in PatchPlace
    BY DEF PatchPlace
  <2>3. /\ patching' \in [Thread -> PatchPlace] /\ target' \in [Thread -> Proposal \cup {NoFile}]
        /\ patchCalls' \in 0..MaxPatchCalls
        /\ patching'[t] = "apply" /\ target'[t] = p
        /\ \A u \in Thread : u # t => patching'[u] = patching[u] /\ target'[u] = target[u]
    BY <1>1, <2>1, <2>2, PatchStarts
  <2>4. /\ \A q \in Proposal : q # p => proposal'[q] = proposal[q]
        /\ proposal' \in [Proposal -> ProposalRecord]
    <3>1. [Blank EXCEPT !.hash = hash, !.proposed = content] \in ProposalRecord
      BY <1>1 DEF Blank, ProposalRecord
    <3> QED BY <1>1, <2>1, <3>1
  <2>5. CodingPatchTypeOK'
    BY <1>1, <2>1, <2>3, <2>4 DEF CodingPatchTypeOK, PatchPlace
  <2>6. ASSUME NEW u \in Thread PROVE ThreadKnows(u)'
    <3>1. CASE u = t
      BY <2>3, <3>1 DEF ThreadKnows
    <3>2. CASE u # t
      <4>1. ThreadKnows(u) /\ patching'[u] = patching[u] /\ target'[u] = target[u]
        BY <1>1, <2>3, <3>2
      <4>2. patching[u] # "idle" => proposal'[target[u]] = proposal[target[u]]
        BY <2>1, <2>4, <4>1 DEF ThreadKnows
      <4> QED BY <2>1, <3>2, <4>1, <4>2, ThreadKept
    <3> QED BY <3>1, <3>2
  <2>7. ASSUME NEW q \in known' PROVE ProposalTells(q)'
    <3>1. ProposalTells(q) /\ q \in Proposal /\ q # p
      BY <1>1, <2>1, <2>7
    <3> QED BY <2>1, <2>4, <3>1, ProposalKept
  <2> QED BY <2>5, <2>6, <2>7 DEF PatchInv
<1>5. ASSUME NEW t \in Thread, NEW p \in Proposal, RequestRevert(t, p)
      PROVE  PatchInv'
  <2>1. /\ p \in known /\ Starts(t, p, "revert") /\ disturbed' = disturbed \ {t}
        /\ UNCHANGED <<file, tmp, proposal, known, reviewed, rebased, replaced>>
    BY <1>5 DEF RequestRevert
  <2>2. "revert" \in PatchPlace
    BY DEF PatchPlace
  <2>3. /\ patching' \in [Thread -> PatchPlace] /\ target' \in [Thread -> Proposal \cup {NoFile}]
        /\ patchCalls' \in 0..MaxPatchCalls
        /\ patching'[t] = "revert" /\ target'[t] = p
        /\ \A u \in Thread : u # t => patching'[u] = patching[u] /\ target'[u] = target[u]
    BY <1>1, <2>1, <2>2, PatchStarts
  <2>4. CodingPatchTypeOK'
    BY <1>1, <2>1, <2>3 DEF CodingPatchTypeOK, PatchPlace
  <2>5. ASSUME NEW u \in Thread PROVE ThreadKnows(u)'
    <3>1. CASE u = t
      BY <2>1, <2>3, <3>1 DEF ThreadKnows
    <3>2. CASE u # t
      <4>1. ThreadKnows(u) /\ patching'[u] = patching[u] /\ target'[u] = target[u]
        BY <1>1, <2>3, <3>2
      <4> QED BY <2>1, <3>2, <4>1, ThreadKept
    <3> QED BY <3>1, <3>2
  <2>6. ASSUME NEW q \in known' PROVE ProposalTells(q)'
    BY <1>1, <2>1, <2>6, ProposalKept
  <2> QED BY <2>4, <2>5, <2>6 DEF PatchInv
<1>6. ASSUME NEW content \in FileState, Edit(content)
      PROVE  PatchInv'
  <2>1. /\ file' = content
        /\ UNCHANGED <<tmp, proposal, known, patchCalls, patching, target, reviewed, rebased, replaced>>
        /\ disturbed' = {u \in Thread : patching'[u] # "idle"}
    BY <1>1, <1>6 DEF Edit, Disturb
  <2>2. CodingPatchTypeOK'
    BY <1>1, <2>1 DEF CodingPatchTypeOK
  <2>3. ASSUME NEW u \in Thread PROVE ThreadKnows(u)'
    <3>1. ThreadKnows(u)
      BY <1>1
    <3> QED BY <2>1, <3>1, ThreadKept
  <2>4. ASSUME NEW q \in known' PROVE ProposalTells(q)'
    BY <1>1, <2>1, <2>4, ProposalKept
  <2> QED BY <2>2, <2>3, <2>4 DEF PatchInv
<1>7. CASE RestartPatches
  <2>1. /\ tmp' = NoFile /\ known' = {} /\ proposal' = [p \in Proposal |-> Blank]
        /\ patching' = [t \in Thread |-> "idle"] /\ target' = [t \in Thread |-> NoFile]
        /\ disturbed' = {} /\ rebased' = {}
        /\ reviewed' = [p \in Proposal |-> NoFile] /\ replaced' = reviewed'
        /\ UNCHANGED <<file, patchCalls>>
    BY <1>7 DEF RestartPatches
  <2>2. Blank \in ProposalRecord
    BY <1>1 DEF Blank, ProposalRecord
  <2>3. CodingPatchTypeOK'
    BY <1>1, <2>1, <2>2 DEF CodingPatchTypeOK
  <2>4. \A u \in Thread : ThreadKnows(u)'
    BY <2>1 DEF ThreadKnows
  <2> QED BY <2>1, <2>3, <2>4 DEF PatchInv
<1> QED BY <1>2, <1>3, <1>4, <1>5, <1>6, <1>7 DEF PatchUser

\* A step of a thread that changes neither its proposal nor its file, whatever it
\* does to the temporary one.
LEMMA ThreadGoesOn ==
  ASSUME PatchInv, NEW t \in Thread, NEW p, p = target[t],
         NEW from \in PatchPlace, NEW to \in PatchPlace, Goes(t, from, to),
         UNCHANGED <<file, proposal, known, patchCalls, reviewed, rebased, replaced>>,
         tmp' \in FileState, disturbed' \subseteq Thread,
         \A u \in Thread : u # t /\ u \notin disturbed' /\ patching[u] # "idle" =>
           u \notin disturbed /\ tmp' = tmp,
         from # "idle",
         to \in {"unlink", "write back", "put back"} => p \in known,
         to # "revert",
         t \notin disturbed' =>
           /\ to \in {"write", "replace"} => proposal[p].hash \in {NoFile, file}
           /\ to = "replace" => tmp' = proposal[p].proposed
           /\ to = "put back" => tmp' = proposal[p].original,
         p \in known \ rebased =>
           /\ to = "unlink" => reviewed[p] = NoFile
           /\ to \in {"write back", "put back"} => reviewed[p] # NoFile
  PROVE  PatchInv'
<1>1. /\ CodingPatchTypeOK /\ \A u \in Thread : ThreadKnows(u)
      /\ \A q \in known : ProposalTells(q)
  BY DEF PatchInv
<1>2. /\ patching' \in [Thread -> PatchPlace] /\ target' \in [Thread -> Proposal \cup {NoFile}]
      /\ patching[t] = from /\ patching'[t] = to /\ (to # "idle" => target'[t] = p)
      /\ target'[t] \in {p, NoFile}
      /\ \A u \in Thread : u # t => patching'[u] = patching[u] /\ target'[u] = target[u]
  <2>1. /\ patching' \in [Thread -> PatchPlace] /\ target' \in [Thread -> Proposal \cup {NoFile}]
        /\ patching[t] = from /\ patching'[t] = to /\ (to # "idle" => target'[t] = target[t])
        /\ target'[t] \in {target[t], NoFile}
        /\ \A u \in Thread : u # t => patching'[u] = patching[u] /\ target'[u] = target[u]
    BY <1>1, PatchGoes
  <2> QED BY <2>1
<1>3. CodingPatchTypeOK'
  BY <1>1, <1>2 DEF CodingPatchTypeOK, PatchPlace
<1>4. ASSUME NEW u \in Thread PROVE ThreadKnows(u)'
  <2>1. CASE u = t /\ to = "idle"
    BY <1>2, <2>1 DEF ThreadKnows
  <2>2. CASE u = t /\ to # "idle"
    <3>1. p \in Proposal
      BY <1>1, <1>2 DEF ThreadKnows
    <3> QED BY <1>2, <2>2, <3>1 DEF ThreadKnows, Of
  <2>3. CASE u # t
    <3>1. ThreadKnows(u) /\ patching'[u] = patching[u] /\ target'[u] = target[u]
      BY <1>1, <1>2, <2>3
    <3> QED BY <2>3, <3>1, ThreadKept
  <2> QED BY <2>1, <2>2, <2>3
<1>5. ASSUME NEW q \in known' PROVE ProposalTells(q)'
  BY <1>1, <1>5, ProposalKept
<1> QED BY <1>3, <1>4, <1>5 DEF PatchInv

\* A step that changes the file ends its call, and disturbs all others.
LEMMA ThreadEnds ==
  ASSUME PatchInv, NEW t \in Thread, NEW p, p = target[t], NEW from \in PatchPlace,
         Goes(t, from, "idle"), from # "idle",
         Disturb(Others(t)), file' \in FileState, tmp' \in FileState,
         UNCHANGED <<known, patchCalls, reviewed, rebased>>,
         NEW applied \in BOOLEAN,
         proposal' \in {proposal, [proposal EXCEPT ![p].applied = applied]},
         \/ replaced' = replaced
         \/ /\ t \notin disturbed => from = "replace"
            /\ replaced' = [replaced EXCEPT ![p] = IF t \in disturbed THEN NoFile ELSE file]
  PROVE  PatchInv'
<1>1. /\ CodingPatchTypeOK /\ \A u \in Thread : ThreadKnows(u)
      /\ \A q \in known : ProposalTells(q)
      /\ proposal \in [Proposal -> ProposalRecord] /\ known \subseteq Proposal
      /\ file \in FileState /\ replaced \in [Proposal -> FileState] /\ NoFile \in FileState
  BY DEF PatchInv, CodingPatchTypeOK, FileState
<1>2. "idle" \in PatchPlace
  BY DEF PatchPlace
<1>3. /\ patching' \in [Thread -> PatchPlace] /\ target' \in [Thread -> Proposal \cup {NoFile}]
      /\ patching[t] = from /\ patching'[t] = "idle" /\ p \in Proposal
      /\ \A u \in Thread : u # t => patching'[u] = patching[u] /\ target'[u] = target[u]
  <2>1. /\ patching' \in [Thread -> PatchPlace] /\ target' \in [Thread -> Proposal \cup {NoFile}]
        /\ patching[t] = from /\ patching'[t] = "idle"
        /\ \A u \in Thread : u # t => patching'[u] = patching[u] /\ target'[u] = target[u]
    BY <1>1, <1>2, PatchGoes
  <2>2. p \in Proposal
    BY <1>1, <2>1 DEF ThreadKnows
  <2> QED BY <2>1, <2>2
<1>4. /\ proposal' \in [Proposal -> ProposalRecord]
      /\ \A q \in Proposal : /\ proposal'[q].hash = proposal[q].hash
                             /\ proposal'[q].proposed = proposal[q].proposed
                             /\ proposal'[q].original = proposal[q].original
  <2> DEFINE r == [proposal[p] EXCEPT !.applied = applied]
  <2>1. proposal' = proposal \/ proposal' = [proposal EXCEPT ![p] = r]
    OBVIOUS
  <2>2. proposal[p] \in ProposalRecord
    BY <1>1, <1>3
  <2>3. /\ r \in ProposalRecord /\ r.hash = proposal[p].hash /\ r.proposed = proposal[p].proposed
        /\ r.original = proposal[p].original
    BY <2>2 DEF ProposalRecord
  <2> HIDE DEF r
  <2> QED BY <1>1, <1>3, <2>1, <2>3
<1>5. replaced' \in [Proposal -> FileState]
  BY <1>1
<1>6. disturbed' = {u \in disturbed \cup Others(t) : patching'[u] # "idle"}
  BY DEF Disturb
<1>7. CodingPatchTypeOK'
  <2>1. disturbed' \subseteq Thread
    BY <1>1, <1>6 DEF CodingPatchTypeOK, Others
  <2> QED BY <1>1, <1>3, <1>4, <1>5, <2>1 DEF CodingPatchTypeOK, PatchPlace
<1>8. ASSUME NEW u \in Thread PROVE ThreadKnows(u)'
  <2>1. CASE u = t
    BY <1>3, <2>1 DEF ThreadKnows
  <2>2. CASE u # t
    <3>1. ThreadKnows(u) /\ patching'[u] = patching[u] /\ target'[u] = target[u]
      BY <1>1, <1>3, <2>2
    <3>2. patching[u] # "idle" => u \in disturbed'
      BY <1>6, <2>2, <3>1 DEF Others
    <3> QED BY <3>1, <3>2, ThreadKept
  <2> QED BY <2>1, <2>2
<1>9. ASSUME NEW q \in known' PROVE ProposalTells(q)'
  <2>1. ProposalTells(q) /\ q \in Proposal /\ reviewed'[q] = reviewed[q]
        /\ rebased' = rebased
    BY <1>1, <1>9
  <2>2. CASE replaced'[q] = replaced[q]
    BY <1>4, <2>1, <2>2, ProposalKept
  <2>3. CASE replaced'[q] # replaced[q]
    <3>1. q = p /\ replaced'[q] = IF t \in disturbed THEN NoFile ELSE file
      BY <1>1, <1>3, <2>1, <2>3
    <3>2. t \notin disturbed => proposal[q].hash \in {NoFile, file}
      <4>1. ThreadKnows(t) /\ (t \notin disturbed => from = "replace")
        BY <1>1, <2>3
      <4> QED BY <1>3, <3>1, <4>1 DEF ThreadKnows, Of
    <3> QED BY <1>4, <2>1, <3>1, <3>2 DEF ProposalTells
  <2> QED BY <2>2, <2>3
<1> QED BY <1>7, <1>8, <1>9 DEF PatchInv

\* The threads.
LEMMA PatchThreadKeeps ==
  ASSUME PatchInv, NEW t \in Thread, NEW p, p = target[t], PatchThread(t)
  PROVE  PatchInv'
<1>1. /\ CodingPatchTypeOK /\ ThreadKnows(t) /\ file \in FileState /\ tmp \in FileState
      /\ disturbed \subseteq Thread /\ proposal \in [Proposal -> ProposalRecord]
      /\ Empty \in Content /\ NoFile \in FileState /\ Content \subseteq FileState
  BY CodingPatchAssumption DEF PatchInv, CodingPatchTypeOK, FileState
<1>2. /\ \A q \in Proposal : proposal[q].proposed \in Content /\ proposal[q].original \in Content
      /\ \A q \in known : ProposalTells(q)
  BY <1>1 DEF PatchInv, ProposalRecord
<1>3. PatchPlace = {"idle", "apply", "write", "replace", "revert", "unlink", "write back", "put back",
                    "cleanup"}
  BY DEF PatchPlace
<1>4. patching[t] # "idle" => p \in Proposal
  BY <1>1 DEF ThreadKnows
<1>5. ASSUME NEW from \in PatchPlace, NEW to \in PatchPlace, Goes(t, from, to)
      PROVE  patching[t] = from /\ patching'[t] = to
             /\ \A u \in Thread : u # t => patching'[u] = patching[u]
  BY <1>1, <1>5, PatchGoes
<1>6. CASE CheckApply(t)
  <2> DEFINE to == IF Matches(t) THEN "write" ELSE "idle"
  <2>1. /\ Goes(t, "apply", to) /\ disturbed' = disturbed \ {t}
        /\ UNCHANGED <<file, tmp, proposal, known, patchCalls, reviewed, rebased, replaced>>
    BY <1>6 DEF CheckApply
  <2>2. to \in {"write", "idle"} /\ (to = "write" => proposal[p].hash \in {NoFile, file})
    BY DEF Matches, Of
  <2> HIDE DEF to
  <2>3. to \in PatchPlace /\ "apply" \in PatchPlace
    BY <1>3, <2>2
  <2> QED BY <1>1, <2>1, <2>2, <2>3, ThreadGoesOn
<1>7. CASE CheckRevert(t)
  <2> DEFINE to == IF file # Of(t).proposed THEN "idle"
                   ELSE IF Created(t) THEN "unlink" ELSE "write back"
  <2>1. /\ Goes(t, "revert", to) /\ disturbed' = disturbed \ {t}
        /\ UNCHANGED <<file, tmp, proposal, known, patchCalls, reviewed, rebased, replaced>>
    BY <1>7 DEF CheckRevert
  <2>2. /\ to \in {"idle", "unlink", "write back"}
        /\ to = "unlink" => proposal[p].hash = NoFile /\ proposal[p].original = Empty
        /\ to = "write back" => ~(proposal[p].hash = NoFile /\ proposal[p].original = Empty)
    BY DEF Created, Of
  <2> HIDE DEF to
  <2>3. to \in PatchPlace /\ "revert" \in PatchPlace
    BY <1>3, <2>2
  <2>4. p \in known
    BY <1>1, <1>5, <2>1, <2>3 DEF ThreadKnows
  <2>5. p \notin rebased =>
          /\ to = "unlink" => reviewed[p] = NoFile
          /\ to = "write back" => reviewed[p] # NoFile
    BY <1>2, <2>2, <2>4 DEF ProposalTells
  <2> QED BY <1>1, <2>1, <2>2, <2>3, <2>4, <2>5, ThreadGoesOn
<1>8. ASSUME NEW from \in {"write", "write back"}, NEW to \in {"replace", "put back"},
             NEW content \in Content, WriteTmp(t, from, to, content),
             to = "replace" <=> from = "write",
             from = "write" => content = proposal[p].proposed,
             from = "write back" => content = proposal[p].original
      PROVE  PatchInv'
  <2>1. PICK at \in {to, "cleanup"} : /\ Goes(t, from, at) /\ tmp' \in FileState
                                      /\ at = to => tmp' = content
    BY <1>1, <1>8 DEF WriteTmp
  <2>2. /\ UNCHANGED <<file, proposal, known, patchCalls, reviewed, rebased, replaced>>
        /\ disturbed' = {u \in disturbed \cup Others(t) : patching'[u] # "idle"}
    BY <1>8 DEF WriteTmp, Disturb
  <2>3. from \in PatchPlace /\ at \in PatchPlace /\ from # "idle" /\ at # "idle"
    BY <1>3
  <2>4. /\ patching[t] = from /\ patching'[t] = at
        /\ \A u \in Thread : u # t => patching'[u] = patching[u]
    BY <1>5, <2>1, <2>3
  <2>5. /\ disturbed' \subseteq Thread /\ (t \notin disturbed' => t \notin disturbed)
        /\ \A u \in Thread : u # t /\ patching[u] # "idle" => u \in disturbed'
    BY <1>1, <2>2, <2>3, <2>4 DEF Others
  <2>6. from = "write" /\ t \notin disturbed => proposal[p].hash \in {NoFile, file}
    BY <1>1, <2>4 DEF ThreadKnows, Of
  <2>7. from = "write back" => p \in known /\ (p \notin rebased => reviewed[p] # NoFile)
    BY <1>1, <2>4 DEF ThreadKnows
  <2> QED BY <1>8, <2>1, <2>2, <2>3, <2>5, <2>6, <2>7, ThreadGoesOn
<1>9. CASE WriteTmp(t, "write", "replace", Of(t).proposed)
  <2>1. patching[t] = "write"
    BY <1>9 DEF WriteTmp, Goes
  <2>2. Of(t).proposed \in Content /\ Of(t).proposed = proposal[p].proposed
    BY <1>2, <1>4, <2>1 DEF Of
  <2> QED BY <1>8, <1>9, <2>2
<1>10. CASE WriteTmp(t, "write back", "put back", Of(t).original)
  <2>1. patching[t] = "write back"
    BY <1>10 DEF WriteTmp, Goes
  <2>2. Of(t).original \in Content /\ Of(t).original = proposal[p].original
    BY <1>2, <1>4, <2>1 DEF Of
  <2> QED BY <1>8, <1>10, <2>2
<1>11. CASE RenameFails(t)
  <2>1. /\ Goes(t, patching[t], "cleanup") /\ patching[t] \in {"replace", "put back"}
        /\ UNCHANGED <<file, tmp, proposal, known, patchCalls, disturbed, reviewed, rebased, replaced>>
    BY <1>11 DEF RenameFails
  <2>2. patching[t] \in PatchPlace /\ "cleanup" \in PatchPlace /\ patching[t] # "idle"
    BY <1>3, <2>1
  <2> QED BY <1>1, <2>1, <2>2, ThreadGoesOn, ZenonT(60)
<1>12. CASE Replace(t)
  <2>1. /\ Goes(t, "replace", "idle") /\ file' = tmp /\ tmp' = NoFile /\ Disturb(Others(t))
        /\ UNCHANGED <<known, patchCalls, reviewed, rebased>>
        /\ proposal' = [proposal EXCEPT ![p].applied = TRUE]
        /\ replaced' = [replaced EXCEPT ![p] = IF t \in disturbed THEN NoFile ELSE file]
    BY <1>12 DEF Replace, Renamed
  <2>2. "replace" \in PatchPlace /\ TRUE \in BOOLEAN
    BY <1>3
  <2> QED BY <1>1, <2>1, <2>2, ThreadEnds
<1>13. CASE PutBack(t)
  <2>1. /\ Goes(t, "put back", "idle") /\ file' = tmp /\ tmp' = NoFile /\ Disturb(Others(t))
        /\ UNCHANGED <<known, patchCalls, reviewed, rebased, replaced>>
        /\ proposal' = [proposal EXCEPT ![p].applied = FALSE]
    BY <1>13 DEF PutBack, Renamed
  <2>2. "put back" \in PatchPlace /\ FALSE \in BOOLEAN
    BY <1>3
  <2> QED BY <1>1, <2>1, <2>2, ThreadEnds
<1>14. CASE Unlink(t)
  <2>1. /\ Goes(t, "unlink", "idle") /\ file' = NoFile /\ tmp' = tmp /\ Disturb(Others(t))
        /\ UNCHANGED <<known, patchCalls, reviewed, rebased, replaced>>
        /\ proposal' \in {proposal, [proposal EXCEPT ![p].applied = FALSE]}
    BY <1>14 DEF Unlink
  <2>2. "unlink" \in PatchPlace /\ FALSE \in BOOLEAN
    BY <1>3
  <2> QED BY <1>1, <2>1, <2>2, ThreadEnds
<1>15. CASE CleanUp(t)
  <2>1. /\ Goes(t, "cleanup", "idle") /\ file' = file /\ tmp' = NoFile /\ Disturb(Others(t))
        /\ UNCHANGED <<known, patchCalls, reviewed, rebased, replaced>> /\ proposal' = proposal
    BY <1>15 DEF CleanUp
  <2>2. "cleanup" \in PatchPlace /\ FALSE \in BOOLEAN
    BY <1>3
  <2> QED BY <1>1, <2>1, <2>2, ThreadEnds
<1> QED BY <1>6, <1>7, <1>9, <1>10, <1>11, <1>12, <1>13, <1>14, <1>15 DEF PatchThread

\* What the threads know of the file and of the proposals holds throughout.
LEMMA PatchesHold == CodingPatchSpec => []PatchInv
<1>1. CodingPatchInit => PatchInv
  <2> SUFFICES ASSUME CodingPatchInit PROVE PatchInv
    OBVIOUS
  <2>1. /\ file \in FileState /\ tmp = NoFile
        /\ proposal = [p \in Proposal |-> Blank] /\ known = {} /\ patchCalls = 0
        /\ patching = [t \in Thread |-> "idle"] /\ target = [t \in Thread |-> NoFile]
        /\ disturbed = {} /\ rebased = {}
        /\ reviewed = [p \in Proposal |-> NoFile] /\ replaced = reviewed
    BY DEF CodingPatchInit
  <2>2. Blank \in ProposalRecord /\ NoFile \in FileState /\ 0 \in 0..MaxPatchCalls
    BY CodingPatchAssumption DEF Blank, ProposalRecord, FileState
  <2>3. CodingPatchTypeOK
    BY <2>1, <2>2 DEF CodingPatchTypeOK
  <2>4. \A t \in Thread : ThreadKnows(t)
    BY <2>1 DEF ThreadKnows
  <2> QED BY <2>1, <2>3, <2>4 DEF PatchInv
<1>2. PatchInv /\ [CodingPatchNext]_patchVars => PatchInv'
  <2> SUFFICES ASSUME PatchInv, [CodingPatchNext]_patchVars PROVE PatchInv'
    OBVIOUS
  <2>1. CASE PatchUser
    BY <2>1, PatchUserKeeps
  <2>2. ASSUME NEW t \in Thread, PatchThread(t) PROVE PatchInv'
    BY <2>2, PatchThreadKeeps
  <2>3. CASE UNCHANGED patchVars
    BY <2>3 DEF patchVars, PatchInv, CodingPatchTypeOK, ThreadKnows, ProposalTells, Of
  <2> QED BY <2>1, <2>2, <2>3 DEF CodingPatchNext
<1> QED BY <1>1, <1>2, PTL DEF CodingPatchSpec

\* Proposals, threads and the file they patch keep their types.
THEOREM CodingPatchTypeCorrect == CodingPatchSpec => []CodingPatchTypeOK
<1>1. PatchInv => CodingPatchTypeOK
  BY DEF PatchInv
<1> QED BY <1>1, PatchesHold, PTL

\* Of an apply that nothing disturbed the file is the one its hash is of, and what it
\* writes is what was proposed; a revert brings back what the last apply replaced.
\* This is apply_patch and revert_patch for any proposals, contents and threads.
THEOREM PatchesCanBeUndone == CodingPatchSpec => PatchesAreReversible
<1>1. PatchInv /\ [CodingPatchNext]_patchVars =>
        [\A t \in Thread : Replace(t) /\ t \notin disturbed /\ Of(t).hash # NoFile =>
           file = Of(t).hash /\ file' = Of(t).proposed]_patchVars
  <2> SUFFICES ASSUME PatchInv, NEW t \in Thread, Replace(t), t \notin disturbed, Of(t).hash # NoFile
               PROVE  file = Of(t).hash /\ file' = Of(t).proposed
    OBVIOUS
  <2>1. ThreadKnows(t) /\ patching[t] = "replace" /\ file' = tmp
    BY DEF PatchInv, Replace, Renamed, Goes
  <2> QED BY <2>1 DEF ThreadKnows
<1>2. PatchInv /\ [CodingPatchNext]_patchVars =>
        [\A t \in Thread : Reverts(t) /\ t \notin disturbed
           /\ target[t] \notin rebased /\ Of(t).applied
           /\ (replaced[target[t]] # NoFile => reviewed[target[t]] # NoFile) =>
           \/ file' = replaced[target[t]]
           \/ replaced[target[t]] = NoFile /\ file' = reviewed[target[t]]]_patchVars
  <2> SUFFICES ASSUME PatchInv, NEW t \in Thread, NEW p, p = target[t], Reverts(t), t \notin disturbed,
                      p \notin rebased, replaced[p] # NoFile => reviewed[p] # NoFile
               PROVE  file' = replaced[p] \/ (replaced[p] = NoFile /\ file' = reviewed[p])
    OBVIOUS
  <2>1. ThreadKnows(t)
    BY DEF PatchInv
  <2>2. CASE PutBack(t)
    <3>1. patching[t] = "put back" /\ file' = tmp
      BY <2>2 DEF PutBack, Renamed, Goes
    <3>2. p \in known /\ tmp = proposal[p].original /\ reviewed[p] # NoFile
      BY <2>1, <3>1 DEF ThreadKnows, Of
    <3>3. ProposalTells(p)
      BY <3>2 DEF PatchInv
    <3> QED BY <3>1, <3>2, <3>3 DEF ProposalTells
  <2>3. CASE Unlink(t)
    <3>1. patching[t] = "unlink" /\ file' = NoFile
      BY <2>3 DEF Unlink, Goes
    <3>2. p \in known /\ reviewed[p] = NoFile
      BY <2>1, <3>1 DEF ThreadKnows
    <3> QED BY <3>1, <3>2
  <2> QED BY <2>2, <2>3 DEF Reverts
<1> QED BY <1>1, <1>2, PatchesHold, PTL DEF CodingPatchSpec, PatchesAreReversible, UndisturbedApply, RevertUndoesApply
================================================================================
