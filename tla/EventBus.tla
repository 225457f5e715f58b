-------------------------------- MODULE EventBus --------------------------------
(* AsyncAgentEventBus for one run, with a database, as the server makes it:      *)
(* publish inserts a row of agent_events and offers the event to the queue of    *)
(* every subscriber; listings read the rows in the order of the texts of         *)
(* created_at (its list in memory is read only without a database).  All of it   *)
(* is synchronous code of one event loop: nothing runs in between, but the       *)
(* INSERT may raise and the process may end.  Events are numbered as they are    *)
(* published.                                                                    *)
EXTENDS Timestamps, Sequences

CONSTANTS
  Subscriber,   \* holders of a queue
  QueueSize,    \* max_queue_size of subscribe
  Times,        \* instants of the clock
  MaxEvents     \* bound: events published

ASSUME EventBusAssumption == /\ QueueSize \in Nat \ {0} /\ MaxEvents \in Nat
                             /\ Times # {} /\ Times \subseteq Timestamp

VARIABLES
  busClock,     \* the time
  published,    \* events created so far
  rows,         \* agent_events: created_at of each event that has a row
  queue,        \* the queue of each subscriber
  taken,        \* events it has taken from its queue
  subscribed,   \* subscribers the bus has a queue for
  since,        \* events created before each subscribed
  missed        \* events its queue was full for

busVars == <<busClock, published, rows, queue, taken, subscribed, since, missed>>

Events == 1..MaxEvents
IsRow(e) == e \in DOMAIN rows

EventBusTypeOK ==
  /\ busClock \in Times
  /\ published \in 0..MaxEvents
  /\ DOMAIN rows \subseteq 1..published /\ \A e \in DOMAIN rows : rows[e] \in Times
  /\ queue \in [Subscriber -> Seq(1..published)]
  /\ \A s \in Subscriber : Len(queue[s]) <= QueueSize
  /\ taken \in [Subscriber -> Seq(1..published)]
  /\ subscribed \subseteq Subscriber /\ since \in [Subscriber -> 0..published]
  /\ missed \in [Subscriber -> SUBSET (1..published)]

EventBusInit ==
  /\ busClock \in {t \in Times : \A u \in Times : Instant(t) <= Instant(u)}
  /\ published = 0 /\ rows = << >>
  /\ queue = [s \in Subscriber |-> << >>] /\ taken = queue
  /\ subscribed = {} /\ since = [s \in Subscriber |-> 0]
  /\ missed = [s \in Subscriber |-> {}]

BusTick ==
  /\ busClock' \in {t \in Times : Instant(t) > Instant(busClock)}
  /\ UNCHANGED <<published, rows, queue, taken, subscribed, since, missed>>

\* Mutant of Full: off by one.
FullLate(s) == Len(queue[s]) > QueueSize
Full(s) == Len(queue[s]) = QueueSize

\* the broadcast of publish: a full queue drops the event
Broadcast(e) ==
  /\ queue' = [s \in Subscriber |-> IF s \in subscribed /\ ~Full(s) THEN Append(queue[s], e)
                                    ELSE queue[s]]
  /\ missed' = [s \in Subscriber |-> IF s \in subscribed /\ Full(s) THEN missed[s] \cup {e}
                                     ELSE missed[s]]

\* Mutant of Deliver: the event is offered before the INSERT has succeeded.
DeliverFirst(e, stored) == Broadcast(e)
Deliver(e, stored) == IF stored THEN Broadcast(e) ELSE UNCHANGED <<queue, missed>>

\* publish; without the row (the database is locked or the disk is full) it raises
Publish(stored) ==
  LET e == published + 1 IN
  /\ published < MaxEvents
  /\ published' = e
  /\ rows' = IF stored THEN [d \in DOMAIN rows \cup {e} |-> IF d = e THEN busClock ELSE rows[d]]
             ELSE rows
  /\ Deliver(e, stored)
  /\ UNCHANGED <<busClock, taken, subscribed, since>>

Subscribe(s) ==
  /\ s \notin subscribed
  /\ subscribed' = subscribed \cup {s} /\ since' = [since EXCEPT ![s] = published]
  /\ queue' = [queue EXCEPT ![s] = << >>] /\ taken' = [taken EXCEPT ![s] = << >>]
  /\ missed' = [missed EXCEPT ![s] = {}]
  /\ UNCHANGED <<busClock, published, rows>>

Unsubscribe(s) ==
  /\ s \in subscribed
  /\ subscribed' = subscribed \ {s}
  /\ UNCHANGED <<busClock, published, rows, queue, taken, since, missed>>

TakeEvent(s) ==
  /\ queue[s] # << >>
  /\ taken' = [taken EXCEPT ![s] = Append(@, Head(queue[s]))]
  /\ queue' = [queue EXCEPT ![s] = Tail(@)]
  /\ UNCHANGED <<busClock, published, rows, subscribed, since, missed>>

\* The process restarts: a new bus on the same database.
RestartBus ==
  /\ queue' = [s \in Subscriber |-> << >>] /\ taken' = queue'
  /\ subscribed' = {} /\ since' = [s \in Subscriber |-> 0]
  /\ missed' = [s \in Subscriber |-> {}]
  /\ UNCHANGED <<busClock, published, rows>>

EventBusNext ==
  \/ BusTick \/ RestartBus
  \/ \E stored \in BOOLEAN : Publish(stored)
  \/ \E s \in Subscriber : Subscribe(s) \/ Unsubscribe(s) \/ TakeEvent(s)

EventBusSpec == EventBusInit /\ [][EventBusNext]_busVars

--------------------------------------------------------------------------------
\* Mutant of ListedBefore: ORDER BY created_at DESC.
ListedAfter(d, e) == TextBefore(rows[e], rows[d]) \/ (rows[d] = rows[e] /\ d < e)
\* list_events: row d comes before row e; the rows of one text in rowid order
ListedBefore(d, e) == TextBefore(rows[d], rows[e]) \/ (rows[d] = rows[e] /\ d < e)

\* A listing shows two events the other way round only when both were created
\* in one second and the earlier one exactly on it, whose text has no fraction.
InvertedOnlyOnTheSecond ==
  \A d, e \in Events : IsRow(d) /\ IsRow(e) /\ d < e /\ ListedBefore(e, d) =>
    rows[d].sec = rows[e].sec /\ rows[d].micro = 0

Received(s) == taken[s] \o queue[s]
InOrder(q) == \A i, j \in DOMAIN q : i < j => q[i] < q[j]
Members(q) == {q[i] : i \in DOMAIN q}

\* What a subscriber gets is what a listing shows of the same time, in the order
\* of publication: an event it received is in the table, and an event of the
\* table since it subscribed is one it received or one its queue was full for.
SubscribersAgreeWithListing ==
  \A s \in Subscriber : s \in subscribed =>
    /\ InOrder(Received(s))
    /\ {e \in Events : IsRow(e) /\ e > since[s]} = Members(Received(s)) \cup missed[s]
    /\ Members(Received(s)) \cap missed[s] = {}
================================================================================
