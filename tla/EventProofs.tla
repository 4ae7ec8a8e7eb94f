---------------------------- MODULE EventProofs ----------------------------
(***************************************************************************)
(* For any drivers, names and bounds.  EventLoop keeps its types, the      *)
(* order of each source's events and device events apart, and each of its  *)
(* steps is one of EventInbox or leaves the inbox as it is.  What survives *)
(* the race on the lazily created queue of EventQueue: no task uses a NULL *)
(* handle, no more queues are made than there are cores, and once the      *)
(* first calls are over nobody replaces the handle.                        *)
(***************************************************************************)
EXTENDS EventLoopInbox, EventQueue, SequenceTheorems, FiniteSetTheorems,
        WellFoundedInduction, TLAPS

\* Only senders' events are in the hardware queue.
QueueFromSenders == \A i \in DOMAIN queue : queue[i].src # Program

\* Nothing left the pipe that was not sent.
TakenWasSent == \A s \in Sources : taken[s] <= sent[s]

IInv ==
    /\ TypeOK /\ QueueFromSenders /\ DeviceEventAlone
    /\ Numbered => TakenWasSent
    /\ InOrder

-----------------------------------------------------------------------------
\* A number is a natural number, the next of its source when events are
\* numbered (Number, the stamp of event_push and os_queueEvent).
LEMMA NumberType ==
    ASSUME TypeOK, NEW s \in Sources
    PROVE  /\ Number(s) \in Nat
           /\ Numbered => Number(s) = sent[s] + 1
BY DEF TypeOK, Number

\* A pipe that has lost its oldest event is the same pipe one place on.
LEMMA TailPipe ==
    ASSUME NEW s \in Seq(Event), NEW t \in Seq(Event), s # <<>>
    PROVE  /\ Tail(s) \in Seq(Event)
           /\ Tail(s) \o t \in Seq(Event)
           /\ Len(Tail(s) \o t) = Len(s \o t) - 1
           /\ \A i \in DOMAIN (Tail(s) \o t) :
                i + 1 \in DOMAIN (s \o t) /\ (Tail(s) \o t)[i] = (s \o t)[i + 1]
           /\ (s \o t)[1] = Head(s) /\ 1 \in DOMAIN (s \o t)
<1>1. Tail(s) \in Seq(Event) /\ Len(Tail(s)) = Len(s) - 1 /\ Len(s) \in Nat \ {0}
      /\ \A i \in 1..Len(s) - 1 : Tail(s)[i] = s[i + 1]
  BY HeadTailProperties, EmptySeq, LenProperties
<1>2. Head(s) = s[1]
  BY HeadTailProperties
<1>3. QED
  BY <1>1, <1>2, ConcatProperties, LenProperties

\* The new pipe q is p with e inserted at place k.
Inserted(q, p, k, e) ==
    /\ DOMAIN p = 1..Len(p) /\ Len(p) \in Nat /\ k \in 1..Len(p) + 1
    /\ DOMAIN q = 1..Len(p) + 1
    /\ \A i \in DOMAIN p : p[i] \in Event
    /\ \A i \in 1..k - 1 : q[i] = p[i]
    /\ q[k] = e
    /\ \A i \in k + 1..Len(p) + 1 : q[i] = p[i - 1]

\* An event added behind the hardware queue is the last of the pipe.
LEMMA AppendPipe ==
    ASSUME NEW s \in Seq(Event), NEW t \in Seq(Event), NEW e \in Event
    PROVE  Inserted(s \o Append(t, e), s \o t, Len(s \o t) + 1, e)
<1>1. Append(t, e) \in Seq(Event) /\ Len(Append(t, e)) = Len(t) + 1
      /\ Append(t, e)[Len(t) + 1] = e
      /\ \A i \in 1..Len(t) : Append(t, e)[i] = t[i]
  BY AppendProperties
<1>2. s \o t \in Seq(Event) /\ Len(s \o t) = Len(s) + Len(t)
      /\ \A i \in 1..Len(s) + Len(t) :
            (s \o t)[i] = IF i <= Len(s) THEN s[i] ELSE t[i - Len(s)]
  BY ConcatProperties
<1>3. s \o Append(t, e) \in Seq(Event)
      /\ Len(s \o Append(t, e)) = Len(s) + (Len(t) + 1)
      /\ \A i \in 1..Len(s) + (Len(t) + 1) : (s \o Append(t, e))[i] =
            IF i <= Len(s) THEN s[i] ELSE Append(t, e)[i - Len(s)]
  <2> DEFINE u == Append(t, e)
  <2>1. u \in Seq(Event) /\ Len(u) = Len(t) + 1
    BY <1>1
  <2> HIDE DEF u
  <2>2. s \o u \in Seq(Event) /\ Len(s \o u) = Len(s) + Len(u)
        /\ \A i \in 1..Len(s) + Len(u) :
              (s \o u)[i] = IF i <= Len(s) THEN s[i] ELSE u[i - Len(s)]
    BY <2>1, ConcatProperties
  <2>3. QED
    BY <2>1, <2>2 DEF u
<1>4. Len(s) \in Nat /\ Len(t) \in Nat
  BY LenProperties
<1>5. QED
  BY <1>1, <1>2, <1>3, <1>4, LenProperties DEF Inserted

\* An event added to paramQueue pushes the hardware queue one place back.
LEMMA InsertPipe ==
    ASSUME NEW s \in Seq(Event), NEW t \in Seq(Event), NEW e \in Event
    PROVE  /\ Inserted(Append(s, e) \o t, s \o t, Len(s) + 1, e)
           /\ \A i \in DOMAIN (s \o t) : i > Len(s) =>
                i - Len(s) \in DOMAIN t /\ (s \o t)[i] = t[i - Len(s)]
<1>1. Append(s, e) \in Seq(Event) /\ Len(Append(s, e)) = Len(s) + 1
      /\ Append(s, e)[Len(s) + 1] = e
      /\ \A i \in 1..Len(s) : Append(s, e)[i] = s[i]
  BY AppendProperties
<1>2. Len(s) \in Nat /\ Len(t) \in Nat /\ DOMAIN t = 1..Len(t)
  BY LenProperties
<1>3. s \o t \in Seq(Event) /\ Len(s \o t) = Len(s) + Len(t)
      /\ \A i \in 1..Len(s) + Len(t) :
            (s \o t)[i] = IF i <= Len(s) THEN s[i] ELSE t[i - Len(s)]
  BY ConcatProperties
<1>4. Append(s, e) \o t \in Seq(Event)
      /\ Len(Append(s, e) \o t) = Len(s) + 1 + Len(t)
      /\ \A i \in 1..Len(s) + 1 + Len(t) : (Append(s, e) \o t)[i] =
            IF i <= Len(s) + 1 THEN Append(s, e)[i] ELSE t[i - (Len(s) + 1)]
  BY <1>1, ConcatProperties
<1>5. QED
  BY <1>1, <1>2, <1>3, <1>4, LenProperties DEF Inserted

\* A source's next event keeps a pipe ordered wherever it is inserted, as
\* long as no event of that source is behind it.
LEMMA InsertKeepsOrder ==
    ASSUME NEW p, NEW q, NEW k, NEW e \in Event,
           NEW low \in [Sources -> Nat], NEW high \in [Sources -> Nat],
           Inserted(q, p, k, e), Ordered(p, low, high),
           low[e.src] <= high[e.src],
           e.seq = high[e.src] + 1,
           \A i \in DOMAIN p : i >= k => p[i].src # e.src
    PROVE  Ordered(q, low, [high EXCEPT ![e.src] = e.seq])
<1> DEFINE high2 == [high EXCEPT ![e.src] = e.seq]
<1>1. e.src \in Sources /\ e.seq \in Nat
  BY DEF Event
<1>2. \A i \in DOMAIN p : p[i].src \in Sources /\ p[i].seq \in Nat
  BY DEF Inserted, Event
<1>3. \A x \in Sources : high2[x] \in Nat /\ high[x] <= high2[x] /\ low[x] \in Nat
                         /\ high[x] \in Nat
  BY <1>1
<1>4. \A i \in DOMAIN q :
        \/ i < k /\ i \in DOMAIN p /\ q[i] = p[i]
        \/ i = k /\ q[i] = e
        \/ i > k /\ i - 1 \in DOMAIN p /\ q[i] = p[i - 1]
  BY DEF Inserted
<1>5. DOMAIN q \subseteq Nat /\ DOMAIN p \subseteq Nat /\ k \in Nat
  BY DEF Inserted
<1>6. \A i, j \in DOMAIN q : i < j /\ q[i].src = q[j].src => q[i].seq < q[j].seq
  BY <1>1, <1>2, <1>3, <1>4, <1>5 DEF Ordered
<1>7. \A i \in DOMAIN q : low[q[i].src] < q[i].seq /\ q[i].seq <= high2[q[i].src]
  BY <1>1, <1>2, <1>3, <1>4, <1>5 DEF Ordered
<1>8. QED
  BY <1>6, <1>7 DEF Ordered

\* Every variable keeps its type, the hardware queue within its length.
THEOREM TypeCorrect == Spec => []TypeOK
<1>1. Init => TypeOK
  BY SourcesAssumption, BoundsAssumption, LengthAssumption
     DEF Init, TypeOK, Filters, Sources, Tasks, Event
<1>2. TypeOK /\ [Next]_vars => TypeOK'
  <2> SUFFICES ASSUME TypeOK, [Next]_vars PROVE TypeOK'
    OBVIOUS
  <2> USE BoundsAssumption, LengthAssumption DEF TypeOK
  <2>1. CASE \E s \in Tasks, n \in Names : EventPush(s, n)
    <3>1. PICK s \in Tasks, n \in Names : EventPush(s, n)
      BY <2>1
    <3>2. [src |-> s, name |-> n, seq |-> Number(s)] \in Event
      BY NumberType DEF Event, Sources
    <3>3. queue' \in Seq(Event) /\ Len(queue') <= QueueLength
      BY <3>1, <3>2, AppendProperties DEF EventPush, Offer
    <3>4. QED
      BY <3>1, <3>3, NumberType DEF EventPush, Sources
  <2>2. CASE \E n \in Names : QueueEvent(n)
    <3>1. PICK n \in Names : QueueEvent(n)
      BY <2>2
    <3>2. [src |-> Program, name |-> n, seq |-> Number(Program)] \in Event
      BY NumberType DEF Event, Sources
    <3>3. QED
      BY <3>1, <3>2, NumberType, AppendProperties DEF QueueEvent, Sources
  <2>3. CASE \E f \in Filters : Yield(f)
    BY <2>3, EmptySeq DEF Yield
  <2>4. CASE Receive
    <3>1. Head(queue) \in Event /\ Tail(queue) \in Seq(Event)
          /\ Len(Tail(queue)) <= QueueLength
      BY <2>4, HeadTailProperties, LenProperties, EmptySeq DEF Receive
    <3>2. QED
      BY <2>4, <3>1 DEF Receive
  <2>5. CASE Discard \/ Deliver
    <3> DEFINE e == Head(paramQueue)
    <3>1. e \in Event /\ Tail(paramQueue) \in Seq(Event)
      BY <2>5, HeadTailProperties DEF Discard, Deliver
    <3>2. e.src \in Sources /\ e.seq \in Nat
      BY <3>1 DEF Event
    <3>3. taken' \in [Sources -> Nat]
      BY <2>5, <3>2 DEF Discard, Deliver, Leave
    <3>4. QED
      BY <2>5, <3>1, <3>3 DEF Discard, Deliver
  <2>6. CASE Halt
    BY <2>6 DEF Halt
  <2>7. CASE UNCHANGED vars
    BY <2>7 DEF vars
  <2>8. QED
    BY <2>1, <2>2, <2>3, <2>4, <2>5, <2>6, <2>7 DEF Next
<1>3. QED
  BY <1>1, <1>2, PTL DEF Spec

-----------------------------------------------------------------------------
\* The steps that make IInv inductive, one lemma per part.

\* The hardware queue gets events from drivers and the main task only.
LEMMA SendersStay ==
    ASSUME IInv, [Next]_vars
    PROVE  QueueFromSenders'
<1> USE DEF QueueFromSenders, IInv, TypeOK
<1>1. CASE \E s \in Tasks, n \in Names : EventPush(s, n)
  <2>1. PICK s \in Tasks, n \in Names : EventPush(s, n)
    BY <1>1
  <2> DEFINE e == [src |-> s, name |-> n, seq |-> Number(s)]
  <2>2. e \in Event /\ e.src # Program
    BY NumberType, SourcesAssumption DEF Event, Sources, Tasks
  <2>3. CASE queue' = queue
    BY <2>3
  <2>4. CASE queue' = Append(queue, e)
    BY <2>2, <2>4, AppendProperties, LenProperties
  <2>5. QED
    BY <2>1, <2>3, <2>4 DEF EventPush, Offer
<1>2. CASE Receive
  <2>1. Tail(queue) \in Seq(Event) /\ Len(Tail(queue)) = Len(queue) - 1
        /\ \A i \in 1..Len(Tail(queue)) : Tail(queue)[i] = queue[i + 1]
    BY <1>2, HeadTailProperties DEF Receive
  <2>2. QED
    BY <1>2, <2>1, LenProperties DEF Receive
<1>3. CASE queue' = queue
  BY <1>3
<1>4. QED
  BY <1>1, <1>2, <1>3
     DEF Next, vars, QueueEvent, Yield, Discard, Deliver, Halt

\* getNextEvent refills only an empty paramQueue, and decides before it ends.
LEMMA AloneStays ==
    ASSUME IInv, [Next]_vars
    PROVE  DeviceEventAlone'
<1> USE DEF DeviceEventAlone, IInv, TypeOK
<1>1. CASE \E n \in Names : QueueEvent(n)
  <2>1. PICK n \in Names : QueueEvent(n)
    BY <1>1
  <2> DEFINE e == [src |-> Program, name |-> n, seq |-> Number(Program)]
  <2>2. e \in Event /\ e.src = Program
    BY NumberType DEF Event, Sources
  <2>3. \A i \in DOMAIN paramQueue : paramQueue[i].src = Program
    BY <2>1 DEF QueueEvent
  <2>4. QED
    BY <2>1, <2>2, <2>3, AppendProperties, LenProperties DEF QueueEvent
<1>2. CASE Receive
  <2>1. Head(queue) \in Event
    BY <1>2, HeadTailProperties DEF Receive
  <2>2. QED
    BY <1>2, <2>1 DEF Receive
<1>3. CASE Discard \/ Deliver
  <2>1. paramQueue # <<>> /\ paramQueue' = Tail(paramQueue)
    BY <1>3 DEF Discard, Deliver
  <2>2. Tail(paramQueue) \in Seq(Event)
        /\ Len(Tail(paramQueue)) = Len(paramQueue) - 1
        /\ \A i \in 1..Len(Tail(paramQueue)) :
              Tail(paramQueue)[i] = paramQueue[i + 1]
    BY <2>1, HeadTailProperties
  <2>3. \A i \in DOMAIN Tail(paramQueue) :
          i + 1 \in DOMAIN paramQueue /\ Len(paramQueue) > 1
    BY <2>2, LenProperties
  <2>4. QED
    BY <2>1, <2>2, <2>3, LenProperties
<1>4. CASE UNCHANGED <<paramQueue, status>>
  BY <1>4
<1>5. CASE (\E f \in Filters : Yield(f)) \/ Halt
  <2>1. \A i \in DOMAIN paramQueue : paramQueue[i].src = Program
    BY <1>5 DEF Yield, Halt
  <2>2. QED
    BY <1>5, <2>1 DEF Yield, Halt
<1>6. QED
  BY <1>1, <1>2, <1>3, <1>4, <1>5 DEF Next, vars, EventPush

\* What a program or a driver adds is the newest event of its source.
LEMMA AddKeepsOrder ==
    ASSUME IInv, Numbered, NEW s \in Sources, NEW e \in Event,
           e.src = s, e.seq = Number(s),
           NEW k, Inserted(Pipe', Pipe, k, e),
           sent' = [sent EXCEPT ![s] = Number(s)], taken' = taken,
           \A i \in DOMAIN Pipe : i >= k => Pipe[i].src # s
    PROVE  InOrder' /\ TakenWasSent'
<1>1. Number(s) = sent[s] + 1
  BY NumberType DEF IInv
<1>2. taken \in [Sources -> Nat] /\ sent \in [Sources -> Nat]
      /\ Ordered(Pipe, taken, sent) /\ taken[s] <= sent[s]
  BY DEF IInv, TypeOK, InOrder, TakenWasSent
<1> DEFINE p == Pipe
           q == Pipe'
<1>3. Ordered(q, taken, [sent EXCEPT ![e.src] = e.seq])
  <2> HIDE DEF p, q
  <2>1. Inserted(q, p, k, e) /\ Ordered(p, taken, sent)
        /\ \A i \in DOMAIN p : i >= k => p[i].src # e.src
    BY <1>2 DEF p, q
  <2>2. QED
    BY <1>1, <1>2, <2>1, InsertKeepsOrder
<1>4. Ordered(q, taken, sent')
  BY <1>3
<1>5. TakenWasSent'
  BY <1>1, <1>2 DEF TakenWasSent, IInv
<1>6. QED
  BY <1>4, <1>5 DEF InOrder

\* getNextEvent takes events from the front of the pipe only.
LEMMA LeaveKeepsOrder ==
    ASSUME IInv, Numbered, Discard \/ Deliver
    PROVE  InOrder' /\ TakenWasSent'
<1> DEFINE e == Head(paramQueue)
           q == Tail(paramQueue) \o queue
<1>1. paramQueue # <<>> /\ paramQueue' = Tail(paramQueue) /\ queue' = queue
      /\ sent' = sent /\ taken' = [taken EXCEPT ![e.src] = e.seq]
  BY DEF Discard, Deliver, Leave
<1>2. paramQueue \in Seq(Event) /\ queue \in Seq(Event) /\ e \in Event
  BY <1>1, HeadTailProperties DEF IInv, TypeOK
<1>3. /\ \A i \in DOMAIN q : i + 1 \in DOMAIN Pipe /\ q[i] = Pipe[i + 1]
      /\ Pipe[1] = e /\ 1 \in DOMAIN Pipe
      /\ q \in Seq(Event)
  BY <1>1, <1>2, TailPipe DEF Pipe
<1>4. DOMAIN q \subseteq Nat \ {0} /\ \A i \in DOMAIN q : q[i] \in Event
  BY <1>3, LenProperties, ElementOfSeq
<1>5. taken \in [Sources -> Nat] /\ sent \in [Sources -> Nat]
      /\ Ordered(Pipe, taken, sent)
  BY DEF IInv, TypeOK, InOrder
<1>6. e.src \in Sources /\ e.seq \in Nat
      /\ \A i \in DOMAIN q : q[i].src \in Sources /\ q[i].seq \in Nat
  BY <1>2, <1>4 DEF Event
<1>7. Ordered(q, taken', sent)
  <2> HIDE DEF q, e
  <2>1. \A i, j \in DOMAIN q : i < j /\ q[i].src = q[j].src => q[i].seq < q[j].seq
    BY <1>3, <1>4, <1>5 DEF Ordered
  <2>2. ASSUME NEW i \in DOMAIN q
        PROVE  taken'[q[i].src] < q[i].seq /\ q[i].seq <= sent[q[i].src]
    <3>1. taken[q[i].src] < q[i].seq /\ q[i].seq <= sent[q[i].src]
      BY <1>3, <1>5 DEF Ordered
    <3>2. q[i].src = e.src => e.seq < q[i].seq
      BY <1>3, <1>4, <1>5 DEF Ordered
    <3>3. QED
      BY <3>1, <3>2, <1>1, <1>5, <1>6
  <2>3. QED
    BY <2>1, <2>2 DEF Ordered
<1>8. TakenWasSent'
  BY <1>1, <1>3, <1>5, <1>6 DEF TakenWasSent, IInv, Ordered
<1>9. Pipe' = q
  BY <1>1 DEF Pipe
<1>10. QED
  BY <1>1, <1>7, <1>8, <1>9 DEF InOrder

\* Every step keeps each source's numbers in order.
LEMMA OrderStays ==
    ASSUME IInv, [Next]_vars, Numbered
    PROVE  InOrder' /\ TakenWasSent'
<1> USE DEF IInv
<1>1. CASE \E s \in Tasks, n \in Names : EventPush(s, n)
  <2>1. PICK s \in Tasks, n \in Names : EventPush(s, n)
    BY <1>1
  <2> DEFINE e == [src |-> s, name |-> n, seq |-> Number(s)]
  <2>2. e \in Event /\ e.src = s /\ e.seq = Number(s) /\ s \in Sources
    BY NumberType DEF Event, Sources
  <2>3. CASE queue' = queue
    <3>1. Pipe' = Pipe /\ taken' = taken /\ sent' = [sent EXCEPT ![s] = sent[s] + 1]
      BY <2>1, <2>2, <2>3, NumberType DEF EventPush, Pipe
    <3>2. sent \in [Sources -> Nat] /\ taken \in [Sources -> Nat]
          /\ Pipe \in Seq(Event)
      BY ConcatProperties DEF TypeOK, Pipe
    <3>3. \A i \in DOMAIN Pipe : Pipe[i].src \in Sources /\ Pipe[i].seq \in Nat
      <4>1. \A i \in DOMAIN Pipe : Pipe[i] \in Event
        BY <3>2, ElementOfSeq, LenProperties
      <4>2. QED
        BY <4>1 DEF Event
    <3>4. \A x \in Sources : sent[x] <= sent'[x] /\ sent'[x] \in Nat
      BY <3>1, <3>2, <2>2
    <3>5. ASSUME NEW i \in DOMAIN Pipe PROVE Pipe[i].seq <= sent'[Pipe[i].src]
      <4>1. Pipe[i].seq <= sent[Pipe[i].src]
        BY DEF InOrder, Ordered
      <4>2. QED
        BY <4>1, <3>2, <3>3, <3>4
    <3>6. InOrder'
      BY <3>1, <3>5 DEF InOrder, Ordered
    <3>7. TakenWasSent'
      BY <3>1, <3>2, <3>4 DEF TakenWasSent
    <3>8. QED
      BY <3>6, <3>7
  <2>4. CASE queue' = Append(queue, e)
    <3>1. Inserted(Pipe', Pipe, Len(Pipe) + 1, e)
      BY <2>1, <2>2, <2>4, AppendPipe DEF EventPush, Pipe, TypeOK
    <3>2. \A i \in DOMAIN Pipe : ~(i >= Len(Pipe) + 1)
      BY <3>1 DEF Inserted
    <3>3. QED
      BY <2>1, <2>2, <3>1, <3>2, AddKeepsOrder DEF EventPush
  <2>5. QED
    BY <2>1, <2>3, <2>4 DEF EventPush, Offer
<1>2. CASE \E n \in Names : QueueEvent(n)
  <2>1. PICK n \in Names : QueueEvent(n)
    BY <1>2
  <2> DEFINE e == [src |-> Program, name |-> n, seq |-> Number(Program)]
  <2>2. e \in Event /\ e.src = Program /\ e.seq = Number(Program)
        /\ Program \in Sources
    BY NumberType DEF Event, Sources
  <2>3. Inserted(Pipe', Pipe, Len(paramQueue) + 1, e)
    BY <2>1, <2>2, InsertPipe DEF QueueEvent, Pipe, TypeOK
  <2>4. \A i \in DOMAIN Pipe : i >= Len(paramQueue) + 1 => Pipe[i].src # Program
    <3>1. \A i \in DOMAIN Pipe : i > Len(paramQueue) =>
            i - Len(paramQueue) \in DOMAIN queue
            /\ Pipe[i] = queue[i - Len(paramQueue)]
      BY <2>2, InsertPipe DEF Pipe, TypeOK
    <3>2. DOMAIN Pipe \subseteq Nat /\ Len(paramQueue) \in Nat
      BY <2>3, LenProperties DEF Inserted, TypeOK
    <3>3. QED
      BY <3>1, <3>2 DEF QueueFromSenders
  <2>5. QED
    BY <2>1, <2>2, <2>3, <2>4, AddKeepsOrder DEF QueueEvent
<1>3. CASE Receive
  <2>1. paramQueue = <<>> /\ queue # <<>> /\ queue \in Seq(Event)
        /\ paramQueue' = <<Head(queue)>> /\ queue' = Tail(queue)
    BY <1>3 DEF Receive, TypeOK
  <2>2. <<Head(queue)>> \o Tail(queue) = queue /\ <<>> \o queue = queue
    BY <2>1
  <2>3. Pipe' = Pipe /\ sent' = sent /\ taken' = taken
    BY <1>3, <2>1, <2>2 DEF Receive, Pipe
  <2>4. QED
    BY <2>3 DEF InOrder, Ordered, TakenWasSent
<1>4. CASE Discard \/ Deliver
  BY <1>4, LeaveKeepsOrder
<1>5. CASE UNCHANGED <<paramQueue, queue, sent, taken>>
  BY <1>5 DEF InOrder, Ordered, TakenWasSent, Pipe
<1>6. QED
  BY <1>1, <1>2, <1>3, <1>4, <1>5 DEF Next, vars, Yield, Halt

-----------------------------------------------------------------------------
\* The inductive invariant holds of every behaviour.
LEMMA Inductive == Spec => []IInv
<1>1. Init => QueueFromSenders /\ DeviceEventAlone /\ InOrder /\ TakenWasSent
  BY DEF Init, QueueFromSenders, DeviceEventAlone, InOrder, Ordered, Pipe,
         TakenWasSent
<1>2. TypeOK /\ TypeOK' /\ IInv /\ [Next]_vars => IInv'
  <2> SUFFICES ASSUME TypeOK', IInv, [Next]_vars PROVE IInv'
    OBVIOUS
  <2>1. QueueFromSenders' /\ DeviceEventAlone'
    BY SendersStay, AloneStays
  <2>2. CASE Numbered
    BY <2>1, <2>2, OrderStays DEF IInv
  <2>3. CASE ~Numbered
    BY <2>1, <2>3 DEF IInv, InOrder
  <2>4. QED
    BY <2>2, <2>3
<1>3. Init /\ TypeOK => IInv
  BY <1>1 DEF IInv
<1>4. QED
  BY <1>2, <1>3, TypeCorrect, PTL DEF Spec

\* However the drivers, the main task and the program interleave, and
\* whatever is dropped or filtered, each source's events stay in order
\* (event_push, os_queueEvent, getNextEvent).
THEOREM OrderKept == Spec => []InOrder
<1>1. IInv => InOrder
  BY DEF IInv
<1>2. QED
  BY <1>1, Inductive, PTL

\* A device event is in paramQueue only alone and only during a pull
\* (getNextEvent's inner loop).
THEOREM DeviceEventsIsolated == Spec => []DeviceEventAlone
<1>1. IInv => DeviceEventAlone
  BY DEF IInv
<1>2. QED
  BY <1>1, Inductive, PTL

-----------------------------------------------------------------------------
(* The inbox: where a pull's first wanted event is *)

\* i is the place of the first event of s that a pull with filter f wants.
IsFirst(s, f, i) ==
    /\ i \in 1..Len(s) /\ Wanted(s[i], f)
    /\ \A j \in 1..i - 1 : ~ Wanted(s[j], f)

\* The order of the numbers as the library has it.
LEMMA LessThan == OpToRel(<, Nat) = {ss \in Nat \X Nat : ss[1] < ss[2]}
BY DEF OpToRel

\* A set of numbers that is not empty has a least one.
LEMMA LeastNumber ==
    ASSUME NEW S \in SUBSET Nat, S # {}
    PROVE  \E m \in S : \A k \in S : m <= k
<1>1. IsWellFoundedOn({ss \in Nat \X Nat : ss[1] < ss[2]}, Nat)
  BY NatLessThanWellFounded, LessThan, Zenon
<1>2. PICK m \in S : \A k \in S : ~(<<k, m>> \in {ss \in Nat \X Nat : ss[1] < ss[2]})
  BY <1>1, WFMin, Zenon
<1>3. ASSUME NEW k \in S, k < m
      PROVE  FALSE
  <2>1. <<k, m>> \in {ss \in Nat \X Nat : ss[1] < ss[2]}
    BY <1>3
  <2> QED
    BY <1>2, <2>1
<1> QED
  BY <1>3

\* A sequence with a wanted event has a first one.
LEMMA FirstThere ==
    ASSUME NEW s \in Seq(Event), NEW f, NEW k \in 1..Len(s), Wanted(s[k], f)
    PROVE  \E i \in 1..Len(s) : IsFirst(s, f, i)
<1> DEFINE W == {i \in 1..Len(s) : Wanted(s[i], f)}
<1>1. W \in SUBSET Nat /\ W # {} /\ Len(s) \in Nat
  BY LenProperties
<1>2. PICK i \in W : \A j \in W : i <= j
  <2> HIDE DEF W
  <2> QED
    BY <1>1, LeastNumber
<1>3. IsFirst(s, f, i)
  BY <1>1, <1>2 DEF IsFirst
<1> QED
  BY <1>2, <1>3

\* Both specifications want the same events.
LEMMA SameWanted == \A e, f : Inbox!Wanted(e, f) <=> Wanted(e, f)
BY DEF Inbox!Wanted, Wanted

\* Skip cuts what is before the first wanted event.
LEMMA SkipIs ==
    ASSUME NEW s \in Seq(Event), NEW f
    PROVE  /\ \A i \in 1..Len(s) : IsFirst(s, f, i) => Inbox!Skip(s, f) = SubSeq(s, i, Len(s))
           /\ (\A i \in 1..Len(s) : ~ Wanted(s[i], f)) => Inbox!Skip(s, f) = <<>>
<1>1. DOMAIN s = 1..Len(s) /\ Len(s) \in Nat
  BY LenProperties
<1>2. ASSUME NEW i \in 1..Len(s), IsFirst(s, f, i)
      PROVE  Inbox!Skip(s, f) = SubSeq(s, i, Len(s))
  <2> DEFINE P(n) == n \in DOMAIN s /\ Inbox!Wanted(s[n], f)
                     /\ \A j \in 1..(n-1) : ~ Inbox!Wanted(s[j], f)
  <2>1. P(i)
    BY <1>1, <1>2, SameWanted DEF IsFirst
  <2>2. \A n : P(n) => n = i
    BY <1>1, <1>2, SameWanted DEF IsFirst
  <2>3. (CHOOSE n \in DOMAIN s : /\ Inbox!Wanted(s[n], f)
                                /\ \A j \in 1..(n-1) : ~ Inbox!Wanted(s[j], f)) = i
    BY <2>1, <2>2
  <2>4. Inbox!HasWanted(s, f)
    BY <2>1 DEF Inbox!HasWanted
  <2> QED
    BY <2>3, <2>4 DEF Inbox!Skip
<1>3. ASSUME \A i \in 1..Len(s) : ~ Wanted(s[i], f)
      PROVE  Inbox!Skip(s, f) = <<>>
  BY <1>1, <1>3, SameWanted DEF Inbox!Skip, Inbox!HasWanted
<1> QED
  BY <1>2, <1>3

\* And the refinement cuts the same.
LEMMA FromWantedIs ==
    ASSUME NEW s \in Seq(Event)
    PROVE  FromWanted(s) = Inbox!Skip(s, filter)
<1> DEFINE W == {i \in DOMAIN s : Wanted(s[i], filter)}
<1>1. DOMAIN s = 1..Len(s) /\ Len(s) \in Nat
  BY LenProperties
<1>2. CASE W = {}
  BY <1>1, <1>2, SkipIs DEF FromWanted
<1>3. CASE W # {}
  <2>1. PICK i \in 1..Len(s) : IsFirst(s, filter, i)
    BY <1>1, <1>3, FirstThere
  <2>2. i \in W /\ \A j \in W : i <= j
    BY <1>1, <2>1 DEF IsFirst
  <2>3. \A n \in W : (\A j \in W : n <= j) => n = i
    BY <1>1, <2>2
  <2>4. (CHOOSE n \in W : \A j \in W : n <= j) = i
    <3> HIDE DEF W
    <3> QED
      BY <2>2, <2>3
  <2>5. FromWanted(s) = SubSeq(s, i, Len(s))
    BY <1>3, <2>4 DEF FromWanted
  <2> QED
    BY <2>1, <2>5, SkipIs
<1> QED
  BY <1>2, <1>3

\* Nothing is left of nothing.
LEMMA SkipEmpty ==
    ASSUME NEW s, s = <<>>, NEW f
    PROVE  Inbox!Skip(s, f) = <<>>
<1>1. s \in Seq(Event) /\ Len(s) = 0
  BY EmptySeq
<1>2. \A i \in 1..Len(s) : ~ Wanted(s[i], f)
  BY <1>1
<1> QED
  BY <1>1, <1>2, SkipIs

\* What is left of a sequence that starts with a wanted event is all of it.
LEMMA SkipHead ==
    ASSUME NEW s \in Seq(Event), NEW f, s # <<>>, Wanted(Head(s), f)
    PROVE  Inbox!Skip(s, f) = s
<1>1. Len(s) \in Nat \ {0} /\ Head(s) = s[1]
  BY LenProperties, EmptySeq, HeadTailProperties
<1>2. 1 \in 1..Len(s) /\ IsFirst(s, f, 1)
  BY <1>1 DEF IsFirst
<1>3. Inbox!Skip(s, f) = SubSeq(s, 1, Len(s))
  BY <1>2, SkipIs
<1> QED
  BY <1>3, SubSeqFull

\* An unwanted event at the front makes no difference.
LEMMA SkipTail ==
    ASSUME NEW s \in Seq(Event), NEW f, s # <<>>, ~ Wanted(Head(s), f)
    PROVE  Inbox!Skip(s, f) = Inbox!Skip(Tail(s), f)
<1> DEFINE t == Tail(s)
<1>1. /\ Len(s) \in Nat \ {0} /\ Head(s) = s[1]
      /\ t \in Seq(Event) /\ Len(t) = Len(s) - 1
      /\ \A i \in 1..Len(t) : t[i] = s[i + 1]
  BY LenProperties, EmptySeq, HeadTailProperties
<1> HIDE DEF t
<1>2. CASE \A i \in 1..Len(t) : ~ Wanted(t[i], f)
  <2>1. ASSUME NEW i \in 1..Len(s) PROVE ~ Wanted(s[i], f)
    <3>1. CASE i = 1
      BY <1>1, <3>1
    <3>2. CASE i # 1
      <4>1. i - 1 \in 1..Len(t) /\ t[i - 1] = s[i]
        BY <1>1, <3>2
      <4> QED
        BY <1>2, <4>1
    <3> QED
      BY <3>1, <3>2
  <2> QED
    BY <1>1, <1>2, <2>1, SkipIs DEF t
<1>3. CASE ~ \A i \in 1..Len(t) : ~ Wanted(t[i], f)
  <2>1. PICK i \in 1..Len(t) : IsFirst(t, f, i)
    BY <1>1, <1>3, FirstThere
  <2>2. i + 1 \in 1..Len(s) /\ IsFirst(s, f, i + 1)
    <3>1. i + 1 \in 1..Len(s) /\ Wanted(s[i + 1], f)
      BY <1>1, <2>1 DEF IsFirst
    <3>2. ASSUME NEW j \in 1..i PROVE ~ Wanted(s[j], f)
      <4>1. CASE j = 1
        BY <1>1, <4>1
      <4>2. CASE j # 1
        <5>1. j - 1 \in 1..i - 1 /\ j - 1 \in 1..Len(t) /\ t[j - 1] = s[j]
          BY <1>1, <4>2
        <5> QED
          BY <2>1, <5>1 DEF IsFirst
      <4> QED
        BY <4>1, <4>2
    <3> QED
      BY <3>1, <3>2 DEF IsFirst
  <2>3. Inbox!Skip(s, f) = SubSeq(s, i + 1, Len(s)) /\ Inbox!Skip(t, f) = SubSeq(t, i, Len(t))
    BY <1>1, <2>1, <2>2, SkipIs
  <2> DEFINE u == SubSeq(s, i + 1, Len(s))
             v == SubSeq(t, i, Len(t))
  <2>4. /\ u \in Seq(Event) /\ Len(u) = Len(s) - i
        /\ \A j \in 1..Len(s) - i : u[j] = s[i + j]
    <3>1. \A j \in i + 1..Len(s) : s[j] \in Event
      BY <2>2, ElementOfSeq
    <3> QED
      BY <1>1, <2>1, <3>1, SubSeqProperties
  <2>5. /\ v \in Seq(Event) /\ Len(v) = Len(t) - i + 1
        /\ \A j \in 1..Len(t) - i + 1 : v[j] = t[i + j - 1]
    <3>1. \A j \in i..Len(t) : t[j] \in Event
      BY <1>1, <2>1, ElementOfSeq
    <3> QED
      BY <1>1, <2>1, <3>1, SubSeqProperties
  <2> HIDE DEF u, v
  <2>6. ASSUME NEW j \in 1..Len(u) PROVE u[j] = v[j]
    <3>1. /\ j \in 1..Len(s) - i /\ j \in 1..Len(t) - i + 1
          /\ i + j - 1 \in 1..Len(t) /\ (i + j - 1) + 1 = i + j
      BY <1>1, <2>1, <2>4
    <3>2. u[j] = s[i + j] /\ v[j] = t[i + j - 1]
      BY <2>4, <2>5, <3>1
    <3>3. t[i + j - 1] = s[(i + j - 1) + 1]
      BY <1>1, <3>1
    <3> QED
      BY <3>1, <3>2, <3>3
  <2>7. Len(u) = Len(v)
    BY <1>1, <2>1, <2>4, <2>5
  <2>8. u = v
    BY <2>4, <2>5, <2>6, <2>7, SeqEqual
  <2> QED
    BY <2>3, <2>8 DEF t, u, v
<1> QED
  BY <1>2, <1>3

\* A sequence of one event.
LEMMA OneEvent ==
    ASSUME NEW e \in Event
    PROVE  /\ <<e>> \in Seq(Event) /\ Len(<<e>>) = 1 /\ <<e>>[1] = e
           /\ <<e>> # <<>> /\ Head(<<e>>) = e /\ Tail(<<e>>) = <<>>
OBVIOUS

\* A pull that has skipped what it does not want skips the same of what
\* arrives later.
LEMMA SkipAppend ==
    ASSUME NEW s \in Seq(Event), NEW f, NEW e \in Event
    PROVE  Inbox!Skip(Append(Inbox!Skip(s, f), e), f) = Inbox!Skip(Append(s, e), f)
<1> DEFINE n == Len(s)
           a == Append(s, e)
<1>1. /\ n \in Nat /\ a \in Seq(Event) /\ Len(a) = n + 1 /\ a[n + 1] = e
      /\ \A i \in 1..n : a[i] = s[i]
  BY LenProperties, AppendProperties
<1> HIDE DEF a
<1>2. CASE \A i \in 1..n : ~ Wanted(s[i], f)
  <2>1. Inbox!Skip(s, f) = <<>> /\ Append(<<>>, e) = <<e>>
    BY <1>2, SkipIs
  <2>2. CASE Wanted(e, f)
    <3>1. Inbox!Skip(<<e>>, f) = <<e>>
      <4> DEFINE one == <<e>>
      <4>1. one \in Seq(Event) /\ one # <<>> /\ Head(one) = e
        BY OneEvent
      <4> HIDE DEF one
      <4>2. Inbox!Skip(one, f) = one
        BY <2>2, <4>1, SkipHead
      <4> QED
        BY <4>2 DEF one
    <3>2. n + 1 \in 1..Len(a) /\ IsFirst(a, f, n + 1)
      BY <1>1, <1>2, <2>2 DEF IsFirst
    <3>3. Inbox!Skip(a, f) = SubSeq(a, n + 1, n + 1)
      BY <1>1, <3>2, SkipIs
    <3>4. SubSeq(a, n + 1, n + 1) = <<e>>
      <4> DEFINE one == <<e>>
                 u == SubSeq(a, n + 1, n + 1)
      <4>1. \A j \in n + 1..n + 1 : a[j] \in Event
        BY <1>1
      <4>2. /\ u \in Seq(Event)
            /\ Len(u) = IF n + 1 <= n + 1 THEN n + 1 - (n + 1) + 1 ELSE 0
            /\ \A i \in 1..n + 1 - (n + 1) + 1 : u[i] = a[n + 1 + i - 1]
        BY <1>1, <4>1, SubSeqProperties
      <4> HIDE DEF u
      <4>3. Len(u) = 1 /\ u[1] = e
        BY <1>1, <4>2
      <4>4. one \in Seq(Event) /\ Len(one) = 1 /\ one[1] = e
        BY OneEvent
      <4> HIDE DEF one
      <4>5. \A i \in 1..Len(u) : u[i] = one[i]
        BY <4>3, <4>4
      <4>6. u = one
        BY <4>2, <4>3, <4>4, <4>5, SeqEqual
      <4> QED
        BY <4>6 DEF u, one
    <3> QED
      BY <2>1, <3>1, <3>3, <3>4 DEF a
  <2>3. CASE ~ Wanted(e, f)
    <3>1. Inbox!Skip(<<e>>, f) = <<>>
      <4> DEFINE one == <<e>>
      <4>1. one \in Seq(Event) /\ Len(one) = 1 /\ one[1] = e
        BY OneEvent
      <4> HIDE DEF one
      <4>2. \A i \in 1..Len(one) : ~ Wanted(one[i], f)
        BY <2>3, <4>1
      <4>3. Inbox!Skip(one, f) = <<>>
        BY <4>1, <4>2, SkipIs
      <4> QED
        BY <4>3 DEF one
    <3>2. \A i \in 1..Len(a) : ~ Wanted(a[i], f)
      BY <1>1, <1>2, <2>3
    <3> QED
      BY <1>1, <2>1, <3>1, <3>2, SkipIs DEF a
  <2> QED
    BY <2>2, <2>3
<1>3. CASE ~ \A i \in 1..n : ~ Wanted(s[i], f)
  <2>1. PICK i \in 1..n : IsFirst(s, f, i)
    BY <1>3, FirstThere
  <2>2. i \in 1..Len(a) /\ IsFirst(a, f, i)
    BY <1>1, <2>1 DEF IsFirst
  <2> DEFINE t == SubSeq(s, i, n)
             b == Append(t, e)
             u == SubSeq(a, i, n + 1)
  <2>3. Inbox!Skip(s, f) = t /\ Inbox!Skip(a, f) = u
    BY <1>1, <2>1, <2>2, SkipIs
  <2>4. /\ t \in Seq(Event) /\ Len(t) = n - i + 1
        /\ \A j \in 1..n - i + 1 : t[j] = s[i + j - 1]
    <3>1. \A j \in i..n : s[j] \in Event
      BY <1>1, <2>1, ElementOfSeq
    <3> QED
      BY <1>1, <2>1, <3>1, SubSeqProperties
  <2>5. /\ u \in Seq(Event) /\ Len(u) = n - i + 2
        /\ \A j \in 1..n - i + 2 : u[j] = a[i + j - 1]
    <3>1. \A j \in i..n + 1 : a[j] \in Event
      BY <1>1, <2>1, ElementOfSeq
    <3> QED
      BY <1>1, <2>1, <3>1, SubSeqProperties
  <2> HIDE DEF t, u
  <2>6. /\ b \in Seq(Event) /\ Len(b) = Len(t) + 1 /\ b[Len(t) + 1] = e
        /\ \A j \in 1..Len(t) : b[j] = t[j]
    BY <2>4, AppendProperties
  <2> HIDE DEF b
  <2>7. Len(b) = n - i + 2 /\ Len(u) = Len(b)
    BY <1>1, <2>1, <2>4, <2>5, <2>6
  <2>8. ASSUME NEW j \in 1..Len(b) PROVE b[j] = u[j]
    <3>1. j \in 1..n - i + 2 /\ u[j] = a[i + j - 1]
      BY <2>5, <2>7
    <3>2. CASE j = Len(b)
      <4>1. j = Len(t) + 1 /\ i + j - 1 = n + 1
        BY <1>1, <2>1, <2>4, <2>6, <3>2
      <4> QED
        BY <1>1, <2>6, <3>1, <4>1
    <3>3. CASE j # Len(b)
      <4> HIDE DEF n
      <4>0. n \in Nat /\ i \in 1..n /\ j \in 1..n - i + 2 /\ j # n - i + 2
        BY <1>1, <2>1, <2>7, <3>1, <3>3
      <4>1. j \in 1..Len(t) /\ j \in 1..n - i + 1 /\ i + j - 1 \in 1..n
        BY <2>4, <4>0
      <4>2. b[j] = s[i + j - 1] /\ a[i + j - 1] = s[i + j - 1]
        BY <1>1, <2>4, <2>6, <4>1
      <4> QED
        BY <3>1, <4>2
    <3> QED
      BY <3>2, <3>3
  <2>9. b = u
    BY <2>5, <2>6, <2>8, <2>7, SeqEqual
  <2>10. b # <<>> /\ Wanted(Head(b), f)
    <3>1. b # <<>> /\ Head(b) = b[1]
      BY <1>1, <2>1, <2>4, <2>6, EmptySeq, HeadTailProperties
    <3>2. b[1] = s[i]
      BY <1>1, <2>1, <2>4, <2>6
    <3> QED
      BY <2>1, <3>1, <3>2 DEF IsFirst
  <2>11. Inbox!Skip(b, f) = b
    BY <2>6, <2>10, SkipHead
  <2> QED
    BY <2>3, <2>9, <2>11 DEF a, b
<1> QED
  BY <1>2, <1>3

-----------------------------------------------------------------------------
(* EventLoop implements EventInbox, step by step *)

\* What the program's inbox is in each place of the main task.
InboxShape ==
    /\ status # "wait" => own = paramQueue /\ outside = queue
    /\ status = "wait" /\ FromProgram =>
         /\ own = Inbox!Skip(paramQueue, filter)
         /\ outside = IF own = <<>> THEN Inbox!Skip(queue, filter) ELSE queue
    /\ status = "wait" /\ ~ FromProgram =>
         own = <<>> /\ outside = Inbox!Skip(Pipe, filter)

\* The refinement mapping says so.
LEMMA InboxIs == IInv => InboxShape
<1> SUFFICES ASSUME IInv PROVE InboxShape
  OBVIOUS
<1>1. paramQueue \in Seq(Event) /\ queue \in Seq(Event) /\ Pipe \in Seq(Event)
  BY ConcatProperties DEF IInv, TypeOK, Pipe
<1>2. /\ FromWanted(paramQueue) = Inbox!Skip(paramQueue, filter)
      /\ FromWanted(queue) = Inbox!Skip(queue, filter)
      /\ FromWanted(Pipe) = Inbox!Skip(Pipe, filter)
  BY <1>1, FromWantedIs
<1> QED
  BY <1>2 DEF InboxShape, own, outside

\* Only the program's events are in paramQueue while it runs, and a device
\* event is its only one in a pull.
LEMMA FrontOfPipe ==
    ASSUME IInv
    PROVE  /\ \A i \in DOMAIN paramQueue : status # "wait" => paramQueue[i].src = Program
           /\ FromProgram => \A i \in DOMAIN paramQueue : paramQueue[i].src = Program
           /\ paramQueue # <<>> /\ ~ FromProgram =>
                status = "wait" /\ paramQueue = <<Head(paramQueue)>>
<1>1. paramQueue \in Seq(Event)
  BY DEF IInv, TypeOK
<1>2. DOMAIN paramQueue = 1..Len(paramQueue) /\ Len(paramQueue) \in Nat
      /\ (paramQueue # <<>> => Len(paramQueue) > 0 /\ Head(paramQueue) = paramQueue[1]
                               /\ Head(paramQueue) \in Event)
  BY <1>1, LenProperties, EmptySeq, HeadTailProperties
<1>3. paramQueue # <<>> /\ ~ FromProgram =>
        status = "wait" /\ Len(paramQueue) = 1
  BY <1>2 DEF FromProgram, IInv, DeviceEventAlone
<1>4. ASSUME Len(paramQueue) = 1 PROVE paramQueue = <<Head(paramQueue)>>
  <2> DEFINE one == <<Head(paramQueue)>>
  <2>1. paramQueue # <<>>
    BY <1>4, EmptySeq
  <2>2. one \in Seq(Event) /\ Len(one) = 1 /\ one[1] = Head(paramQueue)
    BY <1>2, <2>1, OneEvent
  <2> HIDE DEF one
  <2>3. \A i \in 1..Len(paramQueue) : paramQueue[i] = one[i]
    BY <1>2, <1>4, <2>1, <2>2
  <2>4. paramQueue = one
    BY <1>1, <1>4, <2>2, <2>3, SeqEqual
  <2> QED
    BY <2>4 DEF one
<1>5. FromProgram => \A i \in DOMAIN paramQueue : paramQueue[i].src = Program
  BY <1>2 DEF FromProgram, IInv, DeviceEventAlone
<1>6. \A i \in DOMAIN paramQueue : status # "wait" => paramQueue[i].src = Program
  BY DEF IInv, DeviceEventAlone
<1> QED
  BY <1>3, <1>4, <1>5, <1>6

\* A device's event arrives, or is lost.
LEMMA PushMaps ==
    ASSUME IInv, InboxShape, InboxShape', NEW s \in Tasks, NEW n \in Names, EventPush(s, n)
    PROVE  [Inbox!Next]_(Inbox!vars)
<1> DEFINE e == [src |-> s, name |-> n, seq |-> Number(s)]
<1>1. UNCHANGED <<paramQueue, status, filter, got>> /\ queue' \in {queue, Append(queue, e)}
  BY DEF EventPush, Offer
<1>2. paramQueue \in Seq(Event) /\ queue \in Seq(Event) /\ s \in Sources /\ s # Program
      /\ Number(s) \in Nat /\ Number(s) <= MaxSeq /\ MaxSeq \in Nat
  BY NumberType, SourcesAssumption, BoundsAssumption
     DEF IInv, TypeOK, Tasks, Sources, EventPush
<1>3. e \in EventsUpTo(MaxSeq) /\ e \in Event /\ e.src # Program
  BY <1>2 DEF EventsUpTo, Event
<1> HIDE DEF e
<1>4. FromProgram' = FromProgram
  BY <1>1 DEF FromProgram
<1>5. CASE queue' = queue
  <2>1. Pipe' = Pipe
    BY <1>1, <1>5 DEF Pipe
  <2>2. own' = own /\ outside' = outside
    BY <1>1, <1>4, <1>5, <2>1 DEF InboxShape
  <2> QED
    BY <1>1, <2>2 DEF Inbox!vars
<1>6. CASE queue' = Append(queue, e)
  <2>1. Pipe' = Append(Pipe, e) /\ Pipe \in Seq(Event)
    <3>1. Append(queue, e) = queue \o <<e>> /\ Append(paramQueue \o queue, e) = paramQueue \o queue \o <<e>>
      BY <1>2, <1>3, ConcatProperties, AppendIsConcat
    <3>2. paramQueue \o (queue \o <<e>>) = paramQueue \o queue \o <<e>>
      BY <1>2, <1>3, OneEvent, ConcatAssociative
    <3> QED
      BY <1>1, <1>2, <1>6, <3>1, <3>2, ConcatProperties DEF Pipe
  <2>2. own' = own
    BY <1>1, <1>4 DEF InboxShape
  <2>3. outside' = IF status = "wait" /\ own = <<>>
                     THEN Inbox!Skip(Append(outside, e), filter)
                     ELSE Append(outside, e)
    BY <1>1, <1>2, <1>3, <1>4, <1>6, <2>1, <2>2, SkipAppend DEF InboxShape
  <2>4. Inbox!Arrive(e)
    BY <1>1, <2>2, <2>3 DEF Inbox!Arrive
  <2> QED
    BY <1>3, <2>4 DEF Inbox!Next
<1> QED
  BY <1>1, <1>5, <1>6

\* os.queueEvent adds to the program's own events.
LEMMA QueueMaps ==
    ASSUME IInv, InboxShape, InboxShape', NEW n \in Names, QueueEvent(n)
    PROVE  [Inbox!Next]_(Inbox!vars)
<1> DEFINE e == [src |-> Program, name |-> n, seq |-> Number(Program)]
<1>1. /\ UNCHANGED <<queue, status, filter, got>> /\ status = "run"
      /\ paramQueue' = Append(paramQueue, e)
  BY DEF QueueEvent
<1>2. Number(Program) \in Nat /\ Number(Program) <= MaxSeq /\ MaxSeq \in Nat
  BY NumberType, BoundsAssumption DEF IInv, Sources, QueueEvent
<1>3. e \in EventsUpTo(MaxSeq) /\ e.src = Program
  BY <1>2 DEF EventsUpTo, Sources
<1> HIDE DEF e
<1>4. own' = Append(own, e) /\ outside' = outside
  BY <1>1 DEF InboxShape
<1>5. Inbox!Queue(e)
  BY <1>1, <1>4 DEF Inbox!Queue
<1> QED
  BY <1>3, <1>5 DEF Inbox!Next

\* A pull forgets what its filter does not want.
LEMMA YieldMaps ==
    ASSUME IInv, InboxShape, InboxShape', NEW f \in Filters, Yield(f)
    PROVE  [Inbox!Next]_(Inbox!vars)
<1>1. /\ status = "run" /\ status' = "wait" /\ filter' = f /\ got' = {}
      /\ UNCHANGED <<queue, paramQueue>>
  BY DEF Yield
<1>2. paramQueue \in Seq(Event) /\ queue \in Seq(Event)
  BY DEF IInv, TypeOK
<1>3. own = paramQueue /\ outside = queue
  BY <1>1 DEF InboxShape
<1>4. CASE paramQueue # <<>>
  <2>1. FromProgram'
    <3>1. FromProgram
      BY <1>1, <1>4, FrontOfPipe
    <3> QED
      BY <1>1, <3>1 DEF FromProgram
  <2>2. /\ own' = Inbox!Skip(own, f)
        /\ outside' = IF own' = <<>> THEN Inbox!Skip(outside, f) ELSE outside
    BY <1>1, <1>3, <2>1 DEF InboxShape
  <2>3. Inbox!Pull(f)
    BY <1>1, <2>2 DEF Inbox!Pull
  <2> QED
    BY <2>3 DEF Inbox!Next
<1>5. CASE paramQueue = <<>>
  <2>1. ~ FromProgram'
    BY <1>1, <1>5 DEF FromProgram
  <2>2. Pipe' = queue
    BY <1>1, <1>2, <1>5, ConcatSimplifications DEF Pipe
  <2>3. own' = <<>> /\ outside' = Inbox!Skip(outside, f)
    BY <1>1, <1>3, <2>1, <2>2 DEF InboxShape
  <2>4. Inbox!Skip(own, f) = <<>>
    BY <1>3, <1>5, SkipEmpty
  <2>5. Inbox!Pull(f)
    BY <1>1, <2>3, <2>4 DEF Inbox!Pull
  <2> QED
    BY <2>5 DEF Inbox!Next
<1> QED
  BY <1>4, <1>5

\* The hardware queue's oldest event moves on: the inbox does not see it.
LEMMA ReceiveMaps ==
    ASSUME IInv, InboxShape, InboxShape', Receive
    PROVE  UNCHANGED Inbox!vars
<1>1. /\ status = "wait" /\ paramQueue = <<>> /\ queue # <<>>
      /\ paramQueue' = <<Head(queue)>> /\ queue' = Tail(queue)
      /\ UNCHANGED <<status, filter, got>>
  BY DEF Receive
<1>2. queue \in Seq(Event) /\ Head(queue) \in Event /\ Head(queue).src # Program
  <2>1. queue \in Seq(Event)
    BY DEF IInv, TypeOK
  <2>2. 1 \in DOMAIN queue /\ Head(queue) = queue[1]
    BY <1>1, <2>1, LenProperties, EmptySeq, HeadTailProperties
  <2> QED
    BY <1>1, <2>1, <2>2, HeadTailProperties DEF IInv, QueueFromSenders
<1>3. ~ FromProgram /\ ~ FromProgram'
  <2>1. Head(paramQueue') = Head(queue)
    BY <1>1, <1>2, OneEvent
  <2> QED
    BY <1>1, <1>2, <2>1 DEF FromProgram
<1>4. Pipe' = Pipe
  <2>1. <<Head(queue)>> \o Tail(queue) = queue /\ <<>> \o queue = queue
    BY <1>1, <1>2
  <2> QED
    BY <1>1, <2>1 DEF Pipe
<1>5. own' = own /\ outside' = outside
  BY <1>1, <1>3, <1>4 DEF InboxShape
<1> QED
  BY <1>1, <1>5 DEF Inbox!vars

\* A device event is alone in front of the hardware queue.
LEMMA DeviceFront ==
    ASSUME IInv, paramQueue # <<>>, ~ FromProgram
    PROVE  /\ Tail(paramQueue) = <<>> /\ Pipe # <<>>
           /\ Head(Pipe) = Head(paramQueue) /\ Tail(Pipe) = queue
<1>1. paramQueue \in Seq(Event) /\ queue \in Seq(Event) /\ Head(paramQueue) \in Event
  BY HeadTailProperties DEF IInv, TypeOK
<1>2. paramQueue = <<Head(paramQueue)>>
  BY FrontOfPipe
<1> DEFINE h == Head(paramQueue)
<1>3. Tail(<<h>>) = <<>>
  BY <1>1, OneEvent
<1> HIDE DEF h
<1>4. <<h>> \o queue # <<>> /\ Head(<<h>> \o queue) = h /\ Tail(<<h>> \o queue) = queue
  BY <1>1 DEF h
<1> QED
  BY <1>2, <1>3, <1>4 DEF Pipe, h

\* An event that is not wanted is forgotten already.
LEMMA DiscardMaps ==
    ASSUME IInv, InboxShape, InboxShape', Discard
    PROVE  UNCHANGED Inbox!vars
<1>1. /\ status = "wait" /\ paramQueue # <<>> /\ ~ Wanted(Head(paramQueue), filter)
      /\ paramQueue' = Tail(paramQueue)
      /\ UNCHANGED <<queue, status, filter, got>>
  BY DEF Discard
<1>2. paramQueue \in Seq(Event) /\ queue \in Seq(Event) /\ Pipe \in Seq(Event)
  BY ConcatProperties DEF IInv, TypeOK, Pipe
<1>3. CASE FromProgram
  <2>1. own = Inbox!Skip(paramQueue', filter)
    BY <1>1, <1>2, <1>3, SkipTail DEF InboxShape
  <2>2. CASE paramQueue' # <<>>
    <3>1. FromProgram'
      <4>1. /\ Tail(paramQueue) \in Seq(Event) /\ Len(Tail(paramQueue)) = Len(paramQueue) - 1
            /\ \A i \in 1..Len(Tail(paramQueue)) : Tail(paramQueue)[i] = paramQueue[i + 1]
        BY <1>1, <1>2, HeadTailProperties
      <4>2. /\ 1 \in 1..Len(Tail(paramQueue)) /\ 2 \in DOMAIN paramQueue
            /\ Head(Tail(paramQueue)) = Tail(paramQueue)[1]
        BY <1>1, <1>2, <2>2, <4>1, LenProperties, EmptySeq, HeadTailProperties
      <4>3. Head(paramQueue').src = Program
        BY <1>1, <1>3, <4>1, <4>2, FrontOfPipe
      <4> QED
        BY <2>2, <4>3 DEF FromProgram
    <3>2. own' = own /\ outside' = outside
      BY <1>1, <1>3, <2>1, <3>1 DEF InboxShape
    <3> QED
      BY <1>1, <3>2 DEF Inbox!vars
  <2>3. CASE paramQueue' = <<>>
    <3>1. ~ FromProgram'
      BY <2>3 DEF FromProgram
    <3>2. Pipe' = queue
      <4>1. <<>> \o queue = queue
        BY <1>2, ConcatSimplifications
      <4>2. queue' = queue
        BY <1>1
      <4> QED
        BY <2>3, <4>1, <4>2 DEF Pipe
    <3>3. own = <<>>
      <4>1. Inbox!Skip(paramQueue', filter) = <<>>
        BY <2>3, SkipEmpty
      <4> QED
        BY <2>1, <4>1
    <3>4. own' = own /\ outside' = outside
      BY <1>1, <1>3, <3>1, <3>2, <3>3 DEF InboxShape
    <3> QED
      BY <1>1, <3>4 DEF Inbox!vars
  <2> QED
    BY <2>2, <2>3
<1>4. CASE ~ FromProgram
  <2>1. /\ paramQueue' = <<>> /\ Pipe # <<>>
        /\ Head(Pipe) = Head(paramQueue) /\ Tail(Pipe) = queue
    BY <1>1, <1>4, DeviceFront
  <2>2. ~ FromProgram'
    BY <2>1 DEF FromProgram
  <2>3. Pipe' = queue
    BY <1>1, <1>2, <2>1, ConcatSimplifications DEF Pipe
  <2>4. Inbox!Skip(Pipe, filter) = Inbox!Skip(queue, filter)
    BY <1>1, <1>2, <2>1, SkipTail
  <2>5. own' = own /\ outside' = outside
    BY <1>1, <1>4, <2>2, <2>3, <2>4 DEF InboxShape
  <2> QED
    BY <1>1, <2>5 DEF Inbox!vars
<1> QED
  BY <1>3, <1>4

\* The first wanted event is what the pull returns.
LEMMA DeliverMaps ==
    ASSUME IInv, InboxShape, InboxShape', Deliver
    PROVE  [Inbox!Next]_(Inbox!vars)
<1>1. /\ status = "wait" /\ paramQueue # <<>> /\ Wanted(Head(paramQueue), filter)
      /\ got' = {Head(paramQueue)} /\ paramQueue' = Tail(paramQueue)
      /\ status' = "run" /\ UNCHANGED <<queue, filter>>
  BY DEF Deliver
<1>2. paramQueue \in Seq(Event) /\ queue \in Seq(Event) /\ Pipe \in Seq(Event)
  BY ConcatProperties DEF IInv, TypeOK, Pipe
<1>3. own' = Tail(paramQueue) /\ outside' = queue
  BY <1>1 DEF InboxShape
<1>4. CASE FromProgram
  <2>1. own = paramQueue /\ outside = queue
    BY <1>1, <1>2, <1>4, SkipHead DEF InboxShape
  <2>2. Inbox!ReturnOwn
    BY <1>1, <1>3, <2>1 DEF Inbox!ReturnOwn
  <2>3. Inbox!Return
    BY <1>1, <2>2 DEF Inbox!Return
  <2> QED
    BY <2>3 DEF Inbox!Next
<1>5. CASE ~ FromProgram
  <2>1. /\ Tail(paramQueue) = <<>> /\ Pipe # <<>>
        /\ Head(Pipe) = Head(paramQueue) /\ Tail(Pipe) = queue
    BY <1>1, <1>5, DeviceFront
  <2>2. own = <<>> /\ outside = Pipe
    BY <1>1, <1>2, <1>5, <2>1, SkipHead DEF InboxShape
  <2>3. Inbox!ReturnOutside
    BY <1>1, <1>3, <2>1, <2>2 DEF Inbox!ReturnOutside
  <2>4. Inbox!Return
    BY <1>1, <2>3 DEF Inbox!Return
  <2> QED
    BY <2>4 DEF Inbox!Next
<1> QED
  BY <1>4, <1>5

\* Each step of the firmware is a step of the inbox, or none.
LEMMA StepMaps ==
    ASSUME IInv, IInv', InboxShape, InboxShape', [Next]_vars
    PROVE  [Inbox!Next]_(Inbox!vars)
<1>1. CASE Halt
  <2>1. Inbox!End
    BY <1>1 DEF Halt, InboxShape, Inbox!End
  <2> QED
    BY <2>1 DEF Inbox!Next
<1>2. CASE UNCHANGED vars
  <2>1. FromProgram' = FromProgram /\ Pipe' = Pipe
    BY <1>2 DEF vars, FromProgram, Pipe
  <2>2. own' = own /\ outside' = outside
    BY <1>2, <2>1 DEF vars, InboxShape
  <2> QED
    BY <1>2, <2>2 DEF vars, Inbox!vars
<1>3. ASSUME NEW s \in Tasks, NEW n \in Names, EventPush(s, n) PROVE [Inbox!Next]_(Inbox!vars)
  BY <1>3, PushMaps
<1>4. ASSUME NEW n \in Names, QueueEvent(n) PROVE [Inbox!Next]_(Inbox!vars)
  BY <1>4, QueueMaps
<1>5. ASSUME NEW f \in Filters, Yield(f) PROVE [Inbox!Next]_(Inbox!vars)
  BY <1>5, YieldMaps
<1> QED
  BY <1>1, <1>2, <1>3, <1>4, <1>5, ReceiveMaps, DiscardMaps, DeliverMaps DEF Next

\* The firmware's two queues are one inbox, its own events first: every pull
\* returns the first event it wants, nothing is forgotten that a pull wants,
\* and no device event overtakes the program's (getNextEvent, os_queueEvent,
\* event_push).
THEOREM ImplementsInbox == Spec => Inbox!Init /\ [][Inbox!Next]_(Inbox!vars)
<1>1. Init => Inbox!Init
  BY DEF Init, Inbox!Init, own, outside
<1>2. IInv /\ IInv' /\ [Next]_vars => [Inbox!Next]_(Inbox!vars)
  <2>1. IInv' => InboxShape'
    BY InboxIs, PTL
  <2> QED
    BY <2>1, InboxIs, StepMaps
<1> QED
  BY <1>1, <1>2, Inductive, PTL DEF Spec

-----------------------------------------------------------------------------
(* The handle of the queue (EventQueue) *)

Places == {"idle", "create", "store", "use", "blocked"}

\* A task about to store has a queue to store, only the main task blocks, and
\* a task past its test runs with a handle that names a queue.
HandleInv ==
    /\ made \in Nat /\ handle \in Nat /\ waitsOn \in Nat
    /\ mine \in [Tasks -> Nat] /\ pc \in [Tasks -> Places]
    /\ \A t \in Tasks : pc[t] = "store" => mine[t] # NULL
    /\ \A t \in Tasks : pc[t] = "blocked" => t = Main
    /\ UseNeverNull

\* The invariant holds before the first call of event.cpp.
LEMMA HandleInitial == QueueInit => HandleInv
BY DEF QueueInit, HandleInv, UseNeverNull, Tasks, Places, NULL

\* machine_main is one of the tasks.
LEMMA MainIsATask == Main \in Tasks
BY DEF Tasks

\* Every memory access of event.cpp keeps the invariant.
LEMMA HandleInductive == HandleInv /\ [QueueNext]_queueVars => HandleInv'
<1> SUFFICES ASSUME HandleInv, [QueueNext]_queueVars PROVE HandleInv'
  OBVIOUS
<1> USE DEF HandleInv, UseNeverNull, Places, NULL
<1>1. ASSUME NEW t \in Tasks, NEW o \in {"push", "wait"}, Call(t, o)
      PROVE  HandleInv'
  BY <1>1 DEF Call
<1>2. ASSUME NEW t \in Tasks, Create(t)
      PROVE  HandleInv'
  BY <1>2 DEF Create
<1>3. ASSUME NEW t \in Tasks, Store(t)
      PROVE  HandleInv'
  BY <1>3 DEF Store
<1>4. ASSUME NEW t \in Tasks, Send(t)
      PROVE  HandleInv'
  BY <1>4 DEF Send
<1>5. CASE Block
  BY <1>5, MainIsATask DEF Block
<1>6. CASE Wake
  BY <1>6, MainIsATask DEF Wake
<1>7. CASE UNCHANGED queueVars
  BY <1>7 DEF queueVars
<1>8. QED
  BY <1>1, <1>2, <1>3, <1>4, <1>5, <1>6, <1>7 DEF QueueNext

\* No task ever uses a NULL handle, on however many cores the first calls
\* race (event_push, event_push_isr, event_wait).
THEOREM NeverNull == QueueSpec => []UseNeverNull
<1>1. HandleInv => UseNeverNull
  BY DEF HandleInv
<1>2. QED
  BY <1>1, HandleInitial, HandleInductive, PTL DEF QueueSpec

\* A settled handle stays settled: with a handle stored and no task behind a
\* test that saw NULL, no step brings either back.
THEOREM Settles == QueueSpec => HandleSettles
<1> DEFINE Settled == handle # NULL
                      /\ \A t \in Tasks : pc[t] \notin {"create", "store"}
<1>1. HandleInv /\ [QueueNext]_queueVars /\ Settled => Settled'
  <2> SUFFICES ASSUME HandleInv, [QueueNext]_queueVars, Settled PROVE Settled'
    OBVIOUS
  <2> USE DEF HandleInv, Places
  <2>1. ASSUME NEW t \in Tasks, NEW o \in {"push", "wait"}, Call(t, o)
        PROVE  Settled'
    BY <2>1 DEF Call
  <2>2. ASSUME NEW t \in Tasks, Create(t) \/ Store(t) \/ Send(t)
        PROVE  Settled'
    BY <2>2 DEF Create, Store, Send
  <2>3. CASE Block \/ Wake
    BY <2>3, MainIsATask DEF Block, Wake
  <2>4. CASE UNCHANGED queueVars
    BY <2>4 DEF queueVars
  <2>5. QED
    BY <2>1, <2>2, <2>3, <2>4 DEF QueueNext
<1>2. HandleInv /\ [QueueNext]_queueVars => [Settled => Settled']_queueVars
  BY <1>1
<1>3. QED
  BY <1>2, HandleInitial, HandleInductive, PTL DEF QueueSpec, HandleSettles
-----------------------------------------------------------------------------
\* The tasks that saw NULL and have yet to create a queue.
Creating == {t \in Tasks : pc[t] = "create"}

\* A queue not yet made still has its task on a core; while the handle is
\* NULL every queue that was made does, too.
CountInv ==
    /\ Cardinality(Inside) <= Cores
    /\ made + Cardinality(Creating) <= Cores
    /\ handle = NULL => made + Cardinality(Creating) <= Cardinality(Inside)

\* The tasks on a core and those among them that will create a queue are
\* finitely many.
LEMMA InsideFinite ==
    /\ IsFiniteSet(Inside) /\ Cardinality(Inside) \in Nat
    /\ IsFiniteSet(Creating) /\ Cardinality(Creating) \in Nat
<1>1. IsFiniteSet(Tasks)
  BY DriversAssumption, FS_AddElement DEF Tasks
<1>2. Inside \in SUBSET Tasks /\ Creating \in SUBSET Tasks
  BY DEF Inside, Creating
<1>3. QED
  BY <1>1, <1>2, FS_Subset, FS_CardinalityType

\* A call takes a core, and makes a queue only when it saw NULL.
LEMMA CallCounts ==
    ASSUME HandleInv, CountInv, NEW t \in Tasks, NEW o \in {"push", "wait"}, Call(t, o)
    PROVE  CountInv'
<1> USE DEF HandleInv, NULL
<1>1. Inside' = Inside \cup {t} /\ t \notin Inside /\ t \notin Creating
  BY DEF Call, Inside, Creating
<1>2. Cardinality(Inside') = Cardinality(Inside) + 1
      /\ Cardinality(Inside) < Cores /\ made' = made /\ handle' = handle
  BY <1>1, InsideFinite, FS_AddElement DEF Call
<1>3. CASE handle = NULL
  <2>1. Creating' = Creating \cup {t}
    BY <1>3 DEF Call, Creating
  <2>2. Cardinality(Creating') = Cardinality(Creating) + 1
    BY <1>1, <2>1, InsideFinite, FS_AddElement
  <2>3. QED
    BY <1>2, <1>3, <2>2, InsideFinite, CoresAssumption DEF CountInv
<1>4. CASE handle # NULL
  <2>1. Creating' = Creating
    BY <1>4 DEF Call, Creating
  <2>2. QED
    BY <1>2, <1>4, <2>1, InsideFinite, CoresAssumption DEF CountInv
<1>5. QED
  BY <1>3, <1>4

\* A task leaves its core only with the handle set.
LEMMA LeaveCounts ==
    ASSUME HandleInv, CountInv, NEW t \in Tasks, Send(t) \/ (t = Main /\ Block)
    PROVE  CountInv'
<1>1. pc[t] = "use" /\ handle # NULL /\ handle' = handle /\ made' = made
  BY MainIsATask DEF Send, Block, HandleInv, UseNeverNull
<1>2. Inside' = Inside \ {t} /\ t \in Inside /\ Creating' = Creating
  BY <1>1 DEF Send, Block, Inside, Creating, HandleInv
<1>3. Cardinality(Inside') = Cardinality(Inside) - 1
  BY <1>2, InsideFinite, FS_RemoveElement
<1>4. QED
  BY <1>1, <1>2, <1>3, InsideFinite, CoresAssumption DEF CountInv

\* The count of queues never exceeds the cores the first calls ran on.
LEMMA CountInductive == HandleInv /\ CountInv /\ [QueueNext]_queueVars => CountInv'
<1> SUFFICES ASSUME HandleInv, CountInv, [QueueNext]_queueVars PROVE CountInv'
  OBVIOUS
<1>1. ASSUME NEW t \in Tasks, NEW o \in {"push", "wait"}, Call(t, o)
      PROVE  CountInv'
  BY <1>1, CallCounts
<1>2. ASSUME NEW t \in Tasks, Create(t)
      PROVE  CountInv'
  <2>1. Creating' = Creating \ {t} /\ t \in Creating /\ Inside' = Inside
        /\ made' = made + 1 /\ handle' = handle
    BY <1>2 DEF Create, Creating, Inside, HandleInv
  <2>2. Cardinality(Creating') = Cardinality(Creating) - 1
    BY <2>1, InsideFinite, FS_RemoveElement
  <2>3. QED
    BY <2>1, <2>2, InsideFinite, CoresAssumption DEF CountInv, HandleInv
<1>3. ASSUME NEW t \in Tasks, Store(t)
      PROVE  CountInv'
  <2>1. Creating' = Creating /\ Inside' = Inside /\ made' = made /\ handle' # NULL
    BY <1>3 DEF Store, Creating, Inside, HandleInv
  <2>2. QED
    BY <2>1 DEF CountInv
<1>4. ASSUME NEW t \in Tasks, Send(t)
      PROVE  CountInv'
  BY <1>4, LeaveCounts
<1>5. CASE Block
  BY <1>5, MainIsATask, LeaveCounts
<1>6. CASE Wake
  <2>1. Creating' = Creating /\ Inside' = Inside /\ made' = made /\ handle' = handle
    BY <1>6, MainIsATask DEF Wake, Creating, Inside, HandleInv
  <2>2. QED
    BY <2>1 DEF CountInv
<1>7. CASE UNCHANGED queueVars
  <2>1. Creating' = Creating /\ Inside' = Inside /\ made' = made /\ handle' = handle
    BY <1>7 DEF queueVars, Creating, Inside
  <2>2. QED
    BY <2>1 DEF CountInv
<1>8. QED
  BY <1>1, <1>2, <1>3, <1>4, <1>5, <1>6, <1>7 DEF QueueNext

\* The race makes at most one queue per core, however many tasks push and
\* wait: one, and no orphan, if calls never overlap; two on two cores.
THEOREM AtMostOnePerCore == QueueSpec => []QueuesBounded
<1>1. QueueInit => CountInv
  <2> SUFFICES ASSUME QueueInit PROVE CountInv
    OBVIOUS
  <2>1. Inside = {} /\ Creating = {} /\ made = 0
    BY DEF QueueInit, Inside, Creating
  <2>2. QED
    BY <2>1, FS_EmptySet, CoresAssumption DEF CountInv
<1>2. HandleInv /\ CountInv => QueuesBounded
  BY InsideFinite, CoresAssumption DEF HandleInv, CountInv, QueuesBounded
<1>3. QED
  BY <1>1, <1>2, HandleInitial, HandleInductive, CountInductive, PTL DEF QueueSpec
=============================================================================
