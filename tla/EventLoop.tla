----------------------------- MODULE EventLoop -----------------------------
(***************************************************************************)
(* How events reach the Lua program: event.cpp (a FreeRTOS queue every     *)
(* driver task sends to), machine.cpp (the main task's resume loop and     *)
(* getNextEvent) and os.queueEvent of apis/os.cpp.                         *)
(*                                                                         *)
(* The main task is in one of three places.  "run": inside lua_resume, the *)
(* program runs and may call os.queueEvent or os.startTimer(0).  "wait":   *)
(* the program yielded and the task is in getNextEvent, one loop iteration *)
(* or one blocking receive at a time.  "dead": the coroutine ended or      *)
(* failed and the task sleeps for ever, the drivers still sending.         *)
(***************************************************************************)
EXTENDS EventTasks, Sequences

CONSTANTS
    Program,      \* the Lua program as a source (os.queueEvent)
    Names,        \* event names
    Terminate,    \* "terminate"
    NoFilter,     \* a pull without a filter
    MaxParam,     \* bound of this model: events the program keeps queued
    Numbered,     \* whether events carry a number (a ghost, to state order)
    MaxSeq        \* bound of this model: numbers per source

ASSUME SourcesAssumption == Program \notin Tasks
ASSUME NamesAssumption == Terminate \in Names /\ NoFilter \notin Names
ASSUME BoundsAssumption ==
    MaxParam \in Nat /\ MaxSeq \in Nat /\ Numbered \in BOOLEAN

Sources == Tasks \cup {Program}
Filters == Names \cup {NoFilter}
Event == [src : Sources, name : Names, seq : Nat]

VARIABLES
    queue,        \* the FreeRTOS queue of event.cpp, oldest first
    paramQueue,   \* the Lua thread whose stack holds events, index 1 first
    status,       \* where the main task is
    filter,       \* the filter of the pull it serves
    got,          \* {the event the program was resumed with}, {} in a pull
    sent,         \* ghost: number of the last event of each source
    taken         \* ghost: number of each source's last event to leave

vars == <<queue, paramQueue, status, filter, got, sent, taken>>

\* Mutant of Wanted: a terminate has to be asked for by name.
WantedByName(e, f) == f = NoFilter \/ e.name = f

\* The loop condition of getNextEvent: no filter, the filter's name, or a
\* terminate, which passes every filter.
Wanted(e, f) == f = NoFilter \/ e.name \in {f, Terminate}

Number(s) == IF Numbered THEN sent[s] + 1 ELSE 0

\* Mutant of Offer: the queue grows without limit.
OfferAlways(q, e) == Append(q, e)

\* xQueueSend with no time to wait: a full queue refuses the event and the
\* callers ignore the answer.
Offer(q, e) == IF Len(q) < QueueLength THEN Append(q, e) ELSE q

Init ==
    /\ queue = <<>> /\ paramQueue = <<>>
    /\ status = "run" /\ filter = NoFilter /\ got = {}
    /\ sent = [s \in Sources |-> 0] /\ taken = [s \in Sources |-> 0]

\* event_push and event_push_isr.  The drivers call them at any time, also
\* after the program died; the main task only while the program runs.
EventPush(s, n) ==
    /\ s = Main => status = "run"
    /\ Number(s) <= MaxSeq
    /\ queue' = Offer(queue, [src |-> s, name |-> n, seq |-> Number(s)])
    /\ sent' = [sent EXCEPT ![s] = Number(s)]
    /\ UNCHANGED <<paramQueue, status, filter, got, taken>>

\* os.queueEvent: a new thread on top of paramQueue's stack.
QueueEvent(n) ==
    /\ status = "run"
    /\ Len(paramQueue) < MaxParam /\ Number(Program) <= MaxSeq
    /\ paramQueue' = Append(paramQueue,
          [src |-> Program, name |-> n, seq |-> Number(Program)])
    /\ sent' = [sent EXCEPT ![Program] = Number(Program)]
    /\ UNCHANGED <<queue, status, filter, got, taken>>

\* lua_resume returned LUA_YIELD: getNextEvent starts with the value on top
\* of the coroutine's stack as the filter, when it is a string.
Yield(f) ==
    /\ status = "run"
    /\ status' = "wait" /\ filter' = f /\ got' = {}
    /\ UNCHANGED <<queue, paramQueue, sent, taken>>

\* Mutant of Receive: paramQueue is refilled while it holds events.
ReceiveAhead ==
    /\ status = "wait" /\ queue # <<>>
    /\ paramQueue' = Append(paramQueue, Head(queue)) /\ queue' = Tail(queue)
    /\ UNCHANGED <<status, filter, got, sent, taken>>

\* getNextEvent's inner loop: only an empty paramQueue is refilled, with one
\* event of the hardware queue; event_wait blocks while that is empty.
Receive ==
    /\ status = "wait" /\ paramQueue = <<>> /\ queue # <<>>
    /\ paramQueue' = <<Head(queue)>> /\ queue' = Tail(queue)
    /\ UNCHANGED <<status, filter, got, sent, taken>>

Leave(e) == taken' = [taken EXCEPT ![e.src] = e.seq]

\* The outer loop goes round: the oldest event is not wanted, lua_remove.
Discard ==
    /\ status = "wait" /\ paramQueue # <<>>
    /\ ~Wanted(Head(paramQueue), filter)
    /\ paramQueue' = Tail(paramQueue)
    /\ Leave(Head(paramQueue))
    /\ UNCHANGED <<queue, status, filter, got, sent>>

\* Mutant of Deliver: the last lua_remove of getNextEvent is forgotten.
DeliverKept ==
    /\ status = "wait" /\ paramQueue # <<>>
    /\ Wanted(Head(paramQueue), filter)
    /\ got' = {Head(paramQueue)}
    /\ Leave(Head(paramQueue))
    /\ status' = "run"
    /\ UNCHANGED <<queue, paramQueue, filter, sent>>

\* The oldest event is wanted: its values move to the coroutine, it leaves
\* paramQueue and the program is resumed with it.
Deliver ==
    /\ status = "wait" /\ paramQueue # <<>>
    /\ Wanted(Head(paramQueue), filter)
    /\ got' = {Head(paramQueue)}
    /\ paramQueue' = Tail(paramQueue)
    /\ Leave(Head(paramQueue))
    /\ status' = "run"
    /\ UNCHANGED <<queue, filter, sent>>

\* The main coroutine returned or raised an error: the task shows a message
\* and sleeps in a loop.
Halt ==
    /\ status = "run" /\ status' = "dead"
    /\ UNCHANGED <<queue, paramQueue, filter, got, sent, taken>>

GetNextEvent == Receive \/ Discard \/ Deliver

Next ==
    \/ \E s \in Tasks, n \in Names : EventPush(s, n)
    \/ \E n \in Names : QueueEvent(n)
    \/ \E f \in Filters : Yield(f)
    \/ Receive \/ Discard \/ Deliver
    \/ Halt

\* The only fairness: the main task goes on inside getNextEvent while it
\* can.  Nothing makes a driver send or a program yield.
Spec == Init /\ [][Next]_vars /\ WF_vars(GetNextEvent)

-----------------------------------------------------------------------------
(* Properties *)

TypeOK ==
    /\ queue \in Seq(Event) /\ Len(queue) <= QueueLength
    /\ paramQueue \in Seq(Event)
    /\ status \in {"run", "wait", "dead"}
    /\ filter \in Filters
    /\ got \in SUBSET Event
    /\ sent \in [Sources -> Nat] /\ taken \in [Sources -> Nat]

\* Everything on its way to the program, in the order it will be looked at.
Pipe == paramQueue \o queue

\* In the sequence p every source's numbers increase, from beyond low on and
\* up to high.
Ordered(p, low, high) ==
    /\ \A i, j \in DOMAIN p :
         i < j /\ p[i].src = p[j].src => p[i].seq < p[j].seq
    /\ \A i \in DOMAIN p : low[p[i].src] < p[i].seq /\ p[i].seq <= high[p[i].src]

\* The events of one source stay in the order it made them, through the
\* hardware queue, paramQueue, filters and drops: those on the way carry
\* increasing numbers, all later than what already left and none invented
\* (event_push, getNextEvent, os_queueEvent).
InOrder == Numbered => Ordered(Pipe, taken, sent)

\* A device event is in paramQueue only alone and only inside getNextEvent,
\* which is why os.queueEvent can never put an event behind a device event
\* that is not yet decided on, and why the program's own events all come
\* before every device event it has not seen (getNextEvent's inner loop).
DeviceEventAlone ==
    \A i \in DOMAIN paramQueue :
        paramQueue[i].src # Program =>
            Len(paramQueue) = 1 /\ status = "wait"

\* A terminate that is on its way reaches a program that comes back, again
\* and again, to a pull with none of its own events left (getNextEvent's
\* strcmp with "terminate"); it cannot be filtered away.
TerminatePending == \E i \in DOMAIN Pipe : Pipe[i].name = Terminate
TerminateSeen == \E e \in got : e.name = Terminate
TerminateReachesIdleProgram ==
    []<>(status = "wait" /\ paramQueue = <<>>) =>
        [](TerminatePending => <>TerminateSeen)


=============================================================================
