------------------------------- MODULE Timers -------------------------------
(***************************************************************************)
(* os.startTimer and os.cancelTimer of apis/os.cpp, the expiry callback    *)
(* they give the FreeRTOS timer service, and the linked list of timers the *)
(* main task and the callback share without a lock.                        *)
(*                                                                         *)
(* The timer service (external) is a task of its own, the daemon: it       *)
(* blocks until a timer expires or a command arrives, then drains its      *)
(* command queue, then runs the callback of a timer that expired, and so   *)
(* on.  xTimerStart, xTimerStop and xTimerDelete only put a command in its *)
(* queue, and with portMAX_DELAY wait for room, from the main task and     *)
(* from the callback alike.                                                *)
(*                                                                         *)
(* The kernel is configured without preemption: a task keeps its core      *)
(* until it blocks.  Overlap says whether the two tasks may hold the two   *)
(* cores at one time; they have different priorities.                      *)
(***************************************************************************)
EXTENDS Naturals, Sequences

CONSTANTS
    MaxTimers,    \* bound of this model: timers a program starts
    CommandLen,   \* configTIMER_QUEUE_LENGTH (10)
    EventLen,     \* room for timer events in the event queue
    Overlap       \* may both tasks run at one time?

ASSUME BoundsAssumption ==
    /\ MaxTimers \in Nat /\ CommandLen \in Nat \ {0} /\ EventLen \in Nat \ {0}
    /\ Overlap \in BOOLEAN

NULL == 0
Ids == 1..MaxTimers             \* a timer, its list node and its object
Pointers == Ids \cup {NULL}
Commands == {"start", "stop", "delete"} \X Ids

VARIABLES
    nextID,       \* timers made so far: nextTimerID
    head, tail,   \* timer_ll_head, timer_ll_tail
    next,         \* the next field of each node
    nodes,        \* list nodes that are allocated
    objects,      \* FreeRTOS timer objects that are allocated
    active,       \* timers the service counts down
    due,          \* timers whose time is over (ticks since xTimerStart)
    commands,     \* the timer service's command queue
    events,       \* timer events in the event queue
    pc,           \* where each task is
    cur,          \* the timer each task is busy with
    last,         \* `last` of the main task's walk in os_cancelTimer
    onCore,       \* the tasks that hold a core
    fault,        \* memory was used after it was freed
    stalled,      \* ghost: the main task had to wait inside os_cancelTimer
    cancelled,    \* ghost: timers whose cancel found a node and returned
    fired         \* ghost: how often each timer's event was pushed

vars == <<nextID, head, tail, next, nodes, objects, active, due, commands,
          events, pc, cur, last, onCore, fault, stalled, cancelled, fired>>

list    == <<head, tail, next, nodes>>
service == <<objects, active, due>>
ghosts  == <<stalled, cancelled, fired>>

Init ==
    /\ nextID = 0
    /\ head = NULL /\ tail = NULL
    /\ next = [i \in Ids |-> NULL] /\ nodes = {}
    /\ objects = {} /\ active = {} /\ due = {}
    /\ commands = <<>> /\ events = <<>>
    /\ pc = [main |-> "run", daemon |-> "wait"]
    /\ cur = [main |-> NULL, daemon |-> NULL] /\ last = NULL
    /\ onCore = {"main"}
    /\ fault = FALSE
    /\ stalled = FALSE /\ cancelled = {} /\ fired = [i \in Ids |-> 0]

-----------------------------------------------------------------------------
(* The list, as both tasks walk and change it. *)

\* The k-th node from the head on, NULL past the end.
Nth == [k \in 0..MaxTimers |->
          LET walk[j \in 0..MaxTimers] ==
                IF j = 0 THEN head
                ELSE IF walk[j-1] = NULL THEN NULL ELSE next[walk[j-1]]
          IN  walk[k]]

Reachable == {Nth[k] : k \in 0..MaxTimers} \ {NULL}

\* The node before i on the walk that finds i.
Before(i) ==
    IF Nth[0] = i THEN NULL
    ELSE Nth[CHOOSE k \in 0..MaxTimers - 1 :
               Nth[k + 1] = i /\ \A j \in 0..k : Nth[j] # i]

\* Mutant of Link: the tail is moved, and the old tail is not linked to it.
LinkTailOnly(i) ==
    /\ nodes' = nodes \cup {i}
    /\ next' = [next EXCEPT ![i] = NULL]
    /\ head' = IF tail # NULL THEN head ELSE i
    /\ tail' = i

\* timer_ll_tail is never moved to a node that is appended behind another.
Link(i) ==
    /\ nodes' = nodes \cup {i}
    /\ IF tail # NULL
         THEN /\ next' = [next EXCEPT ![i] = NULL, ![tail] = i]
              /\ UNCHANGED <<head, tail>>
         ELSE /\ next' = [next EXCEPT ![i] = NULL]
              /\ head' = i /\ tail' = i

\* Mutant of Unlink: timer_ll_tail keeps the node that is freed.
UnlinkTailKept(i, p) ==
    /\ next' = IF p # NULL THEN [next EXCEPT ![p] = next[i]] ELSE next
    /\ head' = IF head = i THEN next[i] ELSE head
    /\ nodes' = nodes \ {i}
    /\ UNCHANGED tail

\* Take node i, found behind node p, out of the list and free it.
Unlink(i, p) ==
    /\ next' = IF p # NULL THEN [next EXCEPT ![p] = next[i]] ELSE next
    /\ head' = IF head = i THEN next[i] ELSE head
    /\ tail' = IF tail = i THEN p ELSE tail
    /\ nodes' = nodes \ {i}

-----------------------------------------------------------------------------
(* The main task: the program's calls *)

On(t) == t \in onCore /\ ~fault
Goto(t, l) == pc' = [pc EXCEPT ![t] = l]
Busy(t, i) == cur' = [cur EXCEPT ![t] = i]

\* Mutant of Room: the command queue takes one command too many.
RoomForOneMore == Len(commands) <= CommandLen

\* xQueueSendToBack of a command with portMAX_DELAY: with no room the task
\* leaves its core and tries again when it is back.
Room == Len(commands) < CommandLen
Send(c) == Room /\ commands' = Append(commands, c)
WaitForRoom(t) == ~Room /\ onCore' = onCore \ {t} /\ UNCHANGED commands

\* event_push of a timer event, which a full queue drops.
PushTimer(i) ==
    /\ events' = IF Len(events) < EventLen THEN Append(events, i) ELSE events
    /\ fired' = [fired EXCEPT ![i] = @ + 1]

\* os_startTimer with a positive time: a fresh id and a timer object.
StartTimer ==
    /\ On("main") /\ pc.main = "run" /\ nextID < MaxTimers
    /\ nextID' = nextID + 1
    /\ objects' = objects \cup {nextID + 1}
    /\ Busy("main", nextID + 1) /\ Goto("main", "start")
    /\ UNCHANGED <<list, active, due, commands, events, last, onCore, fault, ghosts>>

\* os_startTimer with no time to wait (0 ticks): the event is pushed at once.
StartNow ==
    /\ On("main") /\ pc.main = "run" /\ nextID < MaxTimers
    /\ nextID' = nextID + 1
    /\ PushTimer(nextID + 1)
    /\ UNCHANGED <<list, service, commands, pc, cur, last, onCore, fault,
                   stalled, cancelled>>

\* Mutant of StartSend: xTimerStart is left out.
StartUnsent ==
    /\ On("main") /\ pc.main = "start"
    /\ Goto("main", "link")
    /\ UNCHANGED <<nextID, list, service, commands, events, cur, last, onCore,
                   fault, ghosts>>

StartSend ==
    /\ On("main") /\ pc.main = "start"
    /\ \/ Send(<<"start", cur.main>>) /\ Goto("main", "link") /\ UNCHANGED onCore
       \/ WaitForRoom("main") /\ UNCHANGED pc
    /\ UNCHANGED <<nextID, list, service, events, cur, last, fault, ghosts>>

StartLink ==
    /\ On("main") /\ pc.main = "link"
    /\ Link(cur.main) /\ Goto("main", "run")
    /\ fault' = (tail # NULL /\ tail \notin nodes)
    /\ UNCHANGED <<nextID, service, commands, events, cur, last, onCore, ghosts>>

\* os_cancelTimer (and os_cancelAlarm) of a token a call returned earlier:
\* a token that is not in the list is ignored.
CancelTimer(i) ==
    /\ On("main") /\ pc.main = "run" /\ i <= nextID
    /\ i \in Reachable
    /\ Busy("main", i) /\ last' = Before(i) /\ Goto("main", "stop")
    /\ UNCHANGED <<nextID, list, service, commands, events, onCore, fault, ghosts>>

\* xTimerStop and xTimerDelete each read tm->timer before they send.
CancelSend(here, command, there) ==
    /\ On("main") /\ pc.main = here
    /\ \/ /\ Send(<<command, cur.main>>) /\ Goto("main", there)
          /\ UNCHANGED <<onCore, stalled>>
          /\ fault' = (there = "delete" /\ cur.main \notin nodes)
       \/ /\ WaitForRoom("main") /\ stalled' = TRUE
          /\ UNCHANGED <<pc, fault>>
    /\ UNCHANGED <<nextID, list, service, events, cur, last, cancelled, fired>>

CancelStop == CancelSend("stop", "stop", "delete")
CancelDelete == CancelSend("delete", "delete", "unlink")

\* The node and its neighbour were found before the two sends.
CancelUnlink ==
    /\ On("main") /\ pc.main = "unlink"
    /\ Unlink(cur.main, last) /\ Goto("main", "run")
    /\ cancelled' = cancelled \cup {cur.main}
    /\ fault' = (cur.main \notin nodes \/ (last # NULL /\ last \notin nodes))
    /\ UNCHANGED <<nextID, service, commands, events, cur, last, onCore, stalled, fired>>

\* The program pulls an event: the main task blocks in event_wait.
Pull ==
    /\ On("main") /\ pc.main = "run"
    /\ Goto("main", "pull") /\ onCore' = onCore \ {"main"}
    /\ UNCHANGED <<nextID, list, service, commands, events, cur, last, fault, ghosts>>

Pulled ==
    /\ On("main") /\ pc.main = "pull" /\ events # <<>>
    /\ events' = Tail(events) /\ Goto("main", "run")
    /\ UNCHANGED <<nextID, list, service, commands, cur, last, onCore, fault, ghosts>>

-----------------------------------------------------------------------------
(* The timer service (external) and the callback `timer` *)

\* The end of prvProcessTimerOrBlockTask when nothing has expired: block.
DaemonWait ==
    /\ On("daemon") /\ pc.daemon = "check" /\ active \cap due = {}
    /\ Goto("daemon", "wait") /\ onCore' = onCore \ {"daemon"}
    /\ UNCHANGED <<nextID, list, service, commands, events, cur, last, fault, ghosts>>

\* Mutant of DaemonWoken: the callback of a timer that is over runs before
\* the commands are drained.
DaemonWokenEager ==
    /\ On("daemon") /\ pc.daemon = "wait"
    /\ Goto("daemon", IF active \cap due # {} THEN "check" ELSE "drain")
    /\ UNCHANGED <<nextID, list, service, commands, events, cur, last, onCore, fault, ghosts>>

\* Back from blocking, it looks at its commands first.
DaemonWoken ==
    /\ On("daemon") /\ pc.daemon = "wait" /\ Goto("daemon", "drain")
    /\ UNCHANGED <<nextID, list, service, commands, events, cur, last, onCore, fault, ghosts>>

\* Mutant of Callback: an auto-reload timer (pdTRUE in xTimerCreate).
CallbackReload(i) ==
    /\ active' = active \cup {i}
    /\ PushTimer(i)
    /\ Busy("daemon", i) /\ Goto("daemon", "find")

\* The callback up to the event: the timer has left the active list, its
\* event goes to the event queue or, with that full, nowhere.
Callback(i) ==
    /\ active' = active \ {i}
    /\ PushTimer(i)
    /\ Busy("daemon", i) /\ Goto("daemon", "find")

DaemonExpire(i) ==
    /\ On("daemon") /\ pc.daemon = "check" /\ i \in active \cap due
    /\ Callback(i)
    /\ UNCHANGED <<nextID, list, objects, due, commands, last, onCore, fault,
                   stalled, cancelled>>

\* prvProcessReceivedCommands until the queue is empty.
DaemonDrained ==
    /\ On("daemon") /\ pc.daemon = "drain" /\ commands = <<>>
    /\ Goto("daemon", "check")
    /\ UNCHANGED <<nextID, list, service, commands, events, cur, last, onCore, fault, ghosts>>

DaemonCommand ==
    /\ On("daemon") /\ pc.daemon = "drain" /\ commands # <<>>
    /\ LET op == Head(commands)[1]
           i  == Head(commands)[2]
       IN  /\ commands' = Tail(commands)
           /\ fault' = (i \notin objects)
           /\ objects' = IF op = "delete" THEN objects \ {i} ELSE objects
           /\ IF op = "start" /\ i \in due
                THEN Callback(i)
                ELSE /\ active' = IF op = "start" THEN active \cup {i} ELSE active \ {i}
                     /\ UNCHANGED <<events, fired, cur, pc>>
    /\ UNCHANGED <<nextID, list, due, last, onCore, stalled, cancelled>>

\* The callback's walk: the node of its timer is unlinked and freed; a
\* timer that is not in the list is left alone.
CallbackUnlink ==
    /\ On("daemon") /\ pc.daemon = "find"
    /\ IF cur.daemon \in Reachable
         THEN Unlink(cur.daemon, Before(cur.daemon)) /\ Goto("daemon", "delete")
         ELSE UNCHANGED list /\ Goto("daemon", "drain")
    /\ UNCHANGED <<nextID, service, commands, events, cur, last, onCore, fault, ghosts>>

\* xTimerDelete from inside the daemon, which alone could make room.
CallbackDelete ==
    /\ On("daemon") /\ pc.daemon = "delete"
    /\ \/ Send(<<"delete", cur.daemon>>) /\ Goto("daemon", "drain") /\ UNCHANGED onCore
       \/ WaitForRoom("daemon") /\ UNCHANGED pc
    /\ UNCHANGED <<nextID, list, service, events, cur, last, fault, ghosts>>

-----------------------------------------------------------------------------
(* The kernel and the clock (external) *)

\* A task has something to do: it is not waiting for what is not there.
Ready(t) ==
    CASE pc[t] = "pull" -> events # <<>>
      [] pc[t] = "wait" -> commands # <<>> \/ active \cap due # {}
      [] OTHER -> Room

Schedule(t) ==
    /\ t \notin onCore /\ Ready(t) /\ ~fault
    /\ Overlap \/ onCore = {}
    /\ onCore' = onCore \cup {t}
    /\ UNCHANGED <<nextID, list, service, commands, events, pc, cur, last, fault, ghosts>>

\* Time passes: a timer whose start was sent runs out.
Sent(i) == i \in active \/ \E k \in DOMAIN commands : commands[k] = <<"start", i>>
Elapse(i) ==
    /\ i \notin due /\ Sent(i) /\ ~fault
    /\ due' = due \cup {i}
    /\ UNCHANGED <<nextID, list, objects, active, commands, events, pc, cur, last,
                   onCore, fault, ghosts>>

DaemonStep ==
    \/ DaemonWait \/ DaemonWoken \/ DaemonDrained \/ DaemonCommand
    \/ \E i \in Ids : DaemonExpire(i)
    \/ CallbackUnlink \/ CallbackDelete

Next ==
    \/ StartTimer
    \/ StartNow
    \/ StartSend
    \/ StartLink
    \/ \E i \in Ids : CancelTimer(i)
    \/ CancelStop
    \/ CancelDelete
    \/ CancelUnlink
    \/ Pull
    \/ Pulled
    \/ DaemonWait
    \/ DaemonWoken
    \/ DaemonDrained
    \/ DaemonCommand
    \/ \E i \in Ids : DaemonExpire(i)
    \/ CallbackUnlink
    \/ CallbackDelete
    \/ \E t \in {"main", "daemon"} : Schedule(t)
    \/ \E i \in Ids : Elapse(i)

\* What the main task does without the program's doing.
MainCall == StartSend \/ StartLink \/ CancelStop \/ CancelDelete \/ CancelUnlink \/ Pulled

\* A task on a core runs on, a ready task gets a core when one is free again
\* and again, and time passes.  Nothing makes the program call or pull.
Fairness ==
    /\ WF_vars(DaemonStep) /\ WF_vars(MainCall)
    /\ SF_vars(Schedule("daemon")) /\ SF_vars(Schedule("main"))
    /\ \A i \in Ids : WF_vars(Elapse(i))

Spec == Init /\ [][Next]_vars /\ Fairness

-----------------------------------------------------------------------------
(* Properties *)

TypeOK ==
    /\ nextID \in 0..MaxTimers
    /\ head \in Pointers /\ tail \in Pointers /\ next \in [Ids -> Pointers]
    /\ nodes \subseteq Ids /\ objects \subseteq Ids
    /\ active \subseteq Ids /\ due \subseteq Ids
    /\ commands \in Seq(Commands) /\ Len(commands) <= CommandLen
    /\ events \in Seq(Ids) /\ Len(events) <= EventLen
    /\ pc \in [main : {"run", "start", "link", "stop", "delete", "unlink", "pull"},
               daemon : {"wait", "drain", "check", "find", "delete"}]
    /\ cur \in [main : Pointers, daemon : Pointers] /\ last \in Pointers
    /\ onCore \subseteq {"main", "daemon"}
    /\ fault \in BOOLEAN /\ stalled \in BOOLEAN
    /\ cancelled \subseteq Ids /\ fired \in [Ids -> Nat]

\* A timer's event is pushed at most once, however starts, cancels, expiry
\* and the two list bugs combine (os_startTimer, the callback `timer`).
FiresAtMostOnce == \A i \in Ids : fired[i] <= 1

\* Freed memory is used only when the main task had to wait for room in the
\* command queue inside os_cancelTimer, holding a node the callback frees.
FaultOnlyAfterStall == fault => stalled

\* The callback's xTimerDelete never has to wait for the queue only its own
\* task empties: the daemon drains the queue before it runs callbacks.
DaemonNeverBlocks == ~(pc.daemon = "delete" /\ "daemon" \notin onCore)

\* A cancel of a timer the service counts down is final: once it has
\* returned, its stop still a queued command, the daemon sees that command
\* before it sees that the time is over (os_cancelTimer, the callback).
CancelStopsActive ==
    [][\A i \in active \cap cancelled : fired'[i] = fired[i]]_vars

\* A timer that was started fires, is cancelled, or the program never lets
\* go of the core (os_startTimer, xTimerStart).
Started(i) == i <= nextID /\ ~(cur.main = i /\ pc.main = "start")
TimersEnd ==
    []<>("main" \notin onCore) =>
        \A i \in Ids : Started(i) ~> (fired[i] > 0 \/ i \in cancelled \/ fault)

\* The timer started last is always found by os.cancelTimer: what the list
\* loses are older timers, one each time another is appended behind a tail
\* that has not moved (os_startTimer, os_cancelTimer, the callback).
NewestFound ==
    On("main") /\ pc.main = "run" /\ nextID \in nodes => nextID \in Reachable
=============================================================================
