---------------------------- MODULE EventQueue ----------------------------
(***************************************************************************)
(* event.cpp one memory access at a time.  Nobody creates the event queue  *)
(* up front: event_push, event_push_isr and event_wait each test the       *)
(* shared handle, create a queue when it is NULL, store it, and then use   *)
(* whatever the handle holds.  Nothing guards the test and the store, so   *)
(* two tasks on the two cores may both see NULL.                           *)
(*                                                                         *)
(* Queues are numbered in the order of their creation and reduced to the   *)
(* number of events they hold: EventLoop has the events.                   *)
(***************************************************************************)
EXTENDS EventTasks, FiniteSets

CONSTANT Cores    \* how many tasks may be in event.cpp at one time

ASSUME DriversAssumption == IsFiniteSet(Drivers)
ASSUME CoresAssumption == Cores \in Nat \ {0}

NULL == 0
Handles == 0..Cardinality(Tasks)

VARIABLES
    handle,       \* the static variable `queue`
    made,         \* how many queues xQueueCreate has returned
    mine,         \* the queue a task was given and has not stored yet
    held,         \* events in each queue
    pc,           \* where each task is
    op,           \* what the task was called for: "push" or "wait"
    waitsOn       \* the queue the main task is blocked on

queueVars == <<handle, made, mine, held, pc, op, waitsOn>>

\* The tasks that are on a core, inside one of the three functions.
Inside == {t \in Tasks : pc[t] \in {"create", "store", "use"}}

QueueInit ==
    /\ handle = NULL /\ made = 0 /\ mine = [t \in Tasks |-> NULL]
    /\ held = [q \in Handles |-> 0]
    /\ pc = [t \in Tasks |-> "idle"] /\ op = [t \in Tasks |-> "push"]
    /\ waitsOn = NULL

\* Mutant of Call: every call makes a queue, tested or not.
CallUntested(t, o) ==
    /\ pc[t] = "idle" /\ (o = "wait" => t = Main)
    /\ Cardinality(Inside) < Cores /\ made < Cardinality(Tasks)
    /\ pc' = [pc EXCEPT ![t] = "create"]
    /\ op' = [op EXCEPT ![t] = o]
    /\ UNCHANGED <<handle, made, mine, held, waitsOn>>

\* The call, up to and with the test `queue == NULL`.
Call(t, o) ==
    /\ pc[t] = "idle" /\ (o = "wait" => t = Main)
    /\ Cardinality(Inside) < Cores
    /\ pc' = [pc EXCEPT ![t] = IF handle = NULL THEN "create" ELSE "use"]
    /\ op' = [op EXCEPT ![t] = o]
    /\ UNCHANGED <<handle, made, mine, held, waitsOn>>

\* xQueueCreate returns a new queue to the task that called it ...
Create(t) ==
    /\ pc[t] = "create"
    /\ made' = made + 1 /\ mine' = [mine EXCEPT ![t] = made + 1]
    /\ pc' = [pc EXCEPT ![t] = "store"]
    /\ UNCHANGED <<handle, held, op, waitsOn>>

\* ... which stores it over whatever another task has stored meanwhile.
Store(t) ==
    /\ pc[t] = "store"
    /\ handle' = mine[t] /\ mine' = [mine EXCEPT ![t] = NULL]
    /\ pc' = [pc EXCEPT ![t] = "use"]
    /\ UNCHANGED <<made, held, op, waitsOn>>

\* xQueueSend on the queue the handle now names; full queues drop.
Send(t) ==
    /\ pc[t] = "use" /\ op[t] = "push"
    /\ held' = [held EXCEPT ![handle] = IF @ < QueueLength THEN @ + 1 ELSE @]
    /\ pc' = [pc EXCEPT ![t] = "idle"]
    /\ UNCHANGED <<handle, made, mine, op, waitsOn>>

\* Mutant of Block: it waits on its own copy of the handle.
BlockOnMine ==
    /\ pc[Main] = "use" /\ op[Main] = "wait"
    /\ waitsOn' = mine[Main]
    /\ pc' = [pc EXCEPT ![Main] = "blocked"]
    /\ UNCHANGED <<handle, made, mine, held, op>>

\* xQueueReceive with portMAX_DELAY: the task leaves its core and waits on
\* the queue it was given, whatever the handle becomes.
Block ==
    /\ pc[Main] = "use" /\ op[Main] = "wait"
    /\ waitsOn' = handle
    /\ pc' = [pc EXCEPT ![Main] = "blocked"]
    /\ UNCHANGED <<handle, made, mine, held, op>>

Wake ==
    /\ pc[Main] = "blocked" /\ held[waitsOn] > 0
    /\ held' = [held EXCEPT ![waitsOn] = @ - 1]
    /\ waitsOn' = NULL
    /\ pc' = [pc EXCEPT ![Main] = "idle"]
    /\ UNCHANGED <<handle, made, mine, op>>

\* What a task does by itself once it is inside.
Step(t) == Create(t) \/ Store(t) \/ Send(t) \/ (t = Main /\ (Block \/ Wake))

QueueNext ==
    \/ \E t \in Tasks, o \in {"push", "wait"} : Call(t, o)
    \/ \E t \in Tasks : Create(t) \/ Store(t) \/ Send(t)
    \/ Block
    \/ Wake

\* A task on a core runs on, and a task whose queue has an event wakes up.
QueueSpec == QueueInit /\ [][QueueNext]_queueVars /\ \A t \in Tasks : WF_queueVars(Step(t))

-----------------------------------------------------------------------------
(* Properties *)

\* No more queues are ever made than tasks fit inside at one time: one when
\* calls never overlap, two on two cores (the tests of event.cpp:8, 13, 20).
QueuesBounded == made <= Cores

\* A task that passed its test never finds NULL in the handle it uses, and
\* waits on a queue that exists.
UseNeverNull ==
    \A t \in Tasks :
        /\ pc[t] = "use" => handle # NULL
        /\ pc[t] = "blocked" => waitsOn # NULL

\* Once no task is behind a test that saw NULL the handle is settled for
\* good: only the very first calls can replace it.
HandleSettles ==
    [][handle # NULL /\ (\A t \in Tasks : pc[t] \notin {"create", "store"})
         => (handle # NULL /\ \A t \in Tasks : pc[t] \notin {"create", "store"})']_queueVars

\* A main task that waits comes back once the handle's queue holds an event,
\* in every run that makes only one queue: only a second one can leave it
\* behind (event_wait, event_push).
WaitEnds ==
    [](made <= 1) =>
        ((pc[Main] = "blocked" /\ held[handle] > 0) ~> pc[Main] # "blocked")
=============================================================================
