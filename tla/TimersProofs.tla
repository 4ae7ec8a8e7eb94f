---------------------------- MODULE TimersProofs ----------------------------
(***************************************************************************)
(* Timers for any number of timers and any queue lengths.  On any schedule *)
(* of the two tasks a timer's event is pushed at most once, and the timer  *)
(* started last is found by a cancel: the list of timers may lose nodes,   *)
(* older ones, and the timer service does not: no timer is forgotten       *)
(* before its event or its cancel.  When the tasks take turns,             *)
(* as the kernel has it, the daemon never waits for room in its own queue, *)
(* a cancel of a running timer is final, and memory is used after it was   *)
(* freed only if the main task had to wait inside os_cancelTimer.          *)
(***************************************************************************)
EXTENDS Timers, SequenceTheorems, WellFoundedInduction, TLAPS

\* What the steps need to know of the types.
Typed ==
    /\ nextID \in Nat
    /\ commands \in Seq(Commands)
    /\ active \subseteq Ids
    /\ fired \in [Ids -> Nat]
    /\ pc \in [main : {"run", "start", "link", "stop", "delete", "unlink", "pull"},
               daemon : {"wait", "drain", "check", "find", "delete"}]
    /\ cur \in [main : Pointers, daemon : Pointers]
    /\ pc.main \in {"start", "stop", "delete"} => cur.main \in Ids
    /\ pc.daemon = "delete" => cur.daemon \in Ids

\* A start command for timer i waits in the command queue s.
Starting(s, i) == \E k \in DOMAIN s : s[k] = <<"start", i>>

\* A timer can still fire, once: it is being started, its start is queued or
\* it is counted down, one of the three.
Once(s) ==
    \A i \in Ids : \A j, k \in DOMAIN s :
        s[j] = <<"start", i>> /\ s[k] = <<"start", i>> => j = k
Fresh(i) == i \notin active /\ fired[i] = 0 /\ ~Starting(commands, i)
OneChance ==
    /\ Once(commands)
    /\ \A i \in Ids : i > nextID => Fresh(i)
    /\ pc.main = "start" => cur.main <= nextID /\ Fresh(cur.main)
    /\ \A i \in active : fired[i] = 0 /\ ~Starting(commands, i)
    /\ \A i \in Ids : Starting(commands, i) => fired[i] = 0 /\ i <= nextID
    /\ FiresAtMostOnce

IInv == Typed /\ OneChance

-----------------------------------------------------------------------------
\* Ids are positive numbers.
LEMMA IdsAreNumbers == Ids \subseteq Nat \ {0} /\ \A n \in Nat : n < MaxTimers => n + 1 \in Ids
BY BoundsAssumption DEF Ids

\* A command at the end of the queue starts the timer it names and no other.
LEMMA AppendStarts ==
    ASSUME NEW s \in Seq(Commands), NEW c \in Commands
    PROVE  /\ Append(s, c) \in Seq(Commands)
           /\ \A i \in Ids : Starting(Append(s, c), i)
                               <=> Starting(s, i) \/ c = <<"start", i>>
           /\ Once(s) /\ (\A i \in Ids : c = <<"start", i>> => ~Starting(s, i))
                => Once(Append(s, c))
<1>1. PICK m \in Nat, u \in Seq(Commands) :
        /\ u = Append(s, c)
        /\ DOMAIN s = 1..m /\ DOMAIN u = 1..m + 1
        /\ \A k \in 1..m : u[k] = s[k]
        /\ u[m + 1] = c
  <2> DEFINE u == Append(s, c)
  <2>1. /\ u \in Seq(Commands) /\ Len(u) = Len(s) + 1
        /\ \A k \in 1..Len(s) : u[k] = s[k]
        /\ u[Len(s) + 1] = c
    BY AppendProperties
  <2>2. Len(s) \in Nat /\ DOMAIN s = 1..Len(s) /\ DOMAIN u = 1..Len(u)
    BY <2>1, LenProperties
  <2>3. QED
    BY <2>1, <2>2
<1>2. \A n \in DOMAIN u : \/ n \in DOMAIN s /\ u[n] = s[n]
                          \/ n = m + 1 /\ u[n] = c
  BY <1>1
<1>3. /\ \A n \in DOMAIN s : n \in DOMAIN u /\ u[n] = s[n]
       /\ m + 1 \in DOMAIN u /\ m + 1 \notin DOMAIN s
  BY <1>1
<1>4. \A i \in Ids : Starting(u, i) <=> Starting(s, i) \/ c = <<"start", i>>
  <2>1. ASSUME NEW i \in Ids, Starting(u, i)
        PROVE  \/ Starting(s, i)
               \/ c = <<"start", i>>
    BY <1>2, <2>1 DEF Starting
  <2>2. ASSUME NEW i \in Ids, Starting(s, i)
        PROVE  Starting(u, i)
    BY <1>3, <2>2 DEF Starting
  <2>3. ASSUME NEW i \in Ids, c = <<"start", i>>
        PROVE  Starting(u, i)
    BY <1>1, <1>3, <2>3 DEF Starting
  <2>4. QED
    BY <2>1, <2>2, <2>3
<1>5. ASSUME Once(s), \A i \in Ids : c = <<"start", i>> => ~Starting(s, i)
      PROVE  Once(u)
  <2> SUFFICES ASSUME NEW i \in Ids, NEW j \in DOMAIN u, NEW k \in DOMAIN u,
                      u[j] = <<"start", i>>, u[k] = <<"start", i>>
               PROVE  j = k
    BY DEF Once
  <2>1. CASE c = <<"start", i>>
    <3>1. \A n \in DOMAIN s : s[n] # <<"start", i>>
      BY <1>5, <2>1 DEF Starting
    <3>2. \A n \in DOMAIN u : u[n] = <<"start", i>> => n = m + 1
      BY <1>2, <3>1
    <3>3. QED
      BY <3>2
  <2>2. CASE c # <<"start", i>>
    <3>1. j \in DOMAIN s /\ k \in DOMAIN s /\ s[j] = u[j] /\ s[k] = u[k]
      BY <1>2, <2>2
    <3>2. QED
      BY <1>5, <3>1 DEF Once
  <2>3. QED
    BY <2>1, <2>2
<1>6. QED
  BY <1>1, <1>4, <1>5

\* The commands behind the first keep their order.
LEMMA TailStarts ==
    ASSUME NEW s \in Seq(Commands), s # <<>>
    PROVE  /\ Tail(s) \in Seq(Commands) /\ Head(s) \in Commands
           /\ Head(s) = s[1] /\ 1 \in DOMAIN s
           /\ \A k \in DOMAIN Tail(s) :
                k \in Nat \ {0} /\ k + 1 \in DOMAIN s /\ Tail(s)[k] = s[k + 1]
           /\ \A i \in Ids : Starting(Tail(s), i) => Starting(s, i)
           /\ Once(s) => Once(Tail(s))
                /\ \A i \in Ids : Head(s) = <<"start", i>> => ~Starting(Tail(s), i)
<1>1. Tail(s) \in Seq(Commands) /\ Head(s) \in Commands /\ Head(s) = s[1]
      /\ Len(Tail(s)) = Len(s) - 1 /\ Len(s) \in Nat \ {0}
      /\ \A k \in 1..Len(s) - 1 : Tail(s)[k] = s[k + 1]
  BY HeadTailProperties, EmptySeq, LenProperties
<1>2. DOMAIN Tail(s) = 1..Len(s) - 1 /\ DOMAIN s = 1..Len(s)
  BY <1>1, LenProperties
<1>3. \A k \in DOMAIN Tail(s) :
        k \in Nat \ {0} /\ k + 1 \in DOMAIN s /\ Tail(s)[k] = s[k + 1]
  BY <1>1, <1>2
<1>4. ASSUME Once(s) PROVE Once(Tail(s))
  <2> SUFFICES ASSUME NEW i \in Ids, NEW j \in DOMAIN Tail(s), NEW k \in DOMAIN Tail(s),
                      Tail(s)[j] = <<"start", i>>, Tail(s)[k] = <<"start", i>>
               PROVE  j = k
    BY DEF Once
  <2>1. j + 1 = k + 1
    BY <1>3, <1>4 DEF Once
  <2>2. QED
    BY <1>3, <2>1
<1>5. ASSUME Once(s), NEW i \in Ids, Head(s) = <<"start", i>>, Starting(Tail(s), i)
      PROVE  FALSE
  <2>1. PICK k \in DOMAIN Tail(s) : Tail(s)[k] = <<"start", i>>
    BY <1>5 DEF Starting
  <2>2. k + 1 \in DOMAIN s /\ s[k + 1] = <<"start", i>> /\ s[1] = <<"start", i>>
        /\ 1 \in DOMAIN s /\ k + 1 # 1
    BY <1>1, <1>2, <1>3, <1>5, <2>1
  <2>3. QED
    BY <1>5, <2>2 DEF Once
<1>6. \A i \in Ids : Starting(Tail(s), i) => Starting(s, i)
  BY <1>3 DEF Starting
<1>7. QED
  BY <1>1, <1>2, <1>3, <1>4, <1>5, <1>6

\* A stop or a delete, from the main task or the callback, starts nothing.
LEMMA OtherCommands ==
    ASSUME IInv, NEW op \in {"stop", "delete"}, NEW i \in Ids,
           commands' = Append(commands, <<op, i>>),
           UNCHANGED <<nextID, active, fired>>,
           pc'.main = "start" => pc.main = "start" /\ cur'.main = cur.main
    PROVE  OneChance' /\ commands' \in Seq(Commands)
<1> DEFINE c == <<op, i>>
<1>1. c \in Commands /\ \A j \in Ids : c # <<"start", j>>
  BY DEF Commands
<1> HIDE DEF c
<1>2. commands' = Append(commands, c) /\ commands \in Seq(Commands) /\ Once(commands)
  BY DEF c, IInv, Typed, OneChance
<1>3. commands' \in Seq(Commands) /\ Once(commands')
      /\ \A j \in Ids : Starting(commands', j) <=> Starting(commands, j)
  BY <1>1, <1>2, AppendStarts
<1>4. QED
  BY <1>3 DEF IInv, Typed, OneChance, Fresh, FiresAtMostOnce

\* Nothing the list and the events do changes a timer's chance.
LEMMA Untouched ==
    ASSUME IInv, UNCHANGED <<nextID, active, fired, commands>>,
           pc'.main = "start" => pc.main = "start" /\ cur'.main = cur.main
    PROVE  OneChance'
BY DEF IInv, OneChance, Once, Fresh, FiresAtMostOnce

\* The callback of a timer that had its chance and no start in the queue.
LEMMA CallbackOnce ==
    ASSUME IInv, NEW i \in Ids, fired[i] = 0, i <= nextID,
           pc.main = "start" => cur.main # i,
           active' = active \ {i}, fired' = [fired EXCEPT ![i] = @ + 1],
           commands' \in Seq(Commands), ~Starting(commands', i),
           \A j \in Ids : Starting(commands', j) => Starting(commands, j),
           Once(commands'), UNCHANGED nextID,
           pc'.main = pc.main, cur'.main = cur.main
    PROVE  OneChance'
<1> USE DEF IInv, Typed, OneChance
<1>1. fired'[i] = 1 /\ \A j \in Ids \ {i} : fired'[j] = fired[j]
  OBVIOUS
<1>2. \A j \in Ids : j # i /\ Fresh(j) => Fresh(j)'
  BY <1>1 DEF Fresh
<1>3. \A j \in Ids : j > nextID => j # i
  BY IdsAreNumbers
<1>4. FiresAtMostOnce'
  BY <1>1 DEF FiresAtMostOnce
<1>5. \A j \in active' : fired'[j] = 0 /\ ~Starting(commands', j)
  BY <1>1
<1>6. \A j \in Ids : Starting(commands', j) => fired'[j] = 0 /\ j <= nextID'
  BY <1>1
<1>7. pc'.main = "start" => cur'.main <= nextID' /\ Fresh(cur.main)'
  BY <1>2
<1>8. QED
  BY <1>2, <1>3, <1>4, <1>5, <1>6, <1>7 DEF Fresh

-----------------------------------------------------------------------------
\* A command the main task or the callback sends.
LEMMA SendOther ==
    ASSUME IInv, NEW op \in {"stop", "delete"}, NEW i \in Ids,
           \/ Send(<<op, i>>)
           \/ UNCHANGED commands,
           UNCHANGED <<nextID, active, fired>>,
           pc'.main = "start" => pc.main = "start" /\ cur'.main = cur.main
    PROVE  OneChance' /\ commands' \in Seq(Commands)
<1>1. CASE Send(<<op, i>>)
  BY <1>1, OtherCommands DEF Send
<1>2. CASE UNCHANGED commands
  BY <1>2, Untouched DEF IInv, Typed
<1>3. QED
  BY <1>1, <1>2

\* os_startTimer: a new timer has its chance ahead of it or has used it.
LEMMA StartStays ==
    ASSUME IInv, StartTimer \/ StartNow \/ StartSend
    PROVE  IInv'
<1> USE DEF IInv, Typed
<1>1. CASE StartTimer
  <2>1. nextID + 1 \in Ids /\ Fresh(nextID + 1)
    BY <1>1, IdsAreNumbers DEF StartTimer, OneChance
  <2>2. Typed'
    BY <1>1, <2>1 DEF StartTimer, Busy, Goto, ghosts, Pointers
  <2>3. nextID' = nextID + 1 /\ cur'.main = nextID + 1
        /\ UNCHANGED <<active, fired, commands>>
    BY <1>1 DEF StartTimer, Busy, ghosts
  <2>4. OneChance'
    BY <2>1, <2>3, IdsAreNumbers DEF OneChance, Once, Fresh, FiresAtMostOnce
  <2>5. QED
    BY <2>2, <2>4
<1>2. CASE StartNow
  <2>1. nextID + 1 \in Ids /\ Fresh(nextID + 1)
    BY <1>2, IdsAreNumbers DEF StartNow, OneChance
  <2>2. nextID' = nextID + 1 /\ fired' = [fired EXCEPT ![nextID + 1] = @ + 1]
        /\ UNCHANGED <<active, commands, pc, cur>> /\ pc.main = "run"
    BY <1>2 DEF StartNow, PushTimer, service
  <2>3. Typed'
    BY <2>1, <2>2
  <2>4. OneChance'
    BY <2>1, <2>2, IdsAreNumbers DEF OneChance, Once, Fresh, FiresAtMostOnce
  <2>5. QED
    BY <2>3, <2>4
<1>3. CASE StartSend
  <2> DEFINE c == <<"start", cur.main>>
  <2>1. UNCHANGED <<nextID, active, fired, cur>> /\ pc.main = "start"
        /\ cur.main \in Ids /\ Fresh(cur.main) /\ cur.main <= nextID
    BY <1>3 DEF StartSend, service, ghosts, OneChance
  <2>2. CASE commands' = Append(commands, c) /\ Goto("main", "link")
    <3>1. c \in Commands
          /\ \A i \in Ids : c = <<"start", i>> <=> i = cur.main
      BY <2>1 DEF Commands
    <3> HIDE DEF c
    <3>2. /\ commands' \in Seq(Commands) /\ Once(commands')
          /\ \A i \in Ids : Starting(commands', i) <=> Starting(commands, i) \/ i = cur.main
      BY <2>1, <2>2, <3>1, AppendStarts DEF OneChance, Fresh
    <3>3. pc'.main = "link" /\ pc'.daemon = pc.daemon /\ Typed'
      BY <2>1, <2>2, <3>2 DEF Goto
    <3>4. OneChance'
      BY <2>1, <3>2, <3>3, IdsAreNumbers DEF OneChance, Fresh, FiresAtMostOnce
    <3>5. QED
      BY <3>3, <3>4
  <2>3. CASE UNCHANGED <<commands, pc>>
    BY <2>1, <2>3, Untouched
  <2>4. QED
    BY <1>3, <2>2, <2>3 DEF StartSend, Send, WaitForRoom
<1>4. QED
  BY <1>1, <1>2, <1>3

\* os_cancelTimer only ever stops and deletes.
LEMMA CancelStays ==
    ASSUME IInv, CancelStop \/ CancelDelete
    PROVE  IInv'
<1> USE DEF IInv, Typed, CancelStop, CancelDelete, CancelSend, service
<1>1. cur.main \in Ids /\ UNCHANGED <<nextID, active, fired, cur>>
  OBVIOUS
<1>2. PICK op \in {"stop", "delete"} :
        \/ Send(<<op, cur.main>>)
        \/ UNCHANGED commands
  BY DEF WaitForRoom
<1>3. pc' \in [main : {"delete", "unlink", "stop"},
               daemon : {"wait", "drain", "check", "find", "delete"}]
      /\ pc'.daemon = pc.daemon
  BY DEF Goto, WaitForRoom
<1>4. OneChance' /\ commands' \in Seq(Commands)
  BY <1>1, <1>2, <1>3, SendOther
<1>5. QED
  BY <1>1, <1>3, <1>4

\* The timer service gives a timer its one event.
LEMMA ServiceStays ==
    ASSUME IInv, DaemonCommand \/ \E i \in Ids : DaemonExpire(i)
    PROVE  IInv'
<1> USE DEF IInv, Typed
<1>1. ASSUME NEW i \in Ids, DaemonExpire(i)
      PROVE  IInv'
  <2>1. /\ fired[i] = 0 /\ ~Starting(commands, i) /\ i <= nextID
        /\ pc.main = "start" => cur.main # i
    <3>1. i \in active /\ i \in Nat
      BY <1>1, IdsAreNumbers DEF DaemonExpire
    <3>2. fired[i] = 0 /\ ~Starting(commands, i) /\ ~Fresh(i)
      BY <3>1 DEF OneChance, Fresh
    <3>3. i <= nextID
      BY <3>1, <3>2 DEF OneChance
    <3>4. QED
      BY <3>2, <3>3 DEF OneChance
  <2>2. /\ active' = active \ {i} /\ fired' = [fired EXCEPT ![i] = @ + 1]
        /\ nextID' = nextID /\ commands' = commands
        /\ cur' = [cur EXCEPT !["daemon"] = i] /\ pc' = [pc EXCEPT !["daemon"] = "find"]
    BY <1>1 DEF DaemonExpire, Callback, PushTimer, Busy, Goto
  <2>3. Typed' /\ pc'.main = pc.main /\ cur'.main = cur.main
    <3>1. pc'.main = pc.main /\ cur'.main = cur.main /\ pc'.daemon = "find"
      BY <2>2
    <3>2. /\ cur' \in [main : Pointers, daemon : Pointers]
          /\ pc' \in [main : {"run", "start", "link", "stop", "delete", "unlink", "pull"},
                     daemon : {"wait", "drain", "check", "find", "delete"}]
      BY <2>2 DEF Pointers
    <3>3. fired' \in [Ids -> Nat] /\ active' \subseteq Ids
      BY <2>2
    <3>4. QED
      BY <2>2, <3>1, <3>2, <3>3
  <2>4. OneChance'
    BY <2>1, <2>2, <2>3, CallbackOnce DEF OneChance, Once
  <2>5. QED
    BY <2>3, <2>4
<1>2. CASE DaemonCommand
  <2> DEFINE op == Head(commands)[1]
             i  == Head(commands)[2]
  <2>1. commands # <<>> /\ commands' = Tail(commands) /\ nextID' = nextID
    BY <1>2 DEF DaemonCommand
  <2>2. op \in {"start", "stop", "delete"} /\ i \in Ids /\ Head(commands) = <<op, i>>
    BY <2>1, TailStarts DEF Commands
  <2>3. commands' \in Seq(Commands) /\ Once(commands')
        /\ \A j \in Ids : Starting(commands', j) => Starting(commands, j)
    BY <2>1, TailStarts DEF OneChance
  <2>4. op = "start" => /\ Starting(commands, i) /\ ~Starting(commands', i)
                        /\ fired[i] = 0 /\ i <= nextID /\ i \notin active
                        /\ pc.main = "start" => cur.main # i
    <3> SUFFICES ASSUME op = "start"
                 PROVE  /\ Starting(commands, i) /\ ~Starting(commands', i)
                        /\ fired[i] = 0 /\ i <= nextID /\ i \notin active
                        /\ pc.main = "start" => cur.main # i
      OBVIOUS
    <3>1. Head(commands) = <<"start", i>>
      BY <2>2
    <3>2. Starting(commands, i) /\ ~Starting(commands', i)
      BY <2>1, <2>2, <3>1, TailStarts DEF OneChance, Starting
    <3>3. QED
      BY <2>2, <3>2 DEF OneChance, Fresh
  <2>5. CASE op = "start" /\ i \in due
    <3>1. /\ active' = active \ {i} /\ fired' = [fired EXCEPT ![i] = @ + 1]
          /\ cur' = [cur EXCEPT !["daemon"] = i]
          /\ pc' = [pc EXCEPT !["daemon"] = "find"]
      BY <1>2, <2>5 DEF DaemonCommand, Callback, PushTimer, Busy, Goto
    <3>2. Typed' /\ pc'.main = pc.main /\ cur'.main = cur.main
      BY <2>1, <2>2, <2>3, <3>1 DEF Pointers
    <3>3. OneChance'
      BY <2>1, <2>2, <2>3, <2>4, <2>5, <3>1, <3>2, CallbackOnce
    <3>4. QED
      BY <3>2, <3>3
  <2>6. CASE ~(op = "start" /\ i \in due)
    <3>1. /\ UNCHANGED <<fired, cur, pc>>
          /\ active' = IF op = "start" THEN active \cup {i} ELSE active \ {i}
      BY <1>2, <2>6 DEF DaemonCommand
    <3>2. Typed'
      BY <2>1, <2>2, <2>3, <3>1
    <3>3. \A j \in Ids : Fresh(j) => Fresh(j)'
      BY <2>3, <2>4, <3>1 DEF Fresh
    <3>4. \A j \in active' : fired'[j] = 0 /\ ~Starting(commands', j)
      BY <2>3, <2>4, <3>1 DEF OneChance
    <3>5. OneChance'
      BY <2>1, <2>3, <3>1, <3>3, <3>4 DEF OneChance, FiresAtMostOnce
    <3>6. QED
      BY <3>2, <3>5
  <2>7. QED
    BY <2>5, <2>6
<1>3. QED
  BY <1>1, <1>2

\* The callback's delete starts nothing.
LEMMA DeleteStays ==
    ASSUME IInv, CallbackDelete
    PROVE  IInv'
<1> USE DEF IInv, Typed, CallbackDelete, service, ghosts
<1>1. cur.daemon \in Ids /\ UNCHANGED <<nextID, active, fired, cur>>
  OBVIOUS
<1>2. \/ Send(<<"delete", cur.daemon>>)
      \/ UNCHANGED commands
  BY DEF WaitForRoom
<1>3. pc' \in [main : {"run", "start", "link", "stop", "delete", "unlink", "pull"},
               daemon : {"drain", "delete"}]
      /\ pc'.main = pc.main
  BY DEF Goto, WaitForRoom
<1>4. OneChance' /\ commands' \in Seq(Commands)
  BY <1>1, <1>2, <1>3, SendOther
<1>5. QED
  BY <1>1, <1>3, <1>4

\* Every step keeps each timer's one chance.
LEMMA Inductive == IInv /\ [Next]_vars => IInv'
<1> SUFFICES ASSUME IInv, [Next]_vars PROVE IInv'
  OBVIOUS
<1> USE DEF IInv, Typed, list, service, ghosts, Goto, Busy
<1>1. CASE StartTimer \/ StartNow \/ StartSend
  BY <1>1, StartStays
<1>2. CASE CancelStop \/ CancelDelete
  BY <1>2, CancelStays
<1>3. CASE DaemonCommand \/ \E i \in Ids : DaemonExpire(i)
  BY <1>3, ServiceStays
<1>4. CASE CallbackDelete
  BY <1>4, DeleteStays
<1>5. CASE StartLink \/ CancelUnlink \/ Pull \/ Pulled
  <2>1. Typed' /\ OneChance'
    BY <1>5, Untouched DEF StartLink, CancelUnlink, Pull, Pulled
  <2>2. QED
    BY <2>1
<1>6. CASE \E i \in Ids : CancelTimer(i)
  <2>1. Typed' /\ OneChance'
    BY <1>6, Untouched DEF CancelTimer, Pointers
  <2>2. QED
    BY <2>1
<1>7. CASE DaemonWait \/ DaemonWoken \/ DaemonDrained
  <2>1. Typed' /\ OneChance'
    BY <1>7, Untouched DEF DaemonWait, DaemonWoken, DaemonDrained
  <2>2. QED
    BY <2>1
<1>8. CASE CallbackUnlink
  <2>1. cur.daemon \in Reachable => cur.daemon \in Ids
    BY DEF Pointers, Reachable
  <2>2. /\ UNCHANGED <<nextID, active, fired, commands, cur>>
        /\ pc'.main = pc.main
        /\ pc'.daemon = "delete" => cur.daemon \in Ids
        /\ pc' \in [main : {"run", "start", "link", "stop", "delete", "unlink", "pull"},
                   daemon : {"wait", "drain", "check", "find", "delete"}]
    BY <1>8, <2>1 DEF CallbackUnlink
  <2>3. Typed' /\ OneChance'
    BY <2>2, Untouched
  <2>4. QED
    BY <2>3
<1>9. CASE (\E t \in {"main", "daemon"} : Schedule(t)) \/ (\E i \in Ids : Elapse(i))
      \/ UNCHANGED vars
  <2>1. Typed' /\ OneChance'
    BY <1>9, Untouched DEF Schedule, Elapse, vars
  <2>2. QED
    BY <2>1
<1>10. QED
  BY <1>1, <1>2, <1>3, <1>4, <1>5, <1>6, <1>7, <1>8, <1>9 DEF Next

\* Each timer has at most one chance in every behaviour.
LEMMA AlwaysIInv == Spec => []IInv
<1>1. Init => IInv
  BY EmptySeq DEF Init, IInv, Typed, OneChance, Once, Fresh, Starting, Pointers,
                  FiresAtMostOnce
<1>2. QED
  BY <1>1, Inductive, PTL DEF Spec

\* A timer's event is pushed at most once, for any number of timers, queues
\* of any length and any overlap of the two tasks (os_startTimer,
\* os_cancelTimer, the callback `timer`).
THEOREM TimersFireOnce == Spec => []FiresAtMostOnce
<1>1. IInv => FiresAtMostOnce
  BY DEF IInv, OneChance
<1>2. QED
  BY <1>1, AlwaysIInv, PTL

-----------------------------------------------------------------------------
\* Without overlap the two tasks take turns: the main task runs only while
\* the daemon waits, and the daemon looks at the clock with no command left.
TurnInv ==
    /\ ~("main" \in onCore /\ "daemon" \in onCore)
    /\ pc.daemon # "wait" => "daemon" \in onCore
    /\ pc.daemon = "check" => commands = <<>>
    /\ pc.daemon \in {"find", "delete"} => Room
    /\ Len(commands) <= CommandLen

\* Sending a command with room leaves the queue within its length.
LEMMA SendLength ==
    ASSUME Typed, NEW c \in Commands, Send(c)
    PROVE  Len(commands') <= CommandLen
<1>1. Len(commands') = Len(commands) + 1 /\ Len(commands) \in Nat
  BY AppendProperties, LenProperties DEF Send, Typed
<1>2. QED
  BY <1>1, BoundsAssumption DEF Send, Room

\* A step of the main task leaves the turns alone: it is on the core.
LEMMA MainTurn ==
    ASSUME TurnInv, "main" \in onCore, onCore' \subseteq onCore,
           pc'.daemon = pc.daemon, Len(commands') <= CommandLen
    PROVE  TurnInv'
BY DEF TurnInv

\* Every step keeps the turns.
LEMMA TurnsStay ==
    ASSUME ~Overlap, IInv, IInv', TurnInv, [Next]_vars
    PROVE  TurnInv'
<1> USE DEF IInv, Typed, On, Goto, Busy, list, service, ghosts
<1>1. CASE StartTimer \/ StartNow \/ StartLink \/ CancelUnlink \/ Pull \/ Pulled
  <2>1. "main" \in onCore /\ onCore' \subseteq onCore /\ pc'.daemon = pc.daemon
        /\ commands' = commands
    BY <1>1 DEF StartTimer, StartNow, StartLink, CancelUnlink, Pull, Pulled
  <2>2. QED
    BY <2>1, MainTurn DEF TurnInv
<1>2. CASE \E i \in Ids : CancelTimer(i)
  <2>1. "main" \in onCore /\ onCore' \subseteq onCore /\ pc'.daemon = pc.daemon
        /\ commands' = commands
    BY <1>2 DEF CancelTimer
  <2>2. QED
    BY <2>1, MainTurn DEF TurnInv
<1>3. CASE StartSend \/ CancelStop \/ CancelDelete
  <2>1. "main" \in onCore /\ onCore' \subseteq onCore /\ pc'.daemon = pc.daemon
    BY <1>3 DEF StartSend, CancelStop, CancelDelete, CancelSend, WaitForRoom
  <2>2. \/ \E op \in {"start", "stop", "delete"} : Send(<<op, cur.main>>)
        \/ commands' = commands
    BY <1>3 DEF StartSend, CancelStop, CancelDelete, CancelSend, WaitForRoom
  <2>3. cur.main \in Ids
    BY <1>3 DEF StartSend, CancelStop, CancelDelete, CancelSend
  <2>4. Len(commands') <= CommandLen
    BY <2>2, <2>3, SendLength DEF Commands, TurnInv
  <2>5. QED
    BY <2>1, <2>4, MainTurn
<1>4. CASE DaemonWait \/ DaemonWoken \/ DaemonDrained
  BY <1>4 DEF DaemonWait, DaemonWoken, DaemonDrained, TurnInv
<1>5. CASE DaemonCommand
  <2>1. commands # <<>> /\ commands' = Tail(commands) /\ onCore' = onCore
        /\ "daemon" \in onCore /\ pc'.daemon \in {"drain", "find"}
    BY <1>5 DEF DaemonCommand, Callback
  <2>2. Len(commands') = Len(commands) - 1 /\ Len(commands) \in Nat
    BY <2>1, HeadTailProperties, LenProperties
  <2>3. QED
    BY <2>1, <2>2, BoundsAssumption DEF TurnInv, Room
<1>6. CASE \E i \in Ids : DaemonExpire(i)
  <2>1. commands = <<>> /\ commands' = <<>> /\ onCore' = onCore
        /\ "daemon" \in onCore /\ pc'.daemon = "find"
    BY <1>6 DEF DaemonExpire, Callback, TurnInv
  <2>2. Len(commands') = 0
    BY <2>1
  <2>3. QED
    BY <2>1, <2>2, BoundsAssumption DEF TurnInv, Room
<1>7. CASE CallbackUnlink
  BY <1>7 DEF CallbackUnlink, TurnInv, Room
<1>8. CASE CallbackDelete
  <2>1. Room /\ pc.daemon = "delete" /\ "daemon" \in onCore /\ cur.daemon \in Ids
    BY <1>8 DEF CallbackDelete, TurnInv
  <2>2. Send(<<"delete", cur.daemon>>) /\ onCore' = onCore /\ pc'.daemon = "drain"
    BY <1>8, <2>1 DEF CallbackDelete, WaitForRoom
  <2>3. Len(commands') <= CommandLen
    BY <2>1, <2>2, SendLength DEF Commands
  <2>4. QED
    BY <2>1, <2>2, <2>3 DEF TurnInv
<1>9. CASE \E t \in {"main", "daemon"} : Schedule(t)
  BY <1>9 DEF Schedule, TurnInv, Room
<1>10. CASE (\E i \in Ids : Elapse(i)) \/ UNCHANGED vars
  BY <1>10 DEF Elapse, vars, TurnInv, Room
<1>11. QED
  BY <1>1, <1>2, <1>3, <1>4, <1>5, <1>6, <1>7, <1>8, <1>9, <1>10 DEF Next

\* The tasks take turns in every behaviour without overlap.
LEMMA AlwaysTurns == ~Overlap => (Spec => []TurnInv)
<1> SUFFICES ASSUME ~Overlap PROVE Spec => []TurnInv
  OBVIOUS
<1>1. Init => TurnInv
  <2> SUFFICES ASSUME Init PROVE TurnInv
    OBVIOUS
  <2>1. Len(commands) = 0
    BY DEF Init
  <2>2. QED
    BY <2>1, BoundsAssumption DEF Init, TurnInv
<1>2. QED
  BY <1>1, AlwaysIInv, TurnsStay, PTL DEF Spec

\* Without overlap the callback's xTimerDelete(portMAX_DELAY), made by the
\* only task that empties the queue, always finds room: no deadlock.
THEOREM DaemonGoesOn == ~Overlap => (Spec => []DaemonNeverBlocks)
<1>1. TurnInv => DaemonNeverBlocks
  BY DEF TurnInv, DaemonNeverBlocks
<1>2. QED
  BY <1>1, AlwaysTurns, PTL

-----------------------------------------------------------------------------
\* A stop or delete of timer i waits in s, behind every start of i.
Ends(i) == {<<"stop", i>>, <<"delete", i>>}
Stopping(s, i) ==
    \E k \in DOMAIN s :
        /\ s[k] \in Ends(i)
        /\ \A j \in DOMAIN s : s[j] = <<"start", i>> => j < k

\* The program has given timer i up: its first command is on the way.
GivenUp(i) ==
    \/ i \in cancelled
    \/ pc.main \in {"delete", "unlink"} /\ cur.main = i

\* A timer that was given up and could still fire has its stop in the queue.
CancelInv ==
    /\ cancelled \subseteq Ids /\ \A i \in cancelled : i <= nextID
    /\ pc.main = "start" => cur.main \notin cancelled
    /\ pc.main \in {"stop", "delete", "unlink"} => cur.main \in Ids /\ cur.main <= nextID
    /\ \A i \in Ids : GivenUp(i) /\ (i \in active \/ Starting(commands, i))
                        => Stopping(commands, i)

\* A command other than its start leaves a timer's stop where it is, and a
\* stop at the end is behind every start.
LEMMA AppendStops ==
    ASSUME NEW s \in Seq(Commands), NEW c \in Commands, NEW i \in Ids,
           \/ Stopping(s, i) /\ c # <<"start", i>>
           \/ c \in Ends(i)
    PROVE  Stopping(Append(s, c), i)
<1>1. PICK m \in Nat, u \in Seq(Commands) :
        /\ u = Append(s, c)
        /\ DOMAIN s = 1..m /\ DOMAIN u = 1..m + 1
        /\ \A k \in 1..m : u[k] = s[k]
        /\ u[m + 1] = c
  <2> DEFINE u == Append(s, c)
  <2>1. /\ u \in Seq(Commands) /\ Len(u) = Len(s) + 1
        /\ \A k \in 1..Len(s) : u[k] = s[k]
        /\ u[Len(s) + 1] = c
    BY AppendProperties
  <2>2. Len(s) \in Nat /\ DOMAIN s = 1..Len(s) /\ DOMAIN u = 1..Len(u)
    BY <2>1, LenProperties
  <2>3. QED
    BY <2>1, <2>2
<1>2. \A n \in DOMAIN u : \/ n \in DOMAIN s /\ u[n] = s[n]
                          \/ n = m + 1 /\ u[n] = c
  BY <1>1
<1>3. CASE Stopping(s, i) /\ c # <<"start", i>>
  <2>1. PICK k \in DOMAIN s : /\ s[k] \in Ends(i)
                              /\ \A j \in DOMAIN s : s[j] = <<"start", i>> => j < k
    BY <1>3 DEF Stopping
  <2>2. k \in DOMAIN u /\ u[k] = s[k]
    BY <1>1
  <2>3. \A j \in DOMAIN u : u[j] = <<"start", i>> => j < k
    BY <1>2, <1>3, <2>1
  <2>4. QED
    BY <1>1, <2>1, <2>2, <2>3 DEF Stopping
<1>4. CASE c \in Ends(i)
  <2>1. m + 1 \in DOMAIN u /\ u[m + 1] \in Ends(i) /\ c # <<"start", i>>
    BY <1>1, <1>4 DEF Ends
  <2>2. \A j \in DOMAIN u : u[j] = <<"start", i>> => j < m + 1
    <3>1. ASSUME NEW j \in DOMAIN u, u[j] = <<"start", i>>
          PROVE  j \in 1..m
      BY <1>1, <1>2, <2>1, <3>1
    <3>2. QED
      BY <3>1
  <2>3. QED
    BY <1>1, <2>1, <2>2 DEF Stopping
<1>5. QED
  BY <1>3, <1>4

\* When the first command leaves, a timer's stop stays behind unless it was
\* that command, and then no start of the timer is left.
LEMMA TailStops ==
    ASSUME NEW s \in Seq(Commands), s # <<>>, NEW i \in Ids, Stopping(s, i)
    PROVE  \/ Stopping(Tail(s), i)
           \/ Head(s) \in Ends(i) /\ ~Starting(Tail(s), i)
<1>1. PICK k \in DOMAIN s : /\ s[k] \in Ends(i)
                            /\ \A j \in DOMAIN s : s[j] = <<"start", i>> => j < k
  BY DEF Stopping
<1>2. PICK m \in Nat \ {0} :
        /\ DOMAIN s = 1..m /\ DOMAIN Tail(s) = 1..m - 1 /\ Head(s) = s[1]
        /\ \A n \in 1..m - 1 : Tail(s)[n] = s[n + 1]
  <2>1. Tail(s) \in Seq(Commands) /\ Len(Tail(s)) = Len(s) - 1 /\ Head(s) = s[1]
        /\ Len(s) \in Nat \ {0} /\ \A n \in 1..Len(s) - 1 : Tail(s)[n] = s[n + 1]
    BY HeadTailProperties, LenProperties, EmptySeq
  <2>2. DOMAIN s = 1..Len(s) /\ DOMAIN Tail(s) = 1..Len(s) - 1
    BY <2>1, LenProperties
  <2>3. QED
    BY <2>1, <2>2
<1>3. \A n \in DOMAIN Tail(s) :
        n \in Nat \ {0} /\ n + 1 \in DOMAIN s /\ Tail(s)[n] = s[n + 1]
  BY <1>2
<1>4. CASE k = 1
  <2>1. \A n \in DOMAIN Tail(s) : Tail(s)[n] # <<"start", i>>
    <3> SUFFICES ASSUME NEW n \in DOMAIN Tail(s), Tail(s)[n] = <<"start", i>>
                 PROVE  FALSE
      OBVIOUS
    <3>1. n \in Nat \ {0} /\ n + 1 \in DOMAIN s /\ s[n + 1] = <<"start", i>>
      BY <1>3
    <3>2. n + 1 < 1
      BY <1>1, <1>4, <3>1
    <3>3. QED
      BY <3>1, <3>2
  <2>2. QED
    BY <1>1, <1>2, <1>4, <2>1 DEF Starting
<1>5. CASE k # 1
  <2>1. k - 1 \in DOMAIN Tail(s) /\ Tail(s)[k - 1] = s[k]
    <3>1. k \in 1..m
      BY <1>2
    <3>2. k - 1 \in 1..m - 1 /\ (k - 1) + 1 = k
      BY <1>5, <3>1
    <3>3. Tail(s)[k - 1] = s[(k - 1) + 1]
      BY <1>2, <3>2
    <3>4. QED
      BY <1>2, <3>2, <3>3
  <2>2. ASSUME NEW j \in DOMAIN Tail(s), Tail(s)[j] = <<"start", i>>
        PROVE  j < k - 1
    <3>1. j + 1 \in DOMAIN s /\ s[j + 1] = <<"start", i>>
      BY <1>3, <2>2
    <3>2. j + 1 < k
      BY <1>1, <3>1
    <3>3. QED
      BY <1>2, <1>3, <3>2
  <2>3. QED
    BY <1>1, <2>1, <2>2 DEF Stopping
<1>6. QED
  BY <1>4, <1>5

\* A step that sends and handles no command gives no timer up.
LEMMA QuietCancel ==
    ASSUME IInv, CancelInv, UNCHANGED commands, active' \subseteq active,
           nextID' \in {nextID, nextID + 1},
           \A i \in Ids : GivenUp(i)' => GivenUp(i),
           \A i \in cancelled' : GivenUp(i),
           cancelled' \subseteq Ids,
           pc'.main = "start" => cur'.main \notin cancelled',
           pc'.main \in {"stop", "delete", "unlink"}
             => cur'.main \in Ids /\ cur'.main <= nextID
    PROVE  CancelInv'
<1>1. nextID \in Nat /\ \A i \in Ids : i <= nextID => i <= nextID'
  BY IdsAreNumbers DEF IInv, Typed
<1>2. \A i \in cancelled' : i <= nextID'
  BY <1>1 DEF CancelInv, GivenUp
<1>3. \A i \in Ids : Starting(commands', i) = Starting(commands, i)
                    /\ Stopping(commands', i) = Stopping(commands, i)
  OBVIOUS
<1>4. QED
  BY <1>1, <1>2, <1>3 DEF CancelInv

\* The steps of the main task that send no command.
LEMMA MainQuiet ==
    ASSUME IInv, CancelInv,
           \/ StartTimer
           \/ StartNow
           \/ StartLink
           \/ \E i \in Ids : CancelTimer(i)
           \/ CancelUnlink
           \/ Pull
           \/ Pulled
    PROVE  CancelInv'
<1> USE DEF IInv, Typed, Goto, Busy, list, service, ghosts, GivenUp
<1>1. CASE StartTimer
  <2>1. nextID + 1 \notin cancelled
    BY IdsAreNumbers DEF CancelInv
  <2>2. QED
    BY <1>1, <2>1, QuietCancel DEF StartTimer, CancelInv
<1>2. CASE StartNow
  BY <1>2, QuietCancel DEF StartNow, CancelInv
<1>3. CASE StartLink \/ Pull \/ Pulled
  BY <1>3, QuietCancel DEF StartLink, Pull, Pulled, CancelInv
<1>4. CASE \E i \in Ids : CancelTimer(i)
  BY <1>4, QuietCancel DEF CancelTimer, CancelInv
<1>5. CASE CancelUnlink
  BY <1>5, QuietCancel DEF CancelUnlink, CancelInv
<1>6. QED
  BY <1>1, <1>2, <1>3, <1>4, <1>5

\* The steps of the service, the kernel and the clock that leave the command
\* queue alone.
LEMMA ServiceQuiet ==
    ASSUME IInv, CancelInv,
           \/ DaemonWait
           \/ DaemonWoken
           \/ DaemonDrained
           \/ \E i \in Ids : DaemonExpire(i)
           \/ CallbackUnlink
           \/ \E t \in {"main", "daemon"} : Schedule(t)
           \/ \E i \in Ids : Elapse(i)
           \/ UNCHANGED vars
    PROVE  CancelInv'
<1> USE DEF IInv, Typed, Goto, Busy, list, service, ghosts
<1>1. /\ UNCHANGED <<commands, nextID, cancelled>> /\ active' \subseteq active
      /\ pc'.main = pc.main /\ cur'.main = cur.main
  BY DEF DaemonWait, DaemonWoken, DaemonDrained, DaemonExpire, Callback,
         CallbackUnlink, Schedule, Elapse, vars
<1>2. QED
  BY <1>1, QuietCancel DEF CancelInv, GivenUp

\* A command sent gives its timer up or leaves every stop where it is.
LEMMA SendCancel ==
    ASSUME IInv, CancelInv, NEW c \in Commands, Send(c),
           UNCHANGED <<nextID, active, cancelled, cur>>,
           pc'.main = "start" => pc.main = "start",
           pc'.main \in {"stop", "delete", "unlink"}
             => pc.main \in {"stop", "delete", "unlink"},
           \A i \in Ids : GivenUp(i)' => \/ GivenUp(i) /\ c # <<"start", i>>
                                        \/ c \in Ends(i)
    PROVE  CancelInv'
<1>1. ASSUME NEW i \in Ids, GivenUp(i)', i \in active \/ Starting(commands', i)
      PROVE  Stopping(commands', i)
  <2>1. commands' = Append(commands, c) /\ commands \in Seq(Commands)
    BY DEF Send, IInv, Typed
  <2>2. CASE c \in Ends(i)
    BY <2>1, <2>2, AppendStops
  <2>3. CASE GivenUp(i) /\ c # <<"start", i>>
    <3>1. i \in active \/ Starting(commands, i)
      BY <1>1, <2>1, <2>3, AppendStarts
    <3>2. Stopping(commands, i)
      BY <2>3, <3>1 DEF CancelInv
    <3>3. QED
      BY <2>1, <2>3, <3>2, AppendStops
  <2>4. QED
    BY <1>1, <2>2, <2>3
<1>2. QED
  BY <1>1 DEF CancelInv

\* Starts, stops and deletes on their way into the command queue.
LEMMA SendersCancel ==
    ASSUME IInv, CancelInv, StartSend \/ CancelStop \/ CancelDelete \/ CallbackDelete
    PROVE  CancelInv'
<1> USE DEF Goto, Busy, list, service, ghosts
<1>1. UNCHANGED <<nextID, active, cancelled, cur>>
  BY DEF StartSend, CancelStop, CancelDelete, CancelSend, CallbackDelete
<1>2. CASE UNCHANGED <<commands, pc>>
  BY <1>1, <1>2, QuietCancel DEF CancelInv, GivenUp, IInv, Typed
<1>3. CASE StartSend /\ Send(<<"start", cur.main>>) /\ Goto("main", "link")
  <2>1. cur.main \in Ids /\ cur.main \notin cancelled /\ pc'.main = "link"
    BY <1>3 DEF StartSend, CancelInv, IInv, Typed
  <2>2. <<"start", cur.main>> \in Commands
        /\ \A i \in cancelled : <<"start", cur.main>> # <<"start", i>>
    BY <2>1 DEF Commands
  <2>3. QED
    BY <1>1, <1>3, <2>1, <2>2, SendCancel DEF GivenUp
<1>4. CASE CancelStop /\ Send(<<"stop", cur.main>>) /\ Goto("main", "delete")
  <2>1. cur.main \in Ids /\ pc'.main = "delete" /\ pc.main = "stop"
    BY <1>4 DEF CancelStop, CancelSend, IInv, Typed
  <2>2. <<"stop", cur.main>> \in Commands /\ <<"stop", cur.main>> \in Ends(cur.main)
        /\ \A i \in Ids : <<"stop", cur.main>> # <<"start", i>>
    BY <2>1 DEF Commands, Ends
  <2>3. QED
    BY <1>1, <1>4, <2>1, <2>2, SendCancel DEF GivenUp
<1>5. CASE CancelDelete /\ Send(<<"delete", cur.main>>) /\ Goto("main", "unlink")
  <2>1. cur.main \in Ids /\ pc'.main = "unlink" /\ pc.main = "delete"
    BY <1>5 DEF CancelDelete, CancelSend, IInv, Typed
  <2>2. <<"delete", cur.main>> \in Commands
        /\ \A i \in Ids : <<"delete", cur.main>> # <<"start", i>>
    BY <2>1 DEF Commands
  <2>3. QED
    BY <1>1, <1>5, <2>1, <2>2, SendCancel DEF GivenUp
<1>6. CASE CallbackDelete /\ Send(<<"delete", cur.daemon>>) /\ Goto("daemon", "drain")
  <2>1. cur.daemon \in Ids /\ pc'.main = pc.main
    BY <1>6 DEF CallbackDelete, IInv, Typed
  <2>2. <<"delete", cur.daemon>> \in Commands
        /\ \A i \in Ids : <<"delete", cur.daemon>> # <<"start", i>>
    BY <2>1 DEF Commands
  <2>3. QED
    BY <1>1, <1>6, <2>1, <2>2, SendCancel DEF GivenUp
<1>7. QED
  BY <1>2, <1>3, <1>4, <1>5, <1>6
     DEF StartSend, CancelStop, CancelDelete, CancelSend, CallbackDelete, WaitForRoom

\* The command the service takes is a given-up timer's stop, or its stop
\* stays behind.
LEMMA CommandCancel ==
    ASSUME IInv, CancelInv, DaemonCommand
    PROVE  CancelInv'
<1> DEFINE op == Head(commands)[1]
           n  == Head(commands)[2]
<1>1. commands # <<>> /\ commands \in Seq(Commands) /\ commands' = Tail(commands)
      /\ UNCHANGED <<nextID, cancelled>>
      /\ pc'.main = pc.main /\ cur'.main = cur.main
  BY DEF DaemonCommand, IInv, Typed, Callback, Goto, Busy
<1>2. op \in {"start", "stop", "delete"} /\ n \in Ids /\ Head(commands) = <<op, n>>
  BY <1>1, TailStarts DEF Commands
<1>3. active' = IF op = "start" /\ n \notin due THEN active \cup {n} ELSE active \ {n}
  BY DEF DaemonCommand, Callback
<1>4. ASSUME NEW i \in Ids, GivenUp(i), i \in active' \/ Starting(commands', i)
      PROVE  Stopping(commands', i)
  <2>1. i \in active \/ Starting(commands, i)
    <3>1. CASE Starting(commands', i)
      BY <1>1, <3>1, TailStarts
    <3>2. CASE i \in active' /\ i \notin active
      <4>1. Head(commands) = <<"start", i>>
        BY <1>2, <1>3, <3>2
      <4>2. QED
        BY <1>1, <4>1, TailStarts DEF Starting
    <3>3. QED
      BY <1>4, <3>1, <3>2
  <2>2. Stopping(commands, i)
    BY <1>4, <2>1 DEF CancelInv
  <2>3. CASE Head(commands) \in Ends(i) /\ ~Starting(commands', i)
    <3>1. op # "start" /\ n = i
      BY <1>2, <2>3 DEF Ends
    <3>2. QED
      BY <1>3, <1>4, <2>3, <3>1
  <2>4. QED
    BY <1>1, <2>2, <2>3, TailStops
<1>5. QED
  BY <1>1, <1>4 DEF CancelInv, GivenUp

\* The stop of a timer that was given up is in the queue in every behaviour.
LEMMA AlwaysCancel == Spec => []CancelInv
<1>1. Init => CancelInv
  BY EmptySeq DEF Init, CancelInv, GivenUp
<1>2. IInv /\ CancelInv /\ [Next]_vars => CancelInv'
  BY MainQuiet, ServiceQuiet, SendersCancel, CommandCancel DEF Next
<1>3. QED
  BY <1>1, <1>2, AlwaysIInv, PTL DEF Spec

\* A step that pushes an event of a timer does not have that timer's stop in
\* the queue and the timer counted down, when the tasks take turns.
LEMMA PushIsNotCancelled ==
    ASSUME IInv, TurnInv, CancelInv, [Next]_vars,
           NEW i \in active \cap cancelled
    PROVE  fired'[i] = fired[i]
<1>1. i \in Ids /\ fired \in [Ids -> Nat] /\ i <= nextID /\ nextID \in Nat /\ i \in Nat
  BY IdsAreNumbers DEF IInv, Typed, CancelInv
<1>2. Stopping(commands, i)
  BY <1>1 DEF CancelInv, GivenUp
<1>3. commands # <<>>
  BY <1>2, EmptySeq DEF Stopping
<1>4. CASE UNCHANGED fired
  BY <1>4
<1>5. CASE StartNow
  <2>1. fired' = [fired EXCEPT ![nextID + 1] = @ + 1] /\ i # nextID + 1
    BY <1>1, <1>5 DEF StartNow, PushTimer
  <2>2. QED
    BY <1>1, <2>1
<1>6. CASE DaemonCommand
  <2> DEFINE n == Head(commands)[2]
  <2>1. CASE fired' = [fired EXCEPT ![n] = @ + 1] /\ Head(commands)[1] = "start"
    <3>1. Head(commands) = <<"start", n>> /\ n \in Ids
      BY <1>3, <2>1, TailStarts DEF Commands, IInv, Typed
    <3>2. Starting(commands, n)
      BY <1>3, <3>1, TailStarts DEF Starting, IInv, Typed
    <3>3. n # i
      BY <3>2 DEF IInv, OneChance
    <3>4. QED
      BY <1>1, <2>1, <3>3
  <2>2. QED
    BY <1>4, <1>6, <2>1 DEF DaemonCommand, Callback, PushTimer
<1>7. CASE \E j \in Ids : DaemonExpire(j)
  BY <1>3, <1>7 DEF DaemonExpire, TurnInv
<1>8. CASE \/ StartTimer
           \/ StartSend
           \/ StartLink
           \/ \E j \in Ids : CancelTimer(j)
           \/ CancelStop
           \/ CancelDelete
           \/ CancelUnlink
           \/ Pull
           \/ Pulled
  BY <1>4, <1>8 DEF StartTimer, StartSend, StartLink, CancelTimer, CancelStop,
                    CancelDelete, CancelSend, CancelUnlink, Pull, Pulled, ghosts
<1>9. CASE \/ DaemonWait
           \/ DaemonWoken
           \/ DaemonDrained
           \/ CallbackUnlink
           \/ CallbackDelete
           \/ \E t \in {"main", "daemon"} : Schedule(t)
           \/ \E j \in Ids : Elapse(j)
           \/ UNCHANGED vars
  BY <1>4, <1>9 DEF DaemonWait, DaemonWoken, DaemonDrained, CallbackUnlink,
                    CallbackDelete, Schedule, Elapse, vars, ghosts
<1>10. QED
  BY <1>5, <1>6, <1>7, <1>8, <1>9 DEF Next

\* Without overlap the cancel of a running timer is final, for any number of
\* timers and queues of any length: whatever waits in the command queue, the
\* daemon takes the stop before it looks at the clock (os_cancelTimer).
THEOREM CancelIsKept == ~Overlap => (Spec => CancelStopsActive)
<1>1. IInv /\ TurnInv /\ CancelInv /\ [Next]_vars
        => [\A i \in active \cap cancelled : fired'[i] = fired[i]]_vars
  BY PushIsNotCancelled
<1>2. QED
  BY <1>1, AlwaysIInv, AlwaysTurns, AlwaysCancel, PTL DEF Spec, CancelStopsActive

-----------------------------------------------------------------------------
(* The walk of the list *)

\* The order of the numbers as the library has it.
LEMMA LessThan == OpToRel(<, Nat) = {ss \in Nat \X Nat : ss[1] < ss[2]}
BY DEF OpToRel

\* A set of numbers that is not empty has a least one.
LEMMA LeastNumber ==
    ASSUME NEW S \in SUBSET Nat, S # {}
    PROVE  \E m \in S : \A k \in S : m <= k
<1>1. IsWellFoundedOn({ss \in Nat \X Nat : ss[1] < ss[2]}, Nat)
  BY NatLessThanWellFounded, LessThan, Zenon
<1>2. PICK m \in S : \A k \in S : ~(<<k, m>> \in {ss \in Nat \X Nat : ss[1] < ss[2]})
  BY <1>1, WFMin, Zenon
<1>3. ASSUME NEW k \in S, k < m
      PROVE  FALSE
  <2>1. <<k, m>> \in {ss \in Nat \X Nat : ss[1] < ss[2]}
    BY <1>3
  <2>2. QED
    BY <1>2, <2>1
<1>4. QED
  BY <1>3

\* A walk of n steps from the head on.
IsWalk(w, n) ==
    w = [j \in 0..n |-> IF j = 0 THEN head
                        ELSE IF w[j-1] = NULL THEN NULL ELSE next[w[j-1]]]

\* There is a walk of every length.
LEMMA WalkThere == \A n \in Nat : \E w : IsWalk(w, n)
<1> DEFINE S == {n \in Nat : ~\E w : IsWalk(w, n)}
<1>1. ASSUME S # {} PROVE FALSE
  <2>1. PICK n \in S : \A k \in S : n <= k
    BY <1>1, LeastNumber
  <2>2. CASE n = 0
    <3>1. IsWalk([j \in 0..0 |-> head], 0)
      BY DEF IsWalk
    <3>2. QED
      BY <2>2, <3>1
  <2>3. CASE n # 0
    <3>1. n - 1 \in Nat /\ n - 1 \notin S
      BY <2>1, <2>3
    <3>2. PICK w : IsWalk(w, n - 1)
      BY <3>1
    <3> DEFINE v == [j \in 0..n |-> IF j \in 0..n - 1 THEN w[j]
                                    ELSE IF w[j-1] = NULL THEN NULL ELSE next[w[j-1]]]
    <3>3. ASSUME NEW j \in 0..n
          PROVE  v[j] = IF j = 0 THEN head ELSE IF v[j-1] = NULL THEN NULL ELSE next[v[j-1]]
      <4>1. \A k \in 0..n - 1 : w[k] = IF k = 0 THEN head
                        ELSE IF w[k-1] = NULL THEN NULL ELSE next[w[k-1]]
        BY <3>2 DEF IsWalk
      <4>2. \A k \in 0..n - 1 : v[k] = w[k]
        BY <3>1
      <4>3. CASE j \in 0..n - 1
        BY <4>1, <4>2, <4>3
      <4>4. CASE j = n
        <5>1. j - 1 \in 0..n - 1 /\ j \notin 0..n - 1 /\ j # 0
          BY <2>3, <4>4
        <5>2. QED
          BY <4>2, <5>1
      <4>5. QED
        BY <4>3, <4>4
    <3>4. IsWalk(v, n)
      BY <3>3 DEF IsWalk
    <3>5. QED
      BY <3>4
  <2>4. QED
    BY <2>2, <2>3
<1>2. QED
  BY <1>1

\* The steps of the walk, as far as it goes.
LEMMA NthStep ==
    /\ Nth[0] = head
    /\ \A k \in 1..MaxTimers : Nth[k] = IF Nth[k-1] = NULL THEN NULL ELSE next[Nth[k-1]]
<1> DEFINE w == CHOOSE w : IsWalk(w, MaxTimers)
<1>1. MaxTimers \in Nat
  BY BoundsAssumption
<1>2. IsWalk(w, MaxTimers)
  BY <1>1, WalkThere
<1>3. Nth = [k \in 0..MaxTimers |-> w[k]]
  BY DEF Nth, IsWalk
<1> HIDE DEF w
<1>4. \A k \in 0..MaxTimers : Nth[k] = w[k]
  BY <1>3
<1>5. \A k \in 0..MaxTimers :
        w[k] = IF k = 0 THEN head ELSE IF w[k-1] = NULL THEN NULL ELSE next[w[k-1]]
  BY <1>2 DEF IsWalk
<1>6. Nth[0] = head
  BY <1>1, <1>4, <1>5
<1>7. ASSUME NEW k \in 1..MaxTimers
      PROVE  Nth[k] = IF Nth[k-1] = NULL THEN NULL ELSE next[Nth[k-1]]
  <2>1. k \in 0..MaxTimers /\ k - 1 \in 0..MaxTimers /\ k # 0
    BY <1>1
  <2>2. QED
    BY <1>4, <1>5, <2>1
<1>8. QED
  BY <1>6, <1>7

\* A set that has the head and whatever follows one of its nodes has all the
\* nodes the walk comes to.
LEMMA WalkStays ==
    ASSUME NEW S, head \in S, NULL \in S, \A p \in S \ {NULL} : next[p] \in S
    PROVE  \A k \in 0..MaxTimers : Nth[k] \in S
<1> DEFINE B == {k \in 0..MaxTimers : Nth[k] \notin S}
<1>1. MaxTimers \in Nat
  BY BoundsAssumption
<1>2. ASSUME B # {} PROVE FALSE
  <2>1. PICK m \in B : \A k \in B : m <= k
    <3>1. B \in SUBSET Nat
      BY <1>1
    <3> HIDE DEF B
    <3>2. QED
      BY <1>2, <3>1, LeastNumber
  <2>2. m # 0
    BY <2>1, NthStep
  <2>3. m \in 1..MaxTimers /\ m - 1 \in 0..MaxTimers /\ m - 1 < m
    BY <1>1, <2>1, <2>2
  <2>4. Nth[m - 1] \in S
    BY <2>1, <2>3
  <2>5. Nth[m] \in S
    BY <2>3, <2>4, NthStep
  <2>6. QED
    BY <2>1, <2>5
<1>3. QED
  BY <1>2

\* The walk meets nodes, and the one before a node it meets.
LEMMA WalkTyped ==
    ASSUME head \in Pointers, next \in [Ids -> Pointers]
    PROVE  /\ \A k \in 0..MaxTimers : Nth[k] \in Pointers
           /\ Reachable \subseteq Ids
           /\ \A i \in Reachable : Before(i) \in Pointers
<1>1. MaxTimers \in Nat
  BY BoundsAssumption
<1>2. \A k \in 0..MaxTimers : Nth[k] \in Pointers
  BY WalkStays DEF Pointers
<1>3. ASSUME NEW i \in Reachable, Nth[0] # i
      PROVE  Before(i) \in Pointers
  <2> DEFINE B == {k \in 0..MaxTimers : Nth[k] = i}
  <2>1. PICK m \in B : \A k \in B : m <= k
    <3>1. B \in SUBSET Nat /\ B # {}
      BY <1>1 DEF Reachable
    <3> HIDE DEF B
    <3>2. QED
      BY <3>1, LeastNumber
  <2>2. m - 1 \in 0..MaxTimers - 1 /\ (m - 1) + 1 = m
    BY <1>1, <1>3, <2>1
  <2>3. Nth[(m - 1) + 1] = i /\ \A j \in 0..m - 1 : Nth[j] # i
    BY <1>1, <2>1, <2>2
  <2>4. PICK k \in 0..MaxTimers - 1 : Before(i) = Nth[k]
    BY <1>3, <2>2, <2>3 DEF Before
  <2>5. QED
    BY <1>1, <1>2, <2>4
<1>4. \A i : Nth[0] = i => Before(i) = NULL
  BY DEF Before
<1>5. Reachable \subseteq Ids
  BY <1>2 DEF Reachable, Pointers
<1>6. NULL \in Pointers
  BY DEF Pointers
<1>7. QED
  BY <1>2, <1>3, <1>4, <1>5, <1>6

-----------------------------------------------------------------------------
(* Types *)

\* What the types of a step rest on besides: the nodes the main task links
\* and unlinks.
TypeInv == TypeOK /\ (pc.main \in {"link", "unlink"} => cur.main \in Ids)

\* A queue that takes an event while it has room keeps within its length.
LEMMA PushTyped ==
    ASSUME TypeOK, NEW i \in Ids, PushTimer(i)
    PROVE  events' \in Seq(Ids) /\ Len(events') <= EventLen
<1>1. CASE Len(events) < EventLen
  <2>1. events' = Append(events, i) /\ events \in Seq(Ids)
    BY <1>1 DEF PushTimer, TypeOK
  <2>2. events' \in Seq(Ids) /\ Len(events') = Len(events) + 1
    BY <2>1, AppendProperties
  <2>3. Len(events) \in Nat /\ EventLen \in Nat
    BY <2>1, LenProperties, BoundsAssumption
  <2>4. QED
    BY <1>1, <2>2, <2>3
<1>2. CASE ~(Len(events) < EventLen)
  BY <1>2 DEF PushTimer, TypeOK
<1>3. QED
  BY <1>1, <1>2

\* The unlinked list has nodes and pointers as before.
LEMMA UnlinkTyped ==
    ASSUME TypeOK, NEW i \in Ids, NEW p \in Pointers, Unlink(i, p)
    PROVE  /\ head' \in Pointers /\ tail' \in Pointers
           /\ next' \in [Ids -> Pointers] /\ nodes' \subseteq Ids
BY DEF TypeOK, Unlink, Pointers, NULL

\* Sending leaves the command queue within its length.
LEMMA SendTyped ==
    ASSUME TypeOK, NEW c \in Commands, Send(c)
    PROVE  commands' \in Seq(Commands) /\ Len(commands') <= CommandLen
<1>1. commands' \in Seq(Commands) /\ Len(commands') = Len(commands) + 1
      /\ Len(commands) \in Nat
  BY AppendProperties, LenProperties DEF Send, TypeOK
<1>2. QED
  BY <1>1, BoundsAssumption DEF Send, Room

\* The steps of the main task keep the types.
LEMMA MainTyped ==
    ASSUME IInv, IInv', TypeInv,
           \/ StartTimer
           \/ StartNow
           \/ StartSend
           \/ StartLink
           \/ \E i \in Ids : CancelTimer(i)
           \/ CancelStop
           \/ CancelDelete
           \/ CancelUnlink
           \/ Pull
           \/ Pulled
    PROVE  TypeInv'
<1> USE DEF TypeInv, TypeOK, Goto, Busy, list, service, ghosts
<1>0. pc' \in [main : {"run", "start", "link", "stop", "delete", "unlink", "pull"},
               daemon : {"wait", "drain", "check", "find", "delete"}]
      /\ cur' \in [main : Pointers, daemon : Pointers]
      /\ fired' \in [Ids -> Nat] /\ active' \subseteq Ids
  BY DEF IInv, Typed
<1>1. CASE StartTimer
  <2>1. nextID + 1 \in Ids /\ nextID + 1 \in 0..MaxTimers
    BY <1>1, IdsAreNumbers, BoundsAssumption DEF StartTimer
  <2>2. QED
    BY <1>0, <1>1, <2>1 DEF StartTimer
<1>2. CASE StartNow
  <2>1. nextID + 1 \in Ids /\ nextID + 1 \in 0..MaxTimers
    BY <1>2, IdsAreNumbers, BoundsAssumption DEF StartNow
  <2>2. events' \in Seq(Ids) /\ Len(events') <= EventLen
    BY <1>2, <2>1, PushTyped DEF StartNow
  <2>3. QED
    BY <1>0, <1>2, <2>1, <2>2 DEF StartNow
<1>3. CASE StartSend \/ CancelStop \/ CancelDelete
  <2>1. cur.main \in Ids /\ pc.main \in {"start", "stop", "delete"}
    BY <1>3 DEF StartSend, CancelStop, CancelDelete, CancelSend, IInv, Typed
  <2>2. \/ \E op \in {"start", "stop", "delete"} : Send(<<op, cur.main>>)
        \/ commands' = commands
    BY <1>3 DEF StartSend, CancelStop, CancelDelete, CancelSend, WaitForRoom
  <2>3. commands' \in Seq(Commands) /\ Len(commands') <= CommandLen
    BY <2>1, <2>2, SendTyped DEF Commands
  <2>4. /\ UNCHANGED <<nextID, list, service, events, cur, last, cancelled, fired>>
        /\ onCore' \subseteq onCore /\ fault' \in BOOLEAN /\ stalled' \in BOOLEAN
    BY <1>3 DEF StartSend, CancelStop, CancelDelete, CancelSend, WaitForRoom
  <2>5. QED
    BY <1>0, <2>1, <2>3, <2>4
<1>4. CASE StartLink
  <2>1. cur.main \in Ids /\ pc.main = "link" /\ pc'.main = "run"
    BY <1>4 DEF StartLink
  <2>2. /\ head' \in Pointers /\ tail' \in Pointers
        /\ next' \in [Ids -> Pointers] /\ nodes' \subseteq Ids
    BY <1>4, <2>1 DEF StartLink, Link, Pointers, NULL
  <2>3. QED
    BY <1>0, <1>4, <2>1, <2>2 DEF StartLink
<1>5. CASE \E i \in Ids : CancelTimer(i)
  <2>1. PICK i \in Ids : CancelTimer(i)
    BY <1>5
  <2>2. Before(i) \in Pointers
    BY <2>1, WalkTyped DEF CancelTimer
  <2>3. QED
    BY <1>0, <2>1, <2>2 DEF CancelTimer
<1>6. CASE CancelUnlink
  <2>1. cur.main \in Ids /\ pc'.main = "run"
    BY <1>6 DEF CancelUnlink
  <2>2. /\ head' \in Pointers /\ tail' \in Pointers
        /\ next' \in [Ids -> Pointers] /\ nodes' \subseteq Ids
    BY <1>6, <2>1, UnlinkTyped DEF CancelUnlink
  <2>3. QED
    BY <1>0, <1>6, <2>1, <2>2 DEF CancelUnlink
<1>7. CASE Pull
  BY <1>0, <1>7 DEF Pull
<1>8. CASE Pulled
  <2>1. events' \in Seq(Ids) /\ Len(events') = Len(events) - 1 /\ Len(events) \in Nat
    BY <1>8, HeadTailProperties, LenProperties DEF Pulled
  <2>2. Len(events') <= EventLen
    BY <2>1, BoundsAssumption
  <2>3. QED
    BY <1>0, <1>8, <2>1, <2>2 DEF Pulled
<1>9. QED
  BY <1>1, <1>2, <1>3, <1>4, <1>5, <1>6, <1>7, <1>8

\* The steps of the timer service, the kernel and the clock keep the types.
LEMMA ServiceTyped ==
    ASSUME IInv, IInv', TypeInv,
           \/ DaemonWait
           \/ DaemonWoken
           \/ DaemonDrained
           \/ DaemonCommand
           \/ \E i \in Ids : DaemonExpire(i)
           \/ CallbackUnlink
           \/ CallbackDelete
           \/ \E t \in {"main", "daemon"} : Schedule(t)
           \/ \E i \in Ids : Elapse(i)
           \/ UNCHANGED vars
    PROVE  TypeInv'
<1> USE DEF TypeInv, TypeOK, Goto, Busy, list, service, ghosts
<1>0. pc' \in [main : {"run", "start", "link", "stop", "delete", "unlink", "pull"},
               daemon : {"wait", "drain", "check", "find", "delete"}]
      /\ cur' \in [main : Pointers, daemon : Pointers]
      /\ fired' \in [Ids -> Nat] /\ active' \subseteq Ids
  BY DEF IInv, Typed
<1>1. CASE DaemonWait \/ DaemonWoken \/ DaemonDrained
  BY <1>0, <1>1 DEF DaemonWait, DaemonWoken, DaemonDrained
<1>2. CASE DaemonCommand
  <2>1. commands # <<>> /\ commands' = Tail(commands)
        /\ UNCHANGED <<nextID, list, due, last, onCore, stalled, cancelled>>
        /\ pc'.main = pc.main /\ cur'.main = cur.main
        /\ objects' \subseteq Ids /\ fault' \in BOOLEAN
    BY <1>2 DEF DaemonCommand, Callback
  <2>2. commands' \in Seq(Commands) /\ Len(commands') = Len(commands) - 1
        /\ Len(commands) \in Nat /\ Head(commands) \in Commands
    BY <2>1, HeadTailProperties, LenProperties
  <2>3. Head(commands)[2] \in Ids
    BY <2>2 DEF Commands
  <2>4. events' = events \/ PushTimer(Head(commands)[2])
    BY <1>2 DEF DaemonCommand, Callback
  <2>5. events' \in Seq(Ids) /\ Len(events') <= EventLen
    BY <2>3, <2>4, PushTyped
  <2>6. Len(commands') <= CommandLen
    BY <2>2, BoundsAssumption
  <2>7. QED
    BY <1>0, <2>1, <2>2, <2>5, <2>6
<1>3. CASE \E i \in Ids : DaemonExpire(i)
  <2>1. PICK i \in Ids : DaemonExpire(i)
    BY <1>3
  <2>2. events' \in Seq(Ids) /\ Len(events') <= EventLen
    BY <2>1, PushTyped DEF DaemonExpire, Callback
  <2>3. pc'.main = pc.main /\ cur'.main = cur.main
        /\ UNCHANGED <<nextID, list, objects, due, commands, last, onCore, fault,
                       stalled, cancelled>>
    BY <2>1 DEF DaemonExpire, Callback
  <2>4. QED
    BY <1>0, <2>2, <2>3
<1>4. CASE CallbackUnlink
  <2>1. /\ head' \in Pointers /\ tail' \in Pointers
        /\ next' \in [Ids -> Pointers] /\ nodes' \subseteq Ids
    BY <1>4, WalkTyped, UnlinkTyped DEF CallbackUnlink
  <2>2. pc'.main = pc.main
    BY <1>4 DEF CallbackUnlink
  <2>3. QED
    BY <1>0, <1>4, <2>1, <2>2 DEF CallbackUnlink
<1>5. CASE CallbackDelete
  <2>1. cur.daemon \in Ids
    BY <1>5 DEF CallbackDelete, IInv, Typed
  <2>2. commands' \in Seq(Commands) /\ Len(commands') <= CommandLen
    BY <1>5, <2>1, SendTyped DEF CallbackDelete, WaitForRoom, Commands
  <2>3. onCore' \subseteq onCore /\ pc'.main = pc.main
    BY <1>5 DEF CallbackDelete, WaitForRoom
  <2>4. QED
    BY <1>0, <1>5, <2>2, <2>3 DEF CallbackDelete
<1>6. CASE (\E t \in {"main", "daemon"} : Schedule(t)) \/ (\E i \in Ids : Elapse(i))
      \/ UNCHANGED vars
  BY <1>0, <1>6 DEF Schedule, Elapse, vars
<1>7. QED
  BY <1>1, <1>2, <1>3, <1>4, <1>5, <1>6

\* The types hold in every behaviour.
LEMMA AlwaysTyped == Spec => []TypeInv
<1>1. Init => TypeInv
  <2> SUFFICES ASSUME Init PROVE TypeInv
    OBVIOUS
  <2>1. Len(commands) = 0 /\ Len(events) = 0 /\ commands \in Seq(Commands)
        /\ events \in Seq(Ids)
    BY EmptySeq DEF Init
  <2>2. /\ pc \in [main : {"run", "start", "link", "stop", "delete", "unlink", "pull"},
                  daemon : {"wait", "drain", "check", "find", "delete"}]
        /\ cur \in [main : Pointers, daemon : Pointers] /\ last \in Pointers
        /\ pc.main = "run"
    BY DEF Init, Pointers
  <2>3. /\ nextID \in 0..MaxTimers /\ head \in Pointers /\ tail \in Pointers
        /\ next \in [Ids -> Pointers] /\ fired \in [Ids -> Nat]
        /\ Len(commands) <= CommandLen /\ Len(events) <= EventLen
    BY <2>1, BoundsAssumption DEF Init, Pointers
  <2>4. QED
    BY <2>1, <2>2, <2>3 DEF Init, TypeInv, TypeOK
<1>2. IInv /\ IInv' /\ TypeInv /\ [Next]_vars => TypeInv'
  BY MainTyped, ServiceTyped DEF Next
<1>3. QED
  BY <1>1, <1>2, AlwaysIInv, PTL DEF Spec

\* Types and the lengths of both queues, for any number of timers and any
\* overlap of the tasks.
THEOREM TimersTyped == Spec => []TypeOK
<1>1. TypeInv => TypeOK
  BY DEF TypeInv
<1>2. QED
  BY <1>1, AlwaysTyped, PTL

-----------------------------------------------------------------------------
(* The list has one or two nodes: the tail is never moved to a node that is *)
(* appended, so the third one takes the place of the second.                *)

CancelPoints == {"stop", "delete", "unlink"}
Second == next[head]

ListShape ==
    /\ head \in nodes \cup {NULL} /\ tail \in {NULL, head}
    /\ head # NULL =>
         \/ Second = NULL
         \/ tail = head /\ Second \in nodes \ {head} /\ next[Second] = NULL

\* Nodes are of timers that were made, and the newest one is in the list.
NodesKnown ==
    /\ \A i \in nodes : i <= nextID
    /\ pc.main \in {"start", "link"} => cur.main = nextID /\ nextID \notin nodes
    /\ pc.main \notin {"start", "link"} /\ nextID \in nodes
         => head # NULL /\ nextID \in {head, Second}

\* While neither is freed, the node os_cancelTimer found and the one before
\* it are where it found them.
CancelKnows ==
    pc.main \in CancelPoints /\ cur.main \in nodes /\ last \in nodes \cup {NULL} =>
       /\ head # NULL
       /\ last = NULL => head = cur.main
       /\ last # NULL => last = head /\ cur.main = Second

ListInv == ~fault => ListShape /\ NodesKnown /\ CancelKnows

\* What the walk finds in a list of one or two nodes.
LEMMA ShortList ==
    ASSUME TypeOK, ListShape
    PROVE  /\ Reachable = IF head = NULL THEN {} ELSE {head, Second} \ {NULL}
           /\ Reachable \subseteq nodes
           /\ \A i \in Reachable : Before(i) = IF head = i THEN NULL ELSE head
<1> DEFINE S == {NULL} \cup IF head = NULL THEN {} ELSE {head, Second}
<1>1. \A k \in 0..MaxTimers : Nth[k] \in S
  <2>1. head \in S /\ NULL \in S
    OBVIOUS
  <2>2. \A p \in S \ {NULL} : next[p] \in S
    BY DEF ListShape, Second
  <2> HIDE DEF S
  <2>3. QED
    BY <2>1, <2>2, WalkStays
<1>2. MaxTimers \in Nat /\ Nth[0] = head
  BY BoundsAssumption, NthStep
<1>3. head # NULL => 1 \in 0..MaxTimers /\ Nth[1] = Second
  <2>1. head # NULL => 1 \in 1..MaxTimers
    BY <1>2 DEF TypeOK, Pointers, Ids
  <2>2. 1 \in 1..MaxTimers => Nth[1] = IF Nth[1 - 1] = NULL THEN NULL ELSE next[Nth[1 - 1]]
    BY NthStep
  <2>3. 1 - 1 = 0
    OBVIOUS
  <2>4. QED
    BY <1>2, <2>1, <2>2, <2>3 DEF Second
<1>4. Reachable = IF head = NULL THEN {} ELSE {head, Second} \ {NULL}
  <2>1. 0 \in 0..MaxTimers
    BY <1>2
  <2>2. QED
    BY <1>1, <1>2, <1>3, <2>1 DEF Reachable
<1>5. ASSUME NEW i \in Reachable, head # i
      PROVE  Before(i) = head
  <2>1. i = Second /\ head # NULL
    BY <1>4, <1>5
  <2>2. 0 \in 0..MaxTimers - 1 /\ 0 + 1 = 1 /\ Nth[0 + 1] = i /\ \A j \in 0..0 : Nth[j] # i
    BY <1>2, <1>3, <1>5, <2>1
  <2>3. \A k \in 0..MaxTimers - 1 : (\A j \in 0..k : Nth[j] # i) => k = 0
    BY <1>2, <1>3, <2>1
  <2>4. (CHOOSE k \in 0..MaxTimers - 1 :
           Nth[k + 1] = i /\ \A j \in 0..k : Nth[j] # i) = 0
    BY <2>2, <2>3
  <2>5. QED
    BY <1>2, <1>5, <2>4 DEF Before
<1>6. \A i \in Reachable : head = i => Before(i) = NULL
  BY <1>2 DEF Before
<1>7. QED
  BY <1>4, <1>5, <1>6 DEF ListShape

\* Taking out a node that was found behind p leaves a list of that shape,
\* with the other node.
LEMMA UnlinkShape ==
    ASSUME TypeOK, ListShape, head # NULL, NEW i \in {head, Second} \ {NULL},
           NEW p, p = IF head = i THEN NULL ELSE head, Unlink(i, p)
    PROVE  /\ ListShape' /\ nodes' = nodes \ {i}
           /\ \A n \in {head, Second} \ {NULL, i} : head' # NULL /\ n \in {head', Second'}
           /\ i # head => head' = head
<1> USE DEF ListShape, Second, Unlink
<1>1. head \in Ids /\ next \in [Ids -> Pointers] /\ NULL \notin Ids /\ nodes \subseteq Ids
  BY DEF TypeOK, Pointers, NULL, Ids
<1>2. CASE i = head
  <2>1. next' = next /\ head' = Second /\ tail' = NULL
    BY <1>2
  <2>2. QED
    BY <1>1, <1>2, <2>1
<1>3. CASE i # head
  <2>1. i = Second /\ p = head /\ tail' = tail /\ head' = head
        /\ next' = [next EXCEPT ![head] = next[Second]]
    BY <1>1, <1>3
  <2>2. next[Second] = NULL /\ Second \in nodes \ {head}
    BY <2>1
  <2>3. Second' = NULL
    BY <1>1, <2>1, <2>2
  <2>4. QED
    BY <1>1, <2>1, <2>2, <2>3
<1>4. QED
  BY <1>2, <1>3

\* A step that leaves the list alone.
LEMMA QuietList ==
    ASSUME ListInv, ~fault, UNCHANGED <<list, nextID>>,
           pc'.main \in {"start", "link"} => pc.main \in {"start", "link"},
           pc.main \in {"start", "link"} => pc'.main \in {"start", "link"},
           pc'.main \in CancelPoints => pc.main \in CancelPoints,
           cur'.main = cur.main, last' = last
    PROVE  ListInv'
BY DEF ListInv, ListShape, NodesKnown, CancelKnows, Second, list, CancelPoints

\* os_startTimer: the new node is the head, or the second one.
LEMMA StartList ==
    ASSUME TypeInv, ListInv, StartTimer \/ StartNow \/ StartLink
    PROVE  ListInv'
<1> USE DEF ListInv, Goto, Busy, list, On
<1>0. nextID \in Nat /\ nodes \subseteq Ids /\ Ids \subseteq Nat
  BY BoundsAssumption DEF TypeInv, TypeOK, Ids
<1>1. CASE StartTimer
  <2>1. pc'.main = "start" /\ cur'.main = nextID + 1 /\ nextID' = nextID + 1
        /\ UNCHANGED list /\ ~fault
    BY <1>1 DEF StartTimer, TypeInv, TypeOK
  <2>2. NodesKnown'
    BY <1>0, <2>1 DEF NodesKnown
  <2>3. QED
    BY <2>1, <2>2 DEF ListShape, Second, CancelKnows, CancelPoints
<1>2. CASE StartNow
  <2>1. pc'.main = "run" /\ nextID' = nextID + 1 /\ UNCHANGED list /\ ~fault
        /\ pc.main = "run"
    BY <1>2 DEF StartNow, TypeInv, TypeOK
  <2>2. NodesKnown'
    BY <1>0, <2>1 DEF NodesKnown
  <2>3. QED
    BY <2>1, <2>2 DEF ListShape, Second, CancelKnows, CancelPoints
<1>3. CASE StartLink
  <2> DEFINE i == cur.main
  <2>1. /\ pc.main = "link" /\ pc'.main = "run" /\ ~fault /\ i \in Ids
        /\ i = nextID /\ i \notin nodes /\ nextID' = nextID
        /\ Link(i) /\ ListShape /\ i # NULL
    BY <1>3 DEF StartLink, TypeInv, TypeOK, NodesKnown, Ids, NULL
  <2>2. /\ next \in [Ids -> Pointers] /\ nodes' = nodes \cup {i}
        /\ head \in Pointers /\ NULL \notin Ids
    BY <2>1 DEF TypeInv, TypeOK, Link, Ids, NULL
  <2>3. CASE tail # NULL
    <3>1. tail = head /\ head \in nodes /\ head \in Ids /\ head # i
      BY <1>0, <2>1, <2>3 DEF ListShape
    <3>2. head' = head /\ tail' = tail /\ next'[head] = i /\ next'[i] = NULL
      BY <2>1, <2>2, <2>3, <3>1 DEF Link
    <3>3. QED
      BY <1>0, <2>1, <2>2, <2>3, <3>1, <3>2
         DEF ListShape, NodesKnown, CancelKnows, CancelPoints, Second
  <2>4. CASE tail = NULL
    <3>1. head' = i /\ tail' = i /\ next'[i] = NULL
      BY <2>1, <2>2, <2>4 DEF Link
    <3>2. QED
      BY <1>0, <2>1, <2>2, <3>1 DEF ListShape, NodesKnown, CancelKnows, CancelPoints, Second
  <2>5. QED
    BY <2>3, <2>4
<1>4. QED
  BY <1>1, <1>2, <1>3

\* os_cancelTimer: the node it takes out is the one it found, while that one
\* and the one before it are there.
LEMMA CancelList ==
    ASSUME TypeInv, ListInv,
           \/ \E i \in Ids : CancelTimer(i)
           \/ CancelStop
           \/ CancelDelete
           \/ CancelUnlink
    PROVE  ListInv'
<1> USE DEF Goto, Busy, On, TypeInv
<1>1. CASE \E i \in Ids : CancelTimer(i)
  <2>1. PICK i \in Ids : CancelTimer(i)
    BY <1>1
  <2>2. /\ i \in Reachable /\ last' = Before(i) /\ cur'.main = i /\ pc'.main = "stop"
        /\ UNCHANGED <<list, nextID>> /\ ~fault /\ pc.main = "run"
    BY <2>1 DEF CancelTimer, TypeOK
  <2>3. ListShape /\ NodesKnown
    BY <2>2 DEF ListInv
  <2>4. CancelKnows'
    BY <2>2, <2>3, ShortList DEF CancelKnows, Second, list
  <2>5. ListShape' /\ NodesKnown'
    BY <2>2, <2>3 DEF ListShape, NodesKnown, Second, list
  <2>6. QED
    BY <2>4, <2>5 DEF ListInv
<1>2. CASE CancelStop \/ CancelDelete
  <2>1. /\ UNCHANGED <<list, nextID, cur, last>> /\ ~fault
        /\ pc.main \in CancelPoints /\ pc'.main \in CancelPoints
    BY <1>2 DEF CancelStop, CancelDelete, CancelSend, CancelPoints, TypeOK
  <2>2. QED
    BY <2>1, QuietList DEF CancelPoints
<1>3. CASE CancelUnlink
  <2> SUFFICES ASSUME ~fault' PROVE ListInv'
    BY DEF ListInv
  <2>1. /\ cur.main \in nodes /\ last \in nodes \cup {NULL} /\ pc.main = "unlink"
        /\ pc'.main = "run" /\ ~fault /\ Unlink(cur.main, last) /\ nextID' = nextID
    BY <1>3 DEF CancelUnlink, TypeOK
  <2>2. /\ ListShape /\ NodesKnown /\ head # NULL
        /\ cur.main \in {head, Second} /\ last = IF head = cur.main THEN NULL ELSE head
    <3>1. ListShape /\ NodesKnown /\ CancelKnows
      BY <2>1 DEF ListInv
    <3>2. /\ head # NULL
          /\ last = NULL => head = cur.main
          /\ last # NULL => last = head /\ cur.main = Second
      BY <2>1, <3>1 DEF CancelKnows, CancelPoints
    <3>3. last # NULL => head # cur.main
      BY <2>1, <3>1, <3>2 DEF ListShape, TypeOK, Ids, NULL
    <3>4. QED
      BY <3>1, <3>2, <3>3
  <2>3. cur.main # NULL
    BY <2>1 DEF TypeOK, Ids, NULL
  <2>4. /\ ListShape' /\ nodes' = nodes \ {cur.main}
        /\ \A n \in {head, Second} \ {NULL, cur.main} : head' # NULL /\ n \in {head', Second'}
    BY <2>1, <2>2, <2>3, UnlinkShape
  <2>5. NodesKnown'
    BY <2>1, <2>2, <2>4 DEF NodesKnown, TypeOK, Ids, NULL
  <2>6. QED
    BY <2>1, <2>4, <2>5 DEF ListInv, CancelKnows, CancelPoints
<1>4. QED
  BY <1>1, <1>2, <1>3

\* The callback takes its node out; a node or its neighbour that the main
\* task holds stays where it is, or is the one that is freed.
LEMMA CallbackList ==
    ASSUME TypeInv, ListInv, CallbackUnlink
    PROVE  ListInv'
<1> USE DEF Goto, Busy, On, TypeInv
<1>1. /\ ~fault /\ pc'.main = pc.main /\ UNCHANGED <<nextID, cur, last>>
      /\ ListShape /\ NodesKnown /\ CancelKnows
  BY DEF CallbackUnlink, ListInv, TypeOK
<1>2. CASE cur.daemon \notin Reachable
  <2>1. UNCHANGED list
    BY <1>2 DEF CallbackUnlink
  <2>2. QED
    BY <1>1, <2>1, QuietList
<1>3. CASE cur.daemon \in Reachable
  <2> DEFINE d == cur.daemon
             p == IF head = d THEN NULL ELSE head
  <2>1. head # NULL /\ d \in {head, Second} \ {NULL} /\ Before(d) = p /\ Unlink(d, p)
    BY <1>1, <1>3, ShortList DEF CallbackUnlink
  <2>2. /\ ListShape' /\ nodes' = nodes \ {d}
        /\ \A n \in {head, Second} \ {NULL, d} : head' # NULL /\ n \in {head', Second'}
        /\ d # head => head' = head
    BY <1>1, <2>1, UnlinkShape
  <2>3. NodesKnown'
    <3>1. nodes' \subseteq nodes /\ NULL \notin nodes /\ d \notin nodes'
      BY <2>2 DEF TypeOK, Ids, NULL
    <3>2. /\ pc.main \in {"start", "link"} => cur.main = nextID /\ nextID \notin nodes
          /\ pc.main \notin {"start", "link"} /\ nextID \in nodes
               => nextID \in {head, Second}
          /\ \A i \in nodes : i <= nextID
      BY <1>1 DEF NodesKnown
    <3>3. ASSUME pc.main \notin {"start", "link"}, nextID \in nodes'
          PROVE  head' # NULL /\ nextID \in {head', Second'}
      BY <2>2, <3>1, <3>2, <3>3
    <3>4. QED
      BY <1>1, <3>1, <3>2, <3>3 DEF NodesKnown
  <2>4. CancelKnows'
    <3> SUFFICES ASSUME pc.main \in CancelPoints, cur.main \in nodes',
                        last \in nodes' \cup {NULL}
                 PROVE  head' # NULL /\ last = NULL /\ head' = cur.main
      BY <1>1 DEF CancelKnows
    <3>1. /\ head # NULL
          /\ last = NULL => head = cur.main
          /\ last # NULL => last = head /\ cur.main = Second
      BY <1>1, <2>2 DEF CancelKnows
    <3>2. cur.main # d /\ last # d
      BY <2>1, <2>2
    <3>3. QED
      BY <2>1, <2>2, <3>1, <3>2
  <2>5. QED
    BY <2>2, <2>3, <2>4 DEF ListInv
<1>4. QED
  BY <1>2, <1>3

\* The list keeps its shape in every behaviour, while no freed memory is used.
LEMMA AlwaysList == Spec => []ListInv
<1>1. Init => ListInv
  BY DEF Init, ListInv, ListShape, NodesKnown, CancelKnows, CancelPoints
<1>2. TypeInv /\ ListInv /\ [Next]_vars => ListInv'
  <2> SUFFICES ASSUME TypeInv, ListInv, [Next]_vars PROVE ListInv'
    OBVIOUS
  <2> USE DEF Goto, Busy, On, TypeInv, TypeOK
  <2>1. CASE StartTimer \/ StartNow \/ StartLink
    BY <2>1, StartList
  <2>2. CASE (\E i \in Ids : CancelTimer(i)) \/ CancelStop \/ CancelDelete \/ CancelUnlink
    BY <2>2, CancelList
  <2>3. CASE CallbackUnlink
    BY <2>3, CallbackList
  <2>4. CASE StartSend \/ Pull \/ Pulled
    BY <2>4, QuietList DEF StartSend, WaitForRoom, Pull, Pulled, CancelPoints
  <2>5. CASE DaemonCommand
    <3>1. ~fault /\ UNCHANGED <<list, nextID, last>> /\ pc'.main = pc.main
          /\ cur'.main = cur.main
      BY <2>5 DEF DaemonCommand, Callback
    <3>2. QED
      BY <3>1, QuietList
  <2>6. CASE \/ DaemonWait
             \/ DaemonWoken
             \/ DaemonDrained
             \/ \E i \in Ids : DaemonExpire(i)
             \/ CallbackDelete
             \/ \E t \in {"main", "daemon"} : Schedule(t)
             \/ \E i \in Ids : Elapse(i)
    <3>1. ~fault /\ UNCHANGED <<list, nextID, last>> /\ pc'.main = pc.main
          /\ cur'.main = cur.main
      BY <2>6 DEF DaemonWait, DaemonWoken, DaemonDrained, DaemonExpire, Callback,
                  CallbackDelete, WaitForRoom, Schedule, Elapse
    <3>2. QED
      BY <3>1, QuietList
  <2>7. CASE UNCHANGED vars
    BY <2>7 DEF vars, ListInv, ListShape, NodesKnown, CancelKnows, Second
  <2>8. QED
    BY <2>1, <2>2, <2>3, <2>4, <2>5, <2>6, <2>7 DEF Next
<1>3. QED
  BY <1>1, <1>2, AlwaysTyped, PTL DEF Spec

\* os.cancelTimer finds the timer started last, however many there are and
\* whatever the other task did to the list in between (os_startTimer,
\* os_cancelTimer, the callback): a node that is lost is an older one.
THEOREM NewestIsFound == Spec => []NewestFound
<1>1. TypeInv /\ ListInv => NewestFound
  <2> SUFFICES ASSUME TypeInv, ListInv, On("main"), pc.main = "run", nextID \in nodes
               PROVE  nextID \in Reachable
    BY DEF NewestFound
  <2>1. TypeOK /\ ListShape /\ head # NULL /\ nextID \in {head, Second} \ {NULL}
    BY DEF TypeInv, TypeOK, ListInv, NodesKnown, On, Ids, NULL
  <2>2. QED
    BY <2>1, ShortList
<1>2. QED
  BY <1>1, AlwaysTyped, AlwaysList, PTL

-----------------------------------------------------------------------------
(* Memory is used while it is there, unless os_cancelTimer had to wait *)

\* A delete of timer i waits in the command queue s.
Deleted(s, i) == \E k \in DOMAIN s : s[k] = <<"delete", i>>

\* Nothing is sent to a timer behind its delete.
DeleteLast(s) ==
    \A i \in Ids : \A j, k \in DOMAIN s :
        s[j] = <<"delete", i>> /\ s[k][2] = i => k <= j

\* The object of timer i is there, and will be.
Live(i) == i \in objects /\ ~Deleted(commands, i)

\* The main task found its nodes and has not left the core since.
CancelHolds ==
    pc.main \in CancelPoints =>
        "main" \in onCore /\ cur.main \in nodes /\ last \in nodes \cup {NULL}

\* Every command is for an object that will be there.
QueueSafe ==
    /\ \A i \in objects : i <= nextID
    /\ \A k \in DOMAIN commands : commands[k][2] \in objects
    /\ DeleteLast(commands)

\* The object of a node goes only when the node is next to go, and whoever
\* means to send a command has a live one.
ObjectsLive ==
    /\ \A i \in nodes : Live(i) \/ (pc.main = "unlink" /\ cur.main = i)
    /\ pc.main \in {"start", "link"} => Live(cur.main)
    /\ pc.daemon = "delete" =>
         /\ Live(cur.daemon) /\ cur.daemon \notin nodes
         /\ pc.main \in {"start", "link"} => cur.main # cur.daemon

SafeInv == ~stalled => ~fault /\ CancelHolds /\ QueueSafe /\ ObjectsLive

\* A command sent to a timer that is not being deleted.
LEMMA AppendSafe ==
    ASSUME NEW s \in Seq(Commands), NEW op \in {"start", "stop", "delete"}, NEW i \in Ids,
           DeleteLast(s), ~Deleted(s, i), NEW O, i \in O, \A k \in DOMAIN s : s[k][2] \in O
    PROVE  LET u == Append(s, <<op, i>>)
           IN  /\ DeleteLast(u) /\ \A k \in DOMAIN u : u[k][2] \in O
               /\ \A j \in Ids : Deleted(u, j) <=> Deleted(s, j) \/ (op = "delete" /\ j = i)
<1>1. PICK m \in Nat, u \in Seq(Commands) :
        /\ u = Append(s, <<op, i>>)
        /\ DOMAIN s = 1..m /\ DOMAIN u = 1..m + 1
        /\ \A k \in 1..m : u[k] = s[k]
        /\ u[m + 1] = <<op, i>>
  <2> DEFINE c == <<op, i>>
             u == Append(s, c)
  <2>1. c \in Commands
    BY DEF Commands
  <2> HIDE DEF c
  <2>2. /\ u \in Seq(Commands) /\ Len(u) = Len(s) + 1
        /\ \A k \in 1..Len(s) : u[k] = s[k]
        /\ u[Len(s) + 1] = c
    BY <2>1, AppendProperties
  <2>3. Len(s) \in Nat /\ DOMAIN s = 1..Len(s) /\ DOMAIN u = 1..Len(u)
    BY <2>2, LenProperties
  <2>4. QED
    BY <2>2, <2>3 DEF c
<1>2. \A n \in DOMAIN u : \/ n \in DOMAIN s /\ u[n] = s[n]
                          \/ n = m + 1 /\ u[n] = <<op, i>>
  BY <1>1
<1>3. \A n \in DOMAIN s : n \in DOMAIN u /\ u[n] = s[n] /\ n <= m + 1
  BY <1>1
<1>4. m + 1 \in DOMAIN u /\ m + 1 \in Nat
  BY <1>1
<1>5. \A k \in DOMAIN u : u[k][2] \in O
  BY <1>2
<1>6. ASSUME NEW j \in Ids
      PROVE  Deleted(u, j) <=> Deleted(s, j) \/ (op = "delete" /\ j = i)
  <2>1. Deleted(u, j) => Deleted(s, j) \/ (op = "delete" /\ j = i)
    BY <1>2 DEF Deleted
  <2>2. Deleted(s, j) => Deleted(u, j)
    BY <1>3 DEF Deleted
  <2>3. op = "delete" /\ j = i => Deleted(u, j)
    BY <1>1, <1>4 DEF Deleted
  <2>4. QED
    BY <2>1, <2>2, <2>3
<1>7. ASSUME NEW n \in Ids, NEW j \in DOMAIN u, NEW k \in DOMAIN u,
             u[j] = <<"delete", n>>, u[k][2] = n
      PROVE  k <= j
  <2>1. CASE j = m + 1
    BY <1>2, <1>3, <1>4, <2>1
  <2>2. CASE j # m + 1
    <3>1. j \in DOMAIN s /\ s[j] = <<"delete", n>>
      BY <1>2, <1>7, <2>2
    <3>2. n # i
      BY <3>1 DEF Deleted
    <3>3. k \in DOMAIN s /\ s[k][2] = n
      BY <1>2, <1>7, <3>2
    <3>4. QED
      BY <3>1, <3>3 DEF DeleteLast
  <2>3. QED
    BY <2>1, <2>2
<1>8. QED
  BY <1>1, <1>5, <1>6, <1>7 DEF DeleteLast

\* The first command is taken: what is behind a delete is for other timers.
LEMMA TailSafe ==
    ASSUME NEW s \in Seq(Commands), s # <<>>, DeleteLast(s),
           NEW O, \A k \in DOMAIN s : s[k][2] \in O
    PROVE  /\ Head(s) \in Commands /\ Head(s)[2] \in O
           /\ DeleteLast(Tail(s))
           /\ \A k \in DOMAIN Tail(s) :
                /\ Tail(s)[k][2] \in O
                /\ Head(s)[1] = "delete" => Tail(s)[k][2] # Head(s)[2]
           /\ \A j \in Ids : Deleted(Tail(s), j) => Deleted(s, j)
           /\ Head(s)[1] = "delete" => Deleted(s, Head(s)[2])
<1>1. /\ Tail(s) \in Seq(Commands) /\ Head(s) \in Commands
      /\ Head(s) = s[1] /\ 1 \in DOMAIN s
      /\ \A k \in DOMAIN Tail(s) :
           k \in Nat \ {0} /\ k + 1 \in DOMAIN s /\ Tail(s)[k] = s[k + 1]
  BY TailStarts
<1>2. ASSUME NEW n \in Ids, NEW j \in DOMAIN Tail(s), NEW k \in DOMAIN Tail(s),
             Tail(s)[j] = <<"delete", n>>, Tail(s)[k][2] = n
      PROVE  k <= j
  <2>1. k + 1 <= j + 1
    BY <1>1, <1>2 DEF DeleteLast
  <2>2. QED
    BY <1>1, <2>1
<1>3. Head(s)[1] = "delete" => s[1] = <<"delete", Head(s)[2]>> /\ Head(s)[2] \in Ids
  BY <1>1 DEF Commands
<1>4. ASSUME NEW k \in DOMAIN Tail(s), Head(s)[1] = "delete",
             Tail(s)[k][2] = Head(s)[2]
      PROVE  FALSE
  <2>1. k + 1 <= 1
    BY <1>1, <1>3, <1>4 DEF DeleteLast
  <2>2. QED
    BY <1>1, <2>1
<1>5. \A j \in Ids : Deleted(Tail(s), j) => Deleted(s, j)
  BY <1>1 DEF Deleted
<1>6. DeleteLast(Tail(s))
  BY <1>2 DEF DeleteLast
<1>7. Head(s)[1] = "delete" => Deleted(s, Head(s)[2])
  BY <1>1, <1>3 DEF Deleted
<1>8. QED
  BY <1>1, <1>4, <1>5, <1>6, <1>7

\* What a step starts from: the tasks take turns, so the one that does not
\* run is where the invariant leaves it.
SafeStep == TypeInv /\ TurnInv /\ ListInv /\ SafeInv /\ ~stalled /\ ~fault

\* A step that leaves objects, commands and the list alone.
LEMMA QuietSafe ==
    ASSUME SafeStep, UNCHANGED <<objects, commands, nodes, nextID, fault>>,
           pc'.main \in CancelPoints => /\ "main" \in onCore' /\ cur'.main \in nodes
                                        /\ last' \in nodes \cup {NULL},
           pc'.main \in {"start", "link"}
             => pc.main \in {"start", "link"} /\ cur'.main = cur.main,
           pc.main = "unlink" => pc'.main = "unlink" /\ cur'.main = cur.main,
           pc'.daemon = "delete" => pc.daemon = "delete" /\ cur'.daemon = cur.daemon
    PROVE  SafeInv'
<1>1. QueueSafe'
  BY DEF SafeStep, SafeInv, QueueSafe
<1>2. \A i : Live(i)' = Live(i)
  BY DEF Live
<1>3. ObjectsLive'
  BY <1>2 DEF SafeStep, SafeInv, ObjectsLive
<1>4. QED
  BY <1>1, <1>3 DEF SafeStep, SafeInv, CancelHolds

\* A command is sent to a live timer.
LEMMA SendSafe ==
    ASSUME SafeStep, NEW op \in {"start", "stop", "delete"}, NEW i \in Ids,
           Send(<<op, i>>), Live(i), UNCHANGED <<objects, nextID>>
    PROVE  /\ QueueSafe' /\ Live(i)' = (op # "delete")
           /\ \A j \in Ids \ {i} : Live(j)' = Live(j)
<1>1. commands \in Seq(Commands) /\ commands' = Append(commands, <<op, i>>)
  BY DEF SafeStep, TypeInv, TypeOK, Send
<1>2. DeleteLast(commands) /\ ~Deleted(commands, i) /\ i \in objects
      /\ \A k \in DOMAIN commands : commands[k][2] \in objects
  BY DEF SafeStep, SafeInv, QueueSafe, Live
<1>3. /\ DeleteLast(commands') /\ \A k \in DOMAIN commands' : commands'[k][2] \in objects
      /\ \A j \in Ids : Deleted(commands', j)
                          <=> Deleted(commands, j) \/ (op = "delete" /\ j = i)
  BY <1>1, <1>2, AppendSafe
<1>4. QueueSafe'
  BY <1>3 DEF SafeStep, SafeInv, QueueSafe
<1>5. QED
  BY <1>2, <1>3, <1>4 DEF Live

\* os_startTimer: nobody knows the new timer yet.
LEMMA StartSafe ==
    ASSUME SafeStep, StartTimer \/ StartNow \/ StartSend \/ StartLink
    PROVE  SafeInv'
<1> USE DEF SafeStep, Goto, Busy, On, list, service, ghosts
<1>0. /\ pc.daemon = "wait" /\ pc'.daemon = "wait" /\ stalled' = FALSE
      /\ pc'.main \in {"start", "link", "run"} /\ nextID \in Nat
      /\ objects \subseteq Ids /\ nodes \subseteq Ids /\ Ids \subseteq Nat
  <2>1. "main" \in onCore
    BY DEF StartTimer, StartNow, StartSend, StartLink
  <2>2. pc.daemon = "wait"
    BY <2>1 DEF TurnInv
  <2>3. pc'.daemon = pc.daemon /\ pc'.main \in {"start", "link", "run"}
        /\ stalled' = stalled
    BY DEF StartTimer, StartNow, StartSend, StartLink, TypeInv, TypeOK, WaitForRoom
  <2>4. nextID \in Nat /\ objects \subseteq Ids /\ nodes \subseteq Ids /\ Ids \subseteq Nat
    BY BoundsAssumption DEF TypeInv, TypeOK, Ids
  <2>5. QED
    BY <2>2, <2>3, <2>4 DEF TypeInv, TypeOK
<1>1. CASE StartTimer
  <2>1. /\ nextID' = nextID + 1 /\ objects' = objects \cup {nextID + 1}
        /\ UNCHANGED <<commands, nodes, fault>> /\ cur'.main = nextID + 1
        /\ pc.main = "run" /\ nextID + 1 \in Ids
    BY <1>0, <1>1, BoundsAssumption DEF StartTimer, TypeInv, TypeOK, Ids
  <2>2. QueueSafe
    BY DEF SafeInv
  <2>3. nextID + 1 \notin objects /\ nextID + 1 \notin nodes
    BY <1>0, <2>2 DEF QueueSafe, ListInv, NodesKnown
  <2>4. ~Deleted(commands, nextID + 1)
    <3>1. ASSUME NEW k \in DOMAIN commands, commands[k] = <<"delete", nextID + 1>>
          PROVE  FALSE
      <4>1. commands[k][2] = nextID + 1
        BY <3>1
      <4>2. QED
        BY <2>2, <2>3, <4>1 DEF QueueSafe
    <3>2. QED
      BY <3>1 DEF Deleted
  <2>5. QueueSafe'
    <3>1. \A i \in objects' : i <= nextID'
      BY <1>0, <2>1, <2>2 DEF QueueSafe
    <3>2. QED
      BY <2>1, <2>2, <3>1 DEF QueueSafe
  <2>6. Live(cur.main)' /\ \A i \in nodes : Live(i) => Live(i)'
    BY <2>1, <2>4 DEF Live
  <2>7. QED
    BY <1>0, <2>1, <2>5, <2>6 DEF SafeInv, CancelHolds, CancelPoints, ObjectsLive
<1>2. CASE StartNow
  <2>1. nextID' = nextID + 1 /\ UNCHANGED <<commands, nodes, fault, objects, pc>>
        /\ pc.main = "run"
    BY <1>2 DEF StartNow
  <2>2. QueueSafe'
    BY <1>0, <2>1 DEF SafeInv, QueueSafe
  <2>3. \A i : Live(i)' = Live(i)
    BY <2>1 DEF Live
  <2>4. QED
    BY <1>0, <2>1, <2>2, <2>3 DEF SafeInv, CancelHolds, CancelPoints, ObjectsLive
<1>3. CASE StartSend
  <2>1. /\ UNCHANGED <<objects, nodes, nextID, fault, cur>> /\ pc.main = "start"
        /\ cur.main = nextID /\ nextID \notin nodes /\ Live(cur.main)
    BY <1>3 DEF StartSend, ListInv, NodesKnown, SafeInv, ObjectsLive
  <2>2. CASE UNCHANGED <<commands, pc>>
    BY <1>0, <2>1, <2>2, QuietSafe DEF CancelPoints
  <2>3. CASE Send(<<"start", cur.main>>) /\ Goto("main", "link")
    <3>1. cur.main \in Ids
      BY <2>1 DEF Live, TypeInv, TypeOK
    <3>2. QueueSafe' /\ \A j \in Ids : Live(j) => Live(j)'
      BY <2>1, <2>3, <3>1, SendSafe
    <3>3. ObjectsLive'
      BY <1>0, <2>1, <3>1, <3>2 DEF SafeInv, ObjectsLive
    <3>4. QED
      BY <1>0, <2>1, <3>2, <3>3 DEF SafeInv, CancelHolds, CancelPoints
  <2>4. QED
    BY <1>3, <2>2, <2>3 DEF StartSend, WaitForRoom
<1>4. CASE StartLink
  <2>1. /\ UNCHANGED <<objects, commands, nextID>> /\ pc.main = "link"
        /\ nodes' = nodes \cup {cur.main} /\ Live(cur.main) /\ pc'.main = "run"
    BY <1>4 DEF StartLink, Link, TypeInv, TypeOK, SafeInv, ObjectsLive
  <2>2. fault' = FALSE
    BY <1>4 DEF StartLink, ListInv, ListShape
  <2>3. QueueSafe'
    BY <2>1 DEF SafeInv, QueueSafe
  <2>4. \A i : Live(i)' = Live(i)
    BY <2>1 DEF Live
  <2>5. QED
    BY <1>0, <2>1, <2>2, <2>3, <2>4 DEF SafeInv, CancelHolds, CancelPoints, ObjectsLive
<1>5. QED
  BY <1>1, <1>2, <1>3, <1>4

\* os_cancelTimer without a wait: the node it found is there to the end.
LEMMA CancelSafe ==
    ASSUME SafeStep,
           \/ \E i \in Ids : CancelTimer(i)
           \/ CancelStop
           \/ CancelDelete
           \/ CancelUnlink
    PROVE  SafeInv'
<1> USE DEF SafeStep, Goto, Busy, On, list, service, ghosts
<1>0. /\ "main" \in onCore /\ pc.daemon = "wait" /\ pc'.daemon = "wait"
      /\ ListShape /\ TypeOK /\ nodes \subseteq Ids /\ pc'.main \notin {"start", "link"}
  <2>1. "main" \in onCore
    BY DEF CancelTimer, CancelStop, CancelDelete, CancelSend, CancelUnlink
  <2>2. pc.daemon = "wait" /\ ListShape /\ TypeOK
    BY <2>1 DEF TurnInv, TypeInv, ListInv
  <2>3. pc'.daemon = pc.daemon /\ pc'.main \notin {"start", "link"}
    BY <2>2 DEF CancelTimer, CancelStop, CancelDelete, CancelSend, CancelUnlink, TypeOK,
                WaitForRoom
  <2>4. QED
    BY <2>1, <2>2, <2>3 DEF TypeOK
<1>1. CASE \E i \in Ids : CancelTimer(i)
  <2>1. PICK i \in Ids : CancelTimer(i)
    BY <1>1
  <2>2. /\ UNCHANGED <<objects, commands, nodes, nextID, fault, onCore>>
        /\ pc.main = "run" /\ cur'.main = i /\ i \in Reachable /\ last' = Before(i)
    BY <2>1, <1>0 DEF CancelTimer, TypeOK
  <2>3. i \in nodes /\ Before(i) \in nodes \cup {NULL}
    BY <1>0, <2>2, ShortList DEF ListShape
  <2>4. QED
    BY <1>0, <2>2, <2>3, QuietSafe
<1>2. CASE CancelStop \/ CancelDelete
  <2> SUFFICES ASSUME ~stalled' PROVE SafeInv'
    BY DEF SafeInv
  <2>1. PICK op \in {"stop", "delete"} :
          /\ pc.main = op /\ Send(<<op, cur.main>>)
          /\ pc'.main = IF op = "stop" THEN "delete" ELSE "unlink"
          /\ fault' = (op = "stop" /\ cur.main \notin nodes)
    BY <1>0, <1>2 DEF CancelStop, CancelDelete, CancelSend, TypeOK
  <2>2. /\ UNCHANGED <<objects, nodes, nextID, cur, last, onCore>>
    BY <1>2 DEF CancelStop, CancelDelete, CancelSend
  <2>3. cur.main \in nodes /\ last \in nodes \cup {NULL} /\ Live(cur.main)
    BY <2>1 DEF SafeInv, CancelHolds, CancelPoints, ObjectsLive
  <2>4. QueueSafe' /\ Live(cur.main)' = (op # "delete")
        /\ \A j \in Ids \ {cur.main} : Live(j)' = Live(j)
    BY <1>0, <2>1, <2>2, <2>3, SendSafe
  <2>5. \A i \in nodes : Live(i)' \/ (pc'.main = "unlink" /\ cur'.main = i)
    <3>1. \A i \in nodes : Live(i)
      BY <2>1 DEF SafeInv, ObjectsLive
    <3>2. QED
      BY <1>0, <2>1, <2>2, <2>4, <3>1
  <2>6. QED
    BY <1>0, <2>1, <2>2, <2>3, <2>4, <2>5
       DEF SafeInv, CancelHolds, ObjectsLive
<1>3. CASE CancelUnlink
  <2>1. /\ UNCHANGED <<objects, commands, nextID>> /\ pc.main = "unlink"
        /\ pc'.main = "run" /\ nodes' = nodes \ {cur.main}
        /\ fault' = (cur.main \notin nodes \/ (last # NULL /\ last \notin nodes))
    BY <1>0, <1>3 DEF CancelUnlink, Unlink, TypeOK
  <2>2. fault' = FALSE
    BY <2>1 DEF SafeInv, CancelHolds, CancelPoints
  <2>3. QueueSafe'
    BY <2>1 DEF SafeInv, QueueSafe
  <2>4. \A i : Live(i)' = Live(i)
    BY <2>1 DEF Live
  <2>5. QED
    BY <1>0, <2>1, <2>2, <2>3, <2>4 DEF SafeInv, CancelHolds, CancelPoints, ObjectsLive
<1>4. QED
  BY <1>1, <1>2, <1>3

\* The daemon's commands are for objects that are there, and its delete is of
\* a timer whose node it has just freed.
LEMMA DaemonSafe ==
    ASSUME SafeStep, DaemonCommand \/ CallbackUnlink \/ CallbackDelete
    PROVE  SafeInv'
<1> USE DEF SafeStep, Goto, Busy, On, list, service, ghosts
<1>0. /\ pc.main \notin CancelPoints /\ pc'.main = pc.main /\ cur'.main = cur.main
      /\ nextID' = nextID /\ stalled' = stalled /\ ListShape /\ TypeOK
      /\ QueueSafe /\ ObjectsLive /\ nodes \subseteq Ids
  <2>1. "daemon" \in onCore /\ TypeOK
    BY DEF DaemonCommand, CallbackUnlink, CallbackDelete, TypeInv
  <2>2. pc.main \notin CancelPoints
    BY <2>1 DEF TurnInv, SafeInv, CancelHolds
  <2>3. pc'.main = pc.main /\ cur'.main = cur.main /\ nextID' = nextID
        /\ stalled' = stalled
    BY <2>1 DEF DaemonCommand, Callback, CallbackUnlink, CallbackDelete, WaitForRoom, TypeOK
  <2>4. QED
    BY <2>1, <2>2, <2>3 DEF ListInv, SafeInv, TypeOK
<1>1. CASE DaemonCommand
  <2> DEFINE op == Head(commands)[1]
             i  == Head(commands)[2]
  <2>1. /\ commands # <<>> /\ commands \in Seq(Commands) /\ commands' = Tail(commands)
        /\ fault' = (i \notin objects) /\ nodes' = nodes
        /\ objects' = IF op = "delete" THEN objects \ {i} ELSE objects
    BY <1>0, <1>1 DEF DaemonCommand, TypeOK
  <2>2. pc'.daemon # "delete"
    BY <1>0, <1>1 DEF DaemonCommand, Callback, TypeOK
  <2>3. /\ i \in objects /\ DeleteLast(commands')
        /\ \A k \in DOMAIN commands' :
             commands'[k][2] \in objects /\ (op = "delete" => commands'[k][2] # i)
        /\ \A j \in Ids : Deleted(commands', j) => Deleted(commands, j)
        /\ op = "delete" => Deleted(commands, i)
    BY <1>0, <2>1, TailSafe DEF QueueSafe
  <2>4. QueueSafe'
    BY <1>0, <2>1, <2>3 DEF QueueSafe
  <2>5. \A j \in Ids : Live(j) => Live(j)'
    BY <2>1, <2>3 DEF Live
  <2>6. ObjectsLive'
    <3>1. pc.main \in {"start", "link"} => cur.main \in Ids
      BY <1>0 DEF ObjectsLive, Live, TypeOK
    <3>2. QED
      BY <1>0, <2>1, <2>2, <2>5, <3>1 DEF ObjectsLive
  <2>7. QED
    BY <1>0, <2>1, <2>3, <2>4, <2>6 DEF SafeInv, CancelHolds
<1>2. CASE CallbackUnlink
  <2> DEFINE d == cur.daemon
  <2>1. UNCHANGED <<objects, commands, fault, cur>>
    BY <1>2 DEF CallbackUnlink
  <2>2. CASE d \notin Reachable
    <3>1. UNCHANGED list /\ pc'.daemon = "drain"
      BY <1>0, <1>2, <2>2 DEF CallbackUnlink, TypeOK
    <3>2. QED
      BY <1>0, <2>1, <3>1, QuietSafe DEF CancelPoints
  <2>3. CASE d \in Reachable
    <3>1. d \in nodes /\ nodes' = nodes \ {d} /\ pc'.daemon = "delete"
      BY <1>0, <1>2, <2>3, ShortList DEF CallbackUnlink, Unlink, TypeOK
    <3>2. Live(d)
      BY <1>0, <3>1 DEF ObjectsLive, CancelPoints
    <3>3. pc.main \in {"start", "link"} => cur.main # d
      BY <3>1 DEF ListInv, NodesKnown
    <3>4. \A j : Live(j)' = Live(j)
      BY <2>1 DEF Live
    <3>5. QueueSafe'
      BY <1>0, <2>1 DEF QueueSafe
    <3>6. ObjectsLive'
      BY <1>0, <2>1, <3>1, <3>2, <3>3, <3>4 DEF ObjectsLive
    <3>7. QED
      BY <1>0, <2>1, <3>5, <3>6 DEF SafeInv, CancelHolds
  <2>4. QED
    BY <2>2, <2>3
<1>3. CASE CallbackDelete
  <2> DEFINE d == cur.daemon
  <2>1. /\ UNCHANGED <<objects, nodes, fault, cur>> /\ pc.daemon = "delete"
        /\ Live(d) /\ d \notin nodes /\ d \in Ids
        /\ pc.main \in {"start", "link"} => cur.main # d
    BY <1>0, <1>3 DEF CallbackDelete, ObjectsLive, Live, TypeOK
  <2>2. Send(<<"delete", d>>) /\ pc'.daemon = "drain"
    BY <1>0, <1>3 DEF CallbackDelete, WaitForRoom, TurnInv, TypeOK
  <2>3. QueueSafe' /\ \A j \in Ids \ {d} : Live(j)' = Live(j)
    BY <1>0, <2>1, <2>2, SendSafe
  <2>4. ObjectsLive'
    <3>1. pc.main \in {"start", "link"} => cur.main \in Ids
      BY <1>0 DEF ObjectsLive, Live, TypeOK
    <3>2. QED
      BY <1>0, <2>1, <2>2, <2>3, <3>1 DEF ObjectsLive, CancelPoints
  <2>5. QED
    BY <1>0, <2>1, <2>3, <2>4 DEF SafeInv, CancelHolds
<1>4. QED
  BY <1>1, <1>2, <1>3

\* Without a wait in os_cancelTimer memory is used while it is there.
LEMMA AlwaysSafe == ~Overlap => (Spec => []SafeInv)
<1> SUFFICES ASSUME ~Overlap PROVE Spec => []SafeInv
  OBVIOUS
<1>1. Init => SafeInv
  BY DEF Init, SafeInv, CancelHolds, QueueSafe, ObjectsLive, DeleteLast, CancelPoints
<1>2. TypeInv /\ TurnInv /\ ListInv /\ SafeInv /\ [Next]_vars => SafeInv'
  <2> SUFFICES ASSUME TypeInv, TurnInv, ListInv, SafeInv, [Next]_vars
               PROVE  SafeInv'
    OBVIOUS
  <2>1. CASE stalled
    <3>1. stalled'
      BY <2>1 DEF Next, StartTimer, StartNow, StartSend, StartLink, CancelTimer, CancelStop,
                  CancelDelete, CancelSend, CancelUnlink, Pull, Pulled, DaemonWait,
                  DaemonWoken, DaemonDrained, DaemonCommand, DaemonExpire, CallbackUnlink,
                  CallbackDelete, Schedule, Elapse, vars, ghosts
    <3>2. QED
      BY <3>1 DEF SafeInv
  <2>2. CASE ~stalled
    <3>0. SafeStep
      BY <2>2 DEF SafeStep, SafeInv
    <3> USE DEF SafeStep, Goto, Busy, On, list, service, ghosts
    <3>1. CASE StartTimer \/ StartNow \/ StartSend \/ StartLink
      BY <3>0, <3>1, StartSafe
    <3>2. CASE (\E i \in Ids : CancelTimer(i)) \/ CancelStop \/ CancelDelete \/ CancelUnlink
      BY <3>0, <3>2, CancelSafe
    <3>3. CASE DaemonCommand \/ CallbackUnlink \/ CallbackDelete
      BY <3>0, <3>3, DaemonSafe
    <3>4. CASE Pull \/ Pulled
      <4>1. /\ UNCHANGED <<objects, commands, nodes, nextID, fault>>
            /\ pc.main \in {"run", "pull"} /\ pc'.main \in {"run", "pull"}
            /\ pc'.daemon = pc.daemon /\ cur' = cur
        BY <3>4 DEF Pull, Pulled, TypeInv, TypeOK
      <4>2. QED
        BY <3>0, <4>1, QuietSafe DEF CancelPoints
    <3>5. CASE \/ DaemonWait
               \/ DaemonWoken
               \/ DaemonDrained
               \/ \E i \in Ids : DaemonExpire(i)
      <4>1. /\ UNCHANGED <<objects, commands, nodes, nextID, fault>>
            /\ pc'.main = pc.main /\ cur'.main = cur.main
            /\ "daemon" \in onCore /\ pc'.daemon # "delete"
        BY <3>5 DEF DaemonWait, DaemonWoken, DaemonDrained, DaemonExpire, Callback,
                    TypeInv, TypeOK
      <4>2. pc.main \notin CancelPoints
        BY <3>0, <4>1 DEF TurnInv, SafeInv, CancelHolds
      <4>3. QED
        BY <3>0, <4>1, <4>2, QuietSafe DEF CancelPoints
    <3>6. CASE (\E t \in {"main", "daemon"} : Schedule(t)) \/ (\E i \in Ids : Elapse(i))
      <4>1. /\ UNCHANGED <<objects, commands, nodes, nextID, fault, pc, cur, last>>
            /\ onCore \subseteq onCore'
        BY <3>6 DEF Schedule, Elapse
      <4>2. QED
        BY <3>0, <4>1, QuietSafe DEF SafeInv, CancelHolds
    <3>7. CASE UNCHANGED vars
      <4>1. /\ UNCHANGED <<objects, commands, nodes, nextID, fault, pc, cur, last, onCore>>
        BY <3>7 DEF vars
      <4>2. QED
        BY <3>0, <4>1, QuietSafe DEF SafeInv, CancelHolds
    <3>8. QED
      BY <3>1, <3>2, <3>3, <3>4, <3>5, <3>6, <3>7 DEF Next
  <2>3. QED
    BY <2>1, <2>2
<1>3. QED
  BY <1>1, <1>2, AlwaysTyped, AlwaysTurns, AlwaysList, PTL DEF Spec

\* Freed memory is used only after the main task had to wait for room in the
\* command queue inside os_cancelTimer, for any number of timers and queues
\* of any length: nothing else the two tasks do without a lock is unsafe.
THEOREM FaultNeedsStall == ~Overlap => (Spec => []FaultOnlyAfterStall)
<1>1. SafeInv => FaultOnlyAfterStall
  BY DEF SafeInv, FaultOnlyAfterStall
<1>2. QED
  BY <1>1, AlwaysSafe, PTL

-----------------------------------------------------------------------------
(* No timer is lost *)

\* A timer's time is over: its event was pushed, or the program gave it up.
Over(i) == fired[i] > 0 \/ GivenUp(i)

\* A timer that was started can still fire, or is over: whatever os_startTimer
\* and os_cancelTimer do to the list, the timer service keeps count of it.
NoTimerLost == \A i \in Ids : Started(i) => Sent(i) \/ Over(i)

\* A stop or delete on its way, and the callback, belong to a timer that is over.
EndQueued(s, i) == \E k \in DOMAIN s : s[k] \in Ends(i)
CalledBack(i) == pc.daemon \in {"find", "delete"} /\ cur.daemon = i
KeptInv ==
    /\ NoTimerLost
    /\ \A i \in Ids : EndQueued(commands, i) \/ CalledBack(i) => Over(i)

\* Sent, of Timers, is being counted down or having a start in the queue.
LEMMA SentIs == \A i : Sent(i) <=> i \in active \/ Starting(commands, i)
BY DEF Sent, Starting

\* A command sent at the end of the queue leaves the others where they are.
LEMMA AppendEnds ==
    ASSUME NEW s \in Seq(Commands), NEW c \in Commands, NEW i \in Ids,
           EndQueued(Append(s, c), i)
    PROVE  EndQueued(s, i) \/ c \in Ends(i)
<1> DEFINE u == Append(s, c)
<1>1. /\ u \in Seq(Commands) /\ Len(u) = Len(s) + 1
      /\ \A k \in 1..Len(s) : u[k] = s[k]
      /\ u[Len(s) + 1] = c
  BY AppendProperties
<1>2. Len(s) \in Nat /\ DOMAIN s = 1..Len(s) /\ DOMAIN u = 1..Len(u)
  BY <1>1, LenProperties
<1>3. PICK k \in DOMAIN u : u[k] \in Ends(i)
  BY DEF EndQueued
<1>4. (k \in DOMAIN s /\ u[k] = s[k]) \/ u[k] = c
  BY <1>1, <1>2
<1> QED
  BY <1>3, <1>4 DEF EndQueued

\* The first command is the only one that leaves.
LEMMA TailCommands ==
    ASSUME NEW s \in Seq(Commands), s # <<>>, NEW i \in Ids
    PROVE  /\ Starting(s, i) => Starting(Tail(s), i) \/ Head(s) = <<"start", i>>
           /\ EndQueued(Tail(s), i) => EndQueued(s, i)
           /\ Head(s) \in Ends(i) => EndQueued(s, i)
<1>1. PICK m \in Nat \ {0} :
        /\ DOMAIN s = 1..m /\ DOMAIN Tail(s) = 1..m - 1 /\ Head(s) = s[1]
        /\ \A k \in 1..m - 1 : Tail(s)[k] = s[k + 1]
  <2>1. Tail(s) \in Seq(Commands) /\ Len(Tail(s)) = Len(s) - 1 /\ Head(s) = s[1]
        /\ Len(s) \in Nat \ {0} /\ \A k \in 1..Len(s) - 1 : Tail(s)[k] = s[k + 1]
    BY HeadTailProperties, LenProperties, EmptySeq
  <2>2. DOMAIN s = 1..Len(s) /\ DOMAIN Tail(s) = 1..Len(s) - 1
    BY <2>1, LenProperties
  <2> QED
    BY <2>1, <2>2
<1>2. ASSUME NEW k \in DOMAIN s, k # 1
      PROVE  k - 1 \in DOMAIN Tail(s) /\ Tail(s)[k - 1] = s[k]
  <2>1. k - 1 \in 1..m - 1 /\ (k - 1) + 1 = k
    BY <1>1, <1>2
  <2>2. Tail(s)[k - 1] = s[(k - 1) + 1]
    BY <1>1, <2>1
  <2> QED
    BY <1>1, <2>1, <2>2
<1>3. Starting(s, i) => Starting(Tail(s), i) \/ Head(s) = <<"start", i>>
  BY <1>1, <1>2 DEF Starting
<1>4. \A k \in DOMAIN Tail(s) : k + 1 \in DOMAIN s /\ Tail(s)[k] = s[k + 1]
  BY <1>1
<1>5. 1 \in DOMAIN s
  BY <1>1
<1> QED
  BY <1>1, <1>3, <1>4, <1>5 DEF EndQueued

\* What is over stays over.
LEMMA OverStays ==
    ASSUME IInv, [Next]_vars, NEW i \in Ids, Over(i)
    PROVE  Over(i)'
<1> USE DEF IInv, Typed, Goto, Busy, list, service, ghosts, Over, GivenUp
<1>1. fired[i] \in Nat
  OBVIOUS
<1>2. ASSUME UNCHANGED cancelled, UNCHANGED <<pc.main, cur.main>>,
             \/ UNCHANGED fired
             \/ \E j : fired' = [fired EXCEPT ![j] = @ + 1]
      PROVE  Over(i)'
  BY <1>1, <1>2
<1>3. CASE StartTimer \/ StartSend \/ StartLink \/ Pull \/ Pulled
  BY <1>3 DEF StartTimer, StartSend, StartLink, Pull, Pulled
<1>4. CASE StartNow
  BY <1>2, <1>4 DEF StartNow, PushTimer
<1>5. CASE \E j \in Ids : CancelTimer(j)
  BY <1>5 DEF CancelTimer
<1>6. CASE CancelStop \/ CancelDelete \/ CancelUnlink
  BY <1>6 DEF CancelStop, CancelDelete, CancelSend, CancelUnlink
<1>7. CASE \/ DaemonWait
           \/ DaemonWoken
           \/ DaemonDrained
           \/ CallbackUnlink
           \/ CallbackDelete
           \/ \E t \in {"main", "daemon"} : Schedule(t)
           \/ \E j \in Ids : Elapse(j)
           \/ UNCHANGED vars
  BY <1>2, <1>7 DEF DaemonWait, DaemonWoken, DaemonDrained, CallbackUnlink,
                    CallbackDelete, Schedule, Elapse, vars
<1>8. CASE DaemonCommand \/ \E j \in Ids : DaemonExpire(j)
  BY <1>2, <1>8 DEF DaemonCommand, DaemonExpire, Callback, PushTimer
<1> QED
  BY <1>3, <1>4, <1>5, <1>6, <1>7, <1>8 DEF Next

\* A step that neither starts nor ends a timer.
LEMMA QuietKept ==
    ASSUME IInv, KeptInv, [Next]_vars, UNCHANGED <<active, commands>>,
           \A i \in Ids : Started(i)' => Started(i),
           \A i \in Ids : CalledBack(i)' => CalledBack(i)
    PROVE  KeptInv'
<1>1. \A i \in Ids : Over(i) => Over(i)'
  BY OverStays
<1>2. \A i : (Sent(i)' <=> Sent(i)) /\ (EndQueued(commands', i) <=> EndQueued(commands, i))
  BY DEF Sent, EndQueued
<1> QED
  BY <1>1, <1>2 DEF KeptInv, NoTimerLost

\* A command sent leaves the others; a stop or a delete is of a timer that is
\* over by then.
LEMMA SendKept ==
    ASSUME IInv, KeptInv, [Next]_vars, NEW c \in Commands, Send(c), UNCHANGED active,
           \A i \in Ids : Started(i)' => Started(i) \/ c = <<"start", i>>,
           \A i \in Ids : c \in Ends(i) => Over(i)',
           \A i \in Ids : CalledBack(i)' => CalledBack(i)
    PROVE  KeptInv'
<1>1. commands \in Seq(Commands) /\ commands' = Append(commands, c)
  BY DEF IInv, Typed, Send
<1>2. \A i \in Ids : Over(i) => Over(i)'
  BY OverStays
<1>3. \A i \in Ids : Starting(commands', i) <=> Starting(commands, i) \/ c = <<"start", i>>
  BY <1>1, AppendStarts
<1>4. \A i \in Ids : EndQueued(commands', i) => EndQueued(commands, i) \/ c \in Ends(i)
  BY <1>1, AppendEnds
<1>5. \A i \in Ids : Sent(i)' <=> i \in active' \/ Starting(commands', i)
  BY DEF Sent, Starting
<1> QED
  BY <1>2, <1>3, <1>4, <1>5, SentIs DEF KeptInv, NoTimerLost

\* The program's calls.
LEMMA MainKept ==
    ASSUME IInv, CancelInv, KeptInv,
           \/ StartTimer \/ StartNow \/ StartSend \/ StartLink
           \/ \E i \in Ids : CancelTimer(i)
           \/ CancelStop \/ CancelDelete \/ CancelUnlink
           \/ Pull \/ Pulled
    PROVE  KeptInv'
<1> USE DEF IInv, Typed, Goto, Busy, list, service, ghosts
<1>1. [Next]_vars /\ \A i \in Ids : CalledBack(i)' => CalledBack(i)
  <2>1. [Next]_vars
    BY DEF Next
  <2>2. pc'.daemon = pc.daemon /\ cur'.daemon = cur.daemon
    BY DEF StartTimer, StartNow, StartSend, StartLink, CancelTimer, CancelStop,
           CancelDelete, CancelSend, CancelUnlink, Pull, Pulled
  <2> QED
    BY <2>1, <2>2 DEF CalledBack
<1>2. CASE StartTimer
  <2>1. \A i \in Ids : Started(i)' => Started(i)
    BY <1>2, IdsAreNumbers DEF StartTimer, Started
  <2>2. UNCHANGED <<active, commands>>
    BY <1>2 DEF StartTimer
  <2> QED
    BY <1>1, <2>1, <2>2, QuietKept
<1>3. CASE StartNow
  <2>1. \A i \in Ids : Over(i) => Over(i)'
    BY <1>1, OverStays
  <2>2. ASSUME NEW i \in Ids, i = nextID + 1
        PROVE  Over(i)'
    <3>1. fired' = [fired EXCEPT ![i] = @ + 1] /\ fired[i] \in Nat
      BY <1>3, <2>2 DEF StartNow, PushTimer
    <3>2. fired'[i] > 0
      BY <3>1
    <3> QED
      BY <3>2 DEF Over
  <2>3. \A i \in Ids : Started(i)' => Started(i) \/ i = nextID + 1
    BY <1>3, IdsAreNumbers DEF StartNow, Started
  <2>4. UNCHANGED <<active, commands, pc, cur>>
    BY <1>3 DEF StartNow
  <2>5. \A i : (Sent(i)' <=> Sent(i)) /\ (EndQueued(commands', i) <=> EndQueued(commands, i))
    BY <2>4 DEF Sent, EndQueued
  <2> QED
    BY <1>1, <2>1, <2>2, <2>3, <2>5 DEF KeptInv, NoTimerLost
<1>4. CASE StartSend
  <2> DEFINE c == <<"start", cur.main>>
  <2>1. CASE Send(c) /\ Goto("main", "link")
    <3>1. c \in Commands /\ \A i \in Ids : c \notin Ends(i)
      BY <1>4 DEF StartSend, Commands, Ends
    <3>2. \A i \in Ids : Started(i)' => Started(i) \/ c = <<"start", i>>
      BY <1>4, <2>1 DEF StartSend, Started
    <3>3. UNCHANGED active
      BY <1>4, <2>1 DEF StartSend
    <3> HIDE DEF c
    <3> QED
      BY <1>1, <2>1, <3>1, <3>2, <3>3, SendKept
  <2>2. CASE UNCHANGED <<commands, pc>>
    BY <1>1, <1>4, <2>2, QuietKept DEF StartSend, Started
  <2> QED
    BY <1>4, <2>1, <2>2 DEF StartSend, WaitForRoom
<1>5. CASE StartLink \/ Pull \/ Pulled \/ CancelUnlink
  BY <1>1, <1>5, QuietKept DEF StartLink, Pull, Pulled, CancelUnlink, Started
<1>6. CASE \E i \in Ids : CancelTimer(i)
  BY <1>1, <1>6, QuietKept DEF CancelTimer, Started
<1>7. ASSUME NEW op \in {"stop", "delete"}, CancelStop \/ CancelDelete,
             Send(<<op, cur.main>>), pc'.main \in {"delete", "unlink"}
      PROVE  KeptInv'
  <2> DEFINE c == <<op, cur.main>>
  <2>1. cur.main \in Ids /\ UNCHANGED <<nextID, active, cur>> /\ pc.main \in {"stop", "delete"}
    BY <1>7 DEF CancelStop, CancelDelete, CancelSend
  <2>2. c \in Commands /\ \A i \in Ids : c \in Ends(i) => i = cur.main
    BY <2>1 DEF Commands, Ends
  <2>3. Over(cur.main)'
    BY <1>7, <2>1 DEF Over, GivenUp
  <2>4. \A i \in Ids : Started(i)' => Started(i)
    BY <2>1 DEF Started
  <2>5. Send(c)
    BY <1>7
  <2> HIDE DEF c
  <2> QED
    BY <1>1, <2>1, <2>2, <2>3, <2>4, <2>5, SendKept
<1>8. CASE CancelStop \/ CancelDelete
  <2>1. CASE UNCHANGED <<commands, pc>>
    BY <1>1, <1>8, <2>1, QuietKept
       DEF CancelStop, CancelDelete, CancelSend, Started
  <2> QED
    BY <1>7, <1>8, <2>1 DEF CancelStop, CancelDelete, CancelSend, WaitForRoom
<1> QED
  BY <1>2, <1>3, <1>4, <1>5, <1>6, <1>8

\* The service takes one command: the timer it names is counted down, has its
\* event pushed, or was over.
LEMMA CommandKept ==
    ASSUME IInv, KeptInv, DaemonCommand
    PROVE  KeptInv'
<1> DEFINE op == Head(commands)[1]
           n  == Head(commands)[2]
<1>1. commands # <<>> /\ commands \in Seq(Commands) /\ commands' = Tail(commands)
      /\ nextID' = nextID /\ pc'.main = pc.main /\ cur'.main = cur.main
      /\ fired \in [Ids -> Nat] /\ [Next]_vars
  BY DEF DaemonCommand, IInv, Typed, Callback, Goto, Busy, Next
<1>2. op \in {"start", "stop", "delete"} /\ n \in Ids /\ Head(commands) = <<op, n>>
  BY <1>1, TailStarts DEF Commands
<1>3. \A i \in Ids : Over(i) => Over(i)'
  BY <1>1, OverStays
<1>4. op = "start" \/ Over(n)
  <2>1. op # "start" => Head(commands) \in Ends(n)
    BY <1>2 DEF Ends
  <2> QED
    BY <1>1, <1>2, <2>1, TailCommands DEF KeptInv
<1>5. /\ \A i \in Ids : i \in active \/ (op = "start" /\ i = n)
                         => i \in active' \/ Over(i)'
      /\ \A i \in Ids : CalledBack(i)' => Over(i)'
  <2>1. CASE op = "start" /\ n \in due
    <3>1. /\ active' = active \ {n} /\ fired' = [fired EXCEPT ![n] = @ + 1]
          /\ cur'.daemon = n
      BY <2>1 DEF DaemonCommand, Callback, PushTimer, Busy, IInv, Typed
    <3>2. fired'[n] > 0
      BY <1>1, <1>2, <3>1
    <3>3. \A i \in Ids : i = n => Over(i)'
      BY <3>2 DEF Over
    <3>4. \A i \in Ids : CalledBack(i)' => i = n
      BY <3>1 DEF CalledBack
    <3> QED
      BY <3>1, <3>3, <3>4
  <2>2. CASE ~(op = "start" /\ n \in due)
    <3>1. /\ UNCHANGED <<cur, pc>>
          /\ active' = IF op = "start" THEN active \cup {n} ELSE active \ {n}
      BY <2>2 DEF DaemonCommand
    <3>2. \A i \in Ids : CalledBack(i)' => Over(i)
      BY <3>1 DEF CalledBack, KeptInv
    <3> QED
      BY <1>2, <1>3, <1>4, <3>1, <3>2
  <2> QED
    BY <2>1, <2>2
<1>6. \A i \in Ids : Starting(commands, i) => Starting(commands', i) \/ (op = "start" /\ i = n)
  <2>1. \A i \in Ids : Head(commands) = <<"start", i>> => op = "start" /\ i = n
    BY <1>2
  <2> QED
    BY <1>1, <2>1, TailCommands
<1> HIDE DEF op, n
<1>7. \A i \in Ids : EndQueued(commands', i) => EndQueued(commands, i)
  BY <1>1, TailCommands
<1>8. \A i \in Ids : Sent(i)' <=> i \in active' \/ Starting(commands', i)
  BY DEF Sent, Starting
<1>9. \A i \in Ids : Sent(i) => Sent(i)' \/ Over(i)'
  <2>1. \A i \in Ids : i \in active \/ Starting(commands, i) => Sent(i)' \/ Over(i)'
    BY <1>5, <1>6, <1>8
  <2> QED
    BY <2>1, SentIs
<1>10. \A i \in Ids : Started(i)' <=> Started(i)
  BY <1>1 DEF Started
<1> QED
  BY <1>3, <1>5, <1>7, <1>9, <1>10 DEF KeptInv, NoTimerLost

\* The daemon's other steps, the kernel and the clock.
LEMMA ServiceKept ==
    ASSUME IInv, KeptInv,
           \/ DaemonWait \/ DaemonWoken \/ DaemonDrained
           \/ \E i \in Ids : DaemonExpire(i)
           \/ CallbackUnlink \/ CallbackDelete
           \/ \E t \in {"main", "daemon"} : Schedule(t)
           \/ \E i \in Ids : Elapse(i)
           \/ UNCHANGED vars
    PROVE  KeptInv'
<1> USE DEF IInv, Typed, Goto, Busy, list, service, ghosts
<1>1. [Next]_vars
  BY DEF Next
<1>2. CASE \/ DaemonWait \/ DaemonWoken \/ DaemonDrained \/ CallbackUnlink
           \/ \E t \in {"main", "daemon"} : Schedule(t)
           \/ \E i \in Ids : Elapse(i)
           \/ UNCHANGED vars
  <2>1. /\ UNCHANGED <<active, commands, nextID, cur>> /\ pc'.main = pc.main
        /\ \A i \in Ids : CalledBack(i)' => CalledBack(i)
    BY <1>2 DEF DaemonWait, DaemonWoken, DaemonDrained, CallbackUnlink, Schedule,
                Elapse, vars, CalledBack
  <2> QED
    BY <1>1, <2>1, QuietKept DEF Started
<1>3. ASSUME NEW n \in Ids, DaemonExpire(n)
      PROVE  KeptInv'
  <2>1. /\ active' = active \ {n} /\ fired' = [fired EXCEPT ![n] = @ + 1]
        /\ cur'.daemon = n /\ cur'.main = cur.main /\ pc'.main = pc.main
        /\ UNCHANGED <<commands, nextID>>
    BY <1>3 DEF DaemonExpire, Callback, PushTimer
  <2>2. \A i \in Ids : Over(i) => Over(i)'
    BY <1>1, OverStays
  <2>3. Over(n)' /\ \A i \in Ids : CalledBack(i)' => i = n
    BY <2>1 DEF Over, CalledBack
  <2>4. \A i \in Ids : Sent(i) => Sent(i)' \/ Over(i)'
    BY <2>1, <2>3 DEF Sent
  <2>5. \A i \in Ids : (Started(i)' <=> Started(i))
                      /\ (EndQueued(commands', i) <=> EndQueued(commands, i))
    BY <2>1 DEF Started
  <2> QED
    BY <2>2, <2>3, <2>4, <2>5 DEF KeptInv, NoTimerLost
<1>4. CASE CallbackDelete
  <2> DEFINE c == <<"delete", cur.daemon>>
  <2>1. UNCHANGED <<nextID, active, cur>> /\ pc'.main = pc.main /\ pc.daemon = "delete"
    BY <1>4 DEF CallbackDelete
  <2>2. \A i \in Ids : Started(i)' => Started(i)
    BY <2>1 DEF Started
  <2>3. CASE Send(c) /\ Goto("daemon", "drain")
    <3>1. c \in Commands /\ (\A i \in Ids : c \in Ends(i) => i = cur.daemon)
          /\ \A i \in Ids : ~CalledBack(i)'
      BY <2>1, <2>3 DEF Commands, Ends, CalledBack
    <3>2. Over(cur.daemon)'
      <4>1. PICK i \in Ids : i = cur.daemon
        BY <2>1
      <4>2. Over(i)
        BY <2>1, <4>1 DEF KeptInv, CalledBack
      <4>3. Over(i)'
        BY <1>1, <4>2, OverStays
      <4> QED
        BY <2>1, <4>1, <4>3
    <3> HIDE DEF c
    <3> QED
      BY <1>1, <2>1, <2>2, <2>3, <3>1, <3>2, SendKept
  <2>4. CASE UNCHANGED <<commands, pc>>
    BY <1>1, <2>1, <2>2, <2>4, QuietKept DEF CalledBack
  <2> QED
    BY <1>4, <2>3, <2>4 DEF CallbackDelete, WaitForRoom
<1> QED
  BY <1>2, <1>3, <1>4

\* No timer that was started is lost before its event or its cancel, for any
\* number of timers, queues of any length and any overlap of the two tasks:
\* what TimersEnd rests on besides fairness (os_startTimer, xTimerStart).
THEOREM TimersAreKept == Spec => []NoTimerLost
<1>1. Init => KeptInv
  BY EmptySeq DEF Init, KeptInv, NoTimerLost, Started, EndQueued, CalledBack, Ids
<1>2. IInv /\ CancelInv /\ KeptInv /\ [Next]_vars => KeptInv'
  BY MainKept, CommandKept, ServiceKept DEF Next
<1>3. KeptInv => NoTimerLost
  BY DEF KeptInv
<1> QED
  BY <1>1, <1>2, <1>3, AlwaysIInv, AlwaysCancel, PTL DEF Spec
=============================================================================
