-------------------------- MODULE EventLoopInbox --------------------------
(***************************************************************************)
(* EventLoop implements EventInbox.  While the program runs, its inbox is  *)
(* paramQueue and the hardware queue.  During a pull the inbox is what is  *)
(* left of them once the unwanted events at their front are gone: the code *)
(* removes those one by one, the inbox forgets them when they become its   *)
(* oldest ones.                                                            *)
(***************************************************************************)
EXTENDS EventLoop

\* s from its first event on that the current pull wants.
FromWanted(s) ==
    LET wanted == {i \in DOMAIN s : Wanted(s[i], filter)}
        first  == CHOOSE i \in wanted : \A j \in wanted : i <= j
    IN  IF wanted = {} THEN <<>> ELSE SubSeq(s, first, Len(s))

FromProgram == paramQueue # <<>> /\ Head(paramQueue).src = Program

own ==
    CASE status # "wait" -> paramQueue
      [] status = "wait" /\ FromProgram -> FromWanted(paramQueue)
      [] OTHER -> <<>>

outside ==
    CASE status # "wait" -> queue
      [] status = "wait" /\ FromProgram ->
             IF own = <<>> THEN FromWanted(queue) ELSE queue
      [] OTHER -> FromWanted(Pipe)

EventsUpTo(n) == [src : Sources, name : Names, seq : 0..n]

Inbox == INSTANCE EventInbox WITH
    Events <- EventsUpTo(MaxSeq),
    OwnEvents <- {e \in EventsUpTo(MaxSeq) : e.src = Program}

\* Every pull returns the first event it wants, the program's own events
\* first, nothing wanted is lost once it arrived, and a pull that has a
\* wanted event returns (getNextEvent, os_queueEvent, event_push).
PullsFromInbox == Inbox!Spec
=============================================================================
