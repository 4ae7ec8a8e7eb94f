---------------------------- MODULE EventInbox ----------------------------
(***************************************************************************)
(* What os.pullEvent promises a CraftOS program, without the two queues    *)
(* the firmware keeps: the program has an inbox made of the events it      *)
(* queued itself (own) and those the devices sent it (outside), own first. *)
(* A pull looks at them in order, forgets those its filter does not want,  *)
(* and returns the first one it does; a `terminate` is always wanted.      *)
(* Device events may be lost before they arrive, never after.              *)
(***************************************************************************)
EXTENDS Naturals, Sequences

CONSTANTS
    Events,       \* the events there are: records with a field name
    OwnEvents,    \* those os.queueEvent makes
    Filters,      \* event names, and NoFilter
    Terminate,    \* the name of the event that ends a program
    NoFilter      \* a pull that takes anything

VARIABLES
    own,          \* events queued by the program, oldest first
    outside,      \* events that arrived from the devices, oldest first
    status,       \* "run", "wait" (in a pull) or "dead"
    filter,       \* the filter of the current pull
    got           \* {the event the last pull returned}, {} during a pull

vars == <<own, outside, status, filter, got>>

Wanted(e, f) == f = NoFilter \/ e.name \in {f, Terminate}

HasWanted(s, f) == \E i \in DOMAIN s : Wanted(s[i], f)

\* s from its first wanted event on; empty when there is none.
Skip(s, f) ==
    IF HasWanted(s, f)
      THEN LET first == CHOOSE i \in DOMAIN s :
                           /\ Wanted(s[i], f)
                           /\ \A j \in 1..(i-1) : ~Wanted(s[j], f)
           IN  SubSeq(s, first, Len(s))
      ELSE <<>>

Init ==
    /\ own = <<>> /\ outside = <<>>
    /\ status = "run" /\ filter = NoFilter /\ got = {}

Arrive(e) ==
    /\ outside' = IF status = "wait" /\ own = <<>>
                    THEN Skip(Append(outside, e), filter)
                    ELSE Append(outside, e)
    /\ UNCHANGED <<own, status, filter, got>>

Queue(e) ==
    /\ status = "run"
    /\ own' = Append(own, e)
    /\ UNCHANGED <<outside, status, filter, got>>

Pull(f) ==
    /\ status = "run"
    /\ status' = "wait" /\ filter' = f /\ got' = {}
    /\ own' = Skip(own, f)
    /\ outside' = IF own' = <<>> THEN Skip(outside, f) ELSE outside

ReturnOwn ==
    /\ own # <<>>
    /\ got' = {Head(own)} /\ own' = Tail(own)
    /\ UNCHANGED outside

ReturnOutside ==
    /\ own = <<>> /\ outside # <<>>
    /\ got' = {Head(outside)} /\ outside' = Tail(outside)
    /\ UNCHANGED own

Return ==
    /\ status = "wait" /\ status' = "run"
    /\ ReturnOwn \/ ReturnOutside
    /\ UNCHANGED filter

End ==
    /\ status = "run" /\ status' = "dead"
    /\ UNCHANGED <<own, outside, filter, got>>

Next ==
    \/ \E e \in Events \ OwnEvents : Arrive(e)
    \/ \E e \in OwnEvents : Queue(e)
    \/ \E f \in Filters : Pull(f)
    \/ Return
    \/ End

\* A pull whose inbox holds an event returns.
Spec == Init /\ [][Next]_vars /\ WF_vars(Return)
=============================================================================
