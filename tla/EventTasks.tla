----------------------------- MODULE EventTasks -----------------------------
(* Who uses the event queue of event.cpp: common to EventLoop and EventQueue. *)
EXTENDS Naturals

CONSTANTS
    Drivers,      \* tasks that only send device events: USB host, timer daemon
    Main,         \* the main task: waits, and sends for os.startTimer(0)
    QueueLength   \* events a queue holds (256)

ASSUME MainAssumption == Main \notin Drivers
ASSUME LengthAssumption == QueueLength \in Nat \ {0}

Tasks == Drivers \cup {Main}
=============================================================================
