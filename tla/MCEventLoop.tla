---------------------------- MODULE MCEventLoop ----------------------------
(* Small instances of EventLoop for TLC: a driver, two event names. *)
EXTENDS EventLoopInbox

CONSTANTS usb, key
============================================================================
