----------------------------- MODULE MCKeyboard -----------------------------
(***************************************************************************)
(* Small instances of Keyboard for TLC: the keys T and caps lock, a pair   *)
(* of keys that share a key code (as 0x31 and 0x32 do), one modifier.   *)
(***************************************************************************)
EXTENDS Keyboard

CONSTANTS left, right, ctrl, shift, backslash

AllCodes == (T :> 20 @@ Caps :> 58 @@ ctrl :> 29 @@ shift :> 42
             @@ RollOver :> 0 @@ backslash :> 43)

FewCodes  == [k \in {T, Caps, ctrl, RollOver} |-> AllCodes[k]]
\* caps lock stands for any key without a key code here
TwinCodes == [k \in {T, Caps, shift, backslash, RollOver} |->
                CASE k = T -> 43 [] k = Caps -> 0 [] OTHER -> AllCodes[k]]
=============================================================================
