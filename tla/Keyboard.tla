------------------------------ MODULE Keyboard ------------------------------
(***************************************************************************)
(* drivers/hid.cpp: USB keyboard reports turned into key, key_up and char  *)
(* events, and the timer that was to repeat held keys and send terminate.  *)
(*                                                                         *)
(* A boot report names the modifiers and up to MaxKeys keys that are down; *)
(* a keyboard with more keys down reports ErrorRollOver in every slot.     *)
(* The driver remembers one previous report and one press time per key,    *)
(* whichever of the attached keyboards a report came from.                 *)
(*                                                                         *)
(* A press time is kept as an age, counted in the ticks of this model and  *)
(* no further than Hold + 1, the first age longer than the 600 ms of the   *)
(* code.  A handler is one step: the repeat timer finds nothing to do in   *)
(* any state, so it does not matter where the other core has got to.       *)
(***************************************************************************)
EXTENDS Integers, FiniteSets, SequencesExt

CONSTANTS
    Keyboards,    \* keyboards that may be plugged in
    Keys,         \* USB key codes
    RollOver,     \* the code 1 that fills the report of a full keyboard
    T, Caps,      \* codes 0x17 and 0x39
    Mods,         \* modifier bits
    Ctrls,        \* KEYBOARD_MODIFIER_LEFTCTRL, _RIGHTCTRL
    Shifts,       \* KEYBOARD_MODIFIER_LEFTSHIFT, _RIGHTSHIFT
    Code,         \* cc_keymap and cc_modifiers: 0 is no key
    Prints,       \* keys with a character in keycode2ascii
    MaxKeys,      \* keys one report can name (6)
    Hold          \* ticks a key is held before it counts as held (600 ms)

ASSUME KeysAssumption ==
    /\ IsFiniteSet(Keys) /\ IsFiniteSet(Mods)
    /\ {T, Caps} \subseteq Keys /\ RollOver \notin Keys /\ Keys \cap Mods = {}
    /\ Ctrls \subseteq Mods /\ Shifts \subseteq Mods /\ Prints \subseteq Keys
    /\ Code \in [Keys \cup Mods \cup {RollOver} -> Nat] /\ Code[RollOver] = 0
    /\ MaxKeys \in Nat \ {0} /\ Hold \in Nat

AllKeys == Keys \cup {RollOver}
Codes == {Code[k] : k \in Keys \cup Mods} \ {0}

VARIABLES
    held,         \* the keys and modifiers that are down on each keyboard
    prev_report,  \* the last report of any keyboard: its key slots and modifiers
    pressed,      \* keys whose keypress_time is not 0
    age,          \* how long ago that was
    caps_lock, shift_held, ctrl_held,
    out,          \* events the last handler pushed, in order
    down,         \* ghost: presses less releases per key code, as pushed
    terminated,   \* ghost: a terminate event was pushed
    mixed         \* ghost: a report was not the whole truth

vars == <<held, prev_report, pressed, age, caps_lock, shift_held, ctrl_held,
          out, down, terminated, mixed>>

Init ==
    /\ held = [b \in Keyboards |-> [keys |-> {}, mods |-> {}]]
    /\ prev_report = [keys |-> <<>>, mods |-> {}]
    /\ pressed = {} /\ age = [k \in AllKeys |-> 0]
    /\ caps_lock = FALSE /\ shift_held = FALSE /\ ctrl_held = FALSE
    /\ out = <<>> /\ down = [c \in Codes |-> 0] /\ terminated = FALSE
    /\ mixed = FALSE

-----------------------------------------------------------------------------
(* Events *)

Key(k, repeat) == [type |-> "key", code |-> Code[k], flag |-> repeat]
KeyUp(k)       == [type |-> "key_up", code |-> Code[k], flag |-> FALSE]
Char(k, upper) == [type |-> "char", code |-> Code[k], flag |-> upper]
TerminateEvent == [type |-> "terminate", code |-> 0, flag |-> FALSE]

CountOf(evs, type, c) ==
    Cardinality({i \in DOMAIN evs : /\ evs[i].type = type /\ evs[i].code = c
                                    /\ ~evs[i].flag})

Push(evs) ==
    /\ out' = evs
    /\ down' = [c \in Codes |->
                  down[c] + CountOf(evs, "key", c) - CountOf(evs, "key_up", c)]

-----------------------------------------------------------------------------
(* process_kbd_report *)

\* The character of a press: the modifier mask is compared with a bool, so a
\* shift (2, 32 or 34) differs from caps lock, 0 or 1, in either state.
PressUpper(mods, caps) == mods \cap Shifts # {} \/ caps

\* The first loop: slots whose key has no press time yet.  A caps lock slot
\* switches the case of the slots after it.
NewKeys(keys) == ToSet(keys) \ pressed
CapsAt(keys, i) ==
    caps_lock # (\E j \in 1..i - 1 : keys[j] = Caps /\ Caps \in NewKeys(keys))
SlotEvents(keys, mods, i) ==
    LET k == keys[i]
    IN  IF k \notin NewKeys(keys) \/ Code[k] = 0 THEN <<>>
        ELSE <<Key(k, FALSE)>> \o
             (IF k \in Prints THEN <<Char(k, PressUpper(mods, CapsAt(keys, i)))>>
                              ELSE <<>>)
PressEvents(keys, mods) ==
    FlattenSeq([i \in DOMAIN keys |-> SlotEvents(keys, mods, i)])

\* The second loop: modifier bits that differ from the previous report.
Changed(mods) == (mods \ prev_report.mods) \cup (prev_report.mods \ mods)
ModEvents(mods) ==
    LET changed == SetToSeq(Changed(mods))
    IN  [i \in DOMAIN changed |->
           IF changed[i] \in mods THEN Key(changed[i], FALSE)
                                  ELSE KeyUp(changed[i])]

\* Mutant of GoneKeys: the loop stops one slot short.
GoneKeysShort(keys) == ToSet(Front(prev_report.keys)) \ ToSet(keys)

\* The third loop: keys of the previous report that this one does not have.
GoneKeys(keys) == ToSet(prev_report.keys) \ ToSet(keys)
UpEvents(keys) ==
    FlattenSeq([i \in DOMAIN prev_report.keys |->
        LET k == prev_report.keys[i]
        IN  IF k \in GoneKeys(keys) /\ Code[k] # 0 THEN <<KeyUp(k)>> ELSE <<>>])

\* Mutant of process_kbd_report: a released key keeps its press time.
process_kbd_reportStuck(keys, mods) ==
    /\ Push(PressEvents(keys, mods) \o ModEvents(mods) \o UpEvents(keys))
    /\ pressed' = pressed \cup NewKeys(keys)
    /\ age' = [k \in AllKeys |-> IF k \in NewKeys(keys) THEN 0 ELSE age[k]]
    /\ caps_lock' = (caps_lock # (Caps \in NewKeys(keys)))
    /\ shift_held' = (mods \cap Shifts # {})
    /\ ctrl_held' = (mods \cap Ctrls # {})
    /\ prev_report' = [keys |-> keys, mods |-> mods]

process_kbd_report(keys, mods) ==
    /\ Push(PressEvents(keys, mods) \o ModEvents(mods) \o UpEvents(keys))
    /\ pressed' = (pressed \cup NewKeys(keys)) \ GoneKeys(keys)
    /\ age' = [k \in AllKeys |->
                 IF k \in NewKeys(keys) \cup GoneKeys(keys) THEN 0 ELSE age[k]]
    /\ caps_lock' = (caps_lock # (Caps \in NewKeys(keys)))
    /\ shift_held' = (mods \cap Shifts # {})
    /\ ctrl_held' = (mods \cap Ctrls # {})
    /\ prev_report' = [keys |-> keys, mods |-> mods]

-----------------------------------------------------------------------------
(* The steps *)

\* Mutant of Slots: a report has a slot for every key that is down.
SlotsForAll(ks) == SetToSeq(ks)

\* The key slots of a report of the keys ks.
Slots(ks) == IF Cardinality(ks) <= MaxKeys THEN SetToSeq(ks) ELSE <<RollOver>>

Nothing == [keys |-> {}, mods |-> {}]

\* Keys ks and modifiers ms are down on keyboard b, which sends a report.
\* It is not the whole truth when other keyboards have keys down or b has
\* more of them down than fit.
Report(b, ks, ms) ==
    /\ held' = [held EXCEPT ![b] = [keys |-> ks, mods |-> ms]]
    /\ process_kbd_report(Slots(ks), ms)
    /\ mixed' = (mixed \/ Cardinality(ks) > MaxKeys
                      \/ \E o \in Keyboards \ {b} : held[o] # Nothing)
    /\ UNCHANGED terminated

\* The keyboard is pulled out, whatever is down on it: tuh_hid_umount_cb
\* only prints.
Unplug(b) ==
    /\ held[b] # Nothing
    /\ held' = [held EXCEPT ![b] = Nothing]
    /\ mixed' = TRUE
    /\ UNCHANGED <<prev_report, pressed, age, caps_lock, shift_held, ctrl_held,
                   out, down, terminated>>

\* Time passes for the keys that are down.
Tick ==
    /\ \E k \in pressed : age[k] <= Hold
    /\ age' = [k \in AllKeys |->
                 IF k \in pressed /\ age[k] <= Hold THEN age[k] + 1 ELSE age[k]]
    /\ UNCHANGED <<held, prev_report, pressed, caps_lock, shift_held, ctrl_held,
                   out, down, terminated, mixed>>

\* absolute_time_diff_us of the Pico SDK (external).
TimeDiff(from, to) == to - from
Now == 0
PressTime(k) == Now - age[k]

\* repeat_timer asks for the time from now to the press.
HeldLong(k) == k \in pressed /\ TimeDiff(Now, PressTime(k)) > Hold

RepeatTimer ==
    LET ctrlT   == ctrl_held /\ HeldLong(T)
        still   == IF ctrlT THEN pressed \ {T} ELSE pressed
        repeats == SetToSeq({k \in still : HeldLong(k) /\ Code[k] # 0})
    IN  /\ pressed' = still
        /\ age' = IF ctrlT THEN [age EXCEPT ![T] = 0] ELSE age
        /\ terminated' = (terminated \/ ctrlT)
        /\ Push((IF ctrlT THEN <<TerminateEvent>> ELSE <<>>) \o
                FlattenSeq([i \in DOMAIN repeats |->
                    <<Key(repeats[i], TRUE)>> \o
                    (IF repeats[i] \in Prints
                       THEN <<Char(repeats[i], shift_held # caps_lock)>>
                       ELSE <<>>)]))
        /\ UNCHANGED <<held, prev_report, caps_lock, shift_held, ctrl_held, mixed>>

Next ==
    \/ \E b \in Keyboards, ks \in SUBSET Keys, ms \in SUBSET Mods : Report(b, ks, ms)
    \/ \E b \in Keyboards : Unplug(b)
    \/ Tick
    \/ RepeatTimer

\* Nobody unplugs a keyboard.
NextPlugged ==
    \/ \E b \in Keyboards, ks \in SUBSET Keys, ms \in SUBSET Mods : Report(b, ks, ms)
    \/ Tick
    \/ RepeatTimer

\* Time passes and the repeat timer goes off every 100 ms.
Fairness == WF_vars(Tick) /\ WF_vars(RepeatTimer)

Spec == Init /\ [][Next]_vars /\ Fairness
SpecPlugged == Init /\ [][NextPlugged]_vars /\ Fairness

-----------------------------------------------------------------------------
(* Properties *)

TypeOK ==
    /\ held \in [Keyboards -> [keys : SUBSET Keys, mods : SUBSET Mods]]
    /\ prev_report.keys \in Seq(AllKeys) /\ prev_report.mods \subseteq Mods
    /\ Len(prev_report.keys) <= MaxKeys
    /\ pressed \subseteq AllKeys /\ age \in [AllKeys -> 0..Hold + 1]
    /\ {caps_lock, shift_held, ctrl_held, terminated, mixed} \subseteq BOOLEAN
    /\ down \in [Codes -> Int]

DownIn(keys, mods, c) == Cardinality({k \in keys \cup mods : Code[k] = c})

\* What the program was told adds up to the driver's last report: every
\* press has at most one release, releases never come first, and two keys
\* with one key code are counted twice (process_kbd_report's three loops,
\* which work from two different memories, keypress_time and prev_report).
Balanced ==
    \A c \in Codes :
        down[c] = DownIn(ToSet(prev_report.keys), prev_report.mods, c)

\* How many keys and modifiers with code c are down on all keyboards.
Holders(c) ==
    Cardinality({on \in Keyboards \X (Keys \cup Mods) :
                   /\ on[2] \in held[on[1]].keys \cup held[on[1]].mods
                   /\ Code[on[2]] = c})

\* As long as only one keyboard at a time has keys down, never more than its
\* report can name, and none is pulled out with keys down, the program knows
\* exactly which keys are down (process_kbd_report, tuh_hid_umount_cb).
ProgramKnowsKeys == ~mixed => \A c \in Codes : down[c] = Holders(c)

\* help/programming.txt of the ROM: "To terminate a program stuck in a loop,
\* hold Ctrl+T for 1 second."
CtrlTHeld == \E b \in Keyboards : T \in held[b].keys /\ held[b].mods \cap Ctrls # {}
CtrlTTerminates == (<>[]CtrlTHeld) => <>terminated
=============================================================================
