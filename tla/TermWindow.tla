----------------------------- MODULE TermWindow -----------------------------
(***************************************************************************)
(* What the term API promises: a window of W by H cells, a cursor that may *)
(* lie anywhere, and the colors the next text gets.  Text goes from the    *)
(* cursor to the right and shows where it falls inside the window.         *)
(*                                                                         *)
(* For text that begins left of the window this code promises less: what   *)
(* it makes of the cursor's row is left open, the other rows stay.         *)
(***************************************************************************)
EXTENDS Integers, Sequences

CONSTANTS W, H, Blank,
          Texts,     \* sequences of glyphs programs write
          Blits,     \* pairs of such a sequence and one of inks
          Inks,      \* pairs of a text and a background color
          Looks,     \* what a cell may show: pairs of a glyph and an ink
          Lines      \* numbers programs pass to scroll

VARIABLES cell, at, ink

vars == <<cell, at, ink>>

Positions == (0..W - 1) \X (0..H - 1)

Init ==
    /\ ink \in Inks /\ at = <<0, 0>>
    /\ cell = [p \in Positions |-> <<Blank, ink>>]

\* The cells that take text from the cursor on, and which glyph of it.
Takes(p, n) == p[2] = at[2] /\ p[1] - at[1] \in 0..n - 1
Nth(p) == p[1] - at[1] + 1

Advance(n) == at' = <<at[1] + n, at[2]>>

Put(text, inks) ==
    /\ at[1] >= 0
    /\ cell' = [p \in Positions |->
                  IF Takes(p, Len(text)) THEN <<text[Nth(p)], inks[Nth(p)]>>
                  ELSE cell[p]]
    /\ Advance(Len(text))
    /\ UNCHANGED ink

PutFromLeft(text) ==
    /\ at[1] < 0
    /\ cell' \in [Positions -> Looks]
    /\ \A p \in Positions : p[2] # at[2] => cell'[p] = cell[p]
    /\ Advance(Len(text))
    /\ UNCHANGED ink

Write(text) == Put(text, [i \in 1..Len(text) |-> ink])

Clear == cell' = [p \in Positions |-> <<Blank, ink>>] /\ UNCHANGED <<at, ink>>

ClearLine ==
    /\ cell' = [p \in Positions |-> IF p[2] = at[2] THEN <<Blank, ink>> ELSE cell[p]]
    /\ UNCHANGED <<at, ink>>

Scroll(n) ==
    /\ cell' = [p \in Positions |->
                  IF p[2] + n \in 0..H - 1 THEN cell[<<p[1], p[2] + n>>]
                  ELSE <<Blank, ink>>]
    /\ UNCHANGED <<at, ink>>

SetCursorPos == at' \in Int \X Int /\ UNCHANGED <<cell, ink>>
SetColors == ink' \in Inks /\ UNCHANGED <<cell, at>>

Next ==
    \/ \E text \in Texts :
         \/ Write(text) \/ PutFromLeft(text)
    \/ \E b \in Blits : Put(b[1], b[2])
    \/ Clear \/ ClearLine
    \/ \E n \in Lines : Scroll(n)
    \/ SetCursorPos \/ SetColors

Spec == Init /\ [][Next]_vars
=============================================================================
