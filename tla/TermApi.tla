------------------------------- MODULE TermApi -------------------------------
(***************************************************************************)
(* The term API, apis/term.cpp, over the arrays of modules/terminal.cpp:   *)
(* where text, clears and scrolls fall in memory, and how colors become    *)
(* palette entries.  Only the main task runs these functions; how they     *)
(* reach the panel is in Terminal.                                         *)
(*                                                                         *)
(* TermWindow is the window a program sees; the arrays implement it.       *)
(***************************************************************************)
EXTENDS Integers, Sequences, FiniteSets

CONSTANTS
    SCREEN_WIDTH, SCREEN_HEIGHT,
    Glyphs,       \* the bytes of a cell
    Blank,        \* ' ', one of them
    Garbage,      \* what lies in memory before a string
    Texts,        \* strings programs write
    Blits,        \* pairs of a string and a sequence of inks, as blit gets
    Places,       \* cursor positions programs set, from 0 on
    Lines,        \* numbers programs pass to scroll
    ColorArgs,    \* numbers programs pass as colors
    Levels,       \* red, green or blue, in quarters
    MaxCalls      \* bound of this model: calls a program makes

SCREEN_SIZE == SCREEN_WIDTH * SCREEN_HEIGHT
Colors == 0..15
Inks == Colors \X Colors

ASSUME TermAssumption ==
    /\ SCREEN_WIDTH \in Nat \ {0} /\ SCREEN_HEIGHT \in Nat \ {0}
    /\ Blank \in Glyphs /\ Texts \subseteq Seq(Glyphs)
    /\ \A b \in Blits : /\ b[1] \in Seq(Glyphs) /\ b[2] \in Seq(Inks)
                        /\ Len(b[1]) = Len(b[2])
    /\ Places \subseteq Int \X Int /\ Lines \subseteq Int
    /\ ColorArgs \subseteq Nat /\ Levels \subseteq 0..4
    /\ MaxCalls \in Nat

VARIABLES
    screen, colors,           \* the arrays of terminal.cpp
    shownX, shownY, shownColor, \* its cursor
    cursorX, cursorY, cursorBlink, current_colors,   \* of term.cpp
    palette,
    wanted,                   \* ghost: quarters last asked for each color
    overrun,                  \* ghost: a call touched memory outside the arrays
    calls

memory == <<screen, colors, overrun>>
shown == <<shownX, shownY, shownColor>>
vars == <<memory, shown, cursorX, cursorY, cursorBlink, current_colors, palette,
          wanted, calls>>

NoColor == -1
\* What terminal_init copies in: RGB565, which the API cannot read back.
Default == [native |-> TRUE]

Init ==
    /\ screen = [i \in 0..SCREEN_SIZE - 1 |-> Blank]
    /\ colors = [i \in 0..SCREEN_SIZE - 1 |-> <<0, 15>>]
    /\ overrun = FALSE
    /\ shownX = 0 /\ shownY = 0 /\ shownColor = NoColor
    /\ cursorX = 0 /\ cursorY = 0 /\ cursorBlink = FALSE
    /\ current_colors = <<0, 15>>
    /\ palette = [c \in Colors |-> Default]
    /\ wanted = [c \in Colors |-> <<0, 0, 0>>]
    /\ calls = 0

-----------------------------------------------------------------------------
(* memset, memcpy and memmove on one of the arrays *)

InArray(from, n) == n >= 0 /\ from >= 0 /\ from + n <= SCREEN_SIZE
Covers(from, n, i) == from <= i /\ i < from + n

Set(mem, from, n, v) ==
    [i \in DOMAIN mem |-> IF Covers(from, n, i) THEN v ELSE mem[i]]
Copy(mem, from, n, bytes) ==
    [i \in DOMAIN mem |-> IF Covers(from, n, i) THEN bytes[i - from] ELSE mem[i]]
Move(mem, to, from, n) ==
    [i \in DOMAIN mem |-> IF Covers(to, n, i) THEN mem[i - to + from] ELSE mem[i]]

-----------------------------------------------------------------------------
(* modules/terminal.cpp *)

\* The element of a sequence at an offset, or what lies before its start.
At(s, i, before) == IF i \in 0..Len(s) - 1 THEN s[i + 1] ELSE before

\* How much of a text of length len fits from column x on.
Clipped(x, len) == IF x + len > SCREEN_WIDTH THEN SCREEN_WIDTH - x ELSE len

\* Left of the screen, x is added to the string's address and taken from its
\* length, and both are wrong by its sign.
Put(x, y, text, inks, before) ==
    LET off == IF x < 0 THEN x ELSE 0
        col == IF x < 0 THEN 0 ELSE x
        len == Clipped(col, Len(text) - off)
        from == y * SCREEN_WIDTH + col
    IN IF y < 0 \/ y >= SCREEN_HEIGHT \/ x >= SCREEN_WIDTH \/ len <= 0
       THEN UNCHANGED memory
       ELSE /\ screen' = Copy(screen, from, len,
                              [i \in 0..len - 1 |-> At(text, off + i, Garbage)])
            /\ colors' = Copy(colors, from, len,
                              [i \in 0..len - 1 |-> At(inks, off + i, before)])
            /\ overrun' = (overrun \/ ~ InArray(from, len))

terminal_write(x, y, text) ==
    Put(x, y, text, [i \in 1..Len(text) |-> current_colors], current_colors)

terminal_blit(x, y, text, inks) == Put(x, y, text, inks, Garbage)

terminal_clear(line) ==
    LET from == IF line < 0 THEN 0 ELSE line * SCREEN_WIDTH
        n == IF line < 0 THEN SCREEN_SIZE ELSE SCREEN_WIDTH
    IN /\ screen' = Set(screen, from, n, Blank)
       /\ colors' = Set(colors, from, n, current_colors)
       /\ overrun' = (overrun \/ ~ InArray(from, n))

\* Mutant of Moved: scrolling down fills the last rows.
MovedBelow(lines) ==
    IF lines > 0
    THEN LET kept == (SCREEN_HEIGHT - lines) * SCREEN_WIDTH
         IN [to |-> 0, from |-> lines * SCREEN_WIDTH, kept |-> kept,
             free |-> kept, n |-> lines * SCREEN_WIDTH]
    ELSE LET kept == (SCREEN_HEIGHT + lines) * SCREEN_WIDTH
         IN [to |-> -lines * SCREEN_WIDTH, from |-> 0, kept |-> kept,
             free |-> kept, n |-> -lines * SCREEN_WIDTH]

\* Where a scroll moves the rows it keeps, and where the n cells begin that
\* come free: the arguments of memmove and memset.
Moved(lines) ==
    IF lines > 0
    THEN LET kept == (SCREEN_HEIGHT - lines) * SCREEN_WIDTH
         IN [to |-> 0, from |-> lines * SCREEN_WIDTH, kept |-> kept,
             free |-> kept, n |-> lines * SCREEN_WIDTH]
    ELSE LET kept == (SCREEN_HEIGHT + lines) * SCREEN_WIDTH
         IN [to |-> -lines * SCREEN_WIDTH, from |-> 0, kept |-> kept,
             free |-> 0, n |-> -lines * SCREEN_WIDTH]

\* One array, scrolled: v fills what comes free.
Scrolled(mem, lines, v) ==
    LET m == Moved(lines)
    IN Set(Move(mem, m.to, m.from, m.kept), m.free, m.n, v)

\* What is written, read and filled lies in the array.
ScrollsInArray(lines) ==
    LET m == Moved(lines)
    IN InArray(m.to, m.kept) /\ InArray(m.from, m.kept) /\ InArray(m.free, m.n)

\* Mutant of terminal_scroll: only the way up is compared with the height.
terminal_scrollUp(lines) ==
    IF lines >= SCREEN_HEIGHT
    THEN terminal_clear(-1)
    ELSE /\ screen' = Scrolled(screen, lines, Blank)
         /\ colors' = Scrolled(colors, lines, current_colors)
         /\ overrun' = (overrun \/ ~ ScrollsInArray(lines))

terminal_scroll(lines) ==
    IF lines >= SCREEN_HEIGHT \/ -lines >= SCREEN_HEIGHT
    THEN terminal_clear(-1)
    ELSE /\ screen' = Scrolled(screen, lines, Blank)
         /\ colors' = Scrolled(colors, lines, current_colors)
         /\ overrun' = (overrun \/ ~ ScrollsInArray(lines))

terminal_cursor(color, x, y) == shownColor' = color /\ shownX' = x /\ shownY' = y

-----------------------------------------------------------------------------
(* Colors and the palette *)

\* How often a number of 32 bits can be shifted to the right before it is 1;
\* 0 for 0.
log2i(n) == Cardinality({i \in 0..30 : n \div 2^i > 1})

\* Mutant of ColorOf: the color is not masked.
ColorOfLoose(n) == log2i(n)

ColorOf(n) == log2i(n) % 16

\* Mutant of Adjusted: a component of 4 beside a 0 stays as it is.
AdjustedNot(r, g, b) ==
    IF r # 0 /\ g # 0 /\ b # 0 THEN [r |-> r - 1, g |-> g - 1, b |-> b - 1, i |-> 3]
    ELSE [r |-> r, g |-> g, b |-> b, i |-> 1]

\* Components of 0..4 quarters in two bits each.  All three share the quarter
\* of i = 3, so a 4 beside a 0 costs one of them a quarter.
Adjusted(r, g, b) ==
    LET all == [r |-> r - 1, g |-> g - 1, b |-> b - 1, i |-> 3]
    IN IF r # 0 /\ g # 0 /\ b # 0 THEN all
       ELSE IF r >= 4 \/ g >= 4 \/ b >= 4
       THEN IF r = 0 /\ g = 0 THEN [r |-> r, g |-> g, b |-> 3, i |-> 1]
            ELSE IF g = 0 /\ b = 0 THEN [r |-> 3, g |-> g, b |-> b, i |-> 1]
            ELSE IF b = 0 /\ r = 0 THEN [r |-> r, g |-> 3, b |-> b, i |-> 1]
            ELSE IF r = 0 THEN [all EXCEPT !.r = 0]
            ELSE IF g = 0 THEN [all EXCEPT !.g = 0]
            ELSE [all EXCEPT !.b = 0]
       ELSE [r |-> r, g |-> g, b |-> b, i |-> 1]

\* The byte stored: two bits of each component.
Packed(v) == [r |-> v.r % 4, g |-> v.g % 4, b |-> v.b % 4, i |-> v.i]

\* getPaletteColor's component, in quarters.
Quarters(v, n) == n + (IF v.i = 3 THEN 1 ELSE 0)

-----------------------------------------------------------------------------
(* apis/term.cpp *)

Call == calls < MaxCalls /\ calls' = calls + 1

ShowCursor(blink, x, y) ==
    terminal_cursor(IF blink THEN current_colors[1] ELSE NoColor, x, y)

Write(text) ==
    /\ Call
    /\ terminal_write(cursorX, cursorY, text)
    /\ cursorX' = cursorX + Len(text)
    /\ ShowCursor(cursorBlink, cursorX', cursorY)
    /\ UNCHANGED <<cursorY, cursorBlink, current_colors, palette, wanted>>

Blit(text, inks) ==
    /\ Call
    /\ terminal_blit(cursorX, cursorY, text, inks)
    /\ cursorX' = cursorX + Len(text)
    /\ ShowCursor(cursorBlink, cursorX', cursorY)
    /\ UNCHANGED <<cursorY, cursorBlink, current_colors, palette, wanted>>

ApiState == <<shown, cursorX, cursorY, cursorBlink, current_colors, palette, wanted>>

Clear == Call /\ terminal_clear(-1) /\ UNCHANGED ApiState

ClearLine ==
    /\ cursorY >= 0 /\ cursorY < SCREEN_HEIGHT
    /\ Call
    /\ terminal_clear(cursorY)
    /\ UNCHANGED ApiState

Scroll(lines) == Call /\ terminal_scroll(lines) /\ UNCHANGED ApiState

SetCursorPos(x, y) ==
    /\ Call
    /\ cursorX' = x /\ cursorY' = y
    /\ ShowCursor(cursorBlink, x, y)
    /\ UNCHANGED <<memory, cursorBlink, current_colors, palette, wanted>>

SetCursorBlink(on) ==
    /\ Call
    /\ cursorBlink' = on
    /\ ShowCursor(on, cursorX, cursorY)
    /\ UNCHANGED <<memory, cursorX, cursorY, current_colors, palette, wanted>>

\* The cursor's color stays until it is shown again.
SetTextColor(n) ==
    /\ Call
    /\ current_colors' = <<ColorOf(n), current_colors[2]>>
    /\ UNCHANGED <<memory, shown, cursorX, cursorY, cursorBlink, palette, wanted>>

SetBackgroundColor(n) ==
    /\ Call
    /\ current_colors' = <<current_colors[1], ColorOf(n)>>
    /\ UNCHANGED <<memory, shown, cursorX, cursorY, cursorBlink, palette, wanted>>

SetPaletteColor(n, r, g, b) ==
    /\ Call
    /\ palette' = [palette EXCEPT ![ColorOf(n)] = Packed(Adjusted(r, g, b))]
    /\ wanted' = [wanted EXCEPT ![ColorOf(n)] = <<r, g, b>>]
    /\ UNCHANGED <<memory, shown, cursorX, cursorY, cursorBlink, current_colors>>

Next ==
    \/ \E text \in Texts : Write(text)
    \/ \E b \in Blits : Blit(b[1], b[2])
    \/ Clear \/ ClearLine
    \/ \E n \in Lines : Scroll(n)
    \/ \E p \in Places : SetCursorPos(p[1], p[2])
    \/ \E on \in BOOLEAN : SetCursorBlink(on)
    \/ \E n \in ColorArgs : SetTextColor(n) \/ SetBackgroundColor(n)
    \/ \E n \in ColorArgs, r, g, b \in Levels : SetPaletteColor(n, r, g, b)

Spec == Init /\ [][Next]_vars
-----------------------------------------------------------------------------
(* Properties *)

Cells == 0..SCREEN_SIZE - 1

TypeOK ==
    /\ screen \in [Cells -> Glyphs \cup {Garbage}]
    /\ colors \in [Cells -> Inks \cup {Garbage}]
    /\ current_colors \in Inks
    /\ shownColor \in Colors \cup {NoColor}
    /\ {cursorX, cursorY, shownX, shownY} \subseteq Int
    /\ palette \in [Colors -> {Default} \cup
                               [r : 0..3, g : 0..3, b : 0..3, i : {1, 3}]]
    /\ wanted \in [Colors -> (0..4) \X (0..4) \X (0..4)]
    /\ cursorBlink \in BOOLEAN
    /\ calls \in 0..MaxCalls

\* No text or clear writes outside the two arrays, wherever the cursor is, and
\* no scroll moves rows to, moves them from, or fills, a place outside them,
\* however far it goes (the clipping in terminal_write, terminal_blit and
\* term_clearLine, the comparison with the height in terminal_scroll).
NeverOverruns == ~ overrun

\* The terminal draws the cursor where the API says it is, and draws one
\* exactly when it blinks: whatever moves it calls terminal_cursor.
CursorFollows ==
    /\ shownX = cursorX /\ shownY = cursorY
    /\ (shownColor = NoColor) = ~ cursorBlink

\* A color read back is within a quarter of the one that was set, in each
\* component (term_setPaletteColor's comment: "this should cover all of
\* them?").
PaletteClose ==
    \A c \in Colors :
        LET v == palette[c]
        IN v # Default =>
             /\ Quarters(v, v.r) - wanted[c][1] \in -1..1
             /\ Quarters(v, v.g) - wanted[c][2] \in -1..1
             /\ Quarters(v, v.b) - wanted[c][3] \in -1..1

\* Row after row.
Index(p) == p[2] * SCREEN_WIDTH + p[1]
WindowCell == [p \in (0..SCREEN_WIDTH - 1) \X (0..SCREEN_HEIGHT - 1) |->
                 <<screen[Index(p)], colors[Index(p)]>>]

Window == INSTANCE TermWindow WITH
    W <- SCREEN_WIDTH, H <- SCREEN_HEIGHT,
    Looks <- (Glyphs \cup {Garbage}) \X (Inks \cup {Garbage}),
    Texts <- Texts \cup {b[1] : b \in Blits},
    cell <- WindowCell,
    at <- <<cursorX, cursorY>>,
    ink <- current_colors

\* The arrays are the window the API promises: text, clears and scrolls fall
\* into the cells they should, whatever part of them falls outside
\* (terminal.cpp's clipping and index arithmetic).
RefinesWindow == Window!Spec
=============================================================================
