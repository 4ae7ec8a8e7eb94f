------------------------------ MODULE Terminal ------------------------------
(***************************************************************************)
(* The path of a character to the display: modules/terminal.cpp and        *)
(* drivers/screen.cpp.  The main task writes the screen and colors arrays  *)
(* and sets `changed`; the terminal task (every 30 ms) tests and clears    *)
(* `changed` and draws the framebuffer row by row; the blink timer toggles *)
(* the cursor; the screen task copies the framebuffer to the display each  *)
(* time the terminal task gives its semaphore.  Nothing is locked.         *)
(*                                                                         *)
(* A text row is one glyph and one attribute; the order of the stores and  *)
(* reads is the code's.  The terminal task and the timer daemon have one   *)
(* priority (4) and run on two cores at one time; Overlap says whether     *)
(* they may also run while the main task (3) holds a core.  If not, a core *)
(* is theirs only while the main task waits for an event: nothing preempts *)
(* a program that computes.  The screen task has the lowest priority (1).  *)
(***************************************************************************)
EXTENDS Integers

CONSTANTS
    Height,       \* text rows of the screen (26)
    Glyphs,       \* what a row may show
    Blank,        \* the blank glyph
    Attrs,        \* foreground and background of a row
    Palettes,     \* states of the 16 palette entries
    CursorRows,   \* rows the cursor is put on
    Overlap       \* may the main task run at the same time as the others?

ASSUME HeightAssumption == Height \in Nat \ {0}
ASSUME BlankAssumption == Blank \in Glyphs
ASSUME PaletteAssumption == Palettes # {}
ASSUME CursorAssumption == CursorRows \subseteq Nat /\ Overlap \in BOOLEAN

Rows == 1..Height
NoColor == -1
NoCursor == -2
CursorColors == {NoColor, 0}

VARIABLES
    screen,       \* the glyph of each row
    colors,       \* its attribute
    palette,
    cursorY, cursorOn, cursorColor,
    changed,
    framebuffer,  \* what was drawn of each row
    display,      \* what the panel shows of each row
    screen_sem,   \* the binary semaphore of screen.cpp
    pc,           \* where the main, terminal, blink and screen tasks are; main
                  \* is "idle" between calls and "wait" in event_wait
    todo,         \* what the main task's call has yet to store
    row,          \* the row the terminal task draws
    line          \* the row the screen task copies

vars == <<screen, colors, palette, cursorY, cursorOn, cursorColor, changed,
          framebuffer, display, screen_sem, pc, todo, row, line>>

text   == <<screen, colors>>
cursor == <<cursorY, cursorOn, cursorColor>>
panel  == <<display, screen_sem, line>>

\* What a row looks like when it is drawn now.
CursorAt(r) == IF cursorOn /\ cursorY = r THEN cursorColor ELSE NoCursor
Image(r) == <<screen[r], colors[r], palette, CursorAt(r)>>

Blanks(a) == [r \in Rows |-> <<Blank, a, CHOOSE p \in Palettes : TRUE, NoCursor>>]

\* After terminal_init and screen_init: a cleared screen nobody drew yet.
Init ==
    \E a \in Attrs :
      /\ screen = [r \in Rows |-> Blank] /\ colors = [r \in Rows |-> a]
      /\ palette = (CHOOSE p \in Palettes : TRUE)
      /\ cursorY = 0 /\ cursorOn = FALSE /\ cursorColor = NoColor
      /\ changed = TRUE
      /\ framebuffer = Blanks(a) /\ display = Blanks(a) /\ screen_sem = FALSE
      /\ pc = [main |-> "idle", terminal |-> "check", blink |-> "idle",
               screen |-> "take"]
      /\ todo = colors /\ row = 1 /\ line = 1

-----------------------------------------------------------------------------
(* The main task: terminal_write, _blit, _clear, _scroll, _cursor *)

Goto(t, l) == pc' = [pc EXCEPT ![t] = l]
Waits == pc.main = "wait"
MainMay == Overlap \/ (pc.terminal = "check" /\ pc.blink = "idle")
OthersMay == Overlap \/ Waits

\* The program asks for an event and none is queued: the main task blocks, ...
Pull ==
    /\ MainMay /\ pc.main = "idle" /\ Goto("main", "wait")
    /\ UNCHANGED <<text, palette, cursor, changed, framebuffer, panel, todo, row>>

\* ... and one comes.
Pulled ==
    /\ MainMay /\ Waits /\ Goto("main", "idle")
    /\ UNCHANGED <<text, palette, cursor, changed, framebuffer, panel, todo, row>>

\* A call first stores the glyphs, ...
StoreGlyphs(newScreen, newColors) ==
    /\ MainMay /\ pc.main = "idle"
    /\ screen' = newScreen /\ todo' = newColors
    /\ Goto("main", "colors")
    /\ UNCHANGED <<colors, palette, cursor, changed, framebuffer, panel, row>>

\* terminal_write and terminal_blit on row r.
Write(r, g, a) ==
    StoreGlyphs([screen EXCEPT ![r] = g], [colors EXCEPT ![r] = a])

\* terminal_clear of one line or, for line < 0, of all.
Clear(rs, a) ==
    StoreGlyphs([r \in Rows |-> IF r \in rs THEN Blank ELSE screen[r]],
                [r \in Rows |-> IF r \in rs THEN a ELSE colors[r]])

\* terminal_scroll: rows that leave are lost, rows that come in are blank;
\* further than the height it is a clear.
Scroll(n, a) ==
    StoreGlyphs([r \in Rows |-> IF r + n \in Rows THEN screen[r + n] ELSE Blank],
                [r \in Rows |-> IF r + n \in Rows THEN colors[r + n] ELSE a])

\* ... then the colors, ...
StoreColors ==
    /\ MainMay /\ pc.main = "colors"
    /\ colors' = todo /\ Goto("main", "flag")
    /\ UNCHANGED <<screen, palette, cursor, changed, framebuffer, panel, todo, row>>

\* ... then sets the flag.
SetChanged ==
    /\ MainMay /\ pc.main = "flag"
    /\ changed' = TRUE /\ Goto("main", "idle")
    /\ UNCHANGED <<text, palette, cursor, framebuffer, panel, todo, row>>

\* terminal_cursor: the color and the place, then the switch.
CursorPlace(c, y) ==
    /\ MainMay /\ pc.main = "idle"
    /\ cursorColor' = c /\ cursorY' = y
    /\ Goto("main", "cursor")
    /\ UNCHANGED <<text, palette, cursorOn, changed, framebuffer, panel, todo, row>>

\* Mutant of CursorSwitch: the cursor of no color stays on.
CursorSwitchNever ==
    /\ MainMay /\ pc.main = "cursor"
    /\ Goto("main", "flag")
    /\ UNCHANGED <<text, palette, cursor, changed, framebuffer, panel, todo, row>>

CursorSwitch ==
    /\ MainMay /\ pc.main = "cursor"
    /\ cursorOn' = (cursorOn /\ cursorColor # NoColor)
    /\ Goto("main", "flag")
    /\ UNCHANGED <<text, palette, cursorY, cursorColor, changed, framebuffer,
                   panel, todo, row>>

\* term.setPaletteColor stores the entry and leaves the flag alone.
SetPalette(p) ==
    /\ MainMay /\ pc.main = "idle" /\ palette' = p
    /\ UNCHANGED <<text, cursor, changed, framebuffer, panel, pc, todo, row>>

-----------------------------------------------------------------------------
(* The terminal task *)

TerminalCheck ==
    /\ OthersMay /\ pc.terminal = "check" /\ changed
    /\ Goto("terminal", "clear")
    /\ UNCHANGED <<text, palette, cursor, changed, framebuffer, panel, todo, row>>

TerminalClear ==
    /\ OthersMay /\ pc.terminal = "clear"
    /\ changed' = FALSE /\ row' = 1 /\ Goto("terminal", "draw")
    /\ UNCHANGED <<text, palette, cursor, framebuffer, panel, todo>>

\* Mutant of TerminalDraw: one row too many.
TerminalDrawPast ==
    /\ OthersMay /\ pc.terminal = "draw"
    /\ framebuffer' = [framebuffer EXCEPT ![row] = Image(row)]
    /\ IF row <= Height
         THEN row' = row + 1 /\ UNCHANGED pc
         ELSE Goto("terminal", "give") /\ UNCHANGED row
    /\ UNCHANGED <<text, palette, cursor, changed, panel, todo>>

TerminalDraw ==
    /\ OthersMay /\ pc.terminal = "draw"
    /\ framebuffer' = [framebuffer EXCEPT ![row] = Image(row)]
    /\ IF row < Height
         THEN row' = row + 1 /\ UNCHANGED pc
         ELSE Goto("terminal", "give") /\ UNCHANGED row
    /\ UNCHANGED <<text, palette, cursor, changed, panel, todo>>

\* Mutants of TerminalGive: the flag is cleared after the drawing as well;
\* the screen task is not told.
TerminalGiveClears ==
    /\ OthersMay /\ pc.terminal = "give"
    /\ screen_sem' = TRUE /\ changed' = FALSE /\ Goto("terminal", "check")
    /\ UNCHANGED <<text, palette, cursor, framebuffer, display, todo, row, line>>

TerminalGiveNot ==
    /\ OthersMay /\ pc.terminal = "give" /\ Goto("terminal", "check")
    /\ UNCHANGED <<text, palette, cursor, changed, framebuffer, panel, todo, row>>

\* screen_update, then the 30 ms delay.
TerminalGive ==
    /\ OthersMay /\ pc.terminal = "give"
    /\ screen_sem' = TRUE /\ Goto("terminal", "check")
    /\ UNCHANGED <<text, palette, cursor, changed, framebuffer, display, todo,
                   row, line>>

-----------------------------------------------------------------------------
(* The blink timer, terminal_blink_task *)

BlinkTest ==
    /\ OthersMay /\ pc.blink = "idle" /\ cursorColor >= 0
    /\ Goto("blink", "toggle")
    /\ UNCHANGED <<text, palette, cursor, changed, framebuffer, panel, todo, row>>

BlinkToggle ==
    /\ OthersMay /\ pc.blink = "toggle"
    /\ cursorOn' = ~cursorOn /\ Goto("blink", "flag")
    /\ UNCHANGED <<text, palette, cursorY, cursorColor, changed, framebuffer,
                   panel, todo, row>>

BlinkFlag ==
    /\ OthersMay /\ pc.blink = "flag"
    /\ changed' = TRUE /\ Goto("blink", "idle")
    /\ UNCHANGED <<text, palette, cursor, framebuffer, panel, todo, row>>

-----------------------------------------------------------------------------
(* The screen task: the main task, of higher priority, must wait for it to *)
(* get a core.  It keeps that core, as nothing preempts it.                *)

ScreenTake ==
    /\ Waits /\ pc.screen = "take" /\ screen_sem
    /\ screen_sem' = FALSE /\ line' = 1 /\ Goto("screen", "copy")
    /\ UNCHANGED <<text, palette, cursor, changed, framebuffer, display, todo, row>>

\* Mutant of ScreenCopy: the semaphore is emptied after the copy as well.
ScreenCopyTakes ==
    /\ pc.screen = "copy"
    /\ display' = [display EXCEPT ![line] = framebuffer[line]]
    /\ IF line < Height
         THEN line' = line + 1 /\ UNCHANGED <<pc, screen_sem>>
         ELSE Goto("screen", "take") /\ screen_sem' = FALSE /\ UNCHANGED line
    /\ UNCHANGED <<text, palette, cursor, changed, framebuffer, todo, row>>

ScreenCopy ==
    /\ pc.screen = "copy"
    /\ display' = [display EXCEPT ![line] = framebuffer[line]]
    /\ IF line < Height
         THEN line' = line + 1 /\ UNCHANGED pc
         ELSE Goto("screen", "take") /\ UNCHANGED line
    /\ UNCHANGED <<text, palette, cursor, changed, framebuffer, screen_sem, todo, row>>

-----------------------------------------------------------------------------

Next ==
    \/ \E r \in Rows, g \in Glyphs, a \in Attrs : Write(r, g, a)
    \/ \E r \in Rows, a \in Attrs : Clear({r}, a)
    \/ \E a \in Attrs : Clear(Rows, a)
    \/ \E n \in -Height..Height, a \in Attrs : Scroll(n, a)
    \/ StoreColors
    \/ SetChanged
    \/ \E c \in CursorColors, y \in CursorRows : CursorPlace(c, y)
    \/ CursorSwitch
    \/ \E p \in Palettes : SetPalette(p)
    \/ Pull
    \/ Pulled
    \/ TerminalCheck
    \/ TerminalClear
    \/ TerminalDraw
    \/ TerminalGive
    \/ BlinkTest
    \/ BlinkToggle
    \/ BlinkFlag
    \/ ScreenTake
    \/ ScreenCopy

MainGoesOn == StoreColors \/ SetChanged \/ CursorSwitch
TerminalStep == TerminalCheck \/ TerminalClear \/ TerminalDraw \/ TerminalGive
BlinkGoesOn == BlinkToggle \/ BlinkFlag

\* A call that has begun ends and so does a started blink.  The terminal and
\* the screen task go on if the main task waits for an event again and again;
\* a program that only computes is promised no drawing.  Nothing makes the
\* program call, wait or be sent an event.
Fairness ==
    /\ WF_vars(MainGoesOn) /\ WF_vars(BlinkGoesOn)
    /\ SF_vars(Waits /\ TerminalStep)
    /\ SF_vars(ScreenTake) /\ SF_vars(Waits /\ ScreenCopy)

Spec == Init /\ [][Next]_vars /\ Fairness

-----------------------------------------------------------------------------
(* Properties *)

Drawn == Glyphs \X Attrs \X Palettes \X (CursorColors \cup {NoCursor})

TypeOK ==
    /\ screen \in [Rows -> Glyphs] /\ colors \in [Rows -> Attrs]
    /\ palette \in Palettes
    /\ cursorY \in CursorRows \cup {0}
    /\ cursorOn \in BOOLEAN /\ cursorColor \in CursorColors
    /\ changed \in BOOLEAN
    /\ framebuffer \in [Rows -> Drawn] /\ display \in [Rows -> Drawn]
    /\ screen_sem \in BOOLEAN
    /\ pc \in [main : {"idle", "wait", "colors", "flag", "cursor"},
               terminal : {"check", "clear", "draw", "give"},
               blink : {"idle", "toggle", "flag"},
               screen : {"take", "copy"}]
    /\ todo \in [Rows -> Attrs] /\ row \in Rows /\ line \in Rows

\* What a row would look like but for the palette, which has no flag.
Looks(drawn) == <<drawn[1], drawn[2], drawn[4]>>

\* No update of text or cursor is lost between two tasks that share one
\* unlocked flag: a row of the framebuffer that is out of date will be drawn,
\* because the flag is set, or about to be set by whoever made the change,
\* or the terminal task has yet to get to that row (terminal_task clears the
\* flag before it draws, the writers set it after they store).
WillDraw(r) ==
    \/ changed
    \/ pc.main \in {"colors", "flag", "cursor"}
    \/ pc.blink = "flag"
    \/ pc.terminal = "clear"
    \/ pc.terminal = "draw" /\ row <= r
NoLostUpdate ==
    \A r \in Rows : Looks(framebuffer[r]) = Looks(Image(r)) \/ WillDraw(r)

\* The panel is never left behind the framebuffer: the semaphore is given, or
\* will be, or the copy has not got there yet (screen_update, screen_task).
NoLostFrame ==
    \A r \in Rows :
        \/ display[r] = framebuffer[r]
        \/ screen_sem
        \/ pc.terminal \in {"draw", "give"}
        \/ pc.screen = "copy" /\ line <= r

\* palette[cursorColor] is read with the cursor on only for a real color.
\* With Overlap the blink timer can test the color, lose it to
\* terminal_cursor and then switch the cursor on.
CursorColorValid == cursorOn /\ pc.main # "cursor" => cursorColor # NoColor

\* When the program stops writing, has no cursor blink, and waits for events
\* again and again, the panel comes to show the screen and stays so.  The
\* waiting is part of the premise: while a program only computes, the
\* terminal and the screen task get no core.
Quiet == pc.main \in {"idle", "wait"} /\ cursorColor = NoColor
DisplaySettles ==
    <>[]Quiet /\ []<>Waits
        => <>[](\A r \in Rows : Looks(display[r]) = Looks(Image(r)))

=============================================================================
