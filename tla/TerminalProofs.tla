--------------------------- MODULE TerminalProofs ---------------------------
(***************************************************************************)
(* Terminal for screens of any height and any scheduling: no update of the *)
(* screen and no frame is lost to the unlocked flag and the semaphore.     *)
(* With the kernel's schedule, the cursor that is on has a color.          *)
(***************************************************************************)
EXTENDS Terminal, TLAPS

\* What the steps need to know of the types.
Typed ==
    /\ pc \in [main : {"idle", "wait", "colors", "flag", "cursor"},
               terminal : {"check", "clear", "draw", "give"},
               blink : {"idle", "toggle", "flag"},
               screen : {"take", "copy"}]
    /\ framebuffer \in [Rows -> Drawn] /\ display \in [Rows -> Drawn]
    /\ row \in Rows /\ line \in Rows
    /\ screen \in [Rows -> Glyphs] /\ colors \in [Rows -> Attrs]
    /\ todo \in [Rows -> Attrs]
    /\ changed \in BOOLEAN /\ screen_sem \in BOOLEAN /\ cursorOn \in BOOLEAN
    /\ palette \in Palettes /\ cursorColor \in CursorColors
    /\ cursorY \in CursorRows \cup {0}

\* The rows of the screen are numbered from 1 on.
LEMMA RowsAreNumbers == Rows \subseteq Nat \ {0} /\ 1 \in Rows /\ Height \in Rows
BY HeightAssumption DEF Rows

\* What the terminal task draws of a row is a drawn row.
LEMMA ImageIsDrawn ==
    ASSUME Typed, NEW r \in Rows
    PROVE  Image(r) \in Drawn
BY DEF Typed, Image, Drawn, CursorAt

\* The main task's stores, in the order of the code.
MainStep ==
    \/ \E r \in Rows, g \in Glyphs, a \in Attrs : Write(r, g, a)
    \/ \E r \in Rows, a \in Attrs : Clear({r}, a)
    \/ \E a \in Attrs : Clear(Rows, a)
    \/ \E n \in -Height..Height, a \in Attrs : Scroll(n, a)

\* Every call that stores glyphs stores rows of glyphs and of attributes.
LEMMA StoresAreTyped ==
    ASSUME Typed, MainStep
    PROVE  \E s \in [Rows -> Glyphs], c \in [Rows -> Attrs] : StoreGlyphs(s, c)
<1> USE DEF Typed
<1>1. ASSUME NEW r \in Rows, NEW g \in Glyphs, NEW a \in Attrs, Write(r, g, a)
      PROVE  \E s \in [Rows -> Glyphs], c \in [Rows -> Attrs] : StoreGlyphs(s, c)
  BY <1>1 DEF Write
<1>2. ASSUME NEW rs, NEW a \in Attrs, Clear(rs, a)
      PROVE  \E s \in [Rows -> Glyphs], c \in [Rows -> Attrs] : StoreGlyphs(s, c)
  <2>1. [r \in Rows |-> IF r \in rs THEN Blank ELSE screen[r]] \in [Rows -> Glyphs]
    BY BlankAssumption
  <2>2. [r \in Rows |-> IF r \in rs THEN a ELSE colors[r]] \in [Rows -> Attrs]
    OBVIOUS
  <2>3. QED
    BY <1>2, <2>1, <2>2 DEF Clear
<1>3. ASSUME NEW n \in -Height..Height, NEW a \in Attrs, Scroll(n, a)
      PROVE  \E s \in [Rows -> Glyphs], c \in [Rows -> Attrs] : StoreGlyphs(s, c)
  <2>1. [r \in Rows |-> IF r + n \in Rows THEN screen[r + n] ELSE Blank]
          \in [Rows -> Glyphs]
    BY BlankAssumption
  <2>2. [r \in Rows |-> IF r + n \in Rows THEN colors[r + n] ELSE a]
          \in [Rows -> Attrs]
    OBVIOUS
  <2>3. QED
    BY <1>3, <2>1, <2>2 DEF Scroll
<1>4. QED
  BY <1>1, <1>2, <1>3 DEF MainStep

\* Every variable keeps its type; the rows drawn and copied stay on the screen.
LEMMA TypedAlways == Spec => []Typed
<1>1. Init => Typed
  <2> SUFFICES ASSUME Init PROVE Typed
    OBVIOUS
  <2>1. (CHOOSE p \in Palettes : TRUE) \in Palettes
    BY PaletteAssumption
  <2>2. ASSUME NEW a \in Attrs PROVE Blanks(a) \in [Rows -> Drawn]
    BY <2>1, BlankAssumption DEF Blanks, Drawn
  <2>3. /\ framebuffer \in [Rows -> Drawn] /\ display \in [Rows -> Drawn]
        /\ screen \in [Rows -> Glyphs] /\ colors \in [Rows -> Attrs]
        /\ todo = colors
    BY <2>2, BlankAssumption DEF Init
  <2>4. palette \in Palettes /\ row \in Rows /\ line \in Rows
    BY <2>1, RowsAreNumbers DEF Init
  <2>5. pc \in [main : {"idle", "wait", "colors", "flag", "cursor"},
               terminal : {"check", "clear", "draw", "give"},
               blink : {"idle", "toggle", "flag"},
               screen : {"take", "copy"}]
    BY DEF Init
  <2>6. /\ changed \in BOOLEAN /\ screen_sem \in BOOLEAN /\ cursorOn \in BOOLEAN
        /\ cursorColor \in CursorColors /\ cursorY \in CursorRows \cup {0}
    BY DEF Init, CursorColors
  <2>7. QED
    BY <2>3, <2>4, <2>5, <2>6 DEF Typed
<1>2. Typed /\ [Next]_vars => Typed'
  <2> SUFFICES ASSUME Typed, [Next]_vars PROVE Typed'
    OBVIOUS
  <2> USE DEF Typed, Goto, text, cursor, panel
  <2>1. CASE MainStep
    <3>1. PICK s \in [Rows -> Glyphs], c \in [Rows -> Attrs] : StoreGlyphs(s, c)
      BY <2>1, StoresAreTyped
    <3>2. QED
      BY <3>1 DEF StoreGlyphs
  <2>2. CASE StoreColors \/ SetChanged \/ Pull \/ Pulled
    BY <2>2 DEF StoreColors, SetChanged, Pull, Pulled
  <2>3. CASE \E c \in CursorColors, y \in CursorRows : CursorPlace(c, y)
    BY <2>3 DEF CursorPlace
  <2>4. CASE CursorSwitch
    BY <2>4 DEF CursorSwitch
  <2>5. CASE \E p \in Palettes : SetPalette(p)
    BY <2>5 DEF SetPalette
  <2>6. CASE TerminalCheck \/ TerminalClear \/ TerminalGive
    BY <2>6, RowsAreNumbers DEF TerminalCheck, TerminalClear, TerminalGive
  <2>7. CASE TerminalDraw
    <3>1. framebuffer' \in [Rows -> Drawn]
      BY <2>7, ImageIsDrawn DEF TerminalDraw
    <3>2. row' \in Rows
      BY <2>7, HeightAssumption DEF TerminalDraw, Rows
    <3>3. QED
      BY <2>7, <3>1, <3>2 DEF TerminalDraw
  <2>8. CASE BlinkTest \/ BlinkToggle \/ BlinkFlag
    BY <2>8 DEF BlinkTest, BlinkToggle, BlinkFlag
  <2>9. CASE ScreenTake
    BY <2>9, RowsAreNumbers DEF ScreenTake
  <2>10. CASE ScreenCopy
    <3>1. line' \in Rows
      BY <2>10, HeightAssumption DEF ScreenCopy, Rows
    <3>2. QED
      BY <2>10, <3>1 DEF ScreenCopy
  <2>11. CASE UNCHANGED vars
    BY <2>11 DEF vars
  <2>12. QED
    BY <2>1, <2>2, <2>3, <2>4, <2>5, <2>6, <2>7, <2>8, <2>9, <2>10, <2>11
       DEF Next, MainStep
<1>3. QED
  BY <1>1, <1>2, PTL DEF Spec

\* TypeOK of Terminal is what the steps need to know.
THEOREM TypeCorrect == Spec => []TypeOK
<1>1. Typed => TypeOK
  BY DEF Typed, TypeOK
<1>2. QED
  BY <1>1, TypedAlways, PTL

-----------------------------------------------------------------------------
\* A row the step left as it was, on the screen and in the framebuffer.
Same(r) ==
    /\ screen'[r] = screen[r] /\ colors'[r] = colors[r]
    /\ cursorOn' = cursorOn /\ cursorY' = cursorY /\ cursorColor' = cursorColor
    /\ framebuffer'[r] = framebuffer[r]

\* A row that stays as it was is as up to date as before.
LEMMA SameLooks ==
    ASSUME NEW r \in Rows, Same(r), Looks(framebuffer[r]) = Looks(Image(r))
    PROVE  Looks(framebuffer'[r]) = Looks(Image(r)')
BY DEF Same, Looks, Image, CursorAt

\* The order of each task's accesses keeps every outdated row on its way to
\* being drawn.
LEMMA UpdateStays ==
    ASSUME Typed, NoLostUpdate, [Next]_vars
    PROVE  NoLostUpdate'
<1> SUFFICES ASSUME NEW r \in Rows
             PROVE  Looks(framebuffer'[r]) = Looks(Image(r)') \/ WillDraw(r)'
  BY DEF NoLostUpdate
<1> USE DEF Typed, Goto, WillDraw, text, cursor, panel
<1>1. Looks(framebuffer[r]) = Looks(Image(r)) \/ WillDraw(r)
  BY DEF NoLostUpdate
<1>2. CASE MainStep
  BY <1>2, StoresAreTyped DEF StoreGlyphs
<1>3. CASE StoreColors \/ CursorSwitch \/ SetChanged
  BY <1>3 DEF StoreColors, CursorSwitch, SetChanged
<1>4. CASE \E c \in CursorColors, y \in CursorRows : CursorPlace(c, y)
  BY <1>4 DEF CursorPlace
<1>5. CASE \E p \in Palettes : SetPalette(p)
  <2>1. Same(r) /\ (WillDraw(r) => WillDraw(r)')
    BY <1>5 DEF SetPalette, Same
  <2>2. QED
    BY <1>1, <2>1, SameLooks
<1>6. CASE TerminalCheck
  BY <1>6 DEF TerminalCheck
<1>7. CASE TerminalClear
  BY <1>7, RowsAreNumbers DEF TerminalClear
<1>8. CASE TerminalDraw
  <2>1. CASE r = row
    <3>1. framebuffer'[r] = Image(r) /\ Image(r)' = Image(r)
      BY <1>8, <2>1 DEF TerminalDraw, Image, CursorAt
    <3>2. QED
      BY <3>1
  <2>2. CASE r # row
    <3>1. Same(r)
      BY <1>8, <2>2 DEF TerminalDraw, Same
    <3>2. WillDraw(r) => WillDraw(r)'
      BY <1>8, <2>2, HeightAssumption DEF TerminalDraw, Rows
    <3>3. QED
      BY <1>1, <3>1, <3>2, SameLooks
  <2>3. QED
    BY <2>1, <2>2
<1>9. CASE TerminalGive \/ BlinkTest \/ Pull \/ Pulled
  <2>1. Same(r) /\ (WillDraw(r) => WillDraw(r)')
    BY <1>9 DEF TerminalGive, BlinkTest, Pull, Pulled, Waits, Same
  <2>2. QED
    BY <1>1, <2>1, SameLooks
<1>10. CASE BlinkToggle \/ BlinkFlag
  BY <1>10 DEF BlinkToggle, BlinkFlag
<1>11. CASE ScreenTake \/ ScreenCopy \/ UNCHANGED vars
  <2>1. Same(r) /\ (WillDraw(r) => WillDraw(r)')
    BY <1>11 DEF ScreenTake, ScreenCopy, vars, Same
  <2>2. QED
    BY <1>1, <2>1, SameLooks
<1>12. QED
  BY <1>2, <1>3, <1>4, <1>5, <1>6, <1>7, <1>8, <1>9, <1>10, <1>11
     DEF Next, MainStep

\* However the three tasks and the blink timer interleave, a change of text
\* or cursor is drawn or will be (terminal_task, terminal_write, _blit,
\* _clear, _scroll, _cursor, terminal_blink_task).
THEOREM UpdatesDrawn == Spec => []NoLostUpdate
<1>1. Init => NoLostUpdate
  BY DEF Init, NoLostUpdate, WillDraw
<1>2. QED
  BY <1>1, TypedAlways, UpdateStays, PTL DEF Spec

-----------------------------------------------------------------------------
\* The semaphore is given after the last row and taken before the first.
LEMMA FrameStays ==
    ASSUME Typed, NoLostFrame, [Next]_vars
    PROVE  NoLostFrame'
<1> USE DEF Typed, Goto, NoLostFrame, text, cursor, panel
<1>1. CASE MainStep
  BY <1>1, StoresAreTyped DEF StoreGlyphs
<1>2. CASE StoreColors \/ CursorSwitch \/ SetChanged \/ Pull \/ Pulled
  BY <1>2 DEF StoreColors, CursorSwitch, SetChanged, Pull, Pulled
<1>3. CASE \E c \in CursorColors, y \in CursorRows : CursorPlace(c, y)
  BY <1>3 DEF CursorPlace
<1>4. CASE \E p \in Palettes : SetPalette(p)
  BY <1>4 DEF SetPalette
<1>5. CASE TerminalCheck \/ TerminalClear \/ TerminalGive
  BY <1>5 DEF TerminalCheck, TerminalClear, TerminalGive
<1>6. CASE TerminalDraw
  BY <1>6 DEF TerminalDraw
<1>7. CASE BlinkTest \/ BlinkToggle \/ BlinkFlag
  BY <1>7 DEF BlinkTest, BlinkToggle, BlinkFlag
<1>8. CASE ScreenTake
  <2>1. pc'.screen = "copy" /\ line' = 1
    BY <1>8 DEF ScreenTake
  <2>2. \A r \in Rows : line' <= r
    BY <2>1, RowsAreNumbers
  <2>3. QED
    BY <2>1, <2>2
<1>9. CASE ScreenCopy
  <2>1. ASSUME NEW r \in Rows
        PROVE  \/ display'[r] = framebuffer'[r] \/ screen_sem'
               \/ pc'.terminal \in {"draw", "give"}
               \/ pc'.screen = "copy" /\ line' <= r
    <3>1. CASE r = line
      BY <1>9, <3>1 DEF ScreenCopy
    <3>2. CASE r # line
      BY <1>9, <3>2, HeightAssumption DEF ScreenCopy, Rows
    <3>3. QED
      BY <3>1, <3>2
  <2>2. QED
    BY <2>1
<1>10. CASE UNCHANGED vars
  BY <1>10 DEF vars
<1>11. QED
  BY <1>1, <1>2, <1>3, <1>4, <1>5, <1>6, <1>7, <1>8, <1>9, <1>10
     DEF Next, MainStep

\* The panel is never left behind the framebuffer (screen_update,
\* screen_task), though the terminal task draws while the panel is copied.
THEOREM FramesShown == Spec => []NoLostFrame
<1>1. Init => NoLostFrame
  BY DEF Init, NoLostFrame
<1>2. QED
  BY <1>1, TypedAlways, FrameStays, PTL DEF Spec

-----------------------------------------------------------------------------
\* Without overlap the main task and the others take turns, call by call, and
\* a blink that has begun has a color to show.
TurnInv ==
    /\ Waits \/ pc.blink = "idle"
    /\ cursorOn /\ pc.main # "cursor" => cursorColor # NoColor
    /\ pc.blink = "toggle" => cursorColor # NoColor

\* A step of the schedule without overlap keeps the turns.
LEMMA TurnsStay ==
    ASSUME ~Overlap, Typed, TurnInv, [Next]_vars
    PROVE  TurnInv'
<1> USE DEF Typed, Goto, TurnInv, Waits, MainMay, OthersMay, text, cursor, panel
<1>1. CASE MainStep
  BY <1>1, StoresAreTyped DEF StoreGlyphs
<1>2. CASE StoreColors \/ CursorSwitch \/ SetChanged
  <2>1. pc.blink = "idle" /\ pc'.blink = "idle" /\ cursorColor' = cursorColor
    BY <1>2 DEF StoreColors, CursorSwitch, SetChanged
  <2>2. cursorOn' => cursorColor # NoColor
    <3>1. CASE CursorSwitch
      BY <3>1 DEF CursorSwitch
    <3>2. CASE StoreColors \/ SetChanged
      BY <3>2 DEF StoreColors, SetChanged
    <3>3. QED
      BY <1>2, <3>1, <3>2
  <2>3. QED
    BY <2>1, <2>2
<1>3. CASE \E c \in CursorColors, y \in CursorRows : CursorPlace(c, y)
  BY <1>3 DEF CursorPlace
<1>4. CASE (\E p \in Palettes : SetPalette(p)) \/ Pull \/ Pulled
  BY <1>4 DEF SetPalette, Pull, Pulled
<1>5. CASE TerminalStep
  BY <1>5 DEF TerminalStep, TerminalCheck, TerminalClear, TerminalDraw, TerminalGive
<1>6. CASE BlinkTest
  BY <1>6 DEF BlinkTest, CursorColors, NoColor
<1>7. CASE BlinkToggle \/ BlinkFlag
  BY <1>7 DEF BlinkToggle, BlinkFlag
<1>8. CASE ScreenTake \/ ScreenCopy
  BY <1>8 DEF ScreenTake, ScreenCopy
<1>9. CASE UNCHANGED vars
  BY <1>9 DEF vars
<1>10. QED
  BY <1>1, <1>2, <1>3, <1>4, <1>5, <1>6, <1>7, <1>8, <1>9
     DEF Next, MainStep, TerminalStep

\* When the main task never overlaps the timer daemon, as the kernel
\* schedules tasks of different priorities, palette[-1] is never drawn.
THEOREM CursorHasColor == ~Overlap => (Spec => []CursorColorValid)
<1> SUFFICES ASSUME ~Overlap PROVE Spec => []CursorColorValid
  OBVIOUS
<1>1. Init => TurnInv
  BY DEF Init, TurnInv
<1>2. Typed /\ TurnInv /\ [Next]_vars => TurnInv'
  BY TurnsStay
<1>3. TurnInv => CursorColorValid
  BY DEF TurnInv, CursorColorValid
<1>4. QED
  BY <1>1, <1>2, <1>3, TypedAlways, PTL DEF Spec
=============================================================================
