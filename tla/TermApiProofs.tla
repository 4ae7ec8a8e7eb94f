--------------------------- MODULE TermApiProofs ---------------------------
(***************************************************************************)
(* For a screen of any size: nothing is written outside the arrays, colors *)
(* come back within a quarter, and the arrays are the window of TermWindow.*)
(***************************************************************************)
EXTENDS TermApi, FiniteSetTheorems, TLAPS

Cell == Glyphs \cup {Garbage}
CellInk == Inks \cup {Garbage}

-----------------------------------------------------------------------------
(* Rows in memory *)

LEMMA SizeIsNat == /\ SCREEN_WIDTH \in Nat \ {0} /\ SCREEN_HEIGHT \in Nat \ {0}
                   /\ SCREEN_SIZE \in Nat
BY TermAssumption DEF TermAssumption, SCREEN_SIZE

LEMMA RowsAhead ==
    ASSUME NEW w \in Nat, NEW y \in Int, NEW z \in Int, y < z
    PROVE  y * w \in Int /\ z * w \in Int /\ y * w + w <= z * w
<1>1. PICK d \in Nat : z = y + 1 + d
  <2>1. z - y - 1 \in Nat /\ z = y + 1 + (z - y - 1)
    OBVIOUS
  <2> QED
    BY <2>1
<1>2. z * w = y * w + w + d * w
  BY <1>1
<1>3. d * w \in Nat /\ y * w \in Int
  BY <1>1
<1> QED
  BY <1>2, <1>3

\* What lies within a row lies within the array.
LEMMA RowInside ==
    ASSUME NEW y \in Nat, y < SCREEN_HEIGHT,
           NEW x \in Nat, NEW n \in Nat, x + n <= SCREEN_WIDTH
    PROVE  InArray(y * SCREEN_WIDTH + x, n)
<1>1. /\ y * SCREEN_WIDTH \in Int
      /\ y * SCREEN_WIDTH + SCREEN_WIDTH <= SCREEN_HEIGHT * SCREEN_WIDTH
  BY SizeIsNat, RowsAhead
<1>2. y * SCREEN_WIDTH >= 0
  BY SizeIsNat
<1>3. SCREEN_SIZE = SCREEN_HEIGHT * SCREEN_WIDTH
  BY SizeIsNat DEF SCREEN_SIZE
<1> QED
  BY <1>1, <1>2, <1>3, SizeIsNat DEF InArray

LEMMA WholeInside == InArray(0, SCREEN_SIZE)
BY SizeIsNat DEF InArray

-----------------------------------------------------------------------------
(* Colors *)

LEMMA AdjustedClose ==
    ASSUME NEW r \in 0..4, NEW g \in 0..4, NEW b \in 0..4
    PROVE  LET v == Packed(Adjusted(r, g, b))
           IN /\ v \in [r : 0..3, g : 0..3, b : 0..3, i : {1, 3}]
              /\ Quarters(v, v.r) - r \in -1..1
              /\ Quarters(v, v.g) - g \in -1..1
              /\ Quarters(v, v.b) - b \in -1..1
<1> DEFINE a == Adjusted(r, g, b)
           Close(v) == /\ v \in [r : 0..3, g : 0..3, b : 0..3, i : {1, 3}]
                       /\ Quarters(v, v.r) - r \in -1..1
                       /\ Quarters(v, v.g) - g \in -1..1
                       /\ Quarters(v, v.b) - b \in -1..1
<1>1. ASSUME Close(a)
      PROVE  Close(Packed(a))
  <2>1. /\ a.r \in 0..3 /\ a.g \in 0..3 /\ a.b \in 0..3 /\ a.i \in {1, 3}
        /\ a = [r |-> a.r, g |-> a.g, b |-> a.b, i |-> a.i]
    BY <1>1
  <2>2. a.r % 4 = a.r /\ a.g % 4 = a.g /\ a.b % 4 = a.b
    BY <2>1
  <2>3. Packed(a) = a
    BY <2>1, <2>2 DEF Packed
  <2> QED
    BY <1>1, <2>3
<1>2. CASE r # 0 /\ g # 0 /\ b # 0
  <2>1. a = [r |-> r - 1, g |-> g - 1, b |-> b - 1, i |-> 3]
    BY <1>2 DEF Adjusted
  <2>2. Close(a)
    BY <1>2, <2>1 DEF Quarters
  <2> QED
    BY <1>1, <2>2
<1>3. CASE (r = 0 \/ g = 0 \/ b = 0) /\ r <= 3 /\ g <= 3 /\ b <= 3
  <2>1. a = [r |-> r, g |-> g, b |-> b, i |-> 1]
    BY <1>3 DEF Adjusted
  <2>2. Close(a)
    BY <1>3, <2>1 DEF Quarters
  <2> QED
    BY <1>1, <2>2
<1>4. CASE (r = 0 \/ g = 0 \/ b = 0) /\ (r = 4 \/ g = 4 \/ b = 4)
  <2>1. CASE r = 0 /\ g = 0
    <3>1. a = [r |-> r, g |-> g, b |-> 3, i |-> 1]
      BY <1>4, <2>1 DEF Adjusted
    <3>2. Close(a)
      BY <1>4, <2>1, <3>1 DEF Quarters
    <3> QED
      BY <1>1, <3>2
  <2>2. CASE g = 0 /\ b = 0
    <3>1. a = [r |-> 3, g |-> g, b |-> b, i |-> 1]
      BY <1>4, <2>2 DEF Adjusted
    <3>2. Close(a)
      BY <1>4, <2>2, <3>1 DEF Quarters
    <3> QED
      BY <1>1, <3>2
  <2>3. CASE b = 0 /\ r = 0
    <3>1. a = [r |-> r, g |-> 3, b |-> b, i |-> 1]
      BY <1>4, <2>3 DEF Adjusted
    <3>2. Close(a)
      BY <1>4, <2>3, <3>1 DEF Quarters
    <3> QED
      BY <1>1, <3>2
  <2>4. CASE r = 0 /\ g # 0 /\ b # 0
    <3>1. a = [r |-> 0, g |-> g - 1, b |-> b - 1, i |-> 3]
      BY <1>4, <2>4 DEF Adjusted
    <3>2. Close(a)
      BY <1>4, <2>4, <3>1 DEF Quarters
    <3> QED
      BY <1>1, <3>2
  <2>5. CASE g = 0 /\ r # 0 /\ b # 0
    <3>1. a = [r |-> r - 1, g |-> 0, b |-> b - 1, i |-> 3]
      BY <1>4, <2>5 DEF Adjusted
    <3>2. Close(a)
      BY <1>4, <2>5, <3>1 DEF Quarters
    <3> QED
      BY <1>1, <3>2
  <2>6. CASE b = 0 /\ r # 0 /\ g # 0
    <3>1. a = [r |-> r - 1, g |-> g - 1, b |-> 0, i |-> 3]
      BY <1>4, <2>6 DEF Adjusted
    <3>2. Close(a)
      BY <1>4, <2>6, <3>1 DEF Quarters
    <3> QED
      BY <1>1, <3>2
  <2> QED
    BY <1>4, <2>1, <2>2, <2>3, <2>4, <2>5, <2>6
<1> QED
  BY <1>2, <1>3, <1>4

LEMMA ColorOfIsColor == ASSUME NEW n \in Nat PROVE ColorOf(n) \in Colors
<1> DEFINE shifts == {i \in 0..30 : n \div 2^i > 1}
<1>1. Cardinality(shifts) \in Nat
  <2>1. IsFiniteSet(0..30)
    <3>1. 0 \in Int /\ 30 \in Int
      OBVIOUS
    <3> QED
      BY <3>1, FS_Interval, Zenon
  <2>2. shifts \subseteq 0..30
    OBVIOUS
  <2>3. IsFiniteSet(shifts)
    BY <2>1, <2>2, FS_Subset
  <2> QED
    BY <2>3, FS_CardinalityType
<1>2. \A k \in Nat : k % 16 \in 0..15
  OBVIOUS
<1> QED
  BY <1>1, <1>2 DEF ColorOf, log2i, Colors

-----------------------------------------------------------------------------
(* The arrays stay what they are *)

MemoryOK ==
    /\ screen \in [Cells -> Cell] /\ colors \in [Cells -> CellInk] /\ ~ overrun

LEMMA SetTyped ==
    ASSUME NEW S, NEW mem \in [Cells -> S], NEW from, NEW n, NEW v \in S
    PROVE  Set(mem, from, n, v) \in [Cells -> S]
BY DEF Set

LEMMA CopyTyped ==
    ASSUME NEW S, NEW mem \in [Cells -> S], NEW from \in Int, NEW n \in Int,
           NEW bytes, \A i \in 0..n - 1 : bytes[i] \in S
    PROVE  Copy(mem, from, n, bytes) \in [Cells -> S]
<1>1. ASSUME NEW i \in Cells, Covers(from, n, i)
      PROVE  bytes[i - from] \in S
  BY <1>1, SizeIsNat DEF Covers, Cells
<1> QED
  BY <1>1 DEF Copy

LEMMA MoveTyped ==
    ASSUME NEW S, NEW mem \in [Cells -> S], NEW to \in Int, NEW from \in Int,
           NEW n \in Int, InArray(from, n)
    PROVE  Move(mem, to, from, n) \in [Cells -> S]
<1>1. ASSUME NEW i \in Cells, Covers(to, n, i)
      PROVE  mem[i - to + from] \in S
  <2>1. i - to + from \in Cells
    BY <1>1, SizeIsNat DEF Covers, Cells, InArray
  <2> QED
    BY <2>1
<1> QED
  BY <1>1 DEF Move

\* Where a text goes: the part of the row it covers.
LEMMA ClippedFits ==
    ASSUME NEW col \in Nat, col < SCREEN_WIDTH, NEW len \in Int
    PROVE  /\ Clipped(col, len) \in Int /\ col + Clipped(col, len) <= SCREEN_WIDTH
           /\ Clipped(col, len) <= len
BY SizeIsNat DEF Clipped

LEMMA PutKeeps ==
    ASSUME MemoryOK, NEW x \in Int, NEW y \in Int,
           NEW text \in Seq(Glyphs), NEW inks \in Seq(Inks), NEW before \in CellInk,
           Put(x, y, text, inks, before)
    PROVE  MemoryOK'
<1> DEFINE off == IF x < 0 THEN x ELSE 0
           col == IF x < 0 THEN 0 ELSE x
           len == Clipped(col, Len(text) - off)
           from == y * SCREEN_WIDTH + col
<1>1. CASE y < 0 \/ y >= SCREEN_HEIGHT \/ x >= SCREEN_WIDTH \/ len <= 0
  BY <1>1 DEF Put, memory, MemoryOK
<1>2. CASE ~ (y < 0 \/ y >= SCREEN_HEIGHT \/ x >= SCREEN_WIDTH \/ len <= 0)
  <2>1. /\ y \in Nat /\ y < SCREEN_HEIGHT /\ col \in Nat /\ col < SCREEN_WIDTH
        /\ off \in Int /\ Len(text) - off \in Int
    BY <1>2, SizeIsNat
  <2>2. len \in Nat /\ col + len <= SCREEN_WIDTH
    <3>1. len \in Int /\ col + len <= SCREEN_WIDTH
      BY <2>1, ClippedFits
    <3> QED
      BY <1>2, <3>1
  <2>3. from \in Int /\ InArray(from, len)
    <3> HIDE DEF len, col
    <3>1. InArray(y * SCREEN_WIDTH + col, len)
      BY <2>1, <2>2, RowInside
    <3>2. y * SCREEN_WIDTH \in Int
      BY <2>1, SizeIsNat
    <3> QED
      BY <2>1, <3>1, <3>2
  <2> DEFINE bytes == [i \in 0..len - 1 |-> At(text, off + i, Garbage)]
             paint == [i \in 0..len - 1 |-> At(inks, off + i, before)]
  <2>4. /\ screen' = Copy(screen, from, len,
                          [i \in 0..len - 1 |-> At(text, off + i, Garbage)])
        /\ colors' = Copy(colors, from, len,
                          [i \in 0..len - 1 |-> At(inks, off + i, before)])
        /\ overrun' = (overrun \/ ~ InArray(from, len))
    BY <1>2 DEF Put
  <2>5. \A i \in 0..len - 1 :
          At(text, off + i, Garbage) \in Cell /\ At(inks, off + i, before) \in CellInk
    BY <2>1, <2>2 DEF At, Cell, CellInk
  <2>6. \A i \in 0..len - 1 : bytes[i] \in Cell /\ paint[i] \in CellInk
    BY <2>5
  <2>7. screen' = Copy(screen, from, len, bytes) /\ colors' = Copy(colors, from, len, paint)
    BY <2>4
  <2>8. len \in Int
    BY <2>2
  <2> HIDE DEF len, from, off, bytes, paint
  <2>9. screen' \in [Cells -> Cell]
    BY <2>3, <2>6, <2>7, <2>8, CopyTyped DEF MemoryOK
  <2>10. colors' \in [Cells -> CellInk]
    BY <2>3, <2>6, <2>7, <2>8, CopyTyped DEF MemoryOK
  <2> QED
    BY <2>3, <2>4, <2>9, <2>10 DEF MemoryOK
<1> QED
  BY <1>1, <1>2

LEMMA BlankIsCell == Blank \in Cell /\ (current_colors \in Inks => current_colors \in CellInk)
BY TermAssumption DEF TermAssumption, Cell, CellInk

LEMMA ClearKeeps ==
    ASSUME MemoryOK, current_colors \in Inks,
           NEW line \in Int, line < SCREEN_HEIGHT, terminal_clear(line)
    PROVE  MemoryOK'
<1>1. InArray(IF line < 0 THEN 0 ELSE line * SCREEN_WIDTH,
              IF line < 0 THEN SCREEN_SIZE ELSE SCREEN_WIDTH)
  <2>1. CASE line < 0
    BY <2>1, WholeInside
  <2>2. CASE line >= 0
    <3>1. InArray(line * SCREEN_WIDTH + 0, SCREEN_WIDTH)
      <4>1. /\ line \in Nat /\ 0 \in Nat /\ SCREEN_WIDTH \in Nat
            /\ 0 + SCREEN_WIDTH <= SCREEN_WIDTH
        BY <2>2, SizeIsNat
      <4> QED
        BY <4>1, RowInside
    <3>2. line * SCREEN_WIDTH + 0 = line * SCREEN_WIDTH
      BY SizeIsNat
    <3> QED
      BY <2>2, <3>1, <3>2
  <2> QED
    BY <2>1, <2>2
<1> QED
  BY <1>1, SetTyped, BlankIsCell DEF terminal_clear, MemoryOK

\* A scroll by less than the height stays in the arrays.
LEMMA ScrollFits ==
    ASSUME NEW lines \in Int, lines < SCREEN_HEIGHT, -lines < SCREEN_HEIGHT
    PROVE  /\ Moved(lines) \in [to : Int, from : Int, kept : Int, free : Int, n : Int]
           /\ ScrollsInArray(lines)
<1>1. CASE lines > 0
  <2> DEFINE kept == (SCREEN_HEIGHT - lines) * SCREEN_WIDTH
             gone == lines * SCREEN_WIDTH
  <2>1. /\ kept \in Int /\ gone \in Int /\ kept >= 0 /\ gone >= 0
        /\ gone + kept = SCREEN_SIZE
    BY <1>1, SizeIsNat DEF SCREEN_SIZE
  <2>2. Moved(lines) = [to |-> 0, from |-> gone, kept |-> kept,
                        free |-> kept, n |-> gone]
    BY <1>1 DEF Moved
  <2> HIDE DEF kept, gone
  <2>3. InArray(0, kept) /\ InArray(gone, kept) /\ InArray(kept, gone)
    BY <2>1 DEF InArray
  <2> QED
    BY <2>1, <2>2, <2>3 DEF ScrollsInArray
<1>2. CASE lines <= 0
  <2> DEFINE kept == (SCREEN_HEIGHT + lines) * SCREEN_WIDTH
             gone == -lines * SCREEN_WIDTH
  <2>1. /\ kept \in Int /\ gone \in Int /\ kept >= 0 /\ gone >= 0
        /\ gone + kept = SCREEN_SIZE
    BY <1>2, SizeIsNat DEF SCREEN_SIZE
  <2>2. Moved(lines) = [to |-> gone, from |-> 0, kept |-> kept,
                        free |-> 0, n |-> gone]
    BY <1>2 DEF Moved
  <2> HIDE DEF kept, gone
  <2>3. InArray(gone, kept) /\ InArray(0, kept) /\ InArray(0, gone)
    BY <2>1 DEF InArray
  <2> QED
    BY <2>1, <2>2, <2>3 DEF ScrollsInArray
<1> QED
  BY <1>1, <1>2

LEMMA ScrolledTyped ==
    ASSUME NEW S, NEW mem \in [Cells -> S], NEW v \in S,
           NEW lines \in Int, lines < SCREEN_HEIGHT, -lines < SCREEN_HEIGHT
    PROVE  Scrolled(mem, lines, v) \in [Cells -> S]
<1> DEFINE m == Moved(lines)
<1>1. /\ m.to \in Int /\ m.from \in Int /\ m.kept \in Int /\ m.free \in Int /\ m.n \in Int
      /\ InArray(m.from, m.kept)
  BY ScrollFits DEF ScrollsInArray
<1>2. Scrolled(mem, lines, v) = Set(Move(mem, m.to, m.from, m.kept), m.free, m.n, v)
  BY DEF Scrolled
<1> HIDE DEF m
<1>3. Move(mem, m.to, m.from, m.kept) \in [Cells -> S]
  BY <1>1, MoveTyped
<1> QED
  BY <1>1, <1>2, <1>3, SetTyped

LEMMA ScrollKeeps ==
    ASSUME MemoryOK, current_colors \in Inks, NEW lines \in Int, terminal_scroll(lines)
    PROVE  MemoryOK'
<1>1. CASE lines >= SCREEN_HEIGHT \/ -lines >= SCREEN_HEIGHT
  <2>1. terminal_clear(-1)
    BY <1>1 DEF terminal_scroll
  <2> QED
    BY <2>1, ClearKeeps, SizeIsNat
<1>2. CASE lines < SCREEN_HEIGHT /\ -lines < SCREEN_HEIGHT
  <2>1. /\ screen' = Scrolled(screen, lines, Blank)
        /\ colors' = Scrolled(colors, lines, current_colors)
        /\ overrun' = (overrun \/ ~ ScrollsInArray(lines))
    BY <1>2, SizeIsNat DEF terminal_scroll
  <2>2. ScrollsInArray(lines)
    BY <1>2, ScrollFits
  <2> QED
    BY <1>2, <2>1, <2>2, ScrolledTyped, BlankIsCell DEF MemoryOK
<1> QED
  BY <1>1, <1>2, SizeIsNat

-----------------------------------------------------------------------------
(* The invariants *)

\* The types but for the arrays, with what the cursor and the palette keep.
ApiInv ==
    /\ current_colors \in Inks
    /\ shownColor \in Colors \cup {NoColor}
    /\ cursorX \in Int /\ cursorY \in Int
    /\ cursorBlink \in BOOLEAN
    /\ palette \in [Colors -> {Default} \cup
                               [r : 0..3, g : 0..3, b : 0..3, i : {1, 3}]]
    /\ wanted \in [Colors -> (0..4) \X (0..4) \X (0..4)]
    /\ calls \in 0..MaxCalls
    /\ CursorFollows /\ PaletteClose

IInv == MemoryOK /\ ApiInv

LEMMA InvHolds == IInv <=> TypeOK /\ NeverOverruns /\ CursorFollows /\ PaletteClose
BY DEF IInv, MemoryOK, ApiInv, TypeOK, NeverOverruns, CursorFollows, Cell, CellInk

LEMMA InitInv == Init => IInv
<1>1. SUFFICES ASSUME Init PROVE IInv
  OBVIOUS
<1>2. MemoryOK
  BY <1>1, TermAssumption
     DEF Init, MemoryOK, Cells, Cell, CellInk, Inks, Colors, TermAssumption
<1>3. CursorFollows
  BY <1>1 DEF Init, CursorFollows
<1>4. PaletteClose
  BY <1>1 DEF Init, PaletteClose
<1>5. palette \in [Colors -> {Default} \cup [r : 0..3, g : 0..3, b : 0..3, i : {1, 3}]]
  BY <1>1 DEF Init
<1>6. wanted \in [Colors -> (0..4) \X (0..4) \X (0..4)]
  BY <1>1 DEF Init
<1>7. current_colors \in Inks /\ calls \in 0..MaxCalls
  BY <1>1, TermAssumption DEF Init, Inks, Colors, TermAssumption
<1>8. shownColor \in Colors \cup {NoColor} /\ cursorX \in Int /\ cursorY \in Int
  BY <1>1 DEF Init
<1>9. cursorBlink \in BOOLEAN
  BY <1>1, Zenon DEF Init
<1> QED
  BY <1>2, <1>3, <1>4, <1>5, <1>6, <1>7, <1>8, <1>9 DEF IInv, ApiInv

\* A call that shows the cursor, and leaves the palette and the colors.
LEMMA CursorShown ==
    ASSUME ApiInv, Call, cursorX' \in Int, cursorY' \in Int, cursorBlink' \in BOOLEAN,
           ShowCursor(cursorBlink', cursorX', cursorY'),
           UNCHANGED <<current_colors, palette, wanted>>
    PROVE  ApiInv'
<1>1. current_colors[1] \in Colors
  BY DEF ApiInv, Inks
<1>2. /\ shownX' = cursorX' /\ shownY' = cursorY'
      /\ shownColor' = IF cursorBlink' THEN current_colors[1] ELSE NoColor
  BY DEF ShowCursor, terminal_cursor
<1>3. NoColor \notin Colors
  BY DEF NoColor, Colors
<1>4. CursorFollows' /\ shownColor' \in Colors \cup {NoColor}
  BY <1>1, <1>2, <1>3 DEF CursorFollows
<1>5. PaletteClose'
  BY DEF ApiInv, PaletteClose
<1>6. calls' \in 0..MaxCalls
  BY TermAssumption DEF Call, ApiInv, TermAssumption
<1> QED
  BY <1>4, <1>5, <1>6 DEF ApiInv

\* A call that leaves cursor and palette alone.
LEMMA CursorKept ==
    ASSUME ApiInv, Call, UNCHANGED <<shown, cursorX, cursorY, cursorBlink>>,
           UNCHANGED <<palette, wanted>>, current_colors' \in Inks
    PROVE  ApiInv'
<1>1. CursorFollows' /\ PaletteClose'
  BY DEF ApiInv, CursorFollows, PaletteClose, shown
<1>2. calls' \in 0..MaxCalls
  BY TermAssumption DEF Call, ApiInv, TermAssumption
<1> QED
  BY <1>1, <1>2 DEF ApiInv, shown

LEMMA PaletteKeeps ==
    ASSUME IInv, NEW n \in ColorArgs, NEW r \in Levels, NEW g \in Levels, NEW b \in Levels,
           SetPaletteColor(n, r, g, b)
    PROVE  IInv'
<1> DEFINE v == Packed(Adjusted(r, g, b))
<1>1. /\ ColorOf(n) \in Colors /\ r \in 0..4 /\ g \in 0..4 /\ b \in 0..4
  BY ColorOfIsColor, TermAssumption DEF TermAssumption
<1>2. /\ v \in [r : 0..3, g : 0..3, b : 0..3, i : {1, 3}]
      /\ Quarters(v, v.r) - r \in -1..1
      /\ Quarters(v, v.g) - g \in -1..1
      /\ Quarters(v, v.b) - b \in -1..1
  BY <1>1, AdjustedClose
<1> HIDE DEF v
<1>3. /\ palette' = [palette EXCEPT ![ColorOf(n)] = v]
      /\ wanted' = [wanted EXCEPT ![ColorOf(n)] = <<r, g, b>>]
      /\ Call
      /\ UNCHANGED <<memory, shown, cursorX, cursorY, cursorBlink, current_colors>>
  BY DEF SetPaletteColor, v
<1>4. PaletteClose'
  <2>1. SUFFICES ASSUME NEW c \in Colors, palette'[c] # Default
                 PROVE  /\ Quarters(palette'[c], palette'[c].r) - wanted'[c][1] \in -1..1
                        /\ Quarters(palette'[c], palette'[c].g) - wanted'[c][2] \in -1..1
                        /\ Quarters(palette'[c], palette'[c].b) - wanted'[c][3] \in -1..1
    BY DEF PaletteClose
  <2>2. CASE c = ColorOf(n)
    <3>1. palette'[c] = v /\ wanted'[c] = <<r, g, b>>
      BY <1>1, <1>3, <2>2 DEF IInv, ApiInv
    <3> QED
      BY <1>2, <3>1
  <2>3. CASE c # ColorOf(n)
    <3>1. palette'[c] = palette[c] /\ wanted'[c] = wanted[c]
      BY <1>1, <1>3, <2>3 DEF IInv, ApiInv
    <3> QED
      BY <2>1, <3>1 DEF IInv, ApiInv, PaletteClose
  <2> QED
    BY <2>2, <2>3
<1>5. /\ palette' \in [Colors -> {Default} \cup
                                  [r : 0..3, g : 0..3, b : 0..3, i : {1, 3}]]
      /\ wanted' \in [Colors -> (0..4) \X (0..4) \X (0..4)]
  BY <1>1, <1>2, <1>3 DEF IInv, ApiInv
<1>6. CursorFollows' /\ MemoryOK'
  BY <1>3 DEF IInv, ApiInv, MemoryOK, CursorFollows, shown, memory
<1>7. calls' \in 0..MaxCalls
  BY <1>3, TermAssumption DEF IInv, Call, ApiInv, TermAssumption
<1> QED
  BY <1>3, <1>4, <1>5, <1>6, <1>7 DEF IInv, ApiInv, shown

LEMMA WriteKeeps ==
    ASSUME IInv, NEW text \in Texts, Write(text)
    PROVE  IInv'
<1>1. text \in Seq(Glyphs) /\ Len(text) \in Nat
  BY TermAssumption DEF TermAssumption
<1> DEFINE inks == [i \in 1..Len(text) |-> current_colors]
<1>2. inks \in Seq(Inks) /\ current_colors \in CellInk
  BY <1>1 DEF IInv, ApiInv, CellInk
<1>3. Put(cursorX, cursorY, text, inks, current_colors)
  BY DEF Write, terminal_write
<1>4. MemoryOK'
  BY <1>1, <1>2, <1>3, PutKeeps DEF IInv, ApiInv
<1>5. ApiInv'
  BY <1>1, CursorShown DEF IInv, ApiInv, Write
<1> QED
  BY <1>4, <1>5 DEF IInv

LEMMA BlitKeeps ==
    ASSUME IInv, NEW blit \in Blits, Blit(blit[1], blit[2])
    PROVE  IInv'
<1>1. /\ blit[1] \in Seq(Glyphs) /\ blit[2] \in Seq(Inks)
      /\ Len(blit[1]) \in Nat /\ Garbage \in CellInk
  BY TermAssumption DEF TermAssumption, CellInk
<1>2. Put(cursorX, cursorY, blit[1], blit[2], Garbage)
  BY DEF Blit, terminal_blit
<1>3. MemoryOK'
  BY <1>1, <1>2, PutKeeps DEF IInv, ApiInv
<1>4. ApiInv'
  BY <1>1, CursorShown DEF IInv, ApiInv, Blit
<1> QED
  BY <1>3, <1>4 DEF IInv

LEMMA StepKeeps ==
    ASSUME IInv, [Next]_vars
    PROVE  IInv'
<1>1. current_colors \in Inks /\ cursorX \in Int /\ cursorY \in Int
  BY DEF IInv, ApiInv
<1>2. ASSUME NEW text \in Texts, Write(text) PROVE IInv'
  BY <1>2, WriteKeeps
<1>3. ASSUME NEW blit \in Blits, Blit(blit[1], blit[2]) PROVE IInv'
  BY <1>3, BlitKeeps
<1>4. CASE Clear
  <2>1. MemoryOK'
    BY <1>1, <1>4, ClearKeeps, SizeIsNat DEF IInv, Clear
  <2>2. ApiInv'
    BY <1>1, <1>4, CursorKept DEF IInv, Clear, ApiState
  <2> QED
    BY <2>1, <2>2 DEF IInv
<1>5. CASE ClearLine
  <2>1. MemoryOK'
    BY <1>1, <1>5, ClearKeeps DEF IInv, ClearLine
  <2>2. ApiInv'
    BY <1>1, <1>5, CursorKept DEF IInv, ClearLine, ApiState
  <2> QED
    BY <2>1, <2>2 DEF IInv
<1>6. ASSUME NEW n \in Lines, Scroll(n) PROVE IInv'
  <2>1. MemoryOK'
    BY <1>1, <1>6, ScrollKeeps, TermAssumption DEF IInv, Scroll, TermAssumption
  <2>2. ApiInv'
    BY <1>1, <1>6, CursorKept DEF IInv, Scroll, ApiState
  <2> QED
    BY <2>1, <2>2 DEF IInv
<1>7. ASSUME NEW p \in Places, SetCursorPos(p[1], p[2]) PROVE IInv'
  <2>1. p[1] \in Int /\ p[2] \in Int
    BY TermAssumption DEF TermAssumption
  <2>2. ApiInv'
    BY <1>7, <2>1, CursorShown DEF IInv, ApiInv, SetCursorPos
  <2> QED
    BY <1>7, <2>2 DEF IInv, MemoryOK, SetCursorPos, memory
<1>8. ASSUME NEW on \in BOOLEAN, SetCursorBlink(on) PROVE IInv'
  <2>1. ApiInv'
    BY <1>1, <1>8, CursorShown DEF IInv, SetCursorBlink
  <2> QED
    BY <1>8, <2>1 DEF IInv, MemoryOK, SetCursorBlink, memory
<1>9. ASSUME NEW n \in ColorArgs, SetTextColor(n) \/ SetBackgroundColor(n) PROVE IInv'
  <2>1. n \in Nat /\ ColorOf(n) \in Colors
    BY ColorOfIsColor, TermAssumption DEF TermAssumption
  <2>2. current_colors' \in Inks
    BY <1>1, <1>9, <2>1 DEF SetTextColor, SetBackgroundColor, Inks
  <2>3. ApiInv'
    BY <1>9, <2>2, CursorKept DEF IInv, SetTextColor, SetBackgroundColor
  <2> QED
    BY <1>9, <2>3 DEF IInv, MemoryOK, SetTextColor, SetBackgroundColor, memory
<1>10. ASSUME NEW n \in ColorArgs, NEW r \in Levels, NEW g \in Levels, NEW b \in Levels,
              SetPaletteColor(n, r, g, b)
       PROVE  IInv'
  BY <1>10, PaletteKeeps
<1>11. CASE UNCHANGED vars
  BY <1>11 DEF IInv, MemoryOK, ApiInv, CursorFollows, PaletteClose, vars, memory, shown
<1> QED
  BY <1>2, <1>3, <1>4, <1>5, <1>6, <1>7, <1>8, <1>9, <1>10, <1>11 DEF Next

LEMMA InvAlways == Spec => []IInv
BY InitInv, StepKeeps, PTL DEF Spec

\* The types of the term API's state, for a screen of any size.
THEOREM TypeCorrect == Spec => []TypeOK
BY InvAlways, InvHolds, PTL

\* terminal_write, terminal_blit, terminal_clear, terminal_scroll and
\* term_clearLine stay inside the arrays, for a screen of any size.
THEOREM ArraysNotOverrun == Spec => []NeverOverruns
BY InvAlways, InvHolds, PTL

\* term_setPaletteColor's conflict rule covers every mix of components.
THEOREM PaletteIsClose == Spec => []PaletteClose
BY InvAlways, InvHolds, PTL

\* Whatever moves or switches the cursor tells the terminal.
THEOREM CursorIsShown == Spec => []CursorFollows
BY InvAlways, InvHolds, PTL

-----------------------------------------------------------------------------
(* The refinement: the arrays of terminal.cpp implement the window of      *)
(* TermWindow, whatever the texts, positions and scrolls.                  *)

Positions == (0..SCREEN_WIDTH - 1) \X (0..SCREEN_HEIGHT - 1)

-----------------------------------------------------------------------------
(* Cells and their places in memory *)

LEMMA InRow ==
    ASSUME NEW p \in Positions
    PROVE  /\ p[1] \in Int /\ p[2] \in Int
           /\ 0 <= p[1] /\ p[1] < SCREEN_WIDTH
           /\ 0 <= p[2] /\ p[2] < SCREEN_HEIGHT
           /\ p = <<p[1], p[2]>>
BY SizeIsNat DEF Positions

LEMMA RowOrder ==
    ASSUME NEW p \in Positions, NEW k \in Int
    PROVE  /\ Index(p) \in Int /\ k * SCREEN_WIDTH \in Int
           /\ p[2] < k => Index(p) + SCREEN_WIDTH - p[1] <= k * SCREEN_WIDTH
           /\ p[2] < k => Index(p) < k * SCREEN_WIDTH
           /\ k < p[2] => k * SCREEN_WIDTH + SCREEN_WIDTH <= Index(p)
           /\ k <= p[2] => k * SCREEN_WIDTH <= Index(p)
<1>1. /\ p[1] \in Int /\ p[2] \in Int /\ 0 <= p[1] /\ p[1] < SCREEN_WIDTH
      /\ SCREEN_WIDTH \in Nat
  BY InRow, SizeIsNat
<1>2. /\ k * SCREEN_WIDTH \in Int /\ p[2] * SCREEN_WIDTH \in Int
      /\ p[2] < k => p[2] * SCREEN_WIDTH + SCREEN_WIDTH <= k * SCREEN_WIDTH
      /\ k < p[2] => k * SCREEN_WIDTH + SCREEN_WIDTH <= p[2] * SCREEN_WIDTH
  BY <1>1, RowsAhead
<1> QED
  BY <1>1, <1>2 DEF Index

LEMMA IndexInside ==
    ASSUME NEW p \in Positions
    PROVE  Index(p) \in Cells
<1>1. 0 * SCREEN_WIDTH = 0 /\ SCREEN_SIZE = SCREEN_HEIGHT * SCREEN_WIDTH
  BY SizeIsNat DEF SCREEN_SIZE
<1>2. Index(p) \in Int /\ 0 <= Index(p) /\ Index(p) < SCREEN_SIZE
  BY <1>1, InRow, RowOrder, SizeIsNat
<1> QED
  BY <1>2, SizeIsNat DEF Cells

\* What covers part of a row covers the cells of that part and no others.
LEMMA RowCovers ==
    ASSUME NEW p \in Positions, NEW y \in Int, NEW col \in Nat, NEW n \in Int,
           col + n <= SCREEN_WIDTH
    PROVE  /\ Covers(y * SCREEN_WIDTH + col, n, Index(p))
                <=> p[2] = y /\ col <= p[1] /\ p[1] < col + n
           /\ p[2] = y => Index(p) - (y * SCREEN_WIDTH + col) = p[1] - col
<1>1. /\ Index(p) \in Int /\ y * SCREEN_WIDTH \in Int
      /\ p[1] \in Int /\ p[2] \in Int /\ 0 <= p[1] /\ p[1] < SCREEN_WIDTH
      /\ p[2] < y => Index(p) < y * SCREEN_WIDTH
      /\ y < p[2] => y * SCREEN_WIDTH + SCREEN_WIDTH <= Index(p)
      /\ SCREEN_WIDTH \in Nat
  BY InRow, RowOrder, SizeIsNat
<1>2. p[2] = y => Index(p) = y * SCREEN_WIDTH + p[1]
  BY DEF Index
<1>3. p[2] < y \/ p[2] = y \/ y < p[2]
  BY <1>1
<1> QED
  BY <1>1, <1>2, <1>3 DEF Covers

LEMMA CellAt ==
    ASSUME NEW p \in Positions
    PROVE  /\ WindowCell[p] = <<screen[Index(p)], colors[Index(p)]>>
           /\ WindowCell'[p] = <<screen'[Index(p)], colors'[Index(p)]>>
BY DEF WindowCell, Positions, Index

\* Two windows are the same when their cells are.
LEMMA CellsDecide ==
    ASSUME NEW V, V = [p \in Positions |-> V[p]],
           \A p \in Positions : <<screen'[Index(p)], colors'[Index(p)]>> = V[p]
    PROVE  WindowCell' = V
<1>1. WindowCell' = [p \in Positions |-> <<screen'[Index(p)], colors'[Index(p)]>>]
  BY DEF WindowCell, Positions, Index
<1> QED
  BY <1>1

-----------------------------------------------------------------------------
(* Texts *)

\* The cells a text from column x >= 0 on takes, and what they then show.
LEMMA PutShows ==
    ASSUME IInv, cursorX >= 0, NEW text \in Seq(Glyphs), NEW inks \in Seq(Inks),
           Len(inks) = Len(text), NEW before,
           Put(cursorX, cursorY, text, inks, before), NEW p \in Positions
    PROVE  <<screen'[Index(p)], colors'[Index(p)]>> =
             IF p[2] = cursorY /\ p[1] - cursorX \in 0..Len(text) - 1
             THEN <<text[p[1] - cursorX + 1], inks[p[1] - cursorX + 1]>>
             ELSE <<screen[Index(p)], colors[Index(p)]>>
<1> DEFINE len == Clipped(cursorX, Len(text))
           from == cursorY * SCREEN_WIDTH + cursorX
<1>1. /\ cursorX \in Nat /\ cursorY \in Int /\ Len(text) \in Nat
      /\ p[1] \in Int /\ p[2] \in Int /\ 0 <= p[1] /\ p[1] < SCREEN_WIDTH
      /\ 0 <= p[2] /\ p[2] < SCREEN_HEIGHT
      /\ SCREEN_WIDTH \in Nat /\ SCREEN_HEIGHT \in Nat
  BY InRow, SizeIsNat DEF IInv, ApiInv
<1>2. len \in Int /\ (len <= 0 => Len(text) = 0 \/ cursorX >= SCREEN_WIDTH)
  BY <1>1 DEF Clipped
<1>3. CASE cursorY < 0 \/ cursorY >= SCREEN_HEIGHT \/ cursorX >= SCREEN_WIDTH \/ len <= 0
  <2>1. UNCHANGED <<screen, colors>>
    <3>1. ~ (cursorX < 0) /\ Len(text) - 0 = Len(text)
      BY <1>1
    <3> QED
      BY <1>3, <3>1 DEF Put, memory
  <2>2. ~ (p[2] = cursorY /\ p[1] - cursorX \in 0..Len(text) - 1)
    BY <1>1, <1>2, <1>3
  <2> QED
    BY <2>1, <2>2
<1>4. CASE ~ (cursorY < 0 \/ cursorY >= SCREEN_HEIGHT \/ cursorX >= SCREEN_WIDTH \/ len <= 0)
  <2> DEFINE bytes == [i \in 0..len - 1 |-> At(text, 0 + i, Garbage)]
             paint == [i \in 0..len - 1 |-> At(inks, 0 + i, before)]
             i == p[1] - cursorX
  <2>1. screen' = Copy(screen, from, len, bytes) /\ colors' = Copy(colors, from, len, paint)
    <3>1. ~ (cursorX < 0) /\ Len(text) - 0 = Len(text)
      BY <1>1
    <3> QED
      BY <1>4, <3>1 DEF Put
  <2>2. /\ cursorX + len <= SCREEN_WIDTH /\ len <= Len(text)
        /\ \A k \in Int : k + cursorX < SCREEN_WIDTH /\ k < Len(text) => k < len
    BY <1>1, <1>4 DEF Clipped
  <2>3. /\ Covers(from, len, Index(p)) <=> p[2] = cursorY /\ i \in 0..Len(text) - 1
        /\ p[2] = cursorY => Index(p) - from = i
    <3>1. /\ Covers(from, len, Index(p))
               <=> p[2] = cursorY /\ cursorX <= p[1] /\ p[1] < cursorX + len
          /\ p[2] = cursorY => Index(p) - from = p[1] - cursorX
      BY <1>1, <1>2, <2>2, RowCovers
    <3>2. cursorX <= p[1] /\ p[1] < cursorX + len <=> i \in 0..Len(text) - 1
      BY <1>1, <1>2, <2>2
    <3> QED
      BY <3>1, <3>2
  <2>4. Index(p) \in Cells /\ DOMAIN screen = Cells /\ DOMAIN colors = Cells
    BY IndexInside DEF IInv, MemoryOK
  <2>5. i \in 0..Len(text) - 1 => i \in 0..len - 1 /\ bytes[i] = text[i + 1] /\ paint[i] = inks[i + 1]
    <3>0. i \in Int /\ i + cursorX = p[1]
      BY <1>1
    <3> HIDE DEF len, i
    <3>1. i \in 0..Len(text) - 1 => i \in 0..len - 1
      <4>1. ASSUME i \in 0..Len(text) - 1
            PROVE  i < len
        BY <1>1, <3>0, <2>2, <4>1
      <4> QED
        BY <1>2, <3>0, <4>1
    <3>2. i \in 0..Len(text) - 1 =>
            /\ 0 + i = i
            /\ At(text, 0 + i, Garbage) = text[i + 1] /\ At(inks, 0 + i, before) = inks[i + 1]
      BY <1>1 DEF At
    <3>3. i \in 0..len - 1 => /\ bytes[i] = At(text, 0 + i, Garbage)
                              /\ paint[i] = At(inks, 0 + i, before)
      OBVIOUS
    <3> QED
      BY <3>1, <3>2, <3>3
  <2> HIDE DEF bytes, paint, from, len, i
  <2>6. CASE p[2] = cursorY /\ i \in 0..Len(text) - 1
    <3>1. screen'[Index(p)] = bytes[i] /\ colors'[Index(p)] = paint[i]
      BY <2>1, <2>3, <2>4, <2>6 DEF Copy
    <3> QED
      BY <2>5, <2>6, <3>1 DEF i
  <2>7. CASE ~ (p[2] = cursorY /\ i \in 0..Len(text) - 1)
    <3>1. screen'[Index(p)] = screen[Index(p)] /\ colors'[Index(p)] = colors[Index(p)]
      BY <2>1, <2>3, <2>4, <2>7 DEF Copy
    <3> QED
      BY <2>7, <3>1 DEF i
  <2> QED
    BY <2>6, <2>7
<1> QED
  BY <1>3, <1>4

-----------------------------------------------------------------------------
(* Each call is one of the window's *)

LEMMA WindowTyped ==
    ASSUME MemoryOK
    PROVE  /\ WindowCell \in [Positions -> Cell \X CellInk]
           /\ \A p \in Positions : WindowCell[p] = <<screen[Index(p)], colors[Index(p)]>>
<1>1. \A p \in Positions : screen[Index(p)] \in Cell /\ colors[Index(p)] \in CellInk
  BY IndexInside DEF MemoryOK
<1>2. WindowCell = [p \in Positions |-> <<screen[Index(p)], colors[Index(p)]>>]
  BY DEF WindowCell, Positions
<1> QED
  BY <1>1, <1>2

\* Text that begins on the screen, or right of it.
LEMMA PutImplements ==
    ASSUME IInv, cursorX >= 0, NEW text \in Seq(Glyphs), NEW inks \in Seq(Inks),
           Len(inks) = Len(text), NEW before,
           Put(cursorX, cursorY, text, inks, before),
           cursorX' = cursorX + Len(text), cursorY' = cursorY,
           current_colors' = current_colors
    PROVE  Window!Put(text, inks)
<1> DEFINE V == [p \in Positions |->
                  IF p[2] = cursorY /\ p[1] - cursorX \in 0..Len(text) - 1
                  THEN <<text[p[1] - cursorX + 1], inks[p[1] - cursorX + 1]>>
                  ELSE WindowCell[p]]
<1>1. \A p \in Positions : <<screen'[Index(p)], colors'[Index(p)]>> = V[p]
  <2>1. TAKE p \in Positions
  <2>2. WindowCell[p] = <<screen[Index(p)], colors[Index(p)]>>
    BY CellAt
  <2> QED
    BY <2>2, PutShows
<1>2. V = [p \in Positions |-> V[p]]
  OBVIOUS
<1>3. WindowCell' = V
  <2> HIDE DEF V
  <2> QED
    BY <1>1, <1>2, CellsDecide
<1>4. <<cursorX, cursorY>>' = <<cursorX + Len(text), cursorY>>
  OBVIOUS
<1> QED
  BY <1>3, <1>4 DEF Window!Put, Window!Positions, Positions, Window!Takes, Window!Nth,
                    Window!Advance

\* Text that begins left of the screen: it touches its own row only.
LEMMA PutFromLeftImplements ==
    ASSUME IInv, MemoryOK', cursorX < 0, NEW text \in Seq(Glyphs), NEW inks, NEW before,
           Put(cursorX, cursorY, text, inks, before),
           cursorX' = cursorX + Len(text), cursorY' = cursorY,
           current_colors' = current_colors
    PROVE  Window!PutFromLeft(text)
<1> DEFINE len == Clipped(0, Len(text) - cursorX)
           from == cursorY * SCREEN_WIDTH + 0
<1>1. cursorX \in Int /\ cursorY \in Int /\ Len(text) - cursorX \in Int
  BY DEF IInv, ApiInv
<1>2. len \in Int /\ 0 + len <= SCREEN_WIDTH
  BY <1>1, ClippedFits, SizeIsNat
<1>3. ASSUME NEW p \in Positions, p[2] # cursorY
      PROVE  WindowCell'[p] = WindowCell[p]
  <2>1. ~ Covers(from, len, Index(p))
    <3> HIDE DEF len
    <3> QED
      BY <1>1, <1>2, <1>3, RowCovers
  <2>2. Index(p) \in Cells /\ DOMAIN screen = Cells /\ DOMAIN colors = Cells
    BY IndexInside DEF IInv, MemoryOK
  <2>3. \/ UNCHANGED <<screen, colors>>
        \/ \E b, c : screen' = Copy(screen, from, len, b) /\ colors' = Copy(colors, from, len, c)
    BY DEF Put, memory
  <2> HIDE DEF from, len
  <2>4. screen'[Index(p)] = screen[Index(p)] /\ colors'[Index(p)] = colors[Index(p)]
    BY <2>1, <2>2, <2>3 DEF Copy
  <2> QED
    BY <2>4, CellAt
<1>4. WindowCell' \in [Positions -> Cell \X CellInk]
  <2>1. WindowCell' = [p \in Positions |-> <<screen'[Index(p)], colors'[Index(p)]>>]
    BY DEF WindowCell, Positions, Index
  <2>2. \A p \in Positions : screen'[Index(p)] \in Cell /\ colors'[Index(p)] \in CellInk
    BY IndexInside DEF MemoryOK
  <2> QED
    BY <2>1, <2>2
<1>5. <<cursorX, cursorY>>' = <<cursorX + Len(text), cursorY>>
  OBVIOUS
<1> QED
  BY <1>3, <1>4, <1>5 DEF Window!PutFromLeft, Window!Positions, Positions, Window!Advance,
                          Cell, CellInk

LEMMA PutWindow ==
    ASSUME IInv, MemoryOK', NEW text \in Seq(Glyphs), NEW inks \in Seq(Inks),
           Len(inks) = Len(text), NEW before,
           Put(cursorX, cursorY, text, inks, before),
           cursorX' = cursorX + Len(text), cursorY' = cursorY,
           current_colors' = current_colors
    PROVE  Window!Put(text, inks) \/ Window!PutFromLeft(text)
<1>1. cursorX >= 0 \/ cursorX < 0
  BY DEF IInv, ApiInv
<1> QED
  BY <1>1, PutImplements, PutFromLeftImplements

\* A clear of the whole array, or of the cursor's row.
LEMMA ClearImplements ==
    ASSUME IInv, terminal_clear(-1), UNCHANGED <<cursorX, cursorY, current_colors>>
    PROVE  Window!Clear
<1> DEFINE V == [p \in Positions |-> <<Blank, current_colors>>]
<1>1. ASSUME NEW p \in Positions
      PROVE  <<screen'[Index(p)], colors'[Index(p)]>> = V[p]
  <2>1. Index(p) \in Cells /\ DOMAIN screen = Cells /\ DOMAIN colors = Cells
    BY IndexInside DEF IInv, MemoryOK
  <2>2. Covers(0, SCREEN_SIZE, Index(p))
    BY <2>1, SizeIsNat DEF Covers, Cells
  <2>3. screen' = Set(screen, 0, SCREEN_SIZE, Blank) /\ colors' = Set(colors, 0, SCREEN_SIZE, current_colors)
    BY DEF terminal_clear
  <2> QED
    BY <2>1, <2>2, <2>3 DEF Set
<1>2. WindowCell' = V
  <2>1. V = [p \in Positions |-> V[p]]
    OBVIOUS
  <2> HIDE DEF V
  <2> QED
    BY <1>1, <2>1, CellsDecide
<1> QED
  BY <1>2 DEF Window!Clear, Window!Positions, Positions

LEMMA ClearLineImplements ==
    ASSUME IInv, terminal_clear(cursorY), 0 <= cursorY, cursorY < SCREEN_HEIGHT,
           UNCHANGED <<cursorX, cursorY, current_colors>>
    PROVE  Window!ClearLine
<1> DEFINE V == [p \in Positions |-> IF p[2] = cursorY THEN <<Blank, current_colors>>
                                     ELSE WindowCell[p]]
<1>1. ASSUME NEW p \in Positions
      PROVE  <<screen'[Index(p)], colors'[Index(p)]>> = V[p]
  <2>1. Index(p) \in Cells /\ DOMAIN screen = Cells /\ DOMAIN colors = Cells
    BY IndexInside DEF IInv, MemoryOK
  <2>2. cursorY \in Int /\ ~ (cursorY < 0) /\ SCREEN_WIDTH \in Nat
    BY SizeIsNat DEF IInv, ApiInv
  <2>3. Covers(cursorY * SCREEN_WIDTH, SCREEN_WIDTH, Index(p)) <=> p[2] = cursorY
    <3>1. cursorY * SCREEN_WIDTH + 0 = cursorY * SCREEN_WIDTH
      BY <2>2
    <3>2. 0 \in Nat /\ SCREEN_WIDTH \in Int /\ 0 + SCREEN_WIDTH <= SCREEN_WIDTH
      BY <2>2
    <3>3. Covers(cursorY * SCREEN_WIDTH + 0, SCREEN_WIDTH, Index(p))
            <=> p[2] = cursorY /\ 0 <= p[1] /\ p[1] < 0 + SCREEN_WIDTH
      BY <2>2, <3>2, RowCovers
    <3>4. 0 <= p[1] /\ p[1] < 0 + SCREEN_WIDTH
      BY InRow, <2>2
    <3> QED
      BY <3>1, <3>3, <3>4
  <2>4. /\ screen' = Set(screen, cursorY * SCREEN_WIDTH, SCREEN_WIDTH, Blank)
        /\ colors' = Set(colors, cursorY * SCREEN_WIDTH, SCREEN_WIDTH, current_colors)
    BY <2>2 DEF terminal_clear
  <2> QED
    BY <2>1, <2>3, <2>4, CellAt DEF Set
<1>2. WindowCell' = V
  <2>1. V = [p \in Positions |-> V[p]]
    OBVIOUS
  <2> HIDE DEF V
  <2> QED
    BY <1>1, <2>1, CellsDecide
<1> QED
  BY <1>2 DEF Window!ClearLine, Window!Positions, Positions

-----------------------------------------------------------------------------
(* Scrolls *)

LEMMA IndexBelow ==
    ASSUME NEW p \in Positions, NEW lines \in Int
    PROVE  /\ Index(<<p[1], p[2] + lines>>) = Index(p) + lines * SCREEN_WIDTH
           /\ (p[2] + lines) * SCREEN_WIDTH = p[2] * SCREEN_WIDTH + lines * SCREEN_WIDTH
<1>1. p[1] \in Int /\ p[2] \in Int /\ SCREEN_WIDTH \in Nat
  BY InRow, SizeIsNat
<1>2. (p[2] + lines) * SCREEN_WIDTH = p[2] * SCREEN_WIDTH + lines * SCREEN_WIDTH
  BY <1>1
<1>3. lines * SCREEN_WIDTH \in Int /\ p[2] * SCREEN_WIDTH \in Int
  BY <1>1
<1> QED
  BY <1>1, <1>2, <1>3 DEF Index

LEMMA ScrolledUpAt ==
    ASSUME NEW mem, DOMAIN mem = Cells, NEW v, NEW p \in Positions,
           NEW lines \in Int, 0 < lines, lines < SCREEN_HEIGHT
    PROVE  Scrolled(mem, lines, v)[Index(p)] =
             IF p[2] + lines < SCREEN_HEIGHT THEN mem[Index(p) + lines * SCREEN_WIDTH] ELSE v
<1> DEFINE kept == (SCREEN_HEIGHT - lines) * SCREEN_WIDTH
           moved == Move(mem, 0, lines * SCREEN_WIDTH, kept)
<1>1. /\ p[1] \in Int /\ p[2] \in Int /\ SCREEN_HEIGHT \in Nat
      /\ SCREEN_HEIGHT - lines \in Int
      /\ p[2] < SCREEN_HEIGHT - lines <=> p[2] + lines < SCREEN_HEIGHT
  BY InRow, SizeIsNat
<1>2. /\ Index(p) \in Cells /\ Index(p) \in Int /\ 0 <= Index(p)
      /\ Index(p) < SCREEN_SIZE /\ kept \in Int /\ lines * SCREEN_WIDTH \in Int
      /\ kept + lines * SCREEN_WIDTH = SCREEN_SIZE
  BY IndexInside, SizeIsNat DEF Cells, SCREEN_SIZE
<1>3. /\ p[2] < SCREEN_HEIGHT - lines => Index(p) < kept
      /\ ~ (p[2] < SCREEN_HEIGHT - lines) => kept <= Index(p)
  BY <1>1, RowOrder
<1>4. Scrolled(mem, lines, v) = Set(moved, kept, lines * SCREEN_WIDTH, v)
  BY DEF Scrolled, Moved
<1> HIDE DEF kept
<1>5. DOMAIN moved = Cells
  BY DEF Move
<1>6. CASE p[2] < SCREEN_HEIGHT - lines
  <2>1. Covers(0, kept, Index(p)) /\ ~ Covers(kept, lines * SCREEN_WIDTH, Index(p))
    BY <1>2, <1>3, <1>6 DEF Covers
  <2>2. moved[Index(p)] = mem[Index(p) - 0 + lines * SCREEN_WIDTH]
    BY <1>2, <2>1 DEF Move
  <2>3. Index(p) - 0 = Index(p)
    BY <1>2
  <2> HIDE DEF moved
  <2>4. Set(moved, kept, lines * SCREEN_WIDTH, v)[Index(p)] = moved[Index(p)]
    BY <1>2, <1>5, <2>1 DEF Set
  <2> QED
    BY <1>1, <1>4, <1>6, <2>2, <2>3, <2>4
<1>7. CASE ~ (p[2] < SCREEN_HEIGHT - lines)
  <2>1. Covers(kept, lines * SCREEN_WIDTH, Index(p))
    BY <1>2, <1>3, <1>7 DEF Covers
  <2> HIDE DEF moved
  <2> QED
    BY <1>1, <1>2, <1>4, <1>5, <1>7, <2>1 DEF Set
<1> QED
  BY <1>6, <1>7

LEMMA ScrolledDownAt ==
    ASSUME NEW mem, DOMAIN mem = Cells, NEW v, NEW p \in Positions,
           NEW lines \in Int, lines <= 0, -lines < SCREEN_HEIGHT
    PROVE  Scrolled(mem, lines, v)[Index(p)] =
             IF 0 <= p[2] + lines THEN mem[Index(p) + lines * SCREEN_WIDTH] ELSE v
<1> DEFINE kept == (SCREEN_HEIGHT + lines) * SCREEN_WIDTH
           free == -lines * SCREEN_WIDTH
           moved == Move(mem, free, 0, kept)
<1>1. /\ p[1] \in Int /\ p[2] \in Int /\ SCREEN_HEIGHT \in Nat /\ -lines \in Int
      /\ SCREEN_WIDTH \in Nat
      /\ p[2] < -lines <=> ~ (0 <= p[2] + lines)
  BY InRow, SizeIsNat
<1>2. /\ Index(p) \in Cells /\ Index(p) \in Int /\ 0 <= Index(p)
      /\ Index(p) < SCREEN_SIZE /\ kept \in Int /\ lines * SCREEN_WIDTH \in Int
      /\ free \in Int /\ free = 0 - lines * SCREEN_WIDTH
      /\ free + kept = SCREEN_SIZE
      /\ (-lines) * SCREEN_WIDTH = free
  BY IndexInside, SizeIsNat DEF Cells, SCREEN_SIZE
<1>3. /\ p[2] < -lines => Index(p) < free
      /\ ~ (p[2] < -lines) => free <= Index(p)
  <2> HIDE DEF free
  <2> QED
    BY <1>1, <1>2, RowOrder
<1>4. Scrolled(mem, lines, v) = Set(moved, 0, free, v)
  BY DEF Scrolled, Moved
<1> HIDE DEF kept, free
<1>5. DOMAIN moved = Cells
  BY DEF Move
<1>6. CASE ~ (p[2] < -lines)
  <2>1. Covers(free, kept, Index(p)) /\ ~ Covers(0, free, Index(p))
    BY <1>2, <1>3, <1>6 DEF Covers
  <2>2. moved[Index(p)] = mem[Index(p) - free + 0]
    BY <1>2, <2>1 DEF Move
  <2>3. Index(p) - free + 0 = Index(p) + lines * SCREEN_WIDTH
    BY <1>2
  <2> HIDE DEF moved
  <2>4. Set(moved, 0, free, v)[Index(p)] = moved[Index(p)]
    BY <1>2, <1>5, <2>1 DEF Set
  <2> QED
    BY <1>1, <1>4, <1>6, <2>2, <2>3, <2>4
<1>7. CASE p[2] < -lines
  <2>1. Covers(0, free, Index(p))
    BY <1>2, <1>3, <1>7 DEF Covers
  <2> HIDE DEF moved
  <2> QED
    BY <1>1, <1>2, <1>4, <1>5, <1>7, <2>1 DEF Set
<1> QED
  BY <1>6, <1>7

LEMMA ScrollImplements ==
    ASSUME IInv, NEW lines \in Int, terminal_scroll(lines),
           UNCHANGED <<cursorX, cursorY, current_colors>>
    PROVE  Window!Scroll(lines)
<1> DEFINE V == [p \in Positions |->
                  IF p[2] + lines \in 0..SCREEN_HEIGHT - 1
                  THEN WindowCell[<<p[1], p[2] + lines>>] ELSE <<Blank, current_colors>>]
<1>1. ASSUME NEW p \in Positions
      PROVE  <<screen'[Index(p)], colors'[Index(p)]>> = V[p]
  <2>1. /\ Index(p) \in Cells /\ DOMAIN screen = Cells /\ DOMAIN colors = Cells
        /\ p[1] \in Int /\ p[2] \in Int /\ 0 <= p[2] /\ p[2] < SCREEN_HEIGHT
        /\ SCREEN_HEIGHT \in Nat
    BY IndexInside, InRow, SizeIsNat DEF IInv, MemoryOK
  <2>2. CASE lines >= SCREEN_HEIGHT \/ -lines >= SCREEN_HEIGHT
    <3>1. p[2] + lines \notin 0..SCREEN_HEIGHT - 1
      BY <2>1, <2>2
    <3>2. Covers(0, SCREEN_SIZE, Index(p))
      BY <2>1, SizeIsNat DEF Covers, Cells
    <3>3. /\ screen' = Set(screen, 0, SCREEN_SIZE, Blank)
          /\ colors' = Set(colors, 0, SCREEN_SIZE, current_colors)
      BY <2>2 DEF terminal_scroll, terminal_clear
    <3> QED
      BY <2>1, <3>1, <3>2, <3>3 DEF Set
  <2>3. CASE lines < SCREEN_HEIGHT /\ -lines < SCREEN_HEIGHT
    <3> DEFINE q == <<p[1], p[2] + lines>>
    <3>1. /\ screen' = Scrolled(screen, lines, Blank)
          /\ colors' = Scrolled(colors, lines, current_colors)
      BY <2>1, <2>3 DEF terminal_scroll
    <3>2. CASE p[2] + lines \in 0..SCREEN_HEIGHT - 1
      <4>1. q \in Positions
        BY <3>2 DEF Positions
      <4>2. WindowCell[q] = <<screen[Index(q)], colors[Index(q)]>>
        BY <4>1, CellAt
      <4>3. Index(q) = Index(p) + lines * SCREEN_WIDTH
        BY IndexBelow
      <4>4. /\ screen'[Index(p)] = screen[Index(p) + lines * SCREEN_WIDTH]
            /\ colors'[Index(p)] = colors[Index(p) + lines * SCREEN_WIDTH]
        <5>1. CASE lines > 0
          BY <2>1, <2>3, <3>1, <3>2, <5>1, ScrolledUpAt
        <5>2. CASE lines <= 0
          BY <2>1, <2>3, <3>1, <3>2, <5>2, ScrolledDownAt
        <5> QED
          BY <5>1, <5>2
      <4> QED
        BY <3>2, <4>2, <4>3, <4>4
    <3>3. CASE p[2] + lines \notin 0..SCREEN_HEIGHT - 1
      <4>1. screen'[Index(p)] = Blank /\ colors'[Index(p)] = current_colors
        <5>1. CASE lines > 0
          <6>1. ~ (p[2] + lines < SCREEN_HEIGHT)
            BY <2>1, <3>3, <5>1
          <6> QED
            BY <2>1, <2>3, <3>1, <5>1, <6>1, ScrolledUpAt
        <5>2. CASE lines <= 0
          <6>1. ~ (0 <= p[2] + lines)
            BY <2>1, <3>3, <5>2
          <6> QED
            BY <2>1, <2>3, <3>1, <5>2, <6>1, ScrolledDownAt
        <5> QED
          BY <5>1, <5>2
      <4> QED
        BY <3>3, <4>1
    <3> QED
      BY <3>2, <3>3
  <2> QED
    BY <2>1, <2>2, <2>3
<1>2. WindowCell' = V
  <2>1. V = [p \in Positions |-> V[p]]
    OBVIOUS
  <2> HIDE DEF V
  <2> QED
    BY <1>1, <2>1, CellsDecide
<1> QED
  BY <1>2 DEF Window!Scroll, Window!Positions, Positions

-----------------------------------------------------------------------------
(* The refinement *)

LEMMA WindowKept ==
    ASSUME UNCHANGED memory
    PROVE  WindowCell' = WindowCell
BY DEF memory, WindowCell, Index

LEMMA InitImplements == Init => Window!Init
<1>1. SUFFICES ASSUME Init PROVE Window!Init
  OBVIOUS
<1>2. WindowCell = [p \in Positions |-> <<Blank, current_colors>>]
  <2>1. \A p \in Positions : screen[Index(p)] = Blank /\ colors[Index(p)] = <<0, 15>>
    BY <1>1, IndexInside DEF Init, Cells
  <2>2. WindowCell = [p \in Positions |-> <<screen[Index(p)], colors[Index(p)]>>]
    BY DEF WindowCell, Positions
  <2>3. current_colors = <<0, 15>>
    BY <1>1 DEF Init
  <2> QED
    BY <2>1, <2>2, <2>3
<1>3. current_colors \in Inks /\ cursorX = 0 /\ cursorY = 0
  BY <1>1 DEF Init, Inks, Colors
<1> QED
  BY <1>2, <1>3 DEF Window!Init, Window!Positions, Positions

LEMMA StepImplements ==
    ASSUME IInv, IInv', [Next]_vars
    PROVE  [Window!Next]_(Window!vars)
<1>1. /\ MemoryOK' /\ current_colors \in Inks /\ current_colors' \in Inks
      /\ cursorX' \in Int /\ cursorY' \in Int
  BY DEF IInv, ApiInv
<1>2. ASSUME NEW text \in Texts, Write(text)
      PROVE  Window!Next
  <2> DEFINE inks == [i \in 1..Len(text) |-> current_colors]
  <2>1. text \in Seq(Glyphs)
    BY TermAssumption DEF TermAssumption
  <2>2. inks \in Seq(Inks) /\ Len(inks) = Len(text)
    BY <1>1, <2>1
  <2>3. Put(cursorX, cursorY, text, inks, current_colors)
    BY <1>2 DEF Write, terminal_write
  <2>4. /\ cursorX' = cursorX + Len(text) /\ cursorY' = cursorY
        /\ current_colors' = current_colors
    BY <1>2 DEF Write
  <2>5. Window!Put(text, inks) \/ Window!PutFromLeft(text)
    <3> HIDE DEF inks
    <3> QED
      BY <1>1, <2>1, <2>2, <2>3, <2>4, PutWindow
  <2> QED
    BY <2>5 DEF Window!Next, Window!Write
<1>3. ASSUME NEW b \in Blits, Blit(b[1], b[2])
      PROVE  Window!Next
  <2>1. b[1] \in Seq(Glyphs) /\ b[2] \in Seq(Inks) /\ Len(b[2]) = Len(b[1])
    BY TermAssumption DEF TermAssumption
  <2>2. Put(cursorX, cursorY, b[1], b[2], Garbage)
    BY <1>3 DEF Blit, terminal_blit
  <2>3. /\ cursorX' = cursorX + Len(b[1]) /\ cursorY' = cursorY
        /\ current_colors' = current_colors
    BY <1>3 DEF Blit
  <2>4. Window!Put(b[1], b[2]) \/ Window!PutFromLeft(b[1])
    BY <1>1, <2>1, <2>2, <2>3, PutWindow
  <2>5. b[1] \in Texts \cup {c[1] : c \in Blits}
    OBVIOUS
  <2> QED
    BY <2>4, <2>5 DEF Window!Next
<1>4. CASE Clear
  <2>1. terminal_clear(-1) /\ UNCHANGED <<cursorX, cursorY, current_colors>>
    BY <1>4 DEF Clear, ApiState
  <2> QED
    BY <2>1, ClearImplements DEF Window!Next
<1>5. CASE ClearLine
  <2>1. /\ terminal_clear(cursorY) /\ UNCHANGED <<cursorX, cursorY, current_colors>>
        /\ 0 <= cursorY /\ cursorY < SCREEN_HEIGHT
    BY <1>5 DEF ClearLine, ApiState
  <2> QED
    BY <2>1, ClearLineImplements DEF Window!Next
<1>6. ASSUME NEW n \in Lines, Scroll(n)
      PROVE  Window!Next
  <2>1. n \in Int /\ terminal_scroll(n) /\ UNCHANGED <<cursorX, cursorY, current_colors>>
    BY <1>6, TermAssumption DEF Scroll, ApiState, TermAssumption
  <2> QED
    BY <2>1, ScrollImplements DEF Window!Next
<1>7. ASSUME NEW p \in Places, SetCursorPos(p[1], p[2])
      PROVE  Window!Next
  BY <1>1, <1>7, WindowKept DEF SetCursorPos, Window!Next, Window!SetCursorPos
<1>8. ASSUME NEW on \in BOOLEAN, SetCursorBlink(on)
      PROVE  UNCHANGED Window!vars
  BY <1>8, WindowKept DEF SetCursorBlink, Window!vars
<1>9. ASSUME NEW n \in ColorArgs, SetTextColor(n) \/ SetBackgroundColor(n)
      PROVE  Window!Next
  <2>1. UNCHANGED <<memory, cursorX, cursorY>>
    BY <1>9 DEF SetTextColor, SetBackgroundColor
  <2> QED
    BY <1>1, <2>1, WindowKept DEF Window!Next, Window!SetColors
<1>10. ASSUME NEW n \in ColorArgs, NEW r \in Levels, NEW g \in Levels, NEW b \in Levels,
              SetPaletteColor(n, r, g, b)
       PROVE  UNCHANGED Window!vars
  BY <1>10, WindowKept DEF SetPaletteColor, Window!vars
<1>11. CASE UNCHANGED vars
  BY <1>11, WindowKept DEF vars, Window!vars
<1> QED
  BY <1>2, <1>3, <1>4, <1>5, <1>6, <1>7, <1>8, <1>9, <1>10, <1>11 DEF Next

\* The term API's arrays show what a window of that size would, for any
\* screen, texts, cursor positions and scrolls.
THEOREM ArraysAreTheWindow == Spec => RefinesWindow
<1>1. IInv /\ [Next]_vars => IInv'
  BY StepKeeps
<1>2. IInv /\ IInv' /\ [Next]_vars => [Window!Next]_(Window!vars)
  BY StepImplements
<1> QED
  BY <1>1, <1>2, InvAlways, InitImplements, PTL DEF Spec, RefinesWindow, Window!Spec
=============================================================================
