---------------------------- MODULE PsramProofs ----------------------------
(***************************************************************************)
(* For any number of blocks and any nesting of fs.open: file handles are   *)
(* in SRAM, forceLocalAlloc comes back, blocks stay in their heap and only *)
(* what was used off the bus is lost.                                      *)
(***************************************************************************)
EXTENDS Psram, SequenceTheorems, TLAPS

LEMMA PushFrame ==
    ASSUME NEW s \in Seq(BOOLEAN), NEW e \in BOOLEAN, Len(s) < MaxNested
    PROVE  /\ Append(s, e) \in Seq(BOOLEAN) /\ Len(Append(s, e)) = Len(s) + 1
           /\ Append(s, e) # <<>>
           /\ Append(s, e)[1] = IF s = <<>> THEN e ELSE s[1]
           /\ \A i \in 2..Len(s) + 1 :
                Append(s, e)[i] = IF i = Len(s) + 1 THEN e ELSE s[i]
<1>1. Len(s) \in Nat /\ (s = <<>> <=> Len(s) = 0)
  BY EmptySeq, LenProperties
<1>2. /\ Append(s, e) \in Seq(BOOLEAN) /\ Len(Append(s, e)) = Len(s) + 1
      /\ Append(s, e) # <<>>
      /\ \A i \in 1..Len(s) : Append(s, e)[i] = s[i]
      /\ Append(s, e)[Len(s) + 1] = e
  BY AppendProperties
<1>3. Append(s, e)[1] = IF s = <<>> THEN e ELSE s[1]
  <2>1. CASE s = <<>>
    BY <2>1, <1>1, <1>2
  <2>2. CASE s # <<>>
    <3>1. 1 \in 1..Len(s)
      BY <2>2, <1>1
    <3> QED
      BY <2>2, <3>1, <1>2
  <2> QED
    BY <2>1, <2>2
<1>4. ASSUME NEW i \in 2..Len(s) + 1
      PROVE  Append(s, e)[i] = IF i = Len(s) + 1 THEN e ELSE s[i]
  <2>1. i = Len(s) + 1 \/ i \in 1..Len(s)
    BY <1>1
  <2>2. i \in 1..Len(s) => i # Len(s) + 1
    BY <1>1
  <2> QED
    BY <2>1, <2>2, <1>2
<1> QED
  BY <1>2, <1>3, <1>4

LEMMA CutFrames ==
    ASSUME NEW s \in Seq(BOOLEAN), NEW n \in 0..Len(s) - 1
    PROVE  /\ SubSeq(s, 1, n) \in Seq(BOOLEAN) /\ Len(SubSeq(s, 1, n)) = n
           /\ \A i \in 1..n : SubSeq(s, 1, n)[i] = s[i]
OBVIOUS

LEMMA PopFrame ==
    ASSUME NEW s \in Seq(BOOLEAN), s # <<>>
    PROVE  /\ Front(s) \in Seq(BOOLEAN) /\ Len(Front(s)) = Len(s) - 1
           /\ Last(s) = s[Len(s)] /\ Len(s) >= 1
           /\ \A i \in 1..Len(s) - 1 : Front(s)[i] = s[i]
<1>1. Len(s) \in Nat \ {0}
  BY EmptySeq
<1>2. Len(s) - 1 \in 0..Len(s) - 1 /\ Len(s) >= 1
  BY <1>1
<1> QED
  BY <1>2, CutFrames DEF Front, Last

-----------------------------------------------------------------------------
\* The inductive invariant.  While a call is under way the flag is set; each
\* call but the outermost has saved it so, and the outermost has saved what
\* ForceReturns promises.
Outside(f) == (f <=> ~ present) \/ (f /\ escaped)

FramesInv ==
    /\ frames # <<>> => force
    /\ \A i \in 1..Len(frames) : i > 1 => frames[i]
    /\ frames # <<>> => Outside(frames[1])
    /\ frames = <<>> => Outside(force)

\* What is in the cache while the PSRAM is off the bus was put there by Lua.
CacheInv ==
    /\ LostOnlyStrayed
    /\ ~ psramActive /\ dirty => strayed

IInv == TypeOK /\ FramesInv /\ HeapsRight /\ CacheInv

\* Without PSRAM the flag is never clear, nor saved so.
LEMMA NoPool ==
    ASSUME TypeOK, FramesInv, ~ present
    PROVE  force /\ \A i \in 1..Len(frames) : frames[i]
BY DEF TypeOK, FramesInv, Outside

LEMMA InitHolds == ASSUME Init PROVE IInv
<1>1. TypeOK
  <2>1. {present, force, psramActive, dirty, escaped, strayed, lost}
          \subseteq BOOLEAN
    BY DEF Init
  <2>2. frames \in Seq(BOOLEAN) /\ Len(frames) = 0
    BY EmptySeq DEF Init
  <2>3. DOMAIN heap = {}
    BY DEF Init
  <2> QED
    BY <2>1, <2>2, <2>3, NestedAssumption DEF NestedAssumption, Init, TypeOK
<1>2. FramesInv
  <2>1. force <=> ~ present
    BY DEF Init
  <2> QED
    BY <2>1 DEF Init, FramesInv, Outside
<1>3. HeapsRight /\ CacheInv
  BY DEF Init, HeapsRight, CacheInv, LostOnlyStrayed
<1> QED
  BY <1>1, <1>2, <1>3 DEF IInv

-----------------------------------------------------------------------------
(* The frames *)

\* A step of Lua that leaves the frames and the flag alone.
LEMMA LuaKeeps ==
    ASSUME IInv, InLua, UNCHANGED <<force, frames, escaped>>,
           DOMAIN heap' \subseteq Blocks,
           \A b \in DOMAIN heap' : heap'[b] \in Heaps,
           handles' \subseteq DOMAIN heap',
           HeapsRight'
    PROVE  IInv'
<1>1. TypeOK'
  BY DEF IInv, InLua, driver, TypeOK
<1>2. FramesInv'
  BY DEF IInv, InLua, FramesInv, Outside
<1>3. CacheInv'
  BY DEF IInv, InLua, driver, TypeOK, CacheInv,
     LostOnlyStrayed
<1> QED
  BY <1>1, <1>2, <1>3 DEF IInv

LEMMA NoPsramKeeps == ASSUME IInv, NoPsram PROVE IInv'
<1>1. /\ frames \in Seq(BOOLEAN) /\ Len(frames) < MaxNested /\ force \in BOOLEAN
      /\ frames' = Append(frames, force) /\ force' = TRUE
      /\ UNCHANGED <<present, heap, handles, escaped>>
  BY DEF IInv, TypeOK, NoPsram, InLua
<1>2. /\ frames' \in Seq(BOOLEAN) /\ Len(frames') = Len(frames) + 1
      /\ frames' # <<>>
      /\ frames'[1] = IF frames = <<>> THEN force ELSE frames[1]
      /\ \A i \in 2..Len(frames) + 1 :
           frames'[i] = IF i = Len(frames) + 1 THEN force ELSE frames[i]
  BY <1>1, PushFrame
<1>3. TypeOK'
  <2>1. Len(frames') <= MaxNested
    BY <1>1, <1>2, NestedAssumption DEF NestedAssumption
  <2> QED
    BY <2>1, <1>1, <1>2 DEF IInv, TypeOK, NoPsram, InLua, driver
<1>4. FramesInv'
  <2>1. ASSUME NEW i \in 1..Len(frames'), i > 1 PROVE frames'[i]
    <3>1. CASE i = Len(frames) + 1
      <4>1. frames # <<>>
        BY <3>1, <2>1, <1>1
      <4> QED
        BY <4>1, <3>1, <2>1, <1>1, <1>2 DEF IInv, FramesInv
    <3>2. CASE i # Len(frames) + 1
      <4>1. i \in 1..Len(frames) /\ i \in 2..Len(frames) + 1
        BY <3>2, <2>1, <1>1, <1>2
      <4> QED
        BY <4>1, <3>2, <2>1, <1>2 DEF IInv, FramesInv
    <3> QED
      BY <3>1, <3>2
  <2>2. Outside(frames[1])'
    BY <1>1, <1>2 DEF IInv, FramesInv, Outside
  <2> QED
    BY <2>1, <2>2, <1>1, <1>2 DEF FramesInv, Outside
<1>5. HeapsRight'
  BY <1>1 DEF IInv, HeapsRight
<1>6. CacheInv'
  BY DEF IInv, NoPsram, InLua, driver, TypeOK, CacheInv,
     LostOnlyStrayed
<1> QED
  BY <1>3, <1>4, <1>5, <1>6 DEF IInv

LEMMA UserdataKeeps ==
    ASSUME IInv, NEW b \in Blocks, Userdata(b)
    PROVE  IInv'
<1> DEFINE n == Len(frames)
<1>1. /\ frames \in Seq(BOOLEAN) /\ frames # <<>> /\ n <= MaxNested
      /\ frames' = Front(frames) /\ force' = Last(frames)
      /\ UNCHANGED <<present, escaped>>
  BY DEF IInv, TypeOK, Userdata, InLua
<1>2. /\ frames' \in Seq(BOOLEAN) /\ Len(frames') = n - 1
      /\ force' = frames[n] /\ n \in Nat /\ n >= 1
      /\ \A i \in 1..n - 1 : frames'[i] = frames[i]
  BY <1>1, PopFrame, LenProperties
<1>3. frames[n] \in BOOLEAN /\ (frames' = <<>> <=> n = 1)
  BY <1>1, <1>2, ElementOfSeq, EmptySeq
<1>4. TypeOK'
  <2>1. Len(frames') <= MaxNested
    BY <1>1, <1>2, NestedAssumption DEF NestedAssumption
  <2>2. heap' = Placed(b, "sram")
    BY <1>1 DEF IInv, FramesInv, Userdata, l_alloc
  <2>3. /\ DOMAIN heap' \subseteq Blocks /\ handles' \subseteq DOMAIN heap'
        /\ \A c \in DOMAIN heap' : heap'[c] \in Heaps
    BY <2>2 DEF IInv, TypeOK, Userdata, Placed, Heaps
  <2> QED
    BY <2>1, <2>3, <1>2, <1>3 DEF IInv, TypeOK, Userdata, InLua, driver
<1>5. FramesInv'
  <2>1. n > 1 => frames[n]
    BY <1>2 DEF IInv, FramesInv
  <2>2. n > 1 => frames'[1] = frames[1]
    BY <1>2
  <2>3. ASSUME NEW i \in 1..Len(frames'), i > 1 PROVE frames'[i]
    <3>1. i \in 1..n - 1 /\ i \in 1..n
      BY <1>2
    <3> QED
      BY <3>1, <2>3, <1>2 DEF IInv, FramesInv
  <2>4. n > 1 => Outside(frames[1])
    BY <1>1 DEF IInv, FramesInv
  <2> QED
    BY <2>1, <2>2, <2>3, <2>4, <1>1, <1>2, <1>3 DEF IInv, FramesInv, Outside
<1>6. HeapsRight'
  <2>1. heap' = Placed(b, "sram")
    BY <1>1 DEF IInv, FramesInv, Userdata, l_alloc
  <2> QED
    BY <2>1, <1>1 DEF IInv, TypeOK, HeapsRight, Userdata, Placed
<1>7. CacheInv'
  BY DEF IInv, Userdata, InLua, driver, TypeOK, CacheInv,
     LostOnlyStrayed
<1> QED
  BY <1>4, <1>5, <1>6, <1>7 DEF IInv

LEMMA RaiseKeeps == ASSUME IInv, Raise PROVE IInv'
<1>1. PICK outer \in 0..Len(frames) - 1 :
        /\ frames' = SubSeq(frames, 1, outer)
        /\ escaped' = (escaped \/ outer = 0)
  BY DEF Raise
<1>2. /\ frames \in Seq(BOOLEAN) /\ Len(frames) \in Nat /\ escaped \in BOOLEAN
      /\ frames # <<>> /\ Len(frames) <= MaxNested
      /\ UNCHANGED <<present, force, heap, handles>>
  BY <1>1, LenProperties, EmptySeq DEF IInv, TypeOK, Raise, InLua
<1>3. /\ frames' \in Seq(BOOLEAN) /\ Len(frames') = outer
      /\ \A i \in 1..outer : frames'[i] = frames[i]
      /\ frames' = <<>> <=> outer = 0
  BY <1>1, <1>2, CutFrames, EmptySeq
<1>4. TypeOK'
  <2>1. Len(frames') <= MaxNested /\ escaped' \in BOOLEAN
    BY <1>1, <1>2, <1>3, NestedAssumption DEF NestedAssumption
  <2> QED
    BY <2>1, <1>2, <1>3 DEF IInv, TypeOK, Raise, InLua, driver
<1>5. FramesInv'
  <2>1. force /\ (outer = 0 => escaped') /\ (escaped => escaped')
    BY <1>1, <1>2 DEF IInv, FramesInv
  <2>2. ASSUME NEW i \in 1..Len(frames'), i > 1 PROVE frames'[i]
    <3>1. i \in 1..outer /\ i \in 1..Len(frames)
      BY <1>2, <1>3
    <3> QED
      BY <3>1, <2>2, <1>3 DEF IInv, FramesInv
  <2>3. outer # 0 => frames'[1] = frames[1] /\ Outside(frames[1])
    BY <1>2, <1>3 DEF IInv, FramesInv
  <2> QED
    BY <2>1, <2>2, <2>3, <1>2, <1>3 DEF FramesInv, Outside
<1>6. HeapsRight'
  BY <1>2 DEF IInv, HeapsRight
<1>7. CacheInv'
  BY DEF IInv, Raise, InLua, driver, TypeOK, CacheInv,
     LostOnlyStrayed
<1> QED
  BY <1>4, <1>5, <1>6, <1>7 DEF IInv

-----------------------------------------------------------------------------
(* The blocks *)

LEMMA NewKeeps == ASSUME IInv, NEW b \in Blocks, New(b) PROVE IInv'
<1>1. /\ heap' = Placed(b, IF force THEN "sram" ELSE "psram")
      /\ b \notin DOMAIN heap
      /\ InLua /\ UNCHANGED <<present, force, frames, handles, escaped>>
  BY DEF New, InLua, l_alloc
<1>2. /\ DOMAIN heap' \subseteq Blocks /\ handles' \subseteq DOMAIN heap'
      /\ \A c \in DOMAIN heap' : heap'[c] \in Heaps
  BY <1>1 DEF IInv, TypeOK, Placed, Heaps
<1>3. ~ present => force
  BY NoPool DEF IInv
<1>4. HeapsRight'
  BY <1>1, <1>3 DEF IInv, TypeOK, HeapsRight, Placed
<1> QED
  BY <1>1, <1>2, <1>4, LuaKeeps

\* l_alloc gives a block that has one memory of the same heap.
LEMMA GrowsInPlace ==
    ASSUME TypeOK, NEW b \in DOMAIN heap, Grow(b)
    PROVE  /\ DOMAIN heap' = DOMAIN heap
           /\ \A c \in DOMAIN heap : heap'[c] = heap[c]
<1>1. heap[b] # NULL
  BY DEF TypeOK, Heaps, NULL
<1> QED
  BY <1>1 DEF Grow, l_alloc, Placed

LEMMA GrowKeeps == ASSUME IInv, NEW b \in Blocks, Grow(b) PROVE IInv'
<1>1. /\ b \in DOMAIN heap /\ InLua
      /\ UNCHANGED <<present, force, frames, handles, escaped>>
  BY DEF Grow, InLua
<1>2. /\ DOMAIN heap' = DOMAIN heap
      /\ \A c \in DOMAIN heap : heap'[c] = heap[c]
  BY <1>1, GrowsInPlace DEF IInv
<1>3. HeapsRight'
  BY <1>1, <1>2 DEF IInv, TypeOK, HeapsRight
<1> QED
  BY <1>1, <1>2, <1>3, LuaKeeps DEF IInv, TypeOK

LEMMA CollectKeeps == ASSUME IInv, NEW b \in Blocks, Collect(b) PROVE IInv'
<1>1. /\ heap' = [c \in DOMAIN heap \ {b} |-> heap[c]]
      /\ handles' = handles \ {b}
      /\ InLua /\ UNCHANGED <<present, force, frames, escaped>>
  BY DEF Collect, InLua
<1>2. /\ DOMAIN heap' \subseteq Blocks /\ handles' \subseteq DOMAIN heap'
      /\ \A c \in DOMAIN heap' : heap'[c] \in Heaps
  BY <1>1 DEF IInv, TypeOK
<1>3. HeapsRight'
  BY <1>1 DEF IInv, TypeOK, HeapsRight
<1> QED
  BY <1>1, <1>2, <1>3, LuaKeeps

-----------------------------------------------------------------------------
(* The flash driver *)

LEMMA DriverKeeps ==
    ASSUME IInv, UNCHANGED <<present, allocator>>,
           call' \in {NoCall, "littlefs"},
           {psramActive', dirty', strayed', lost'} \subseteq BOOLEAN,
           CacheInv'
    PROVE  IInv'
BY DEF IInv, TypeOK, FramesInv, Outside, HeapsRight, allocator

LEMMA EnterKeeps == ASSUME IInv, Enter PROVE IInv'
BY DriverKeeps DEF IInv, TypeOK, Enter, CacheInv, LostOnlyStrayed

LEMMA ReadStringKeeps == ASSUME IInv, ReadString PROVE IInv'
BY DriverKeeps
   DEF IInv, TypeOK, ReadString, InLittlefs, driver,
   CacheInv, LostOnlyStrayed

LEMMA SyncKeeps == ASSUME IInv, flash_sync PROVE IInv'
BY DriverKeeps DEF IInv, TypeOK, flash_sync, InLittlefs, CacheInv,
   LostOnlyStrayed

LEMMA LeaveKeeps == ASSUME IInv, Leave PROVE IInv'
BY DriverKeeps DEF IInv, TypeOK, Leave, InLittlefs, CacheInv,
   LostOnlyStrayed

LEMMA FlashKeeps == ASSUME IInv, FlashChanges PROVE IInv'
<1>1. lost' => strayed'
  BY DEF IInv, FlashChanges, Unflushed, CacheInv, LostOnlyStrayed
<1>2. /\ psramActive' = FALSE /\ dirty' = FALSE /\ lost' \in BOOLEAN
      /\ UNCHANGED <<present, allocator, call, strayed>>
  BY DEF FlashChanges, InLittlefs, IInv, TypeOK
<1> QED
  BY <1>1, <1>2, DriverKeeps DEF IInv, TypeOK, CacheInv, LostOnlyStrayed

-----------------------------------------------------------------------------
LEMMA StepKeeps == ASSUME IInv, [Next]_vars PROVE IInv'
<1>1. CASE UNCHANGED vars
  BY <1>1 DEF vars, allocator, driver, IInv, TypeOK, FramesInv, Outside,
     HeapsRight, CacheInv, LostOnlyStrayed
<1>2. CASE Next
  BY <1>2, NoPsramKeeps, UserdataKeeps, RaiseKeeps, NewKeeps, GrowKeeps,
     CollectKeeps, EnterKeeps, ReadStringKeeps, FlashKeeps, SyncKeeps,
     LeaveKeeps DEF Next
<1> QED
  BY <1>1, <1>2

LEMMA InvAlways == Spec => []IInv
BY InitHolds, StepKeeps, PTL DEF Spec

\* The variables have their types, for any number of blocks.
THEOREM TypeCorrect == Spec => []TypeOK
<1>1. IInv => TypeOK
  BY DEF IInv
<1> QED
  BY InvAlways, <1>1, PTL

\* File handles lie in SRAM, and nothing in a PSRAM that is not there, for any
\* nesting of fs.open in finalizers and any errors between.
THEOREM HandlesInSram == Spec => []HeapsRight
<1>1. IInv => HeapsRight
  BY DEF IInv
<1> QED
  BY InvAlways, <1>1, PTL

\* forceLocalAlloc comes back to what it was, unless an error has left the
\* outermost fs.open.
THEOREM FlagComesBack == Spec => []ForceReturns
<1>1. IInv => ForceReturns
  BY DEF IInv, FramesInv, Outside, ForceReturns
<1> QED
  BY InvAlways, <1>1, PTL

\* What is lost to a flash operation was put into the cache while the PSRAM
\* was off the bus.
THEOREM CacheIsFlushed == Spec => []LostOnlyStrayed
<1>1. IInv => LostOnlyStrayed
  BY DEF IInv, CacheInv
<1> QED
  BY InvAlways, <1>1, PTL

\* No block changes its heap.
THEOREM BlocksKeepTheirHeap == Spec => BlocksStay
<1> DEFINE Stay == \A b \in DOMAIN heap \cap DOMAIN heap' : heap'[b] = heap[b]
<1>1. ASSUME IInv, Next PROVE Stay
  <2>1. CASE heap' = heap
    BY <2>1
  <2>2. ASSUME NEW b \in Blocks \ DOMAIN heap, NEW where,
               heap' = Placed(b, where)
        PROVE  Stay
    BY <2>2 DEF Placed
  <2>3. ASSUME NEW b \in Blocks, Grow(b) PROVE Stay
    BY <1>1, <2>3, GrowsInPlace DEF IInv, Grow
  <2>4. ASSUME NEW b \in Blocks, Collect(b) PROVE Stay
    BY <2>4 DEF Collect
  <2>5. ASSUME NEW b \in Blocks, Userdata(b) \/ New(b) PROVE Stay
    BY <2>2, <2>5 DEF Userdata, New
  <2>6. ASSUME NoPsram \/ Raise \/ InLittlefs \/ Enter PROVE heap' = heap
    BY <2>6 DEF NoPsram, Raise, InLittlefs, Enter, allocator
  <2> QED
    BY <1>1, <2>1, <2>3, <2>4, <2>5, <2>6
       DEF Next, ReadString, FlashChanges, flash_sync, Leave
<1>2. ASSUME IInv, [Next]_vars PROVE [Stay]_vars
  BY <1>1, <1>2
<1> QED
  BY InvAlways, <1>2, PTL DEF Spec, BlocksStay
=============================================================================
