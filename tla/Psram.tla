------------------------------- MODULE Psram -------------------------------
(***************************************************************************)
(* The memory under Lua: the allocator of machine.cpp, which serves Lua    *)
(* from PSRAM and file handles from SRAM, and the flash driver at the end  *)
(* of apis/fs.c, which takes the PSRAM off the bus when it programs or     *)
(* erases and brings it back when littlefs (external) syncs.               *)
(*                                                                         *)
(* Only the main task runs Lua and calls littlefs.  Its Lua state is in    *)
(* PSRAM: every step of Lua leaves changed lines in the XIP cache, which   *)
(* are lost when flash is programmed before they are written back.         *)
(* Lua (external) runs finalizers before it allocates a userdata; they are *)
(* Lua code, may open files themselves, and their errors are passed on.    *)
(***************************************************************************)
EXTENDS Integers, SequencesExt

CONSTANTS
    Blocks,       \* bound of this model: blocks of memory
    MaxNested     \* bound of this model: fs.open called from the finalizers
                  \*   of an fs.open, and so on

ASSUME NestedAssumption == MaxNested \in Nat \ {0}

NULL == "null"
NoCall == "none"
Heaps == {"psram", "sram"}

VARIABLES
    present,      \* sfe_pico_alloc_init has found PSRAM
    force,        \* forceLocalAlloc
    frames,       \* the calls of lua_newuserdata_no_psram under way: their
                  \*   oldAlloc, innermost last
    heap,         \* where each block lies that is allocated
    handles,      \* the blocks that are FILEHANDLEs
    call,         \* "littlefs" while one of its functions runs
    psramActive,  \* the flag of fs.c
    dirty,        \* the XIP cache holds lines PSRAM does not
    escaped,      \* ghost: an error has left the outermost
                  \*   lua_newuserdata_no_psram
    strayed,      \* ghost: PSRAM was used while psramActive was false
    lost          \* ghost: flash was changed with such lines in the cache

allocator == <<force, frames, heap, handles, escaped>>
driver == <<call, psramActive, lost>>
vars == <<present, allocator, driver, dirty, strayed>>

TypeOK ==
    /\ {present, force, psramActive, dirty, escaped, strayed, lost}
         \subseteq BOOLEAN
    /\ frames \in Seq(BOOLEAN) /\ Len(frames) <= MaxNested
    /\ DOMAIN heap \subseteq Blocks
    /\ \A b \in DOMAIN heap : heap[b] \in Heaps
    /\ handles \subseteq DOMAIN heap
    /\ call \in {NoCall, "littlefs"}

Init ==
    /\ present \in BOOLEAN /\ force = ~ present
    /\ frames = <<>> /\ heap = <<>> /\ handles = {}
    /\ call = NoCall /\ psramActive = TRUE /\ dirty = FALSE
    /\ escaped = FALSE /\ strayed = FALSE /\ lost = FALSE

----------------------------------------------------------------------------
(* The allocator *)

\* A step of Lua, outside littlefs.
InLua ==
    /\ call = NoCall
    /\ dirty' = (dirty \/ present)
    /\ strayed' = (strayed \/ (present /\ ~ psramActive))
    /\ UNCHANGED <<present, driver>>

\* Mutant of l_alloc: the flag decides for old blocks too.
l_allocFlag(ptr) == IF force THEN "sram" ELSE "psram"

\* Where l_alloc takes the new memory from; ptr is NULL or where the old one
\* lies, as its address tells.
l_alloc(ptr) ==
    IF ptr = NULL THEN IF force THEN "sram" ELSE "psram" ELSE ptr

Placed(b, where) == [c \in DOMAIN heap \cup {b} |->
                        IF c = b THEN where ELSE heap[c]]

\* Mutant of NoPsram: the flag is set before it is saved.
NoPsramLate ==
    /\ InLua
    /\ Len(frames) < MaxNested
    /\ frames' = Append(frames, TRUE)
    /\ force' = TRUE
    /\ UNCHANGED <<heap, handles, escaped>>

\* fs.open calls lua_newuserdata_no_psram, and this lua_newuserdata, which
\* runs the finalizers that are due.
NoPsram ==
    /\ InLua
    /\ Len(frames) < MaxNested
    /\ frames' = Append(frames, force)
    /\ force' = TRUE
    /\ UNCHANGED <<heap, handles, escaped>>

\* Mutant of Userdata: the flag is cleared, not restored.
UserdataClears(b) ==
    /\ InLua
    /\ frames # <<>> /\ b \in Blocks \ DOMAIN heap
    /\ heap' = Placed(b, l_alloc(NULL))
    /\ handles' = handles \cup {b}
    /\ frames' = Front(frames) /\ force' = FALSE
    /\ UNCHANGED escaped

\* The userdata is allocated, and lua_newuserdata_no_psram returns.
Userdata(b) ==
    /\ InLua
    /\ frames # <<>> /\ b \in Blocks \ DOMAIN heap
    /\ heap' = Placed(b, l_alloc(NULL))
    /\ handles' = handles \cup {b}
    /\ frames' = Front(frames) /\ force' = Last(frames)
    /\ UNCHANGED escaped

\* No memory, or an error of a finalizer: the calls between it and whatever
\* catches it (a pcall of a finalizer further out, or of the program) do not
\* return, and forceLocalAlloc stays as it is.
Raise ==
    /\ InLua
    /\ \E outer \in 0..Len(frames) - 1 :
         /\ frames' = SubSeq(frames, 1, outer)
         /\ escaped' = (escaped \/ outer = 0)
    /\ UNCHANGED <<force, heap, handles>>

\* Lua's own objects: made, grown or shrunk, and collected.  A userdata is
\* never grown, and is collected like the rest.
New(b) ==
    /\ InLua
    /\ b \in Blocks \ DOMAIN heap
    /\ heap' = Placed(b, l_alloc(NULL))
    /\ UNCHANGED <<force, frames, handles, escaped>>

Grow(b) ==
    /\ InLua
    /\ b \in DOMAIN heap \ handles
    /\ heap' = Placed(b, l_alloc(heap[b]))
    /\ UNCHANGED <<force, frames, handles, escaped>>

Collect(b) ==
    /\ InLua
    /\ b \in DOMAIN heap
    /\ heap' = [c \in DOMAIN heap \ {b} |-> heap[c]]
    /\ handles' = handles \ {b}
    /\ UNCHANGED <<force, frames, escaped>>

----------------------------------------------------------------------------
(* The flash driver *)

InLittlefs ==
    /\ call = "littlefs"
    /\ UNCHANGED <<present, allocator>>

\* A function of fs or of a file object calls littlefs.
Enter ==
    /\ call = NoCall
    /\ call' = "littlefs"
    /\ UNCHANGED <<present, allocator, psramActive, lost, dirty, strayed>>

\* lfs_file_write takes what is written from the Lua string, between the
\* flash operations.
ReadString ==
    /\ InLittlefs
    /\ strayed' = (strayed \/ (present /\ ~ psramActive))
    /\ UNCHANGED <<driver, dirty>>

\* Lines still to be written back: none where the driver flushes the cache.
Unflushed == ~ psramActive /\ dirty

\* Mutant of FlashChanges: the flag is cleared, the cache not flushed.
FlashChangesAlone ==
    /\ InLittlefs
    /\ psramActive' = FALSE
    /\ lost' = (lost \/ dirty)
    /\ dirty' = FALSE
    /\ UNCHANGED <<call, strayed>>

\* _flash_prog, _flash_erase: the cache is flushed when the PSRAM is active,
\* and the flash operation throws away what it holds.
FlashChanges ==
    /\ InLittlefs
    /\ psramActive' = FALSE
    /\ lost' = (lost \/ Unflushed)
    /\ dirty' = FALSE
    /\ UNCHANGED <<call, strayed>>

\* flash_sync, at the end of every commit.
flash_sync ==
    /\ InLittlefs
    /\ psramActive' = TRUE
    /\ UNCHANGED <<call, lost, dirty, strayed>>

\* littlefs returns: done, or because flash_safe_execute could not stop the
\* other core within 100 ms.  Its writes return without a sync.
Leave ==
    /\ InLittlefs
    /\ call' = NoCall
    /\ UNCHANGED <<psramActive, lost, dirty, strayed>>

----------------------------------------------------------------------------
Next ==
    \/ NoPsram
    \/ \E b \in Blocks : Userdata(b)
    \/ Raise
    \/ \E b \in Blocks : New(b)
    \/ \E b \in Blocks : Grow(b)
    \/ \E b \in Blocks : Collect(b)
    \/ Enter
    \/ ReadString
    \/ FlashChanges
    \/ flash_sync
    \/ Leave

Spec == Init /\ [][Next]_vars

----------------------------------------------------------------------------
(* Properties *)

\* littlefs reads and changes a FILEHANDLE between flash operations, so each
\* lies in SRAM, also one made by a finalizer of an fs.open and one made
\* after that; and nothing is taken from a PSRAM that is not there (l_alloc,
\* lua_newuserdata_no_psram).
HeapsRight ==
    /\ \A b \in handles : heap[b] = "sram"
    /\ \A b \in DOMAIN heap : heap[b] = "psram" => present

\* forceLocalAlloc is as sfe_pico_alloc_init left it whenever no fs.open is
\* allocating, however the calls were nested and which of them failed, unless
\* an error has left the outermost one: then it stays set.
ForceReturns ==
    frames = <<>> => (force <=> ~ present) \/ (force /\ escaped)

\* A block stays in the heap it was made in, so each is grown and freed by
\* the allocator it came from (l_alloc).
BlocksStay ==
    [][\A b \in DOMAIN heap \cap DOMAIN heap' : heap'[b] = heap[b]]_vars

\* No changed line of PSRAM is lost to a flash operation, unless PSRAM was
\* used between one and the sync that should follow it (_flash_prog,
\* _flash_erase, flash_sync).
LostOnlyStrayed == lost => strayed

=============================================================================
