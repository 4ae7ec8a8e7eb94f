------------------------------ MODULE FileSys ------------------------------
(***************************************************************************)
(* The fs API of apis/fs.c, the file handles of apis/fs_handle.c and the   *)
(* descriptor and directory tables of modules/mmfs.c.                      *)
(*                                                                         *)
(* Paths below /rom are served by mmfs from a read-only image, all others  *)
(* by littlefs (external) from flash.  Only the main task calls fs, so a   *)
(* call is one step, but for the deletion of a directory, whose recursion  *)
(* is followed call by call; what makes the component hard is what calls   *)
(* leave behind: descriptors, directory iterators, entries, sizes a handle *)
(* has not committed, the cached free space.                               *)
(*                                                                         *)
(* A name is a string, a path the sequence of its names; the content of a  *)
(* file is its size in units.  Paths that leave the root ("../rom") are    *)
(* not among the inputs: what littlefs makes of them depends on its        *)
(* version.                                                                *)
(***************************************************************************)
EXTENDS Integers, SequencesExt

CONSTANTS
    Raw,          \* the paths programs pass, as strtok splits them
    Handles,      \* bound of this model: handles a program has at one time
    Rom,          \* the ROM's entries in the order a walk meets them
    MaxFds,       \* MAX_FDS (128)
    MaxDirs,      \* MAX_FDS/8 (16)
    MaxSize,      \* bound of this model: units a file can grow to
    StackDepth    \* bound of this model: calls of aux_delete, one inside the
                  \*   other, that the main task's stack has room for

RomEntry == [path : Seq(STRING), dir : BOOLEAN, size : Nat]

\* Every entry stands below /rom, fits the bound on sizes, and comes behind
\* the directories it is in.
ASSUME RomAssumption ==
    /\ Rom \in Seq(RomEntry)
    /\ \A i \in DOMAIN Rom :
         LET e == Rom[i]
         IN  /\ Len(e.path) >= 2 /\ e.path[1] = "rom" /\ e.size <= MaxSize
             /\ \A n \in 2..Len(e.path) - 1 :
                  \E j \in 1..i - 1 : Rom[j].dir /\ Rom[j].path = SubSeq(e.path, 1, n)
ASSUME RawAssumption == Raw \subseteq Seq(STRING)
ASSUME BoundsAssumption == {MaxFds, MaxDirs, MaxSize, StackDepth} \subseteq Nat \ {0}

Dots   == {".", ".."}             \* entries of every directory
Modes  == {"r", "w", "a"}
None   == [none |-> TRUE]         \* a cache that holds 0
Closed == [type |-> "closed", path |-> <<>>, size |-> 0, dirty |-> FALSE,
           writes |-> FALSE, fd |-> 0]

VARIABLES
    fs,           \* littlefs: its directories, and its files with their sizes
    handles,      \* the FILEHANDLE behind each Lua file object
    fds,          \* entries of mount->fds in use
    iters,        \* how many entries of mount->dirs are in use
    cache,        \* the tree free_space_cache[1] was measured on, or None
    stack,        \* the calls of aux_delete on directories, the last one runs:
                  \*   its directory, entries still to read, whether one failed
    lost,         \* ghost: descriptors of handles dropped without close
    torn,         \* ghost: a ROM directory's copy has failed since the reset
    partial       \* ghost: a call that failed, or goes on, changed the tree
                  \*        since the cache was last emptied

vars == <<fs, handles, fds, iters, cache, stack, lost, torn, partial>>

----------------------------------------------------------------------------
(* Paths *)

\* fixpath: ".." takes the last name away, and stays where there is none.
Token(p, t) ==
    CASE t = ".." -> IF p \in {<<>>, <<"..">>} THEN <<"..">> ELSE Front(p)
      [] t = "."  -> p
      [] OTHER    -> Append(p, t)
fixpath(raw) ==
    LET fixed[n \in 0..Len(raw)] ==
          IF n = 0 THEN <<>> ELSE Token(fixed[n - 1], raw[n])
    IN fixed[Len(raw)]

Paths == {fixpath(raw) : raw \in Raw}
InRom(p) == p # <<>> /\ p[1] = "rom"
Found(p) == {e \in ToSet(Rom) : e.path = p}     \* mmfs_traverse

Exists(f, p) == p \in f.dirs \/ p \in DOMAIN f.size

\* recurse_mkdir: every missing directory on the way, then the last.
CanMakeDir(f, p) ==
    /\ ~ Exists(f, p)
    /\ \A q \in Prefixes(p) : q \notin DOMAIN f.size
\* Mutant of recurse_mkdir: the last directory without those on the way.
recurse_mkdirLast(f, p) ==
    IF CanMakeDir(f, p) THEN [f EXCEPT !.dirs = @ \cup {p}] ELSE f
recurse_mkdir(f, p) ==
    IF CanMakeDir(f, p) THEN [f EXCEPT !.dirs = @ \cup Prefixes(p)] ELSE f
MakeParents(f, p) == IF p = <<>> THEN f ELSE recurse_mkdir(f, Front(p))

SetSize(f, p, n) ==
    [f EXCEPT !.size = [q \in DOMAIN f.size \cup {p} |->
                           IF q = p THEN n ELSE f.size[q]]]

----------------------------------------------------------------------------
TypeOK ==
    /\ DOMAIN fs = {"dirs", "size"}
    /\ \A p \in DOMAIN fs.size : fs.size[p] \in 0..MaxSize
    /\ handles \in [Handles -> [type : {"closed", "rom", "lfs"},
                                path : {<<>>} \cup Paths \cup DOMAIN fs.size,
                                size : 0..MaxSize, dirty : BOOLEAN,
                                writes : BOOLEAN, fd : 0..MaxFds]]
    /\ fds \subseteq 1..MaxFds /\ lost \subseteq 1..MaxFds
    /\ iters \in 0..MaxDirs
    /\ cache = None \/ DOMAIN cache = {"dirs", "size"}
    /\ stack \in Seq([path : Seq(STRING), left : SUBSET (Dots \cup STRING),
                     failed : BOOLEAN])
    /\ {torn, partial} \subseteq BOOLEAN

AllClosed == [h \in Handles |-> Closed]

Init ==
    /\ fs = [dirs |-> {<<>>}, size |-> <<>>]
    /\ handles = AllClosed
    /\ fds = {} /\ lost = {} /\ iters = 0 /\ cache = None
    /\ stack = <<>> /\ torn = FALSE /\ partial = FALSE

----------------------------------------------------------------------------
(* Calls on paths *)

MakeDir(p) ==
    /\ ~ InRom(p) /\ CanMakeDir(fs, p)
    /\ fs' = recurse_mkdir(fs, p)
    /\ cache' = None /\ partial' = FALSE
    /\ UNCHANGED <<handles, fds, iters, stack, lost, torn>>

\* The directories are made; then the C library's rename is asked, which
\* knows neither file system, and the call fails.
Move(from, to) ==
    /\ ~ InRom(from) /\ ~ InRom(to)
    /\ fs' = MakeParents(fs, to)
    /\ partial' = (partial \/ fs' # fs)
    /\ UNCHANGED <<handles, fds, iters, cache, stack, lost, torn>>

\* Mutant of CopyOver: the file is opened with LFS_O_APPEND.
CopyOverAppends(f, n, to, readable) ==
    LET g == MakeParents(f, to)
    IN IF readable /\ to \in DOMAIN g.size
       THEN [fs |-> SetSize(g, to, g.size[to] + n), ok |-> TRUE, left |-> 0]
       ELSE [fs |-> g, ok |-> FALSE, left |-> 0]

\* The file that is copied to must be there: it is opened without
\* LFS_O_CREAT, and without LFS_O_TRUNC keeps what is beyond the copy.
CopyOver(f, n, to, readable) ==
    LET g == MakeParents(f, to)
    IN IF readable /\ to \in DOMAIN g.size
       THEN [fs |-> SetSize(g, to, IF n > g.size[to] THEN n ELSE g.size[to]),
             ok |-> TRUE, left |-> 0]
       ELSE [fs |-> g, ok |-> FALSE, left |-> 0]

\* aux_copy of a ROM entry and what is below it: one entry after the other,
\* a directory iterator open on each level, and none of them closed when a
\* copy below fails.
Level(from, e) == Len(e.path) - Len(from)
CopyEntry(from, to, done, e) ==
    LET level == Level(from, e)
        dest == to \o SubSeq(e.path, Len(from) + 1, Len(e.path))
        copy == CopyOver(done.fs, e.size, dest, fds # 1..MaxFds)
    IN IF ~ done.ok \/ ~ IsPrefix(from, e.path) THEN done
       ELSE IF ~ e.dir THEN [copy EXCEPT !.left = IF copy.ok THEN 0 ELSE level]
       ELSE IF iters + level < MaxDirs THEN done
       ELSE [done EXCEPT !.ok = FALSE, !.left = level]
CopyEntries(from, to) ==
    LET copied[n \in 0..Len(Rom)] ==
          IF n = 0 THEN [fs |-> fs, ok |-> TRUE, left |-> 0]
          ELSE CopyEntry(from, to, copied[n - 1], Rom[n])
    IN copied[Len(Rom)]

\* Mutant of CopyRom: no mmfs_closedir behind the loop.
CopyRomUnclosed(from, to) ==
    LET done == CopyEntries(from, to)
        opened == \E e \in Found(from) : e.dir
    IN IF Found(from) = {} THEN [fs |-> fs, ok |-> FALSE, left |-> 0]
       ELSE [done EXCEPT !.left = IF done.ok /\ opened THEN 1 ELSE @]

\* "/rom" itself has no entry, and cannot be copied.
CopyRom(from, to) ==
    IF Found(from) = {} THEN [fs |-> fs, ok |-> FALSE, left |-> 0]
    ELSE CopyEntries(from, to)

\* aux_copy of a littlefs entry.  lfs_dir_read returns 1 for an entry, and
\* the loop goes on while it returns 0: nothing of a directory is copied.
CopyLfs(from, to) ==
    IF from \in DOMAIN fs.size THEN CopyOver(fs, fs.size[from], to, TRUE)
    ELSE [fs |-> fs, ok |-> from \in fs.dirs, left |-> 0]

aux_copy(from, to) ==
    IF InRom(from) THEN CopyRom(from, to) ELSE CopyLfs(from, to)

\* Mutant of Copy: the cached free space is kept.
CopyQuiet(from, to) ==
    LET done == aux_copy(from, to)
    IN /\ ~ InRom(to)
       /\ fs' = done.fs
       /\ iters' = iters + done.left
       /\ torn' = (torn \/ (~ done.ok /\ \E e \in Found(from) : e.dir))
       /\ partial' = (partial \/ (~ done.ok /\ fs' # fs))
       /\ UNCHANGED <<handles, fds, cache, stack, lost>>

Copy(from, to) ==
    LET done == aux_copy(from, to)
    IN /\ ~ InRom(to)
       /\ fs' = done.fs
       /\ iters' = iters + done.left
       /\ torn' = (torn \/ (~ done.ok /\ \E e \in Found(from) : e.dir))
       /\ IF done.ok THEN cache' = None /\ partial' = FALSE
          ELSE cache' = cache /\ partial' = (partial \/ fs' # fs)
       /\ UNCHANGED <<handles, fds, stack, lost>>

\* A handle on a file that is removed never commits again.
Detach(h, p) == [h EXCEPT !.path = IF h.type = "lfs" /\ @ = p THEN <<>> ELSE @]

\* lfs_remove takes a file, or a directory with nothing in it.
Names(p) ==
    {Last(q) : q \in {q \in fs.dirs \cup DOMAIN fs.size : q # <<>> /\ Front(q) = p}}
lfs_remove(p) ==
    /\ fs' = IF p \in DOMAIN fs.size
               THEN [fs EXCEPT !.size = Restrict(@, DOMAIN @ \ {p})]
             ELSE IF p # <<>> /\ Names(p) = {}
               THEN [fs EXCEPT !.dirs = @ \ {p}]
             ELSE fs
    /\ handles' = [h \in Handles |-> Detach(handles[h], p)]

DeleteFile(p) ==
    /\ ~ InRom(p) /\ p \in DOMAIN fs.size
    /\ lfs_remove(p)
    /\ cache' = None /\ partial' = FALSE
    /\ UNCHANGED <<fds, iters, stack, lost, torn>>

\* aux_delete of a directory begins.  lfs_dir_read gives "." and ".." first,
\* and lfs_stat knows them.
Frame(p) == [path |-> p, left |-> Dots \cup Names(p), failed |-> FALSE]
FirstOf(left) ==
    IF "." \in left THEN {"."} ELSE IF ".." \in left THEN {".."} ELSE left
Below(p, name) ==
    CASE name = "."  -> p
      [] name = ".." -> IF p = <<>> THEN p ELSE Front(p)
      [] OTHER       -> Append(p, name)

DeleteDirectory(p) ==
    /\ ~ InRom(p) /\ p \in fs.dirs
    /\ stack' = <<Frame(p)>>
    /\ UNCHANGED <<fs, handles, fds, iters, cache, lost, torn, partial>>

\* aux_delete calls itself for the next entry: a file goes, and for a
\* directory the loop begins anew.
DeleteEntry(frame, callers) ==
    \E name \in FirstOf(frame.left) :
      LET p == Below(frame.path, name)
          caller == [frame EXCEPT !.left = @ \ {name},
                                  !.failed = @ \/ ~ Exists(fs, p)]
      IN /\ IF p \in fs.dirs
              THEN /\ stack' = callers \o <<caller, Frame(p)>>
                   /\ UNCHANGED <<fs, handles>>
              ELSE stack' = Append(callers, caller) /\ lfs_remove(p)
         /\ cache' = cache /\ partial' = (partial \/ fs' # fs)

\* Behind the loop the directory goes, if it can, and the result is that of
\* the entries: an error for the caller's loop, or for the program.
DeleteSelf(frame, callers) ==
    /\ lfs_remove(frame.path)
    /\ stack' = IF callers = <<>> THEN <<>>
                ELSE Append(Front(callers),
                            [Last(callers) EXCEPT !.failed = @ \/ frame.failed])
    /\ IF callers = <<>> /\ ~ frame.failed THEN cache' = None /\ partial' = FALSE
       ELSE cache' = cache /\ partial' = (partial \/ fs' # fs)

DeleteStep ==
    /\ stack # <<>> /\ Len(stack) <= StackDepth
    /\ IF Last(stack).left # {} THEN DeleteEntry(Last(stack), Front(stack))
       ELSE DeleteSelf(Last(stack), Front(stack))
    /\ UNCHANGED <<fds, iters, lost, torn>>

\* getFreeSpace and getCapacity measure when nothing is cached.
Measure ==
    /\ cache = None
    /\ cache' = fs
    /\ UNCHANGED <<fs, handles, fds, iters, stack, lost, torn, partial>>

----------------------------------------------------------------------------
(* File handles *)

\* mmfs_open takes the first free descriptor.
OpenRom(h, p) ==
    /\ handles[h].type = "closed" /\ InRom(p)
    /\ \E e \in Found(p) : ~ e.dir
    /\ \E fd \in 1..MaxFds \ fds :
         /\ \A other \in 1..MaxFds \ fds : fd <= other
         /\ fds' = fds \cup {fd}
         /\ handles' = [handles EXCEPT
               ![h] = [Closed EXCEPT !.type = "rom", !.path = p, !.fd = fd]]
    /\ UNCHANGED <<fs, iters, cache, stack, lost, torn, partial>>

\* A new file has its entry at once.  A file that is there is truncated by
\* the handle, in mode "w" and, as the flags are put together, in "r".
OpenLfs(h, p, mode) ==
    LET g == IF mode = "r" THEN fs ELSE MakeParents(fs, p)
        new == p \notin DOMAIN g.size
    IN /\ handles[h].type = "closed"
       /\ ~ InRom(p) /\ p \notin fs.dirs
       /\ IF mode = "r" THEN ~ new ELSE Front(p) \in g.dirs
       /\ fs' = IF new THEN SetSize(g, p, 0) ELSE g
       /\ handles' = [handles EXCEPT ![h] =
             [Closed EXCEPT !.type = "lfs", !.path = p, !.writes = mode # "r",
                            !.size = IF mode = "a" THEN fs'.size[p] ELSE 0,
                            !.dirty = mode # "a" /\ ~ new]]
       /\ UNCHANGED <<fds, iters, cache, stack, lost, torn, partial>>

\* write and writeLine, wherever in the file the handle stands.
Write(h) ==
    /\ handles[h].type = "lfs" /\ handles[h].writes
    /\ \E n \in handles[h].size..MaxSize :
         handles' = [handles EXCEPT ![h].size = n, ![h].dirty = TRUE]
    /\ UNCHANGED <<fs, fds, iters, cache, stack, lost, torn, partial>>

\* lfs_file_sync: the tree gets what the handle has.
Commit(h) ==
    IF h.type = "lfs" /\ h.dirty /\ h.path # <<>>
    THEN SetSize(fs, h.path, h.size) ELSE fs

Flush(h) ==
    /\ handles[h].type = "lfs" /\ handles[h].writes
    /\ fs' = Commit(handles[h])
    /\ handles' = [handles EXCEPT ![h].dirty = FALSE]
    /\ cache' = None /\ partial' = FALSE
    /\ UNCHANGED <<fds, iters, stack, lost, torn>>

\* Mutant of Close: handle->type is not reset.
CloseHalf(h) ==
    /\ handles[h].type # "closed"
    /\ fs' = Commit(handles[h])
    /\ fds' = fds \ {handles[h].fd}
    /\ cache' = None /\ partial' = FALSE
    /\ UNCHANGED <<handles, iters, stack, lost, torn>>

Close(h) ==
    /\ handles[h].type # "closed"
    /\ fs' = Commit(handles[h])
    /\ fds' = fds \ {handles[h].fd}
    /\ handles' = [handles EXCEPT ![h] = Closed]
    /\ cache' = None /\ partial' = FALSE
    /\ UNCHANGED <<iters, stack, lost, torn>>

\* The program forgets a ROM handle: the userdata has no __gc.
Drop(h) ==
    /\ handles[h].type = "rom"
    /\ lost' = lost \cup {handles[h].fd}
    /\ handles' = [handles EXCEPT ![h] = Closed]
    /\ UNCHANGED <<fs, fds, iters, cache, stack, torn, partial>>

----------------------------------------------------------------------------
PathCall ==
    \E p \in Paths :
      \/ MakeDir(p)
      \/ DeleteFile(p)
      \/ DeleteDirectory(p)
      \/ \E to \in Paths : Move(p, to)
      \/ \E to \in Paths : Copy(p, to)

HandleCall ==
    \E h \in Handles :
      \/ \E p \in Paths : OpenRom(h, p)
      \/ \E p \in Paths, mode \in Modes : OpenLfs(h, p, mode)
      \/ Write(h)
      \/ Flush(h)
      \/ Close(h)
      \/ Drop(h)

\* The reset button, between two calls or when the stack has overflowed: the
\* memory is as at Init, flash keeps what littlefs has committed.
Restart ==
    /\ stack = <<>> \/ Len(stack) > StackDepth
    /\ handles' = AllClosed
    /\ fds' = {} /\ lost' = {} /\ iters' = 0 /\ cache' = None
    /\ stack' = <<>> /\ torn' = FALSE /\ partial' = FALSE
    /\ UNCHANGED fs

Next ==
    \/ stack = <<>> /\ PathCall
    \/ stack = <<>> /\ HandleCall
    \/ stack = <<>> /\ Measure
    \/ DeleteStep
    \/ Restart

Spec == Init /\ [][Next]_vars

----------------------------------------------------------------------------
(* Properties *)

\* Every entry stands in a directory, and is a file or a directory: what
\* open, makeDir, move and copy make in passing (recurse_mkdir) leaves no gap,
\* and no handle that outlives its file brings it back (lfs_file_sync).
TreeClosed ==
    /\ <<>> \in fs.dirs
    /\ fs.dirs \cap DOMAIN fs.size = {}
    /\ \A p \in fs.dirs \cup DOMAIN fs.size : p # <<>> => Front(p) \in fs.dirs

\* The ROM's descriptors are those of the open handles, one each, and those
\* of handles dropped without close (mmfs_open, mmfs_close).
FdsHeld ==
    LET romHandles == {h \in Handles : handles[h].type = "rom"}
        held == {handles[h].fd : h \in romHandles}
    IN /\ fds = held \cup lost
       /\ held \cap lost = {}
       /\ \A g, h \in romHandles : handles[g].fd = handles[h].fd => g = h

\* free_space_cache was measured on the tree as it is, unless a file is open
\* in littlefs or a failed call changed the tree on its way (fs_getFreeSpace).
CacheFresh ==
    \/ cache \in {None, fs}
    \/ \E h \in Handles : handles[h].type = "lfs"
    \/ partial

\* aux_copy gives back every directory iterator it takes, and leaves none
\* behind but when the copy of a ROM directory failed.
IteratorsReturned == iters > 0 => torn

\* fs.delete comes back, for a directory too: the calls of aux_delete are never
\* more than the stack has room for, which is one for each level of the tree and
\* more.
DeleteReturns == Len(stack) <= StackDepth

\* help/fs.txt of the ROM gives a file opened with mode "r" the functions
\* close, readLine and readAll: reading a file and closing it leaves it as it
\* was (fs_open, fs_handle_close).
ReadKeeps ==
    [][\A h \in Handles :
         /\ handles[h].type = "lfs" /\ ~ handles[h].writes
         /\ handles'[h] = Closed
         => fs' = fs]_vars

=============================================================================
