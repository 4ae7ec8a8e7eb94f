--------------------------------- MODULE Mmfs ---------------------------------
(***************************************************************************)
(* The read-only file system of modules/mmfs.c: the lookup of a path, the  *)
(* directory iterator, and the positions and reads of a descriptor.        *)
(*                                                                         *)
(* The image is a tree of directories, each sorted by name, and the bytes  *)
(* of all files one after the other.  Names are numbers, in the order      *)
(* strcmp gives them; a path is the sequence of its names.  Positions      *)
(* count bytes from the start of the image, as the pointers of mmfs_fd do. *)
(* The lookup (mmfs_traverse) is a machine of its own, a step for each     *)
(* name and each comparison; which tables its callers keep is in FileSys.  *)
(***************************************************************************)
EXTENDS Integers, Sequences

CONSTANTS
    Dirs,         \* the directories of the image, by number
    Root,         \* the number of the first one
    Image,        \* the bytes of the files, one after the other
    Base,         \* the image's address in memory
    Word,         \* addresses and sizes are numbers below this one (2^32)
    Foreign,      \* a byte from beyond the image
    OffsetRange   \* values of the uint8_t offset of an iterator (256)

\* mmfs_dir_ent: at is the directory's number, or where the file begins.
Entry == [name : Int, dir : BOOLEAN, at : Nat, size : Nat]

\* The files lie in the image.  A directory's magic number is taken to be
\* right.
ASSUME ImageAssumption ==
    /\ Root \in DOMAIN Dirs /\ Image \in Seq(Nat)
    /\ \A d \in DOMAIN Dirs :
         /\ Dirs[d] \in Seq(Entry)
         /\ \A i, j \in 1..Len(Dirs[d]) :
              i < j => Dirs[d][i].name < Dirs[d][j].name
         /\ \A i \in 1..Len(Dirs[d]) :
              IF Dirs[d][i].dir THEN Dirs[d][i].at \in DOMAIN Dirs
              ELSE Dirs[d][i].at + Dirs[d][i].size <= Len(Image)

\* No directory of the image has more entries than the place can count.
ASSUME OffsetAssumption ==
    /\ OffsetRange \in Nat \ {0}
    /\ \A d \in DOMAIN Dirs : Len(Dirs[d]) < OffsetRange

NULL == [null |-> TRUE]

VARIABLES
    pc,           \* "idle", inside mmfs_traverse ("next", "search"), "found"
                  \*   with its result in node, or in fs_list's loop ("list")
    rest,         \* names strtok has still to give
    node,         \* the entry reached, NULL before the first and for none
    dir,          \* the directory searched
    l, h,         \* the entries still in question: l + 1 .. h
    offset,       \* the iterator's place
    listed        \* ghost: names this listing has given

walk == <<rest, node, dir, l, h>>
iterator == <<offset, listed>>

InitMmfs ==
    /\ pc = "idle" /\ rest = <<>> /\ node = NULL /\ dir = Root
    /\ l = 0 /\ h = 0 /\ offset = 0 /\ listed = <<>>

-----------------------------------------------------------------------------
(* mmfs_traverse *)

Traverse(path) ==
    /\ pc = "idle" /\ pc' = "next"
    /\ rest' = path /\ node' = NULL /\ dir' = Root
    /\ UNCHANGED <<l, h>>

Return(entry) == pc' = "found" /\ node' = entry

\* Back in the caller: the locals of the lookup are gone.
Forget ==
    /\ pc' = "idle" /\ rest' = <<>> /\ node' = NULL /\ dir' = Root
    /\ l' = 0 /\ h' = 0

\* The next name: search the directory the last one led to.
NextName ==
    /\ pc = "next" /\ rest # <<>>
    /\ node # NULL => node.dir
    /\ dir' = IF node = NULL THEN Root ELSE node.at
    /\ l' = 0 /\ h' = Len(Dirs[dir'])
    /\ pc' = "search"
    /\ UNCHANGED <<rest, node>>

\* ENOTDIR, or no name is left.
EndOfPath ==
    /\ pc = "next"
    /\ \/ rest # <<>> /\ node # NULL /\ ~ node.dir /\ Return(NULL)
       \/ rest = <<>> /\ Return(node)
    /\ UNCHANGED <<rest, dir, l, h>>

Middle == l + (h - l) \div 2
Here == Dirs[dir][Middle + 1]

\* Mutant of Compare: the lower bound is moved to the middle.
CompareStuck ==
    /\ pc = "search" /\ l < h
    /\ IF Head(rest) = Here.name
         THEN node' = Here /\ rest' = Tail(rest) /\ pc' = "next"
         ELSE UNCHANGED <<node, rest, pc>>
    /\ l' = IF Head(rest) > Here.name THEN Middle ELSE l
    /\ h' = IF Head(rest) < Here.name THEN Middle ELSE h
    /\ UNCHANGED dir

\* Mutant of Compare: the upper bound is moved below the middle.
CompareSkips ==
    /\ pc = "search" /\ l < h
    /\ IF Head(rest) = Here.name
         THEN node' = Here /\ rest' = Tail(rest) /\ pc' = "next"
         ELSE UNCHANGED <<node, rest, pc>>
    /\ l' = IF Head(rest) > Here.name THEN Middle + 1 ELSE l
    /\ h' = IF Head(rest) < Here.name THEN Middle - 1 ELSE h
    /\ UNCHANGED dir

Compare ==
    /\ pc = "search" /\ l < h
    /\ IF Head(rest) = Here.name
         THEN node' = Here /\ rest' = Tail(rest) /\ pc' = "next"
         ELSE UNCHANGED <<node, rest, pc>>
    /\ l' = IF Head(rest) > Here.name THEN Middle + 1 ELSE l
    /\ h' = IF Head(rest) < Here.name THEN Middle ELSE h
    /\ UNCHANGED dir

\* ENOENT
Missing ==
    /\ pc = "search" /\ l >= h
    /\ Return(NULL)
    /\ UNCHANGED <<rest, dir, l, h>>

TraverseStep == NextName \/ EndOfPath \/ Compare \/ Missing

-----------------------------------------------------------------------------
(* Directory iterators: opendir behind a lookup, readdir, closedir *)

\* Mutant of OpenDir: the place of the last listing is kept.
OpenDirStale(d) ==
    /\ pc' = "list" /\ dir' = d
    /\ rest' = <<>> /\ node' = NULL /\ l' = 0 /\ h' = 0
    /\ UNCHANGED <<offset, listed>>

OpenDir(d) ==
    /\ pc' = "list" /\ dir' = d
    /\ rest' = <<>> /\ node' = NULL /\ l' = 0 /\ h' = 0
    /\ offset' = 0 /\ UNCHANGED listed

ReadDir ==
    /\ pc = "list" /\ offset < Len(Dirs[dir])
    /\ listed' = Append(listed, Dirs[dir][offset + 1].name)
    /\ offset' = (offset + 1) % OffsetRange
    /\ UNCHANGED <<pc, walk>>

CloseDir ==
    /\ pc = "list" /\ offset >= Len(Dirs[dir])
    /\ Forget
    /\ listed' = <<>> /\ UNCHANGED offset

-----------------------------------------------------------------------------
(* Descriptors: [start, ptr, end], positions in the image *)

mmfs_open(entry) ==
    [start |-> entry.at, ptr |-> entry.at, end |-> entry.at + entry.size]

\* From the end the code takes the offset away.
mmfs_lseek(fd, off, whence) ==
    [fd EXCEPT !.ptr = CASE whence = "set" -> fd.start + off
                         [] whence = "cur" -> @ + off
                         [] whence = "end" -> fd.end - off]

\* Mutant of Readable: a read that would end behind the file is not cut.
ReadableLong(fd, size) == IF fd.ptr >= fd.end THEN 0 ELSE size

\* The bytes mmfs_read copies of those it is asked for.  A size so large that
\* the address goes round is not cut.
Readable(fd, size) ==
    IF fd.ptr >= fd.end THEN 0
    ELSE IF (Base + fd.ptr + size) % Word >= Base + fd.end THEN fd.end - fd.ptr
    ELSE size

\* The byte at a position: there may be none in the image.
Byte(p) == IF p + 1 \in DOMAIN Image THEN Image[p + 1] ELSE Foreign
Bytes(from, n) == [i \in 1..n |-> Byte(from + i - 1)]

mmfs_read(fd, size) ==
    LET n == Readable(fd, size)
    IN [bytes |-> Bytes(fd.ptr, n), fd |-> [fd EXCEPT !.ptr = @ + n]]
=============================================================================
