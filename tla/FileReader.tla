----------------------------- MODULE FileReader -----------------------------
(***************************************************************************)
(* Reading from the ROM: fs.open(path, "r") and fs.list of apis/fs.c, and  *)
(* the reading functions of a file object in apis/fs_handle.c, over the    *)
(* lookup and the descriptors of Mmfs.                                     *)
(*                                                                         *)
(* One file object is followed from open to close.  A file in flash that   *)
(* is opened for reading is emptied by the open (FileSys), so only those   *)
(* of the ROM have something to read.  fixpath and the descriptor and      *)
(* directory tables are in FileSys too.                                    *)
(*                                                                         *)
(* malloc may refuse any block and gives none of more than Heap bytes.     *)
(* That Lua has no memory left for a result is left out.                   *)
(***************************************************************************)
EXTENDS Mmfs, FiniteSetsExt

CONSTANTS
    Asked,        \* paths below /rom programs pass
    NL,           \* the byte '\n'
    Chunk,        \* bytes readLine reads at a time (256)
    Nil, Error,   \* results: nothing, and a Lua error
    Heap,         \* bytes of the largest block malloc can give
    Counts,       \* numbers programs pass to read
    Offsets,      \* offsets programs pass to seek
    Reach         \* bound of this model: how far outside the image a
                  \*   position may come to lie

ASSUME ReaderAssumption ==
    /\ Chunk \in Nat \ {0} /\ Counts \subseteq Int /\ Offsets \subseteq Int
    /\ Reach \in Nat
    /\ Asked \subseteq Seq(Int)

\* The image is in flash, from 16#10000000 on, which with the largest block
\* behind it ends far below 2^32.
ASSUME MemoryAssumption ==
    /\ Base \in Nat /\ Reach <= Base /\ Word \in Nat
    /\ Heap \in Nat /\ Chunk <= Heap
    /\ Base + Len(Image) + Heap < Word

Whences == {"set", "cur", "end"}
Closed == [closed |-> TRUE]

VARIABLES
    call,         \* what the lookup is for: "open", "list" or "none"
    asked,        \* its path
    fd,           \* the descriptor of the file object, or Closed
    binary,       \* opened with "rb"
    out,          \* what the last call on the object returned: Nil, Error,
                  \*   bytes, or <<position>>
    from,         \* ghost: position at open, after the last seek or after the
                  \*   last readLine that ran out of memory
    got,          \* ghost: bytes given since, with the newlines taken away
    strayed,      \* ghost: a seek has left the file
    halted        \* hardfault_handler has stopped the machine

object == <<fd, binary, out, from, got, strayed, halted>>
vars == <<pc, walk, iterator, call, asked, object>>

Init ==
    /\ InitMmfs
    /\ call = "none" /\ asked = <<>> /\ binary = FALSE
    /\ fd = Closed /\ out = Nil /\ from = 0 /\ got = <<>> /\ strayed = FALSE
    /\ halted = FALSE

-----------------------------------------------------------------------------
(* fs.open and fs.list.  A listing shares nothing with a file object, so   *)
(* both are followed while no object is open.                              *)

Done == call' = "none" /\ asked' = <<>>

Open(path) ==
    /\ fd = Closed
    /\ Traverse(path)
    /\ call' = "open" /\ asked' = path
    /\ UNCHANGED <<iterator, object>>

Opened ==
    /\ pc = "found" /\ call = "open"
    /\ Forget /\ Done
    /\ IF node # NULL /\ ~ node.dir
         THEN /\ fd' = mmfs_open(node)
              /\ binary' \in BOOLEAN
              /\ out' = Nil /\ from' = node.at /\ got' = <<>>
              /\ strayed' = FALSE /\ UNCHANGED halted
         ELSE UNCHANGED object
    /\ UNCHANGED iterator

\* mmfs_opendir looks nothing up for the root.
List(path) ==
    /\ fd = Closed
    /\ \/ path = <<>> /\ pc = "idle" /\ OpenDir(Root)
       \/ path # <<>> /\ Traverse(path) /\ UNCHANGED iterator
    /\ call' = "list" /\ asked' = path
    /\ UNCHANGED object

Listed ==
    /\ pc = "found" /\ call = "list"
    /\ IF node # NULL /\ node.dir
         THEN OpenDir(node.at) /\ UNCHANGED <<call, asked>>
         ELSE Forget /\ Done /\ UNCHANGED iterator
    /\ UNCHANGED object

-----------------------------------------------------------------------------
(* The functions of a file object *)

\* A call that returns result and leaves the descriptor at where, after
\* bytes have been taken from the file.
Give(result, where, bytes) ==
    /\ out' = result /\ fd' = where /\ got' = got \o bytes
    /\ UNCHANGED <<binary, from, strayed, halted, pc, walk, iterator, call, asked>>

MayRead == pc = "idle" /\ fd # Closed /\ ~ halted

\* No call but realloc's is checked: without a block, bytes go to address 0,
\* before the position moves, and that is a hard fault.
Halt ==
    /\ halted' = TRUE
    /\ UNCHANGED <<fd, binary, out, from, got, strayed, pc, walk, iterator, call,
                   asked>>

\* Behind the end the size is negative, and no string has that length.
ReadAll ==
    LET size == fd.end - fd.ptr
        read == mmfs_read(fd, size)
    IN /\ MayRead
       /\ \/ size = 0 /\ Give(Nil, fd, <<>>)
          \/ size < 0 /\ Give(Error, fd, <<>>)
          \/ size \in 1..Heap /\ Give(read.bytes, read.fd, read.bytes)
          \/ size > 0 /\ Halt

\* The i-th chunk from here on, and where it has a newline: 0 stands for no
\* newline, and for one in the first place.
At(i) == [fd EXCEPT !.ptr = @ + i * Chunk]
Actual(i) == Readable(At(i), Chunk)
Newline(i) ==
    LET nl == {j \in 0..Actual(i) - 1 : Byte(At(i).ptr + j) = NL}
    IN IF nl = {} THEN 0 ELSE Min(nl)

\* The loop ends behind the first chunk that has one or is short: no later
\* than the image, however far before it the descriptor is.
LastChunk == Min({i \in 0..Len(Image) + Reach : Newline(i) # 0 \/ Actual(i) < Chunk})

\* Mutant of ReadLine: the newline is kept when it is not asked for.
ReadLineSwapped(trailing) ==
    LET found == Newline(LastChunk) # 0
        read == LastChunk * Chunk
                  + (IF found THEN Newline(LastChunk) ELSE Actual(LastChunk))
        len == read + (IF found /\ ~ trailing THEN 1 ELSE 0)
        line == Bytes(fd.ptr, len)
    IN /\ MayRead /\ (LastChunk + 1) * Chunk <= Heap
       /\ Give(IF len = 0 THEN Nil ELSE line,
               [fd EXCEPT !.ptr = @ + read + (IF found THEN 1 ELSE 0)],
               IF found /\ trailing THEN Append(line, NL) ELSE line)

ReadLine(trailing) ==
    LET found == Newline(LastChunk) # 0
        read == LastChunk * Chunk
                  + (IF found THEN Newline(LastChunk) ELSE Actual(LastChunk))
        len == read + (IF found /\ trailing THEN 1 ELSE 0)
        line == Bytes(fd.ptr, len)
    IN /\ MayRead /\ (LastChunk + 1) * Chunk <= Heap
       /\ Give(IF len = 0 THEN Nil ELSE line,
               [fd EXCEPT !.ptr = @ + read + (IF found THEN 1 ELSE 0)],
               IF found /\ ~ trailing THEN Append(line, NL) ELSE line)

\* realloc has refused the block for one more chunk: a Lua error, and the
\* chunks read are lost.  Or malloc has refused the one for the first.
ReadLineRefused ==
    /\ MayRead
    /\ \/ Halt
       \/ \E n \in 1..LastChunk :
            /\ fd' = [fd EXCEPT !.ptr = @ + n * Chunk] /\ out' = Error
            /\ from' = fd'.ptr /\ got' = <<>>
            /\ UNCHANGED <<binary, strayed, halted, pc, walk, iterator, call, asked>>

\* read(): one byte, in both modes.
ReadOne ==
    LET read == mmfs_read(fd, 1)
    IN /\ MayRead
       /\ Give(IF read.bytes = <<>> THEN Nil ELSE read.bytes, read.fd, read.bytes)

\* read(count): in mode "r" the count is ignored.  A negative one is a size of
\* nearly 2^32 bytes, which no block has.
ReadCount(count) ==
    LET size == count % Word
        read == mmfs_read(fd, size)
    IN IF binary
       THEN /\ MayRead
            /\ \/ /\ size <= Heap \/ Readable(fd, size) = 0
                  /\ Give(IF read.bytes = <<>> THEN Nil ELSE read.bytes,
                          read.fd, read.bytes)
               \/ Readable(fd, size) > 0 /\ Halt
       ELSE ReadOne

InFile(f) == f.start <= f.ptr /\ f.ptr <= f.end

Seek(whence, off) ==
    /\ MayRead
    /\ fd' = mmfs_lseek(fd, off, whence)
    /\ fd'.ptr \in -Reach..Len(Image) + Reach
    /\ out' = <<fd'.ptr - fd'.start>>
    /\ from' = fd'.ptr /\ got' = <<>>
    /\ strayed' = (strayed \/ ~ InFile(fd'))
    /\ UNCHANGED <<binary, halted, pc, walk, iterator, call, asked>>

NoObject ==
    /\ fd' = Closed /\ binary' = FALSE
    /\ out' = Nil /\ from' = 0 /\ got' = <<>> /\ strayed' = FALSE

Close == MayRead /\ NoObject /\ UNCHANGED <<halted, pc, walk, iterator, call, asked>>

\* The machine is switched off and on.
Restart ==
    /\ halted /\ halted' = FALSE
    /\ NoObject /\ Forget /\ Done
    /\ offset' = 0 /\ listed' = <<>>

-----------------------------------------------------------------------------
Lookup == TraverseStep /\ UNCHANGED <<iterator, call, asked, object>>
Listing ==
    /\ \/ ReadDir /\ UNCHANGED <<call, asked>>
       \/ CloseDir /\ Done
    /\ UNCHANGED object

\* The steps of a call that has begun.
Inside == Lookup \/ Listing \/ Opened \/ Listed

Next ==
    \/ \E path \in Asked : Open(path) \/ List(path)
    \/ Inside
    \/ ReadAll
    \/ \E trailing \in BOOLEAN : ReadLine(trailing)
    \/ ReadLineRefused
    \/ ReadOne
    \/ \E count \in Counts : ReadCount(count)
    \/ \E whence \in Whences, off \in Offsets : Seek(whence, off)
    \/ Close
    \/ Restart

\* A call that has begun goes on: nothing in it waits.
Spec == Init /\ [][Next]_vars /\ WF_vars(Inside)
-----------------------------------------------------------------------------
(* Properties *)

\* The entries of a directory, and of all of them.
Within(d) == {Dirs[d][i] : i \in 1..Len(Dirs[d])}
Entries == UNION {Within(d) : d \in DOMAIN Dirs}

\* The entries the first n names of a path lead through: each has its name,
\* and lies in the directory before it.
Chain(path, n, c) ==
    /\ c \in [1..n -> Entries]
    /\ \A k \in 1..n :
         /\ c[k].name = path[k]
         /\ IF k = 1 THEN c[k] \in Within(Root)
            ELSE c[k - 1].dir /\ c[k] \in Within(c[k - 1].at)

Names(path, entry) ==
    /\ path # <<>>
    /\ \E c \in [1..Len(path) -> Entries] :
         Chain(path, Len(path), c) /\ c[Len(path)] = entry

\* mmfs_traverse gives the entry a path names, and NULL only when it names
\* none.
TraverseFinds ==
    pc = "found" => IF node = NULL THEN ~ \E e \in Entries : Names(asked, e)
                    ELSE Names(asked, node)

\* fs.list names every entry of the directory, once and in order, however
\* long the last listing was (mmfs_opendir, mmfs_readdir).
ListComplete ==
    LET names == [i \in 1..Len(Dirs[dir]) |-> Dirs[dir][i].name]
    IN pc = "list" => listed = SubSeq(names, 1, offset)

\* Whatever the mix of readAll, readLine and read, with any count: together
\* they give the file's bytes from where they began to where the descriptor
\* is, none lost and none twice, when the newlines readLine takes away are
\* counted in; and only a seek takes a descriptor out of its file.  A size
\* mmfs_read does not cut never gets as far as moving the descriptor: malloc
\* has no such block, and the machine halts.  A readLine that runs out of
\* memory does lose bytes: they are counted from behind it.
NothingLost ==
    fd # Closed => /\ got = Bytes(from, fd.ptr - from)
                   /\ InFile(fd) \/ strayed

\* The bytes from here to the next newline of the file, or to its end.
LineLen ==
    LET nl == {p \in fd.ptr..fd.end - 1 : Byte(p) = NL}
    IN (IF nl = {} THEN fd.end ELSE Min(nl)) - fd.ptr

\* readLine gives the line at the descriptor, without its newline or with
\* it, and goes on behind it: except where the line's length is a multiple
\* of the chunk (an empty line, above all), when `found` is 0 although there
\* is a newline.
LineWhole(trailing) ==
    ReadLine(trailing) /\ InFile(fd) /\ LineLen % Chunk # 0 =>
        LET skip == IF fd.ptr + LineLen < fd.end THEN 1 ELSE 0
        IN /\ out' = Bytes(fd.ptr, LineLen + (IF trailing THEN skip ELSE 0))
           /\ fd'.ptr = fd.ptr + LineLen + skip

LinesWhole == [][\A trailing \in BOOLEAN : LineWhole(trailing)]_vars

\* Every call comes back: the search ends on every level, and so does the
\* listing of a directory.
CallsReturn == pc # "idle" ~> pc = "idle"

=============================================================================
