--------------------------- MODULE FileSysProofs ---------------------------
(***************************************************************************)
(* For any paths, handles, ROM and table sizes: the ROM's descriptors are  *)
(* those of the open handles, the cached free space is right, the tree of  *)
(* littlefs has no gap, and the iterators of aux_copy are given back.      *)
(*                                                                         *)
(* fixpath and the copy of the ROM go through a path's tokens and the      *)
(* ROM's entries one by one.  What they compute is shown of the first n,   *)
(* for every n up to the end: of numbers that lack it, none is the least.  *)
(***************************************************************************)
EXTENDS FileSys, SequenceTheorems, WellFoundedInduction, TLAPS

\* What the argument needs to know of a FILEHANDLE.
IsHandle(r) ==
    /\ {"type", "fd"} \subseteq DOMAIN r
    /\ r.type = "rom" => r.fd \in 1..MaxFds
    /\ r.type # "rom" => r.fd = 0

\* The inductive invariant: a handle that is not of the ROM has no descriptor
\* (mmfs_fd shares its memory with littlefs's file).
FdInv ==
    /\ DOMAIN handles = Handles
    /\ handles = [h \in Handles |-> handles[h]]
    /\ \A h \in Handles : IsHandle(handles[h])
    /\ lost \subseteq 1..MaxFds
    /\ FdsHeld

RomHandles == {h \in Handles : handles[h].type = "rom"}

\* A step that changes no descriptor, of a handle or of the table, keeps the
\* invariant.
LEMMA SameDescriptors ==
    ASSUME FdInv, UNCHANGED <<fds, lost>>,
           NEW H, handles' = [h \in Handles |-> H[h]],
           \A h \in Handles : /\ IsHandle(H[h])
                              /\ handles[h].type = "rom" <=> H[h].type = "rom"
                              /\ handles[h].type = "rom" => H[h].fd = handles[h].fd
    PROVE  FdInv'
<1>1. /\ DOMAIN handles' = Handles
      /\ handles' = [h \in Handles |-> handles'[h]]
      /\ \A h \in Handles : handles'[h] = H[h]
  OBVIOUS
<1>2. \A h \in Handles : IsHandle(handles[h])'
  BY <1>1 DEF IsHandle
<1>3. /\ RomHandles' = RomHandles
      /\ \A h \in RomHandles : handles'[h].fd = handles[h].fd
  BY <1>1 DEF RomHandles
<1>4. {handles'[h].fd : h \in RomHandles'} = {handles[h].fd : h \in RomHandles}
  BY <1>3
<1>5. FdsHeld'
  BY <1>3, <1>4 DEF FdInv, FdsHeld, RomHandles
<1> QED
  BY <1>1, <1>2, <1>5 DEF FdInv

\* A step that leaves handles and tables alone.
LEMMA NothingOpened ==
    ASSUME FdInv, UNCHANGED <<handles, fds, lost>>
    PROVE  FdInv'
BY DEF FdInv, FdsHeld, IsHandle

-----------------------------------------------------------------------------
\* lfs_remove detaches handles and takes nothing else from them.
LEMMA RemoveKeeps ==
    ASSUME FdInv, NEW p, lfs_remove(p), UNCHANGED <<fds, lost>>
    PROVE  FdInv'
<1> DEFINE H == [h \in Handles |-> Detach(handles[h], p)]
<1>1. handles' = [h \in Handles |-> H[h]] /\ UNCHANGED <<fds, lost>>
  BY DEF lfs_remove
<1>2. ASSUME NEW h \in Handles
      PROVE  /\ IsHandle(H[h]) /\ H[h].type = handles[h].type
             /\ H[h].fd = handles[h].fd
  BY DEF FdInv, IsHandle, Detach
<1> HIDE DEF H
<1> QED
  BY <1>1, <1>2, SameDescriptors

\* A step of aux_delete removes an entry or none.
LEMMA DeleteRemoves ==
    ASSUME DeleteStep
    PROVE  /\ UNCHANGED <<fs, handles>> \/ \E p : lfs_remove(p)
           /\ \/ cache' = None /\ partial' = FALSE
              \/ cache' = cache /\ partial' = (partial \/ fs' # fs)
           /\ UNCHANGED <<fds, iters, lost, torn>>
<1>1. CASE DeleteEntry(Last(stack), Front(stack))
  BY <1>1 DEF DeleteStep, DeleteEntry
<1>2. CASE DeleteSelf(Last(stack), Front(stack))
  BY <1>2 DEF DeleteStep, DeleteSelf
<1> QED
  BY <1>1, <1>2 DEF DeleteStep

\* write and flush change what a handle holds of its file.
LEMMA WriteKeeps ==
    ASSUME FdInv, NEW h \in Handles, Write(h) \/ Flush(h)
    PROVE  FdInv'
<1>1. PICK new :
        /\ handles' = [handles EXCEPT ![h] = new]
        /\ IsHandle(new) /\ new.type = handles[h].type
        /\ new.fd = handles[h].fd
  <2>0. IsHandle(handles[h])
    BY DEF FdInv
  <2>1. CASE Write(h)
    <3>1. PICK n : handles' = [handles EXCEPT ![h].size = n, ![h].dirty = TRUE]
      BY <2>1 DEF Write
    <3> DEFINE new == [handles[h] EXCEPT !.size = n, !.dirty = TRUE]
    <3>2. handles' = [handles EXCEPT ![h] = new]
      BY <3>1 DEF FdInv
    <3>3. /\ DOMAIN new = DOMAIN handles[h] /\ new.type = handles[h].type
          /\ new.fd = handles[h].fd
      BY <2>0 DEF IsHandle
    <3> HIDE DEF new
    <3>4. IsHandle(new)
      BY <2>0, <3>3 DEF IsHandle
    <3> QED
      BY <3>2, <3>3, <3>4
  <2>2. CASE Flush(h)
    <3> DEFINE new == [handles[h] EXCEPT !.dirty = FALSE]
    <3>2. handles' = [handles EXCEPT ![h] = new]
      BY <2>2 DEF Flush, FdInv
    <3>3. /\ DOMAIN new = DOMAIN handles[h] /\ new.type = handles[h].type
          /\ new.fd = handles[h].fd
      BY <2>0 DEF IsHandle
    <3> HIDE DEF new
    <3>4. IsHandle(new)
      BY <2>0, <3>3 DEF IsHandle
    <3> QED
      BY <3>2, <3>3, <3>4
  <2> QED
    BY <2>1, <2>2
<1> DEFINE H == [g \in Handles |-> IF g = h THEN new ELSE handles[g]]
<1>2. handles' = [g \in Handles |-> H[g]]
  BY <1>1 DEF FdInv
<1>3. UNCHANGED <<fds, lost>>
  BY DEF Write, Flush
<1>4. \A g \in Handles : /\ IsHandle(H[g]) /\ H[g].type = handles[g].type
                         /\ H[g].fd = handles[g].fd
  BY <1>1 DEF FdInv
<1> HIDE DEF H
<1> QED
  BY <1>2, <1>3, <1>4, SameDescriptors

\* A littlefs file takes the place of a closed handle.
LEMMA OpenLfsKeeps ==
    ASSUME FdInv, NEW h \in Handles, NEW p, NEW mode, OpenLfs(h, p, mode)
    PROVE  FdInv'
<1>1. PICK s, d, w : handles' = [handles EXCEPT ![h] =
        [Closed EXCEPT !.type = "lfs", !.path = p, !.writes = w,
                       !.size = s, !.dirty = d]]
  BY DEF OpenLfs
<1> DEFINE new == [Closed EXCEPT !.type = "lfs", !.path = p, !.writes = w,
                                 !.size = s, !.dirty = d]
           H == [g \in Handles |-> IF g = h THEN new ELSE handles[g]]
<1>2. IsHandle(new) /\ new.type = "lfs"
  <2>1. DOMAIN new = DOMAIN Closed /\ {"type", "fd"} \subseteq DOMAIN Closed
    BY DEF Closed
  <2>2. new.type = "lfs" /\ new.fd = 0
    BY DEF Closed
  <2> QED
    BY <2>1, <2>2 DEF IsHandle
<1>3. handles' = [g \in Handles |-> H[g]]
  BY <1>1 DEF FdInv
<1>4. UNCHANGED <<fds, lost>> /\ handles[h].type = "closed"
  BY DEF OpenLfs
<1> HIDE DEF new
<1>5. \A g \in Handles : /\ IsHandle(H[g])
                         /\ handles[g].type = "rom" <=> H[g].type = "rom"
                         /\ handles[g].type = "rom" => H[g].fd = handles[g].fd
  BY <1>2, <1>4 DEF FdInv
<1> HIDE DEF H
<1> QED
  BY <1>3, <1>4, <1>5, SameDescriptors

\* mmfs_open gives a closed handle a descriptor nobody has.
LEMMA OpenRomKeeps ==
    ASSUME FdInv, NEW h \in Handles, NEW p, OpenRom(h, p)
    PROVE  FdInv'
<1>1. PICK fd \in 1..MaxFds \ fds :
        /\ fds' = fds \cup {fd}
        /\ handles' = [handles EXCEPT
              ![h] = [Closed EXCEPT !.type = "rom", !.path = p, !.fd = fd]]
  BY DEF OpenRom
<1> DEFINE new == [Closed EXCEPT !.type = "rom", !.path = p, !.fd = fd]
<1>2. IsHandle(new) /\ new.type = "rom" /\ new.fd = fd
  <2>1. DOMAIN new = DOMAIN Closed /\ {"type", "fd"} \subseteq DOMAIN Closed
    BY DEF Closed
  <2>2. new.type = "rom" /\ new.fd = fd
    BY DEF Closed
  <2> QED
    BY <2>1, <2>2 DEF IsHandle
<1> HIDE DEF new
<1>3. /\ DOMAIN handles' = Handles
      /\ handles' = [g \in Handles |-> handles'[g]]
      /\ handles'[h] = new
      /\ \A g \in Handles \ {h} : handles'[g] = handles[g]
  BY <1>1 DEF FdInv, new
<1>4. lost' = lost /\ handles[h].type = "closed"
  BY DEF OpenRom
<1>5. \A g \in Handles : IsHandle(handles'[g])
  BY <1>2, <1>3 DEF FdInv
<1>6. RomHandles' = RomHandles \cup {h} /\ h \notin RomHandles
  BY <1>2, <1>3, <1>4 DEF RomHandles
<1>7. /\ \A g \in RomHandles : handles'[g].fd = handles[g].fd
      /\ handles'[h].fd = fd
  BY <1>2, <1>3, <1>6 DEF RomHandles
<1>8. {handles'[g].fd : g \in RomHandles'} = {handles[g].fd : g \in RomHandles} \cup {fd}
  BY <1>6, <1>7
<1>9. FdsHeld'
  BY <1>1, <1>4, <1>6, <1>7, <1>8 DEF FdInv, FdsHeld, RomHandles
<1> QED
  BY <1>3, <1>4, <1>5, <1>9 DEF FdInv, IsHandle

\* A handle that goes, by close or unclosed, leaves its descriptor to the
\* table or to the lost ones.
LEMMA CloseKeeps ==
    ASSUME FdInv, NEW h \in Handles, Close(h) \/ Drop(h)
    PROVE  FdInv'
<1>1. handles' = [handles EXCEPT ![h] = Closed]
  BY DEF Close, Drop
<1>2. IsHandle(Closed) /\ Closed.type = "closed"
  BY DEF IsHandle, Closed
<1>3. /\ DOMAIN handles' = Handles
      /\ handles' = [g \in Handles |-> handles'[g]]
      /\ handles'[h] = Closed
      /\ \A g \in Handles \ {h} : handles'[g] = handles[g]
  BY <1>1 DEF FdInv
<1>4. \A g \in Handles : IsHandle(handles'[g])
  BY <1>2, <1>3 DEF FdInv
<1>5. /\ RomHandles' = RomHandles \ {h}
      /\ \A g \in RomHandles \ {h} : handles'[g].fd = handles[g].fd
  BY <1>2, <1>3 DEF RomHandles
<1>6. {handles'[g].fd : g \in RomHandles'} = {handles[g].fd : g \in RomHandles \ {h}}
  BY <1>5
<1>0. /\ fds = {handles[g].fd : g \in RomHandles} \cup lost
      /\ {handles[g].fd : g \in RomHandles} \cap lost = {}
      /\ \A g, k \in RomHandles : handles[g].fd = handles[k].fd => g = k
      /\ lost \subseteq 1..MaxFds
  BY DEF FdInv, FdsHeld, RomHandles
<1>7. \A g, k \in RomHandles' : handles'[g].fd = handles'[k].fd => g = k
  BY <1>5, <1>0
<1>8. ASSUME h \in RomHandles
      PROVE  FdsHeld' /\ lost' \subseteq 1..MaxFds
  <2>1. {handles[g].fd : g \in RomHandles \ {h}}
          = {handles[g].fd : g \in RomHandles} \ {handles[h].fd}
    BY <1>8 DEF FdInv, FdsHeld, RomHandles
  <2>2. handles[h].fd \in fds \ lost /\ handles[h].fd \in 1..MaxFds
    BY <1>8 DEF FdInv, FdsHeld, RomHandles, IsHandle
  <2>3. \/ fds' = fds \ {handles[h].fd} /\ lost' = lost
        \/ fds' = fds /\ lost' = lost \cup {handles[h].fd}
    BY DEF Close, Drop
  <2>4. /\ fds' = {handles'[g].fd : g \in RomHandles'} \cup lost'
        /\ {handles'[g].fd : g \in RomHandles'} \cap lost' = {}
    <3> DEFINE before == {handles[g].fd : g \in RomHandles}
               after == {handles'[g].fd : g \in RomHandles'}
               d == handles[h].fd
    <3>1. after = before \ {d}
      BY <1>6, <2>1
    <3>2. fds = before \cup lost /\ before \cap lost = {} /\ d \in fds \ lost
      BY <1>0, <2>2
    <3>3. \/ fds' = fds \ {d} /\ lost' = lost
          \/ fds' = fds /\ lost' = lost \cup {d}
      BY <2>3
    <3> HIDE DEF before, after, d
    <3>4. fds' = after \cup lost' /\ after \cap lost' = {}
      BY ONLY <3>1, <3>2, <3>3
    <3> QED
      BY <3>4 DEF after
  <2>5. FdsHeld'
    BY <1>7, <2>4 DEF FdsHeld, RomHandles
  <2> QED
    BY <1>0, <2>2, <2>3, <2>5
<1>9. ASSUME h \notin RomHandles
      PROVE  FdsHeld' /\ lost' \subseteq 1..MaxFds
  <2>1. Close(h) /\ handles[h].fd = 0
    BY <1>9 DEF Drop, RomHandles, FdInv, IsHandle
  <2>2. lost' = lost /\ fds' = fds \ {0}
    BY <2>1 DEF Close
  <2>3. 0 \notin fds
    <3>1. \A g \in RomHandles : handles[g].fd # 0
      BY BoundsAssumption DEF FdInv, IsHandle, RomHandles
    <3> QED
      BY <3>1, BoundsAssumption DEF FdInv, FdsHeld, RomHandles
  <2>4. {handles'[g].fd : g \in RomHandles'} = {handles[g].fd : g \in RomHandles}
    BY <1>6, <1>9
  <2>5. fds' = fds /\ lost' = lost
    BY <2>2, <2>3
  <2>6. /\ fds' = {handles'[g].fd : g \in RomHandles'} \cup lost'
        /\ {handles'[g].fd : g \in RomHandles'} \cap lost' = {}
    BY <1>0, <2>4, <2>5
  <2>7. FdsHeld'
    BY <1>7, <2>6 DEF FdsHeld, RomHandles
  <2> QED
    BY <1>0, <2>5, <2>7
<1> QED
  BY <1>3, <1>4, <1>8, <1>9 DEF FdInv, IsHandle

\* Every call and the reset keep the invariant.
LEMMA Inductive == FdInv /\ [Next]_vars => FdInv'
<1> SUFFICES ASSUME FdInv, [Next]_vars PROVE FdInv'
  OBVIOUS
<1>1. ASSUME NEW p, MakeDir(p) PROVE FdInv'
  BY <1>1, NothingOpened DEF MakeDir
<1>2. ASSUME NEW p, DeleteFile(p) PROVE FdInv'
  BY <1>2, RemoveKeeps DEF DeleteFile
<1>3. ASSUME NEW p, DeleteDirectory(p) PROVE FdInv'
  BY <1>3, NothingOpened DEF DeleteDirectory
<1>4. ASSUME NEW p, NEW to, Move(p, to) PROVE FdInv'
  BY <1>4, NothingOpened DEF Move
<1>5. ASSUME NEW p, NEW to, Copy(p, to) PROVE FdInv'
  BY <1>5, NothingOpened DEF Copy
<1>6. CASE PathCall
  BY <1>1, <1>2, <1>3, <1>4, <1>5, <1>6 DEF PathCall
<1>7. CASE HandleCall
  BY <1>7, OpenRomKeeps, OpenLfsKeeps, WriteKeeps, CloseKeeps DEF HandleCall
<1>8. CASE Measure
  BY <1>8, NothingOpened DEF Measure
<1>9. CASE Restart
  <2>1. /\ handles' = [h \in Handles |-> Closed]
        /\ fds' = {} /\ lost' = {}
    BY <1>9 DEF Restart, AllClosed
  <2>2. IsHandle(Closed) /\ Closed.type = "closed"
    BY DEF IsHandle, Closed
  <2> QED
    BY <2>1, <2>2 DEF FdInv, FdsHeld, IsHandle
<1>10. CASE DeleteStep
  BY <1>10, DeleteRemoves, RemoveKeeps, NothingOpened
<1>11. CASE UNCHANGED vars
  BY <1>11, NothingOpened DEF vars
<1> QED
  BY <1>6, <1>7, <1>8, <1>9, <1>10, <1>11 DEF Next

\* Descriptors and handles agree in every behaviour.
LEMMA AlwaysFdInv == Spec => []FdInv
<1>1. Init => FdInv
  <2>1. IsHandle(Closed) /\ Closed.type = "closed"
    BY DEF IsHandle, Closed
  <2> QED
    BY <2>1 DEF Init, AllClosed, FdInv, FdsHeld
<1> QED
  BY <1>1, Inductive, PTL DEF Spec

\* At every moment the descriptors in use are those of the open ROM handles,
\* one each, and those of handles dropped without close (mmfs_open,
\* mmfs_close, fs_handle_close).
THEOREM DescriptorsHeld == Spec => []FdsHeld
<1>1. FdInv => FdsHeld
  BY DEF FdInv
<1> QED
  BY <1>1, AlwaysFdInv, PTL

-----------------------------------------------------------------------------
(* The cached free space *)

Files == {h \in Handles : handles[h].type = "lfs"}

\* A step that closes no file of littlefs and leaves the cache alone keeps it
\* right, unless it changes the tree on its way.
LEMMA QuietCache ==
    ASSUME CacheFresh, Files \subseteq Files', cache' = cache,
           partial => partial', fs' # fs => partial' \/ Files' # {}
    PROVE  CacheFresh'
<1>1. CASE Files' # {} \/ partial'
  BY <1>1 DEF CacheFresh, Files
<1>2. CASE Files' = {} /\ ~ partial'
  BY <1>2 DEF CacheFresh, Files
<1> QED
  BY <1>1, <1>2

\* Every call keeps the cache right, or a file open, or a failure known.
LEMMA CacheStays ==
    ASSUME FdInv, CacheFresh, [Next]_vars
    PROVE  CacheFresh'
<1>0. handles = [h \in Handles |-> handles[h]]
  BY DEF FdInv
<1>1. ASSUME NEW p, MakeDir(p) \/ DeleteFile(p) PROVE CacheFresh'
  BY <1>1 DEF MakeDir, DeleteFile, CacheFresh
<1>2. ASSUME NEW p, DeleteDirectory(p) PROVE CacheFresh'
  BY <1>2, QuietCache DEF DeleteDirectory, Files
<1>3. ASSUME NEW p, NEW to, Move(p, to) PROVE CacheFresh'
  BY <1>3, QuietCache DEF Move, Files
<1>4. ASSUME NEW p, NEW to, Copy(p, to) PROVE CacheFresh'
  <2>1. handles' = handles /\ ((cache' = None /\ partial' = FALSE)
                          \/ (cache' = cache /\ partial' = (partial \/ fs' # fs)))
    BY <1>4 DEF Copy
  <2> QED
    BY <2>1, QuietCache DEF CacheFresh, Files
<1>5. CASE PathCall
  BY <1>1, <1>2, <1>3, <1>4, <1>5 DEF PathCall
<1>6. ASSUME NEW h \in Handles, NEW p, OpenRom(h, p) PROVE CacheFresh'
  <2>1. PICK new : handles' = [handles EXCEPT ![h] = new]
    BY <1>6 DEF OpenRom
  <2>2. handles[h].type = "closed" /\ UNCHANGED <<fs, cache, partial>>
    BY <1>6 DEF OpenRom
  <2>3. Files \subseteq Files'
    BY <1>0, <2>1, <2>2 DEF Files
  <2> QED
    BY <2>2, <2>3, QuietCache
<1>7. ASSUME NEW h \in Handles, NEW p, NEW mode, OpenLfs(h, p, mode) PROVE CacheFresh'
  <2>1. PICK s, d, w : handles' = [handles EXCEPT ![h] =
          [Closed EXCEPT !.type = "lfs", !.path = p, !.writes = w,
                         !.size = s, !.dirty = d]]
    BY <1>7 DEF OpenLfs
  <2>2. handles'[h].type = "lfs"
    BY <1>0, <2>1 DEF Closed
  <2> QED
    BY <2>2 DEF CacheFresh
<1>8. ASSUME NEW h \in Handles, Write(h) PROVE CacheFresh'
  <2>1. PICK n : handles' = [handles EXCEPT ![h].size = n, ![h].dirty = TRUE]
    BY <1>8 DEF Write
  <2>2. "type" \in DOMAIN handles[h]
    BY DEF FdInv, IsHandle
  <2>3. \A g \in Handles : handles'[g].type = handles[g].type
    BY <1>0, <2>1, <2>2
  <2> QED
    BY <1>8, <2>3, QuietCache DEF Write, Files
<1>9. ASSUME NEW h \in Handles, Flush(h) \/ Close(h) PROVE CacheFresh'
  BY <1>9 DEF Flush, Close, CacheFresh
<1>10. ASSUME NEW h \in Handles, Drop(h) PROVE CacheFresh'
  <2>1. handles' = [handles EXCEPT ![h] = Closed] /\ handles[h].type = "rom"
        /\ UNCHANGED <<fs, cache, partial>>
    BY <1>10 DEF Drop
  <2>2. Files \subseteq Files'
    BY <1>0, <2>1 DEF Files
  <2> QED
    BY <2>1, <2>2, QuietCache
<1>11. CASE HandleCall
  BY <1>6, <1>7, <1>8, <1>9, <1>10, <1>11 DEF HandleCall
<1>12. CASE Measure \/ Restart
  BY <1>12 DEF Measure, Restart, CacheFresh
<1>13. CASE DeleteStep
  <2>1. \/ cache' = None
        \/ cache' = cache /\ partial' = (partial \/ fs' # fs)
    BY <1>13, DeleteRemoves
  <2>2. Files \subseteq Files'
    <3>1. CASE handles' = handles
      BY <3>1 DEF Files
    <3>2. ASSUME NEW p, lfs_remove(p)
          PROVE  Files \subseteq Files'
      <4>1. ASSUME NEW h \in Files
            PROVE  h \in Files'
        <5>1. "type" \in DOMAIN handles[h] /\ handles[h].type = "lfs" /\ h \in Handles
          BY DEF FdInv, IsHandle, Files
        <5>2. handles'[h] = Detach(handles[h], p)
          BY <3>2, <5>1 DEF lfs_remove
        <5>3. handles'[h].type = "lfs"
          BY <5>1, <5>2 DEF Detach
        <5> QED
          BY <5>1, <5>3 DEF Files
      <4> QED
        BY <4>1
    <3> QED
      BY <1>13, <3>1, <3>2, DeleteRemoves
  <2> QED
    BY <2>1, <2>2, QuietCache DEF CacheFresh
<1>14. CASE UNCHANGED vars
  BY <1>14, QuietCache DEF vars, Files
<1> QED
  BY <1>5, <1>11, <1>12, <1>13, <1>14 DEF Next

\* free_space_cache was measured on the tree as it is, unless a file is open
\* in littlefs or a failed call changed the tree on its way, for any paths,
\* ROM and handles (fs_getFreeSpace and every call that empties the cache).
THEOREM CacheStaysFresh == Spec => []CacheFresh
<1>1. Init => CacheFresh
  BY DEF Init, CacheFresh
<1> QED
  BY <1>1, AlwaysFdInv, CacheStays, PTL DEF Spec

-----------------------------------------------------------------------------
(* Numbers: a set of them has a least one. *)

\* The order of the numbers as the library has it.
LEMMA LessThan == OpToRel(<, Nat) = {ss \in Nat \X Nat : ss[1] < ss[2]}
BY DEF OpToRel

\* A set of numbers that is not empty has a least one.
LEMMA LeastNumber ==
    ASSUME NEW S \in SUBSET Nat, S # {}
    PROVE  \E m \in S : \A k \in S : m <= k
<1>1. IsWellFoundedOn({ss \in Nat \X Nat : ss[1] < ss[2]}, Nat)
  BY NatLessThanWellFounded, LessThan, Zenon
<1>2. PICK m \in S : \A k \in S : ~(<<k, m>> \in {ss \in Nat \X Nat : ss[1] < ss[2]})
  BY <1>1, WFMin, Zenon
<1>3. ASSUME NEW k \in S, k < m
      PROVE  FALSE
  <2>1. <<k, m>> \in {ss \in Nat \X Nat : ss[1] < ss[2]}
    BY <1>3
  <2> QED
    BY <1>2, <2>1
<1> QED
  BY <1>3

\* A set that has 0 and with each number below n the next one has all up to n.
LEMMA UpTo ==
    ASSUME NEW n \in Nat, NEW S, 0 \in S,
           \A k \in 1..n : k - 1 \in S => k \in S
    PROVE  0..n \subseteq S
<1> DEFINE B == {k \in 0..n : k \notin S}
<1>1. ASSUME B # {} PROVE FALSE
  <2>1. PICK m \in B : \A k \in B : m <= k
    <3>1. B \in SUBSET Nat
      OBVIOUS
    <3> HIDE DEF B
    <3> QED
      BY <1>1, <3>1, LeastNumber
  <2>2. m \in 1..n /\ m - 1 \in 0..n /\ m - 1 < m
    BY <2>1
  <2>3. m - 1 \in S
    BY <2>1, <2>2
  <2> QED
    BY <2>1, <2>2, <2>3
<1> QED
  BY <1>1

-----------------------------------------------------------------------------
(* Paths *)

\* The first n names of a path.
LEMMA PrefixIs ==
    ASSUME NEW p \in Seq(STRING), NEW n \in 0..Len(p)
    PROVE  /\ SubSeq(p, 1, n) \in Seq(STRING) /\ Len(SubSeq(p, 1, n)) = n
           /\ \A i \in 1..n : SubSeq(p, 1, n)[i] = p[i]
           /\ \A m \in 0..n : SubSeq(SubSeq(p, 1, n), 1, m) = SubSeq(p, 1, m)
<1>1. \A q \in Seq(STRING) : \A k \in 0..Len(q) :
        /\ SubSeq(q, 1, k) \in Seq(STRING) /\ Len(SubSeq(q, 1, k)) = k
        /\ \A i \in 1..k : SubSeq(q, 1, k)[i] = q[i]
  <2> SUFFICES ASSUME NEW q \in Seq(STRING), NEW k \in 0..Len(q)
               PROVE  /\ SubSeq(q, 1, k) \in Seq(STRING) /\ Len(SubSeq(q, 1, k)) = k
                      /\ \A i \in 1..k : SubSeq(q, 1, k)[i] = q[i]
    OBVIOUS
  <2>1. Len(q) \in Nat /\ \A i \in 1..k : q[i] \in STRING
    BY LenProperties, ElementOfSeq
  <2>2. /\ SubSeq(q, 1, k) \in Seq(STRING)
        /\ Len(SubSeq(q, 1, k)) = IF 1 <= k THEN k - 1 + 1 ELSE 0
        /\ \A i \in 1..k - 1 + 1 : SubSeq(q, 1, k)[i] = q[1 + i - 1]
    BY <2>1, SubSeqProperties
  <2> QED
    BY <2>1, <2>2
<1>2. ASSUME NEW m \in 0..n
      PROVE  SubSeq(SubSeq(p, 1, n), 1, m) = SubSeq(p, 1, m)
  <2> DEFINE q == SubSeq(p, 1, n)
             s == SubSeq(q, 1, m)
             t == SubSeq(p, 1, m)
  <2>1. Len(p) \in Nat /\ q \in Seq(STRING) /\ Len(q) = n /\ m \in 0..Len(q) /\ m \in 0..Len(p)
        /\ \A i \in 1..n : q[i] = p[i]
    BY <1>1, LenProperties
  <2> HIDE DEF q
  <2>2. /\ s \in Seq(STRING) /\ Len(s) = m /\ \A i \in 1..m : s[i] = q[i]
        /\ t \in Seq(STRING) /\ Len(t) = m /\ \A i \in 1..m : t[i] = p[i]
    BY <1>1, <2>1
  <2> HIDE DEF s, t
  <2>3. \A i \in 1..m : s[i] = t[i]
    BY <2>1, <2>2
  <2>4. s = t
    BY <2>2, <2>3, SeqEqual
  <2> QED
    BY <2>4 DEF s, t, q
<1> QED
  BY <1>1, <1>2

\* The directory a path is in.
LEMMA FrontIs ==
    ASSUME NEW p \in Seq(STRING), p # <<>>
    PROVE  Front(p) \in Seq(STRING) /\ Len(Front(p)) = Len(p) - 1 /\ Len(p) \in Nat \ {0}
<1>1. Len(p) \in Nat \ {0} /\ Len(p) - 1 \in 0..Len(p)
  BY LenProperties, EmptySeq
<1> QED
  BY <1>1, PrefixIs DEF Front

\* With a path its prefixes have all the directories above it.
LEMMA PrefixesIs ==
    ASSUME NEW p \in Seq(STRING)
    PROVE  /\ Prefixes(p) \subseteq Seq(STRING) /\ <<>> \in Prefixes(p) /\ p \in Prefixes(p)
           /\ \A q \in Prefixes(p) : Len(q) <= Len(p)
           /\ \A q \in Prefixes(p) : q # <<>> => Front(q) \in Prefixes(p)
<1>1. Len(p) \in Nat
  BY LenProperties
<1>2. Prefixes(p) = {SubSeq(p, 1, n) : n \in 0..Len(p)}
  BY DEF Prefixes
<1>3. SubSeq(p, 1, 0) = <<>> /\ SubSeq(p, 1, Len(p)) = p
  BY SubSeqEmpty, SubSeqFull
<1>4. <<>> \in Prefixes(p) /\ p \in Prefixes(p)
  <2>1. 0 \in 0..Len(p) /\ Len(p) \in 0..Len(p)
    BY <1>1
  <2> QED
    BY <1>2, <1>3, <2>1, Zenon
<1>5. ASSUME NEW q \in Prefixes(p)
      PROVE  /\ q \in Seq(STRING) /\ Len(q) <= Len(p)
             /\ q # <<>> => Front(q) \in Prefixes(p)
  <2>1. PICK n \in 0..Len(p) : q = SubSeq(p, 1, n)
    BY <1>2
  <2>2. q \in Seq(STRING) /\ Len(q) = n
    BY <2>1, PrefixIs
  <2>3. ASSUME q # <<>> PROVE Front(q) \in Prefixes(p)
    <3>1. n # 0
      BY <1>3, <2>1, <2>3
    <3>2. n - 1 \in 0..n /\ n - 1 \in 0..Len(p)
      BY <1>1, <3>1
    <3>3. Front(q) = SubSeq(p, 1, n - 1)
      BY <2>1, <2>2, <3>2, PrefixIs DEF Front
    <3> QED
      BY <1>2, <3>2, <3>3
  <2> QED
    BY <1>1, <2>2, <2>3
<1> QED
  BY <1>4, <1>5

-----------------------------------------------------------------------------
(* fixpath gives the sequence of a path's names *)

\* The names of the first n tokens, one after the other.
IsFixed(raw, w, n) ==
    w = [i \in 0..n |-> IF i = 0 THEN <<>> ELSE Token(w[i - 1], raw[i])]

\* There is such a sequence of paths for any number of tokens.
LEMMA FixedThere == ASSUME NEW raw PROVE \A n \in Nat : \E w : IsFixed(raw, w, n)
<1> DEFINE S == {n \in Nat : \E w : IsFixed(raw, w, n)}
<1>1. 0 \in S
  <2>1. IsFixed(raw, [i \in 0..0 |-> <<>>], 0)
    BY DEF IsFixed
  <2> QED
    BY <2>1
<1>2. ASSUME NEW n \in Nat \ {0}, n - 1 \in S
      PROVE  n \in S
  <2>1. PICK w : IsFixed(raw, w, n - 1)
    BY <1>2
  <2> DEFINE v == [i \in 0..n |-> IF i \in 0..n - 1 THEN w[i] ELSE Token(w[i - 1], raw[i])]
  <2>2. \A k \in 0..n - 1 : v[k] = w[k]
    OBVIOUS
  <2>3. \A k \in 0..n - 1 : w[k] = IF k = 0 THEN <<>> ELSE Token(w[k - 1], raw[k])
    BY <2>1 DEF IsFixed
  <2>4. ASSUME NEW i \in 0..n
        PROVE  v[i] = IF i = 0 THEN <<>> ELSE Token(v[i - 1], raw[i])
    <3>1. CASE i \in 0..n - 1
      BY <2>2, <2>3, <3>1
    <3>2. CASE i = n
      <4>1. i - 1 \in 0..n - 1 /\ i \notin 0..n - 1 /\ i # 0
        BY <3>2
      <4> QED
        BY <2>2, <4>1
    <3> QED
      BY <3>1, <3>2
  <2>5. IsFixed(raw, v, n)
    BY <2>4 DEF IsFixed
  <2> QED
    BY <2>5
<1>3. ASSUME NEW n \in Nat PROVE n \in S
  <2>1. \A k \in 1..n : k - 1 \in S => k \in S
    BY <1>2
  <2> HIDE DEF S
  <2> QED
    BY <1>1, <2>1, UpTo
<1> QED
  BY <1>3

\* One value makes a sequence.
LEMMA OneIsSeq == ASSUME NEW S, NEW x \in S PROVE <<x>> \in Seq(S)
OBVIOUS

\* One token takes a path to a path.
LEMMA TokenTyped ==
    ASSUME NEW p \in Seq(STRING), NEW t \in STRING
    PROVE  Token(p, t) \in Seq(STRING)
<1>1. t = ".." => <<"..">> \in Seq(STRING)
  <2>1. <<t>> \in Seq(STRING)
    BY OneIsSeq
  <2> QED
    BY <2>1
<1>2. p \notin {<<>>, <<"..">>} => Front(p) \in Seq(STRING)
  BY FrontIs
<1>3. Append(p, t) \in Seq(STRING)
  BY AppendProperties
<1> QED
  BY <1>1, <1>2, <1>3 DEF Token

\* Every path the program can name is a sequence of names.
LEMMA PathsTyped == Paths \subseteq Seq(STRING)
<1> SUFFICES ASSUME NEW raw \in Raw PROVE fixpath(raw) \in Seq(STRING)
  BY DEF Paths
<1> DEFINE n == Len(raw)
           w == CHOOSE w : IsFixed(raw, w, n)
<1>1. raw \in Seq(STRING) /\ n \in Nat /\ \A i \in 1..n : raw[i] \in STRING
  BY RawAssumption, LenProperties, ElementOfSeq
<1>2. IsFixed(raw, w, n)
  BY <1>1, FixedThere
<1>3. fixpath(raw) = w[n]
  BY DEF fixpath, IsFixed
<1> HIDE DEF w, n
<1>4. \A i \in 0..n : w[i] = IF i = 0 THEN <<>> ELSE Token(w[i - 1], raw[i])
  BY <1>2 DEF IsFixed
<1> DEFINE S == {i \in 0..n : w[i] \in Seq(STRING)}
<1>5. 0 \in S
  <2>1. 0 \in 0..n /\ w[0] = <<>>
    BY <1>1, <1>4
  <2> QED
    BY <2>1, EmptySeq
<1>6. ASSUME NEW i \in 1..n, i - 1 \in S
      PROVE  i \in S
  <2>1. i \in 0..n /\ i # 0 /\ w[i] = Token(w[i - 1], raw[i])
    BY <1>1, <1>4
  <2> QED
    BY <1>1, <1>6, <2>1, TokenTyped
<1>7. 0..n \subseteq S
  <2> HIDE DEF S
  <2> QED
    BY <1>1, <1>5, <1>6, UpTo
<1> QED
  BY <1>1, <1>3, <1>7

-----------------------------------------------------------------------------
(* Trees: what each operation on the file system leaves of one *)

IsTree(f) ==
    /\ DOMAIN f = {"dirs", "size"}
    /\ f.dirs \subseteq Seq(STRING) /\ DOMAIN f.size \subseteq Seq(STRING)
    /\ \A p \in DOMAIN f.size : f.size[p] \in 0..MaxSize
    /\ <<>> \in f.dirs
    /\ f.dirs \cap DOMAIN f.size = {}
    /\ \A p \in f.dirs \cup DOMAIN f.size : p # <<>> => Front(p) \in f.dirs

\* recurse_mkdir leaves no gap on the way, and no file is in its way.
LEMMA MkdirTree ==
    ASSUME NEW f, IsTree(f), NEW p \in Seq(STRING)
    PROVE  /\ IsTree(recurse_mkdir(f, p))
           /\ recurse_mkdir(f, p).size = f.size
           /\ recurse_mkdir(f, p).dirs \subseteq f.dirs \cup Prefixes(p)
<1>1. CASE ~ CanMakeDir(f, p)
  BY <1>1 DEF recurse_mkdir, IsTree
<1>2. CASE CanMakeDir(f, p)
  <2> DEFINE g == recurse_mkdir(f, p)
  <2>1. g = [f EXCEPT !.dirs = @ \cup Prefixes(p)]
    BY <1>2 DEF recurse_mkdir
  <2>2. DOMAIN g = {"dirs", "size"} /\ g.dirs = f.dirs \cup Prefixes(p) /\ g.size = f.size
    BY <2>1 DEF IsTree
  <2>3. Prefixes(p) \cap DOMAIN f.size = {}
    BY <1>2 DEF CanMakeDir
  <2> HIDE DEF g
  <2>4. \A q \in g.dirs \cup DOMAIN g.size : q # <<>> => Front(q) \in g.dirs
    BY <2>2, PrefixesIs DEF IsTree
  <2>5. IsTree(g)
    BY <2>2, <2>3, <2>4, PrefixesIs DEF IsTree
  <2> QED
    BY <2>2, <2>5 DEF g
<1> QED
  BY <1>1, <1>2

\* The directories above a path are made; the path itself is not.
LEMMA ParentsTree ==
    ASSUME NEW f, IsTree(f), NEW p \in Seq(STRING)
    PROVE  /\ IsTree(MakeParents(f, p))
           /\ MakeParents(f, p).size = f.size
           /\ p \notin f.dirs => p \notin MakeParents(f, p).dirs
<1>1. CASE p = <<>>
  BY <1>1 DEF MakeParents
<1>2. CASE p # <<>>
  <2>1. Front(p) \in Seq(STRING) /\ Len(Front(p)) = Len(p) - 1 /\ Len(p) \in Nat \ {0}
    BY <1>2, FrontIs
  <2>2. p \notin Prefixes(Front(p))
    <3>1. \A q \in Prefixes(Front(p)) : Len(q) <= Len(Front(p))
      BY <2>1, PrefixesIs
    <3> QED
      BY <2>1, <3>1
  <2>3. MakeParents(f, p) = recurse_mkdir(f, Front(p))
    BY <1>2 DEF MakeParents
  <2> QED
    BY <2>1, <2>2, <2>3, MkdirTree
<1> QED
  BY <1>1, <1>2

\* A file gets its size, an old one or a new one in a directory.
LEMMA SizeTree ==
    ASSUME NEW f, IsTree(f), NEW p \in Seq(STRING), NEW n \in 0..MaxSize,
           \/ p \in DOMAIN f.size
           \/ p # <<>> /\ p \notin f.dirs /\ Front(p) \in f.dirs
    PROVE  /\ IsTree(SetSize(f, p, n))
           /\ DOMAIN SetSize(f, p, n).size = DOMAIN f.size \cup {p}
           /\ SetSize(f, p, n).dirs = f.dirs
<1> DEFINE g == SetSize(f, p, n)
           s == [q \in DOMAIN f.size \cup {p} |-> IF q = p THEN n ELSE f.size[q]]
<1>1. g = [f EXCEPT !.size = s]
  BY DEF SetSize
<1>2. /\ DOMAIN s = DOMAIN f.size \cup {p}
      /\ \A q \in DOMAIN s : s[q] \in 0..MaxSize
  BY DEF IsTree
<1> HIDE DEF s
<1>3. DOMAIN g = {"dirs", "size"} /\ g.dirs = f.dirs /\ g.size = s
  BY <1>1 DEF IsTree
<1> HIDE DEF g
<1>4. p # <<>> /\ p \notin f.dirs /\ Front(p) \in f.dirs
  BY DEF IsTree
<1>5. IsTree(g)
  BY <1>2, <1>3, <1>4 DEF IsTree
<1> QED
  BY <1>2, <1>3, <1>5 DEF g

\* What aux_copy hands on from one entry to the next.
IsDone(d, f) ==
    /\ DOMAIN d = {"fs", "ok", "left"}
    /\ IsTree(d.fs) /\ DOMAIN f.size \subseteq DOMAIN d.fs.size
    /\ d.ok \in BOOLEAN /\ d.left \in Nat

\* A copy over a file changes its size, and may have made directories.
LEMMA CopyOverTree ==
    ASSUME NEW f, IsTree(f), NEW n \in 0..MaxSize, NEW to \in Seq(STRING),
           NEW readable \in BOOLEAN
    PROVE  IsDone(CopyOver(f, n, to, readable), f)
           /\ CopyOver(f, n, to, readable).left = 0
<1> DEFINE g == MakeParents(f, to)
           m == IF n > g.size[to] THEN n ELSE g.size[to]
<1>1. IsTree(g) /\ g.size = f.size
  BY ParentsTree
<1>2. CASE readable /\ to \in DOMAIN g.size
  <2>1. CopyOver(f, n, to, readable) = [fs |-> SetSize(g, to, m), ok |-> TRUE, left |-> 0]
    BY <1>2 DEF CopyOver
  <2>2. m \in 0..MaxSize
    BY <1>1, <1>2 DEF IsTree
  <2> HIDE DEF g, m
  <2>3. IsTree(SetSize(g, to, m)) /\ DOMAIN SetSize(g, to, m).size = DOMAIN g.size \cup {to}
    BY <1>1, <1>2, <2>2, SizeTree
  <2> QED
    BY <1>1, <2>1, <2>3 DEF IsDone
<1>3. CASE ~ (readable /\ to \in DOMAIN g.size)
  <2>1. CopyOver(f, n, to, readable) = [fs |-> g, ok |-> FALSE, left |-> 0]
    BY <1>3 DEF CopyOver
  <2> HIDE DEF g
  <2> QED
    BY <1>1, <2>1 DEF IsDone
<1> QED
  BY <1>2, <1>3

-----------------------------------------------------------------------------
(* aux_copy of the ROM *)

\* What a copy of ROM entries has come to behind the first n of them: each
\* directory on the way had an iterator, and a copy that failed holds one for
\* every level above the entry it failed at.
CopyInv(from, d, n) ==
    /\ IsDone(d, fs)
    /\ d.ok => /\ d.left = 0
               /\ \A k \in 1..n : IsPrefix(from, Rom[k].path) /\ Rom[k].dir
                                    => iters + Level(from, Rom[k]) < MaxDirs
    /\ iters + d.left <= MaxDirs
    /\ d.left > 0 => ~ d.ok /\ \E e \in Found(from) : e.dir

\* An entry of the ROM below `from`, and the directory it is in.
LEMMA EntryAbove ==
    ASSUME NEW from \in Seq(STRING), Len(from) >= 2, NEW i \in DOMAIN Rom,
           IsPrefix(from, Rom[i].path), Len(Rom[i].path) > Len(from)
    PROVE  /\ \E e \in Found(from) : e.dir
           /\ \E j \in 1..i - 1 :
                /\ IsPrefix(from, Rom[j].path) /\ Rom[j].dir
                /\ Level(from, Rom[j]) = Level(from, Rom[i]) - 1
<1> DEFINE p == Rom[i].path
<1>1. /\ Len(Rom) \in Nat /\ DOMAIN Rom = 1..Len(Rom) /\ \A k \in DOMAIN Rom : Rom[k] \in RomEntry
      /\ \A n \in 2..Len(p) - 1 :
           \E j \in 1..i - 1 : Rom[j].dir /\ Rom[j].path = SubSeq(p, 1, n)
  BY RomAssumption, LenProperties, ElementOfSeq
<1>2. p \in Seq(STRING) /\ Len(p) \in Nat /\ Len(from) \in Nat
  BY <1>1, LenProperties DEF RomEntry
<1>3. SubSeq(p, 1, Len(from)) = from
  BY SubSeqFull DEF IsPrefix
<1>4. Len(from) \in 2..Len(p) - 1 /\ Len(p) - 1 \in 2..Len(p) - 1
  BY <1>2
<1>5. PICK k \in 1..i - 1 : Rom[k].dir /\ Rom[k].path = from
  BY <1>1, <1>3, <1>4
<1>6. PICK j \in 1..i - 1 : Rom[j].dir /\ Rom[j].path = SubSeq(p, 1, Len(p) - 1)
  BY <1>1, <1>4
<1>7. k \in DOMAIN Rom
  BY <1>1
<1>8. \E e \in Found(from) : e.dir
  BY <1>5, <1>7 DEF Found, ToSet
<1>9. Len(Rom[j].path) = Len(p) - 1 /\ IsPrefix(from, Rom[j].path)
  <2> DEFINE q == Rom[j].path
  <2>1. Len(p) - 1 \in 0..Len(p) /\ Len(from) \in 0..Len(p) - 1
    BY <1>2, <1>4
  <2>2. Len(q) = Len(p) - 1 /\ SubSeq(q, 1, Len(from)) = SubSeq(p, 1, Len(from))
    BY <1>2, <1>6, <2>1, PrefixIs
  <2>3. SubSeq(from, 1, Len(from)) = from
    BY SubSeqFull
  <2>4. SubSeq(from, 1, Len(from)) = SubSeq(q, 1, Len(from))
    BY <1>3, <2>2, <2>3
  <2>5. Len(from) <= Len(q)
    BY <1>2, <2>1, <2>2
  <2> HIDE DEF q
  <2>6. IsPrefix(from, q)
    BY <2>4, <2>5 DEF IsPrefix
  <2> QED
    BY <2>2, <2>6 DEF q
<1>10. Level(from, Rom[j]) = Level(from, Rom[i]) - 1
  BY <1>2, <1>9 DEF Level
<1> QED
  BY <1>6, <1>8, <1>9, <1>10

\* One entry more.
LEMMA CopyEntryInv ==
    ASSUME IsTree(fs), iters \in 0..MaxDirs,
           NEW from \in Seq(STRING), Len(from) >= 2, NEW to \in Seq(STRING),
           NEW n \in DOMAIN Rom, NEW d, CopyInv(from, d, n - 1)
    PROVE  CopyInv(from, CopyEntry(from, to, d, Rom[n]), n)
<1> DEFINE e == Rom[n]
           level == Level(from, e)
           dest == to \o SubSeq(e.path, Len(from) + 1, Len(e.path))
           copy == CopyOver(d.fs, e.size, dest, fds # 1..MaxFds)
           r == CopyEntry(from, to, d, e)
<1>0. /\ n \in Nat \ {0} /\ MaxDirs \in Nat \ {0} /\ MaxSize \in Nat
      /\ e \in RomEntry /\ e.size <= MaxSize
  BY RomAssumption, BoundsAssumption, LenProperties, ElementOfSeq
<1>1. /\ e.path \in Seq(STRING) /\ e.dir \in BOOLEAN /\ e.size \in 0..MaxSize
      /\ Len(e.path) \in Nat /\ Len(from) \in Nat
  BY <1>0, LenProperties DEF RomEntry
<1>2. IsDone(d, fs)
  BY DEF CopyInv
<1>3. CASE ~ d.ok
  BY <1>3 DEF CopyInv, CopyEntry
<1>4. CASE d.ok /\ ~ IsPrefix(from, e.path)
  <2>1. r = d
    BY <1>4 DEF CopyEntry
  <2>2. \A k \in 1..n : k \in 1..n - 1 \/ k = n
    BY <1>0
  <2> HIDE DEF r, level
  <2> QED
    BY <1>4, <2>1, <2>2 DEF CopyInv, r
<1>5. CASE d.ok /\ IsPrefix(from, e.path)
  <2>1. level \in Nat /\ (level > 0 => Len(e.path) > Len(from))
    BY <1>1, <1>5 DEF Level, IsPrefix
  <2>2. level > 0 => /\ \E x \in Found(from) : x.dir
                     /\ iters + level <= MaxDirs
    <3> SUFFICES ASSUME level > 0
                 PROVE  /\ \E x \in Found(from) : x.dir
                        /\ iters + level <= MaxDirs
      OBVIOUS
    <3>1. PICK j \in 1..n - 1 : /\ IsPrefix(from, Rom[j].path) /\ Rom[j].dir
                               /\ Level(from, Rom[j]) = level - 1
      BY <1>5, <2>1, EntryAbove
    <3>2. iters + Level(from, Rom[j]) < MaxDirs
      BY <1>5, <3>1 DEF CopyInv
    <3>3. \E x \in Found(from) : x.dir
      BY <1>5, <2>1, EntryAbove
    <3> HIDE DEF level
    <3> QED
      BY <1>0, <2>1, <3>1, <3>2, <3>3
  <2>3. CASE ~ e.dir
    <3>1. r = [copy EXCEPT !.left = IF copy.ok THEN 0 ELSE level]
      BY <1>5, <2>3 DEF CopyEntry
    <3>2. dest \in Seq(STRING)
      <4>1. \A i \in Len(from) + 1..Len(e.path) : e.path[i] \in STRING
        BY <1>1, ElementOfSeq
      <4>2. SubSeq(e.path, Len(from) + 1, Len(e.path)) \in Seq(STRING)
        BY <1>1, <4>1, SubSeqProperties
      <4> QED
        BY <4>2, ConcatProperties
    <3>3. IsDone(copy, d.fs)
      <4>1. (fds # 1..MaxFds) \in BOOLEAN
        OBVIOUS
      <4> HIDE DEF dest
      <4> QED
        BY <1>1, <1>2, <3>2, <4>1, CopyOverTree DEF IsDone
    <3> HIDE DEF copy, level
    <3>4. /\ DOMAIN r = {"fs", "ok", "left"} /\ r.fs = copy.fs /\ r.ok = copy.ok
          /\ r.left = IF copy.ok THEN 0 ELSE level
      BY <3>1, <3>3 DEF IsDone
    <3> HIDE DEF r
    <3>5. IsDone(r, fs)
      BY <1>2, <2>1, <3>3, <3>4 DEF IsDone
    <3>6. r.ok => \A k \in 1..n : IsPrefix(from, Rom[k].path) /\ Rom[k].dir
                                   => iters + Level(from, Rom[k]) < MaxDirs
      <4>1. \A k \in 1..n : k \in 1..n - 1 \/ k = n
        BY <1>0
      <4> QED
        BY <1>5, <2>3, <4>1 DEF CopyInv
    <3>7. iters + r.left <= MaxDirs /\ (r.left > 0 => \E x \in Found(from) : x.dir)
          /\ (r.ok => r.left = 0)
      BY <1>0, <2>1, <2>2, <3>4
    <3>8. r.left > 0 => ~ r.ok
      BY <3>4
    <3> QED
      BY <3>5, <3>6, <3>7, <3>8 DEF CopyInv, r
  <2>4. CASE e.dir /\ iters + level < MaxDirs
    <3>1. r = d
      BY <1>5, <2>4 DEF CopyEntry
    <3>2. \A k \in 1..n : k \in 1..n - 1 \/ k = n
      BY <1>0
    <3> HIDE DEF r
    <3> QED
      BY <1>5, <2>4, <3>1, <3>2 DEF CopyInv, r
  <2>5. CASE e.dir /\ ~ (iters + level < MaxDirs)
    <3>1. r = [d EXCEPT !.ok = FALSE, !.left = level]
      BY <1>5, <2>5 DEF CopyEntry
    <3> HIDE DEF level
    <3>2. /\ DOMAIN r = {"fs", "ok", "left"} /\ r.fs = d.fs /\ r.ok = FALSE /\ r.left = level
      BY <1>2, <3>1 DEF IsDone
    <3> HIDE DEF r
    <3>3. IsDone(r, fs)
      BY <1>2, <2>1, <3>2 DEF IsDone
    <3>4. iters + r.left <= MaxDirs /\ (r.left > 0 => \E x \in Found(from) : x.dir)
      BY <1>0, <2>1, <2>2, <3>2
    <3> QED
      BY <3>2, <3>3, <3>4 DEF CopyInv, r
  <2> QED
    BY <2>3, <2>4, <2>5, <1>1
<1> QED
  BY <1>2, <1>3, <1>4, <1>5 DEF IsDone

\* The copies of the first n entries, one after the other.
IsCopied(from, to, w, n) ==
    w = [i \in 0..n |-> IF i = 0 THEN [fs |-> fs, ok |-> TRUE, left |-> 0]
                        ELSE CopyEntry(from, to, w[i - 1], Rom[i])]

\* There is such a sequence for any number of entries.
LEMMA CopiedThere == ASSUME NEW from, NEW to PROVE \A n \in Nat : \E w : IsCopied(from, to, w, n)
<1> DEFINE S == {n \in Nat : \E w : IsCopied(from, to, w, n)}
           start == [fs |-> fs, ok |-> TRUE, left |-> 0]
<1>1. 0 \in S
  <2>1. IsCopied(from, to, [i \in 0..0 |-> start], 0)
    BY DEF IsCopied
  <2> QED
    BY <2>1
<1>2. ASSUME NEW n \in Nat \ {0}, n - 1 \in S
      PROVE  n \in S
  <2>1. PICK w : IsCopied(from, to, w, n - 1)
    BY <1>2
  <2> DEFINE v == [i \in 0..n |-> IF i \in 0..n - 1 THEN w[i]
                                  ELSE CopyEntry(from, to, w[i - 1], Rom[i])]
  <2>2. \A k \in 0..n - 1 : v[k] = w[k]
    OBVIOUS
  <2>3. \A k \in 0..n - 1 : w[k] = IF k = 0 THEN start
                                   ELSE CopyEntry(from, to, w[k - 1], Rom[k])
    BY <2>1 DEF IsCopied
  <2> HIDE DEF start
  <2>4. ASSUME NEW i \in 0..n
        PROVE  v[i] = IF i = 0 THEN start ELSE CopyEntry(from, to, v[i - 1], Rom[i])
    <3>1. CASE i \in 0..n - 1
      BY <2>2, <2>3, <3>1
    <3>2. CASE i = n
      <4>1. i - 1 \in 0..n - 1 /\ i \notin 0..n - 1 /\ i # 0
        BY <3>2
      <4> QED
        BY <2>2, <4>1
    <3> QED
      BY <3>1, <3>2
  <2>5. IsCopied(from, to, v, n)
    BY <2>4 DEF IsCopied, start
  <2> QED
    BY <2>5
<1>3. ASSUME NEW n \in Nat PROVE n \in S
  <2>1. \A k \in 1..n : k - 1 \in S => k \in S
    BY <1>2
  <2> HIDE DEF S
  <2> QED
    BY <1>1, <2>1, UpTo
<1> QED
  BY <1>3

\* Whatever the ROM holds, its copy leaves a tree, and iterators only behind
\* a directory whose copy failed.
LEMMA CopyEntriesInv ==
    ASSUME IsTree(fs), iters \in 0..MaxDirs,
           NEW from \in Seq(STRING), Len(from) >= 2, NEW to \in Seq(STRING)
    PROVE  CopyInv(from, CopyEntries(from, to), Len(Rom))
<1> DEFINE n == Len(Rom)
           w == CHOOSE w : IsCopied(from, to, w, n)
<1>1. n \in Nat /\ DOMAIN Rom = 1..n /\ MaxDirs \in Nat
  BY RomAssumption, BoundsAssumption, LenProperties
<1>2. IsCopied(from, to, w, n)
  BY <1>1, CopiedThere
<1>3. CopyEntries(from, to) = w[n]
  BY DEF CopyEntries, IsCopied
<1> HIDE DEF w, n
<1>4. \A i \in 0..n : w[i] = IF i = 0 THEN [fs |-> fs, ok |-> TRUE, left |-> 0]
                             ELSE CopyEntry(from, to, w[i - 1], Rom[i])
  BY <1>2 DEF IsCopied
<1> DEFINE S == {i \in 0..n : CopyInv(from, w[i], i)}
<1>5. 0 \in S
  <2>1. 0 \in 0..n
    BY <1>1
  <2>2. w[0] = [fs |-> fs, ok |-> TRUE, left |-> 0]
    BY <1>4, <2>1
  <2>3. IsDone(w[0], fs) /\ w[0].left = 0
    BY <2>2 DEF IsDone
  <2>4. CopyInv(from, w[0], 0)
    BY <1>1, <2>3 DEF CopyInv
  <2> QED
    BY <2>1, <2>4
<1>6. ASSUME NEW i \in 1..n, i - 1 \in S
      PROVE  i \in S
  <2>1. i \in 0..n /\ i \in DOMAIN Rom /\ w[i] = CopyEntry(from, to, w[i - 1], Rom[i])
    BY <1>1, <1>4
  <2> QED
    BY <1>6, <2>1, CopyEntryInv
<1>7. 0..n \subseteq S
  <2> HIDE DEF S
  <2> QED
    BY <1>1, <1>5, <1>6, UpTo
<1>8. n \in S
  BY <1>1, <1>7
<1> QED
  BY <1>3, <1>8 DEF n

\* The same of every copy.
LEMMA CopyTree ==
    ASSUME IsTree(fs), iters \in 0..MaxDirs,
           NEW from \in Seq(STRING), NEW to \in Seq(STRING)
    PROVE  LET d == aux_copy(from, to)
           IN  /\ IsDone(d, fs) /\ iters + d.left <= MaxDirs
               /\ d.left > 0 => ~ d.ok /\ \E e \in Found(from) : e.dir
<1>0. MaxDirs \in Nat
  BY BoundsAssumption
<1>1. CASE InRom(from) /\ Found(from) # {}
  <2>1. Len(from) >= 2
    <3>1. PICK i \in DOMAIN Rom : Rom[i].path = from
      BY <1>1 DEF Found, ToSet
    <3> QED
      BY <3>1, RomAssumption
  <2>2. aux_copy(from, to) = CopyEntries(from, to)
    BY <1>1 DEF aux_copy, CopyRom
  <2> QED
    BY <2>1, <2>2, CopyEntriesInv DEF CopyInv
<1>2. CASE InRom(from) /\ Found(from) = {}
  BY <1>0, <1>2 DEF aux_copy, CopyRom, IsDone
<1>3. CASE ~ InRom(from) /\ from \in DOMAIN fs.size
  <2>1. aux_copy(from, to) = CopyOver(fs, fs.size[from], to, TRUE)
    BY <1>3 DEF aux_copy, CopyLfs
  <2>2. fs.size[from] \in 0..MaxSize
    BY <1>3 DEF IsTree
  <2>3. IsDone(aux_copy(from, to), fs) /\ aux_copy(from, to).left = 0
    BY <2>1, <2>2, CopyOverTree
  <2> QED
    BY <1>0, <2>3
<1>4. CASE ~ InRom(from) /\ from \notin DOMAIN fs.size
  BY <1>0, <1>4 DEF aux_copy, CopyLfs, IsDone
<1> QED
  BY <1>1, <1>2, <1>3, <1>4


-----------------------------------------------------------------------------
(* The tree under the open files *)

HandleSet ==
    [type : {"closed", "rom", "lfs"}, path : {<<>>} \cup Paths, size : 0..MaxSize,
     dirty : BOOLEAN, writes : BOOLEAN, fd : 0..MaxFds]

\* A file of littlefs that is open is in the tree, until it is removed.
HandleInv ==
    /\ handles \in [Handles -> HandleSet]
    /\ \A h \in Handles : handles[h].type = "lfs" /\ handles[h].path # <<>>
                            => handles[h].path \in DOMAIN fs.size

FrameSet == [path : Seq(STRING), left : SUBSET (Dots \cup STRING), failed : BOOLEAN]

\* The inductive invariant: the tree has no gap, what the handles will commit
\* is in it, and the iterators a failed copy left fit their table.
FsInv ==
    /\ IsTree(fs)
    /\ HandleInv
    /\ iters \in 0..MaxDirs /\ IteratorsReturned
    /\ cache = None \/ DOMAIN cache = {"dirs", "size"}
    /\ stack \in Seq(FrameSet)
    /\ torn \in BOOLEAN /\ partial \in BOOLEAN

\* The numbers of the tables.
LEMMA Bounds == MaxFds \in Nat \ {0} /\ MaxDirs \in Nat \ {0} /\ MaxSize \in Nat \ {0}
BY BoundsAssumption

\* A closed handle is one of those.
LEMMA ClosedIsHandle == Closed \in HandleSet /\ Closed.type = "closed"
BY Bounds DEF Closed, HandleSet

\* A tree that keeps its files serves the handles that are open on it.
LEMMA SameHandles ==
    ASSUME HandleInv, handles' = handles, DOMAIN fs.size \subseteq DOMAIN fs'.size
    PROVE  HandleInv'
BY DEF HandleInv

\* So does it when one handle changes, and its file is there.
LEMMA OneHandle ==
    ASSUME HandleInv, NEW h \in Handles, NEW new \in HandleSet,
           handles' = [handles EXCEPT ![h] = new],
           new.type = "lfs" /\ new.path # <<>> => new.path \in DOMAIN fs'.size,
           DOMAIN fs.size \subseteq DOMAIN fs'.size
    PROVE  HandleInv'
<1>1. /\ handles' \in [Handles -> HandleSet]
      /\ \A g \in Handles : handles'[g] = IF g = h THEN new ELSE handles[g]
  BY DEF HandleInv
<1> QED
  BY <1>1 DEF HandleInv

\* The empty tree with its root.
LEMMA InitFs == Init => FsInv
<1> SUFFICES ASSUME Init PROVE FsInv
  OBVIOUS
<1>1. DOMAIN fs = {"dirs", "size"} /\ fs.dirs = {<<>>} /\ fs.size = <<>>
  BY DEF Init
<1>2. DOMAIN fs.size = {} /\ <<>> \in Seq(STRING)
  BY <1>1, EmptySeq
<1>3. IsTree(fs)
  BY <1>1, <1>2 DEF IsTree
<1>4. handles = [h \in Handles |-> Closed]
  BY DEF Init, AllClosed
<1>5. HandleInv
  BY <1>4, ClosedIsHandle DEF HandleInv
<1>6. /\ iters = 0 /\ cache = None
      /\ stack = <<>> /\ torn = FALSE /\ partial = FALSE
  BY DEF Init
<1>7. iters \in 0..MaxDirs /\ IteratorsReturned /\ stack \in Seq(FrameSet)
  BY <1>6, Bounds DEF IteratorsReturned
<1> QED
  BY <1>3, <1>5, <1>6, <1>7 DEF FsInv

\* makeDir, and the directories a move makes before it fails.
LEMMA DirsKeep ==
    ASSUME FsInv, NEW p \in Paths, MakeDir(p) \/ \E from \in Paths : Move(from, p)
    PROVE  FsInv'
<1>1. p \in Seq(STRING)
  BY PathsTyped
<1>2. fs' = recurse_mkdir(fs, p) \/ fs' = MakeParents(fs, p)
  BY DEF MakeDir, Move
<1>3. IsTree(fs') /\ fs'.size = fs.size
  BY <1>1, <1>2, MkdirTree, ParentsTree DEF FsInv
<1>4. /\ handles' = handles /\ iters' = iters /\ torn' = torn /\ stack' = stack
      /\ cache' \in {None, cache} /\ partial' \in BOOLEAN
  BY DEF MakeDir, Move, FsInv
<1>5. HandleInv'
  BY <1>3, <1>4, SameHandles DEF FsInv
<1> QED
  BY <1>3, <1>4, <1>5 DEF FsInv, IteratorsReturned

\* copy, of the ROM or of littlefs.
LEMMA CopyKeeps ==
    ASSUME FsInv, NEW from \in Paths, NEW to \in Paths, Copy(from, to)
    PROVE  FsInv'
<1> DEFINE d == aux_copy(from, to)
<1>1. /\ IsDone(d, fs) /\ iters + d.left <= MaxDirs
      /\ d.left > 0 => ~ d.ok /\ \E e \in Found(from) : e.dir
  BY PathsTyped, CopyTree DEF FsInv
<1>2. /\ fs' = d.fs /\ iters' = iters + d.left
      /\ torn' = (torn \/ (~ d.ok /\ \E e \in Found(from) : e.dir))
      /\ cache' \in {None, cache} /\ partial' \in BOOLEAN
      /\ handles' = handles /\ stack' = stack
  BY DEF Copy, FsInv
<1> HIDE DEF d
<1>3. IsTree(fs') /\ HandleInv'
  BY <1>1, <1>2, SameHandles DEF IsDone, FsInv
<1>4. iters' \in 0..MaxDirs /\ IteratorsReturned' /\ torn' \in BOOLEAN
  <2>0. /\ iters \in 0..MaxDirs /\ IteratorsReturned /\ torn \in BOOLEAN
        /\ d.left \in Nat /\ d.ok \in BOOLEAN
    BY <1>1 DEF IsDone, FsInv
  <2>1. iters' \in 0..MaxDirs
    BY <1>1, <1>2, <2>0, Bounds
  <2>2. torn' \in BOOLEAN /\ (torn => torn') /\ (d.left > 0 => torn')
    BY <1>1, <1>2, <2>0
  <2>3. iters' > 0 => iters > 0 \/ d.left > 0
    BY <1>2, <2>0
  <2> QED
    BY <2>0, <2>1, <2>2, <2>3 DEF IteratorsReturned
<1> QED
  BY <1>2, <1>3, <1>4 DEF FsInv

\* A file goes, and no handle commits to it any more, or a directory with
\* nothing in it.
LEMMA RemoveTree ==
    ASSUME FsInv, NEW p, lfs_remove(p)
    PROVE  IsTree(fs') /\ HandleInv'
<1> DEFINE s == Restrict(fs.size, DOMAIN fs.size \ {p})
<1>1. DOMAIN s = DOMAIN fs.size \ {p} /\ \A q \in DOMAIN s : s[q] = fs.size[q]
  BY DEF Restrict
<1>2. \/ p \in DOMAIN fs.size /\ fs' = [fs EXCEPT !.size = s]
      \/ /\ p \notin DOMAIN fs.size /\ p # <<>> /\ Names(p) = {}
         /\ fs' = [fs EXCEPT !.dirs = @ \ {p}]
      \/ p \notin DOMAIN fs.size /\ fs' = fs
  BY DEF lfs_remove
<1> HIDE DEF s
<1>3. IsTree(fs)
  BY DEF FsInv
<1>4. IsTree(fs') /\ DOMAIN fs'.size = DOMAIN fs.size \ {p}
  <2>1. CASE p \in DOMAIN fs.size /\ fs' = [fs EXCEPT !.size = s]
    <3>1. DOMAIN fs' = {"dirs", "size"} /\ fs'.dirs = fs.dirs /\ fs'.size = s
      BY <1>3, <2>1 DEF IsTree
    <3> QED
      BY <1>1, <1>3, <3>1 DEF IsTree
  <2>2. CASE /\ p \notin DOMAIN fs.size /\ p # <<>> /\ Names(p) = {}
             /\ fs' = [fs EXCEPT !.dirs = @ \ {p}]
    <3>1. DOMAIN fs' = {"dirs", "size"} /\ fs'.dirs = fs.dirs \ {p} /\ fs'.size = fs.size
      BY <1>3, <2>2 DEF IsTree
    <3>2. \A q \in fs.dirs \cup DOMAIN fs.size : q # <<>> => Front(q) # p
      BY <2>2 DEF Names
    <3> QED
      BY <1>3, <2>2, <3>1, <3>2 DEF IsTree
  <2>3. CASE p \notin DOMAIN fs.size /\ fs' = fs
    BY <1>3, <2>3
  <2> QED
    BY <1>2, <2>1, <2>2, <2>3
<1>5. handles' = [h \in Handles |-> Detach(handles[h], p)]
  BY DEF lfs_remove
<1>6. ASSUME NEW h \in Handles
      PROVE  /\ Detach(handles[h], p) \in HandleSet
             /\ Detach(handles[h], p).type = "lfs" /\ Detach(handles[h], p).path # <<>>
                  => Detach(handles[h], p).path \in DOMAIN fs.size \ {p}
  <2> DEFINE r == handles[h]
  <2>1. r \in HandleSet /\ (r.type = "lfs" /\ r.path # <<>> => r.path \in DOMAIN fs.size)
    BY DEF FsInv, HandleInv
  <2>2. Detach(r, p) = [r EXCEPT !.path = IF r.type = "lfs" /\ r.path = p THEN <<>> ELSE r.path]
    BY DEF Detach
  <2> HIDE DEF r
  <2>3. Detach(r, p) \in HandleSet
    BY <2>1, <2>2 DEF HandleSet
  <2>4. /\ Detach(r, p).type = r.type
        /\ Detach(r, p).path = IF r.type = "lfs" /\ r.path = p THEN <<>> ELSE r.path
    BY <2>1, <2>2 DEF HandleSet
  <2> QED
    BY <2>1, <2>3, <2>4 DEF r
<1>7. HandleInv'
  BY <1>4, <1>5, <1>6 DEF HandleInv
<1> QED
  BY <1>4, <1>7

LEMMA DeleteFileKeeps ==
    ASSUME FsInv, NEW p \in Paths, DeleteFile(p)
    PROVE  FsInv'
<1>1. IsTree(fs') /\ HandleInv'
  BY RemoveTree DEF DeleteFile
<1> QED
  BY <1>1 DEF DeleteFile, FsInv, IteratorsReturned

\* A call of aux_delete on a directory, and what is left of it after a step.
LEMMA FrameTyped ==
    ASSUME IsTree(fs), NEW p \in Seq(STRING)
    PROVE  Frame(p) \in FrameSet
<1>1. ASSUME NEW q \in fs.dirs \cup DOMAIN fs.size, q # <<>>
      PROVE  Last(q) \in STRING
  <2>1. q \in Seq(STRING)
    BY DEF IsTree
  <2>2. Len(q) \in 1..Len(q)
    BY <1>1, <2>1, EmptySeq, LenProperties
  <2> QED
    BY <2>1, <2>2, ElementOfSeq DEF Last
<1>2. Names(p) \subseteq STRING
  BY <1>1 DEF Names
<1> QED
  BY <1>2 DEF Frame, FrameSet

LEMMA LastFrame ==
    ASSUME NEW q \in Seq(FrameSet), q # <<>>
    PROVE  Last(q) \in FrameSet /\ Front(q) \in Seq(FrameSet)
<1>1. Len(q) \in Nat /\ Len(q) > 0
  BY EmptySeq, LenProperties
<1>2. q[Len(q)] \in FrameSet
  BY <1>1, ElementOfSeq
<1>3. SubSeq(q, 1, Len(q) - 1) \in Seq(FrameSet)
  BY <1>1, SMTT(30)
<1> QED
  BY <1>2, <1>3 DEF Last, Front

LEMMA DeleteStepKeeps == ASSUME FsInv, DeleteStep PROVE FsInv'
<1> DEFINE frame == Last(stack)
           callers == Front(stack)
<1>1. IsTree(fs) /\ HandleInv /\ stack \in Seq(FrameSet) /\ stack # <<>>
  BY DEF FsInv, DeleteStep
<1>2. frame \in FrameSet /\ callers \in Seq(FrameSet)
  BY <1>1, LastFrame
<1>3. IsTree(fs') /\ HandleInv'
  BY <1>1, DeleteRemoves, RemoveTree, SameHandles
<1> HIDE DEF frame, callers
<1>4. ASSUME NEW name, NEW b \in BOOLEAN
      PROVE  [frame EXCEPT !.left = @ \ {name}, !.failed = @ \/ b] \in FrameSet
  BY <1>2 DEF FrameSet
<1>5. ASSUME DeleteEntry(frame, callers)
      PROVE  stack' \in Seq(FrameSet)
  <2>1. PICK name, p, b :
          LET caller == [frame EXCEPT !.left = @ \ {name}, !.failed = @ \/ b]
          IN /\ b \in BOOLEAN
             /\ IF p \in fs.dirs THEN stack' = callers \o <<caller, Frame(p)>>
                ELSE stack' = Append(callers, caller)
    <3>1. PICK name \in FirstOf(frame.left) :
            LET p == Below(frame.path, name)
                caller == [frame EXCEPT !.left = @ \ {name},
                                        !.failed = @ \/ ~ Exists(fs, p)]
            IN IF p \in fs.dirs THEN stack' = callers \o <<caller, Frame(p)>>
               ELSE stack' = Append(callers, caller)
      BY <1>5 DEF DeleteEntry
    <3> DEFINE q == Below(frame.path, name)
               c == ~ Exists(fs, q)
    <3>2. c \in BOOLEAN
      OBVIOUS
    <3>3. LET caller == [frame EXCEPT !.left = @ \ {name}, !.failed = @ \/ c]
          IN IF q \in fs.dirs THEN stack' = callers \o <<caller, Frame(q)>>
             ELSE stack' = Append(callers, caller)
      BY <3>1
    <3> HIDE DEF q, c
    <3> QED
      BY <3>2, <3>3
  <2> DEFINE caller == [frame EXCEPT !.left = @ \ {name}, !.failed = @ \/ b]
  <2>2. caller \in FrameSet
    BY <2>1, <1>4
  <2>3. p \in fs.dirs => Frame(p) \in FrameSet
    BY <1>1, FrameTyped DEF IsTree
  <2>4. \/ p \in fs.dirs /\ stack' = callers \o <<caller, Frame(p)>>
        \/ stack' = Append(callers, caller)
    BY <2>1
  <2> HIDE DEF caller
  <2>5. Append(callers, caller) \in Seq(FrameSet)
    BY <1>2, <2>2
  <2>6. ASSUME p \in fs.dirs
        PROVE  callers \o <<caller, Frame(p)>> \in Seq(FrameSet)
    <3>1. <<caller, Frame(p)>> \in Seq(FrameSet)
      BY <2>2, <2>3, <2>6
    <3> QED
      BY <1>2, <3>1, ConcatProperties
  <2> QED
    BY <2>4, <2>5, <2>6
<1>6. ASSUME DeleteSelf(frame, callers)
      PROVE  stack' \in Seq(FrameSet)
  <2>1. CASE callers = <<>>
    BY <1>6, <2>1 DEF DeleteSelf
  <2>2. CASE callers # <<>>
    <3>1. /\ Last(callers) \in FrameSet /\ Front(callers) \in Seq(FrameSet)
          /\ frame.failed \in BOOLEAN
      BY <1>2, <2>2, LastFrame DEF FrameSet
    <3>2. [Last(callers) EXCEPT !.failed = @ \/ frame.failed] \in FrameSet
      BY <3>1 DEF FrameSet
    <3>3. stack' = Append(Front(callers),
                          [Last(callers) EXCEPT !.failed = @ \/ frame.failed])
      BY <1>6, <2>2 DEF DeleteSelf
    <3> QED
      BY <3>1, <3>2, <3>3
  <2> QED
    BY <2>1, <2>2
<1>7. stack' \in Seq(FrameSet)
  BY <1>5, <1>6 DEF DeleteStep, frame, callers
<1>8. /\ UNCHANGED <<iters, torn>> /\ cache' \in {None, cache} /\ partial' \in BOOLEAN
  BY DeleteRemoves DEF FsInv
<1> QED
  BY <1>3, <1>7, <1>8 DEF FsInv, IteratorsReturned

\* A ROM handle knows no file of littlefs.
LEMMA OpenRomFs ==
    ASSUME FsInv, NEW h \in Handles, NEW p \in Paths, OpenRom(h, p)
    PROVE  FsInv'
<1>1. PICK fd \in 1..MaxFds : handles' = [handles EXCEPT
        ![h] = [Closed EXCEPT !.type = "rom", !.path = p, !.fd = fd]]
  BY DEF OpenRom
<1> DEFINE new == [Closed EXCEPT !.type = "rom", !.path = p, !.fd = fd]
<1>2. new \in HandleSet /\ new.type = "rom"
  <2>1. fd \in 0..MaxFds
    BY Bounds
  <2> QED
    BY <2>1, ClosedIsHandle DEF HandleSet
<1> HIDE DEF new
<1>3. UNCHANGED <<fs, iters, cache, stack, torn, partial>>
  BY DEF OpenRom
<1>4. HandleInv'
  BY <1>1, <1>2, <1>3, OneHandle DEF FsInv, new
<1> QED
  BY <1>3, <1>4 DEF FsInv, IteratorsReturned

\* A file that is opened is in the tree at once, and in a directory.
LEMMA OpenLfsFs ==
    ASSUME FsInv, NEW h \in Handles, NEW p \in Paths, NEW mode \in Modes,
           OpenLfs(h, p, mode)
    PROVE  FsInv'
<1> DEFINE g == IF mode = "r" THEN fs ELSE MakeParents(fs, p)
           fresh == p \notin DOMAIN g.size
           size == IF mode = "a" THEN fs'.size[p] ELSE 0
           dirty == mode # "a" /\ ~ fresh
           writes == mode # "r"
           new == [Closed EXCEPT !.type = "lfs", !.path = p, !.writes = writes,
                                 !.size = size, !.dirty = dirty]
<1>1. /\ p \notin fs.dirs
      /\ IF mode = "r" THEN ~ fresh ELSE Front(p) \in g.dirs
      /\ fs' = IF fresh THEN SetSize(g, p, 0) ELSE g
      /\ handles' = [handles EXCEPT ![h] = new]
      /\ UNCHANGED <<iters, cache, stack, torn, partial>>
  BY DEF OpenLfs
<1>2. p \in Seq(STRING) /\ p # <<>>
  BY <1>1, PathsTyped DEF FsInv, IsTree
<1>3. IsTree(g) /\ g.size = fs.size /\ p \notin g.dirs
  BY <1>1, <1>2, ParentsTree DEF FsInv
<1>4. writes \in BOOLEAN /\ dirty \in BOOLEAN
  OBVIOUS
<1> HIDE DEF g, dirty, writes
<1>5. IsTree(fs') /\ DOMAIN fs'.size = DOMAIN fs.size \cup {p}
  <2>1. CASE fresh
    <3>1. p # <<>> /\ p \notin g.dirs /\ Front(p) \in g.dirs
      BY <1>1, <1>2, <1>3, <2>1
    <3>2. 0 \in 0..MaxSize
      BY Bounds
    <3> QED
      BY <1>1, <1>2, <1>3, <2>1, <3>1, <3>2, SizeTree
  <2>2. CASE ~ fresh
    BY <1>1, <1>3, <2>2
  <2> QED
    BY <2>1, <2>2
<1>6. size \in 0..MaxSize
  BY <1>5, Bounds DEF IsTree
<1> HIDE DEF size
<1>7. new \in HandleSet /\ new.path = p
  BY <1>4, <1>6, ClosedIsHandle DEF HandleSet
<1> HIDE DEF new
<1>8. HandleInv'
  BY <1>1, <1>5, <1>7, OneHandle DEF FsInv
<1> QED
  BY <1>1, <1>5, <1>8 DEF FsInv, IteratorsReturned

\* What a handle commits is the size of a file that is there.
LEMMA CommitTree ==
    ASSUME FsInv, NEW h \in Handles
    PROVE  IsTree(Commit(handles[h])) /\ DOMAIN Commit(handles[h]).size = DOMAIN fs.size
<1> DEFINE r == handles[h]
<1>1. r \in HandleSet /\ (r.type = "lfs" /\ r.path # <<>> => r.path \in DOMAIN fs.size)
  BY DEF FsInv, HandleInv
<1> HIDE DEF r
<1>2. CASE r.type = "lfs" /\ r.dirty /\ r.path # <<>>
  <2>1. Commit(r) = SetSize(fs, r.path, r.size)
    BY <1>2 DEF Commit
  <2>2. r.path \in DOMAIN fs.size /\ r.path \in Seq(STRING) /\ r.size \in 0..MaxSize
    BY <1>1, <1>2 DEF FsInv, IsTree, HandleSet
  <2>3. IsTree(Commit(r)) /\ DOMAIN Commit(r).size = DOMAIN fs.size \cup {r.path}
    BY <2>1, <2>2, SizeTree DEF FsInv
  <2> QED
    BY <2>2, <2>3 DEF r
<1>3. CASE ~ (r.type = "lfs" /\ r.dirty /\ r.path # <<>>)
  BY <1>3 DEF Commit, FsInv, r
<1> QED
  BY <1>2, <1>3

\* write and flush, on the file the handle is on.
LEMMA WriteFs ==
    ASSUME FsInv, NEW h \in Handles, Write(h) \/ Flush(h)
    PROVE  FsInv'
<1> DEFINE r == handles[h]
<1>1. r \in HandleSet /\ (r.type = "lfs" /\ r.path # <<>> => r.path \in DOMAIN fs.size)
  BY DEF FsInv, HandleInv
<1>2. PICK new \in HandleSet :
        handles' = [handles EXCEPT ![h] = new] /\ new.type = r.type /\ new.path = r.path
  <2>1. CASE Write(h)
    <3>1. PICK n \in r.size..MaxSize :
            handles' = [handles EXCEPT ![h].size = n, ![h].dirty = TRUE]
      BY <2>1 DEF Write
    <3> DEFINE new == [r EXCEPT !.size = n, !.dirty = TRUE]
    <3>2. handles' = [handles EXCEPT ![h] = new]
      BY <3>1 DEF FsInv, HandleInv
    <3>3. n \in 0..MaxSize
      BY <1>1, Bounds DEF HandleSet
    <3> HIDE DEF r
    <3>4. new \in HandleSet /\ new.type = r.type /\ new.path = r.path
      BY <1>1, <3>3 DEF HandleSet
    <3> QED
      BY <3>2, <3>4
  <2>2. CASE Flush(h)
    <3> DEFINE new == [r EXCEPT !.dirty = FALSE]
    <3>1. handles' = [handles EXCEPT ![h] = new]
      BY <2>2 DEF Flush, FsInv, HandleInv
    <3> HIDE DEF r
    <3>2. new \in HandleSet /\ new.type = r.type /\ new.path = r.path
      BY <1>1 DEF HandleSet
    <3> QED
      BY <3>1, <3>2
  <2> QED
    BY <2>1, <2>2
<1>3. /\ fs' = fs \/ fs' = Commit(handles[h])
      /\ UNCHANGED <<iters, stack, torn>>
      /\ cache' \in {None, cache} /\ partial' \in BOOLEAN
  BY DEF Write, Flush, FsInv
<1>4. IsTree(fs') /\ DOMAIN fs'.size = DOMAIN fs.size
  BY <1>3, CommitTree DEF FsInv
<1> HIDE DEF r
<1>5. HandleInv'
  BY <1>1, <1>2, <1>4, OneHandle DEF FsInv
<1> QED
  BY <1>3, <1>4, <1>5 DEF FsInv, IteratorsReturned

\* close commits, and a handle that is dropped was not of littlefs.
LEMMA CloseFs ==
    ASSUME FsInv, NEW h \in Handles, Close(h) \/ Drop(h)
    PROVE  FsInv'
<1>1. /\ handles' = [handles EXCEPT ![h] = Closed]
      /\ fs' = fs \/ fs' = Commit(handles[h])
      /\ UNCHANGED <<iters, stack, torn>>
      /\ cache' \in {None, cache} /\ partial' \in BOOLEAN
  BY DEF Close, Drop, FsInv
<1>2. IsTree(fs') /\ DOMAIN fs'.size = DOMAIN fs.size
  BY <1>1, CommitTree DEF FsInv
<1>3. HandleInv'
  BY <1>1, <1>2, ClosedIsHandle, OneHandle DEF FsInv
<1> QED
  BY <1>1, <1>2, <1>3 DEF FsInv, IteratorsReturned

\* Every call and the reset keep the tree, the handles and the iterators.
LEMMA FsInductive == FsInv /\ [Next]_vars => FsInv'
<1> SUFFICES ASSUME FsInv, [Next]_vars PROVE FsInv'
  OBVIOUS
<1>1. ASSUME UNCHANGED <<fs, handles, iters, torn, partial>>,
             cache' \in {fs, cache}, stack' \in Seq(FrameSet)
      PROVE  FsInv'
  BY <1>1, SameHandles DEF FsInv, IteratorsReturned, IsTree
<1>0. stack \in Seq(FrameSet)
  BY DEF FsInv
<1>2. ASSUME NEW p \in Paths, DeleteDirectory(p) PROVE FsInv'
  <2>1. Frame(p) \in FrameSet
    BY PathsTyped, FrameTyped DEF FsInv
  <2>2. stack' \in Seq(FrameSet)
    BY <1>2, <2>1 DEF DeleteDirectory
  <2> QED
    BY <1>1, <1>2, <2>2 DEF DeleteDirectory
<1>3. CASE PathCall
  BY <1>2, <1>3, DirsKeep, CopyKeeps, DeleteFileKeeps DEF PathCall
<1>4. CASE HandleCall
  BY <1>4, OpenRomFs, OpenLfsFs, WriteFs, CloseFs DEF HandleCall
<1>5. CASE Measure
  BY <1>0, <1>1, <1>5 DEF Measure
<1>6. CASE Restart
  <2>1. /\ handles' = [h \in Handles |-> Closed] /\ fs' = fs /\ iters' = 0
        /\ cache' = None /\ stack' = <<>> /\ torn' = FALSE /\ partial' = FALSE
    BY <1>6 DEF Restart, AllClosed
  <2>2. HandleInv'
    BY <2>1, ClosedIsHandle DEF HandleInv
  <2>3. iters' \in 0..MaxDirs /\ IteratorsReturned' /\ stack' \in Seq(FrameSet)
    BY <2>1, Bounds DEF IteratorsReturned
  <2> QED
    BY <2>1, <2>2, <2>3 DEF FsInv
<1>7. CASE UNCHANGED vars
  BY <1>0, <1>1, <1>7 DEF vars
<1> QED
  BY <1>3, <1>4, <1>5, <1>6, <1>7, DeleteStepKeeps DEF Next

\* The tree, the handles and the iterators are right in every behaviour.
LEMMA AlwaysFsInv == Spec => []FsInv
BY InitFs, FsInductive, PTL DEF Spec

\* Every variable keeps to its type: the files' sizes to the bound, the
\* descriptors and the directory iterators to their tables.
THEOREM FilesTyped == Spec => []TypeOK
<1>1. ASSUME FsInv, FdInv PROVE TypeOK
  <2>1. \A h \in Handles : handles[h].type = "rom" => handles[h].fd \in 1..MaxFds
    BY <1>1 DEF FdInv, IsHandle
  <2>2. fds \subseteq 1..MaxFds /\ lost \subseteq 1..MaxFds
    BY <1>1, <2>1 DEF FdInv, FdsHeld
  <2>3. handles \in [Handles -> [type : {"closed", "rom", "lfs"},
                                 path : {<<>>} \cup Paths \cup DOMAIN fs.size,
                                 size : 0..MaxSize, dirty : BOOLEAN,
                                 writes : BOOLEAN, fd : 0..MaxFds]]
    <3> DEFINE T == [type : {"closed", "rom", "lfs"},
                     path : {<<>>} \cup Paths \cup DOMAIN fs.size,
                     size : 0..MaxSize, dirty : BOOLEAN,
                     writes : BOOLEAN, fd : 0..MaxFds]
    <3>1. HandleSet \subseteq T
      BY DEF HandleSet
    <3> HIDE DEF T
    <3>2. handles \in [Handles -> T]
      BY <1>1, <3>1 DEF FsInv, HandleInv
    <3> QED
      BY <3>2 DEF T
  <2> QED
    BY <1>1, <2>2, <2>3 DEF FsInv, FrameSet, IsTree, TypeOK
<1> QED
  BY <1>1, AlwaysFsInv, AlwaysFdInv, PTL

\* The tree of littlefs has no gap, whatever is opened, made, moved, copied
\* from the ROM, removed or committed late (recurse_mkdir, lfs_file_sync).
THEOREM TreeStaysClosed == Spec => []TreeClosed
<1>1. FsInv => TreeClosed
  BY DEF FsInv, IsTree, TreeClosed
<1> QED
  BY <1>1, AlwaysFsInv, PTL

\* aux_copy gives back every directory iterator it takes, and leaves none
\* behind but when the copy of a ROM directory failed, for any ROM, any depth
\* of its directories and any number of iterators.
THEOREM IteratorsBack == Spec => []IteratorsReturned
<1>1. FsInv => IteratorsReturned
  BY DEF FsInv
<1> QED
  BY <1>1, AlwaysFsInv, PTL
=============================================================================
