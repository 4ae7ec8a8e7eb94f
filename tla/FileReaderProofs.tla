-------------------------- MODULE FileReaderProofs --------------------------
(***************************************************************************)
(* The lookup of the ROM is right for every image and every path: its      *)
(* binary search never leaves out the entry it looks for, and it finds     *)
(* what the path names.  No read leaves a byte out or gives one twice,     *)
(* readLine gives whole lines, a listing is complete, and a lookup or a    *)
(* listing takes finitely many steps.                                      *)
(***************************************************************************)
EXTENDS FileReader, WellFoundedInduction, SequenceTheorems, TLAPS

\* The comparisons of mmfs_traverse never leave the entry that has the name
\* out of what is still to be searched.
SearchSound ==
    pc = "search" =>
        \A i \in 1..Len(Dirs[dir]) :
            Dirs[dir][i].name = Head(rest) => l < i /\ i <= h

\* How many names have been found.
Found == Len(asked) - Len(rest)

\* The names not yet found are the last ones of the path.
RestIsEnd ==
    /\ asked \in Seq(Int) /\ rest \in Seq(Int)
    /\ Len(rest) <= Len(asked)
    /\ \A i \in 1..Len(rest) : rest[i] = asked[Found + i]

\* The entries found so far are those the names lead through, and there are
\* no others.
NodeIsLast ==
    /\ \E c \in [1..Found -> Entries] :
         /\ Chain(asked, Found, c)
         /\ node = IF Found = 0 THEN NULL ELSE c[Found]
    /\ \A c : Found # 0 /\ Chain(asked, Found, c) => node = c[Found]
    /\ Found # 0 => node \in Entries

\* The directory searched is the one the last entry leads to.
DirIsNext ==
    /\ rest # <<>>
    /\ Found = 0 => dir = Root
    /\ Found # 0 => node.dir /\ dir = node.at
    /\ dir \in DOMAIN Dirs
    /\ l \in Nat /\ h \in Nat /\ h <= Len(Dirs[dir])

LookupInv ==
    /\ pc \in {"next", "search"} => RestIsEnd /\ NodeIsLast
    /\ pc = "search" => DirIsNext
    /\ SearchSound
    /\ TraverseFinds

-----------------------------------------------------------------------------
(* Entries and directories *)

LEMMA NullIsNoEntry ==
    ASSUME NEW e \in Entries
    PROVE  e # NULL /\ e \in Entry
<1>1. PICK d \in DOMAIN Dirs : e \in Within(d)
  BY DEF Entries
<1>2. e \in Entry
  BY <1>1, ImageAssumption DEF Within, ImageAssumption
<1>3. e.name \in Int /\ DOMAIN e = {"name", "dir", "at", "size"}
  BY <1>2 DEF Entry
<1>4. DOMAIN NULL = {"null"}
  BY DEF NULL
<1>5. "name" \notin {"null"}
  OBVIOUS
<1> QED
  BY <1>2, <1>3, <1>4, <1>5

LEMMA WithinEntries ==
    ASSUME NEW d \in DOMAIN Dirs, NEW e \in Within(d)
    PROVE  e \in Entries /\ e \in Entry /\ (e.dir => e.at \in DOMAIN Dirs)
<1>1. e \in Entries
  BY DEF Entries
<1>2. PICK i \in 1..Len(Dirs[d]) : e = Dirs[d][i]
  BY DEF Within
<1>3. Dirs[d] \in Seq(Entry) /\ (Dirs[d][i].dir => Dirs[d][i].at \in DOMAIN Dirs)
  BY <1>2, ImageAssumption DEF ImageAssumption
<1>4. Dirs[d][i] \in Entry
  BY <1>2, <1>3
<1> QED
  BY <1>1, <1>2, <1>3, <1>4

LEMMA EntryLeadsOn ==
    ASSUME NEW e \in Entries, e.dir
    PROVE  e.at \in DOMAIN Dirs
<1>1. PICK d \in DOMAIN Dirs : e \in Within(d)
  BY DEF Entries
<1> QED
  BY <1>1, WithinEntries

\* A directory has one entry of a name.
LEMMA NameOnce ==
    ASSUME NEW d \in DOMAIN Dirs, NEW e \in Within(d), NEW f \in Within(d),
           e.name = f.name
    PROVE  e = f
<1>1. PICK i \in 1..Len(Dirs[d]) : e = Dirs[d][i]
  BY DEF Within
<1>2. PICK j \in 1..Len(Dirs[d]) : f = Dirs[d][j]
  BY DEF Within
<1>3. /\ Dirs[d][i] \in Entry /\ Dirs[d][j] \in Entry
      /\ i < j => Dirs[d][i].name < Dirs[d][j].name
      /\ j < i => Dirs[d][j].name < Dirs[d][i].name
  BY <1>1, <1>2, ImageAssumption DEF ImageAssumption
<1>4. Dirs[d][i].name \in Int /\ Dirs[d][j].name \in Int
  BY <1>3 DEF Entry
<1>5. ~ (i < j) /\ ~ (j < i)
  BY <1>1, <1>2, <1>3, <1>4
<1> QED
  BY <1>1, <1>2, <1>5

\* A path's first names lead through the same entries.
LEMMA ChainShorter ==
    ASSUME NEW path, NEW n \in Nat, NEW k \in 0..n, NEW c, Chain(path, n, c)
    PROVE  Chain(path, k, [i \in 1..k |-> c[i]])
BY DEF Chain

LEMMA MiddleBetween ==
    ASSUME NEW a \in Nat, NEW b \in Nat, a < b
    PROVE  /\ a + ((b - a) \div 2) \in Nat
           /\ a <= a + (b - a) \div 2 /\ a + (b - a) \div 2 < b
OBVIOUS

-----------------------------------------------------------------------------
(* The lookup, step by step *)

LEMMA FoundIsNat ==
    ASSUME RestIsEnd
    PROVE  /\ Found \in Nat /\ Len(asked) \in Nat /\ Len(rest) \in Nat
           /\ Found <= Len(asked)
           /\ Found = Len(asked) <=> rest = <<>>
BY DEF RestIsEnd, Found

\* Where nothing is searched or found there is nothing to show.
LEMMA Elsewhere ==
    ASSUME pc' \in {"idle", "list"}
    PROVE  LookupInv'
BY DEF LookupInv, SearchSound, TraverseFinds

\* A chain that goes on leads through the last entry found.
LEMMA NextOnChain ==
    ASSUME RestIsEnd, NodeIsLast, rest # <<>>,
           NEW n \in Nat, Found < n, n <= Len(asked), NEW c, Chain(asked, n, c)
    PROVE  /\ c[Found + 1] \in Entries
           /\ c[Found + 1].name = Head(rest)
           /\ Found = 0 => c[Found + 1] \in Within(Root)
           /\ Found # 0 => node.dir /\ c[Found + 1] \in Within(node.at)
<1>1. /\ Found \in Nat /\ Found + 1 \in 1..n /\ Found \in 0..n
      /\ Found # 0 => Found \in 1..n /\ Found + 1 # 1
  BY FoundIsNat
<1>2. asked[Found + 1] = Head(rest)
  BY FoundIsNat, SMTT(30) DEF RestIsEnd
<1>3. Found # 0 => c[Found] = node
  <2>1. Chain(asked, Found, [i \in 1..Found |-> c[i]])
    BY <1>1, ChainShorter
  <2>2. Found # 0 => node = [i \in 1..Found |-> c[i]][Found]
    BY <2>1 DEF NodeIsLast
  <2> QED
    BY <1>1, <2>2
<1>4. /\ c[Found + 1] \in Entries
      /\ c[Found + 1].name = asked[Found + 1]
      /\ Found + 1 = 1 => c[Found + 1] \in Within(Root)
      /\ Found + 1 # 1 => /\ c[Found + 1 - 1].dir
                          /\ c[Found + 1] \in Within(c[Found + 1 - 1].at)
  BY <1>1 DEF Chain
<1>5. Found + 1 - 1 = Found
  BY <1>1
<1> QED
  BY <1>1, <1>2, <1>3, <1>4, <1>5

LEMMA TraverseBegins ==
    ASSUME NEW path \in Asked, Traverse(path), asked' = path
    PROVE  LookupInv'
<1>1. path \in Seq(Int)
  BY ReaderAssumption DEF ReaderAssumption
<1>2. pc' = "next" /\ rest' = path /\ asked' = path /\ node' = NULL
  BY DEF Traverse
<1>3. Found' = 0
  BY <1>1, <1>2 DEF Found
<1>4. RestIsEnd'
  BY <1>1, <1>2, <1>3 DEF RestIsEnd
<1>5. NodeIsLast'
  <2> DEFINE none == [i \in 1..0 |-> i]
  <2>1. none \in [1..0 -> Entries] /\ Chain(asked', 0, none)
    BY DEF Chain
  <2> QED
    BY <1>2, <1>3, <2>1 DEF NodeIsLast, Chain
<1> QED
  BY <1>2, <1>4, <1>5 DEF LookupInv, SearchSound, TraverseFinds

LEMMA NullAtFirst ==
    ASSUME NodeIsLast
    PROVE  Found = 0 <=> node = NULL
BY NullIsNoEntry DEF NodeIsLast

LEMMA NextNameKeeps ==
    ASSUME LookupInv, NextName, asked' = asked
    PROVE  LookupInv'
<1>1. /\ RestIsEnd /\ NodeIsLast /\ pc' = "search" /\ rest # <<>>
      /\ UNCHANGED <<rest, node>>
  BY DEF LookupInv, NextName
<1>2. RestIsEnd' /\ NodeIsLast' /\ Found' = Found
  <2>1. Found' = Found
    BY <1>1 DEF Found
  <2>2. RestIsEnd'
    BY <1>1, <2>1 DEF RestIsEnd
  <2>3. NodeIsLast'
    BY <1>1, <2>1 DEF NodeIsLast, Chain
  <2> QED
    BY <2>1, <2>2, <2>3
<1>3. dir' \in DOMAIN Dirs
  BY <1>1, NullAtFirst, EntryLeadsOn, ImageAssumption
     DEF NextName, NodeIsLast, ImageAssumption
<1>4. Dirs[dir'] \in Seq(Entry)
  BY <1>3, ImageAssumption DEF ImageAssumption
<1>5. DirIsNext'
  BY <1>1, <1>2, <1>3, <1>4, NullAtFirst DEF DirIsNext, NextName
<1>6. SearchSound'
  BY <1>4 DEF SearchSound, NextName
<1> QED
  BY <1>1, <1>2, <1>5, <1>6 DEF LookupInv, TraverseFinds

\* Where the comparison looks, and how the names lie around it.
LEMMA AroundHere ==
    ASSUME LookupInv, pc = "search", l < h
    PROVE  /\ Middle \in Nat /\ l <= Middle /\ Middle < h
           /\ Middle + 1 \in 1..Len(Dirs[dir])
           /\ Here \in Within(dir) /\ Here.name \in Int
           /\ Head(rest) \in Int
           /\ \A i \in 1..Len(Dirs[dir]) :
                /\ Dirs[dir][i].name \in Int
                /\ i < Middle + 1 => Dirs[dir][i].name < Here.name
                /\ Middle + 1 < i => Here.name < Dirs[dir][i].name
<1>1. DirIsNext /\ RestIsEnd
  BY DEF LookupInv
<1>2. /\ l \in Nat /\ h \in Nat /\ h <= Len(Dirs[dir])
      /\ dir \in DOMAIN Dirs /\ rest \in Seq(Int) /\ rest # <<>>
  BY <1>1 DEF DirIsNext, RestIsEnd
<1>3. /\ Dirs[dir] \in Seq(Entry)
      /\ \A i, j \in 1..Len(Dirs[dir]) :
           i < j => Dirs[dir][i].name < Dirs[dir][j].name
  BY <1>2, ImageAssumption DEF ImageAssumption
<1>4. Middle \in Nat /\ l <= Middle /\ Middle < h
  BY <1>2, MiddleBetween DEF Middle
<1>5. Middle + 1 \in 1..Len(Dirs[dir])
  BY <1>2, <1>3, <1>4
<1>6. Here \in Within(dir)
  BY <1>5 DEF Here, Within
<1>7. \A i \in 1..Len(Dirs[dir]) : Dirs[dir][i] \in Entry
  BY <1>3
<1>8. \A i \in 1..Len(Dirs[dir]) : Dirs[dir][i].name \in Int
  BY <1>7 DEF Entry
<1>9. Head(rest) \in Int
  BY <1>2
<1> QED
  BY <1>3, <1>4, <1>5, <1>6, <1>8, <1>9 DEF Here

\* Half of the entries are left out, and not the half that has the name.
LEMMA HalfLeftOut ==
    ASSUME LookupInv, Compare, asked' = asked, Head(rest) # Here.name
    PROVE  LookupInv'
<1>1. /\ pc = "search" /\ l < h /\ UNCHANGED <<pc, node, rest, dir, asked>>
      /\ l' = IF Head(rest) > Here.name THEN Middle + 1 ELSE l
      /\ h' = IF Head(rest) < Here.name THEN Middle ELSE h
  BY DEF Compare
<1>0. UNCHANGED <<node, rest, asked>>
  BY <1>1
<1>2. RestIsEnd /\ NodeIsLast /\ DirIsNext /\ SearchSound
  BY <1>1 DEF LookupInv
<1>3. RestIsEnd' /\ NodeIsLast' /\ Found' = Found
  <2>1. RestIsEnd' /\ Found' = Found
    BY <1>0, <1>2 DEF RestIsEnd, Found
  <2>2. NodeIsLast' = NodeIsLast
    BY <1>0, <2>1 DEF NodeIsLast, Chain
  <2> QED
    BY <1>2, <2>1, <2>2
<1>4. l \in Nat /\ h \in Nat /\ h <= Len(Dirs[dir])
  BY <1>2 DEF DirIsNext
<1>5. Len(Dirs[dir]) \in Nat
  BY <1>2, ImageAssumption DEF DirIsNext, ImageAssumption
<1>6. l' \in Nat /\ h' \in Nat /\ h' <= Len(Dirs[dir])
  BY <1>1, <1>4, <1>5, AroundHere
<1>7. DirIsNext'
  BY <1>1, <1>2, <1>3, <1>6 DEF DirIsNext
<1>8. SearchSound'
  <2>1. SUFFICES ASSUME NEW i \in 1..Len(Dirs[dir]),
                        Dirs[dir][i].name = Head(rest)
                 PROVE  l' < i /\ i <= h'
    BY <1>1 DEF SearchSound
  <2>2. l < i /\ i <= h
    BY <1>1, <1>2, <2>1 DEF SearchSound
  <2>3. /\ i < Middle + 1 => Head(rest) < Here.name
        /\ Middle + 1 < i => Here.name < Head(rest)
        /\ i = Middle + 1 => Head(rest) = Here.name
    BY <1>1, <2>1, AroundHere DEF Here
  <2>4. i \in Int /\ Middle \in Nat /\ Head(rest) \in Int /\ Here.name \in Int
    BY <1>1, <1>5, AroundHere
  <2>5. /\ Head(rest) > Here.name => Middle + 1 < i
        /\ Head(rest) < Here.name => i <= Middle
    BY <2>3, <2>4
  <2> QED
    BY <1>1, <2>2, <2>5
<1> QED
  BY <1>1, <1>3, <1>7, <1>8 DEF LookupInv, TraverseFinds

\* The name is there: one entry more is found.
LEMMA NameFound ==
    ASSUME LookupInv, Compare, asked' = asked, Head(rest) = Here.name
    PROVE  LookupInv'
<1>1. /\ pc = "search" /\ l < h /\ pc' = "next"
      /\ node' = Here /\ rest' = Tail(rest) /\ asked' = asked
  BY DEF Compare
<1>2. RestIsEnd /\ NodeIsLast /\ DirIsNext
  BY <1>1 DEF LookupInv
<1>3. rest # <<>> /\ dir \in DOMAIN Dirs
  BY <1>2 DEF DirIsNext
<1>4. /\ rest \in Seq(Int) /\ Found' = Found + 1 /\ Found \in Nat
      /\ Found + 1 <= Len(asked)
  BY <1>1, <1>2, <1>3, FoundIsNat DEF RestIsEnd, Found
<1>5. RestIsEnd'
  <2>1. /\ rest' \in Seq(Int) /\ Len(rest') = Len(rest) - 1
        /\ \A i \in 1..Len(rest') : rest'[i] = rest[i + 1]
    BY <1>1, <1>3, <1>4
  <2>2. \A i \in 1..Len(rest') : rest[i + 1] = asked[Found + (i + 1)]
    BY <1>2, <1>4, <2>1 DEF RestIsEnd
  <2>3. \A i \in 1..Len(rest') : Found + (i + 1) = Found' + i
    BY <1>4, <2>1
  <2>4. \A i \in 1..Len(rest') : rest'[i] = asked[Found' + i]
    BY <2>1, <2>2, <2>3
  <2>5. asked' \in Seq(Int) /\ Len(rest') <= Len(asked')
    BY <1>1, <1>2, <2>1 DEF RestIsEnd
  <2> QED
    BY <1>1, <2>1, <2>4, <2>5 DEF RestIsEnd
<1>6. Here \in Within(dir) /\ Here \in Entries
  BY <1>1, <1>3, AroundHere, WithinEntries
<1>7. \E c \in [1..Found + 1 -> Entries] :
        Chain(asked, Found + 1, c) /\ Here = c[Found + 1]
  <2>1. PICK c \in [1..Found -> Entries] :
          /\ Chain(asked, Found, c)
          /\ node = IF Found = 0 THEN NULL ELSE c[Found]
    BY <1>2 DEF NodeIsLast
  <2> DEFINE d == [i \in 1..Found + 1 |-> IF i <= Found THEN c[i] ELSE Here]
  <2>2. d \in [1..Found + 1 -> Entries] /\ d[Found + 1] = Here
    BY <1>4, <1>6
  <2>3. Here.name = asked[Found + 1]
    BY <1>2, <1>3, <1>4 DEF RestIsEnd
  <2>4. IF Found + 1 = 1 THEN Here \in Within(Root)
        ELSE d[Found + 1 - 1].dir /\ Here \in Within(d[Found + 1 - 1].at)
    BY <1>2, <1>4, <1>6, <2>1 DEF DirIsNext
  <2>5. \A k \in 1..Found :
          /\ d[k].name = asked[k]
          /\ IF k = 1 THEN d[k] \in Within(Root)
             ELSE d[k - 1].dir /\ d[k] \in Within(d[k - 1].at)
    <3>1. \A k \in 1..Found : d[k] = c[k] /\ (k # 1 => d[k - 1] = c[k - 1])
      BY <1>4
    <3> QED
      BY <2>1, <3>1 DEF Chain
  <2>6. Chain(asked, Found + 1, d)
    <3>1. \A k \in 1..Found + 1 : k \in 1..Found \/ k = Found + 1
      BY <1>4
    <3> HIDE DEF d
    <3>2. d[Found + 1].name = asked[Found + 1]
      BY <2>2, <2>3
    <3>3. IF Found + 1 = 1 THEN d[Found + 1] \in Within(Root)
          ELSE /\ d[Found + 1 - 1].dir
               /\ d[Found + 1] \in Within(d[Found + 1 - 1].at)
      BY <2>2, <2>4
    <3>4. \A k \in 1..Found + 1 :
            /\ d[k].name = asked[k]
            /\ IF k = 1 THEN d[k] \in Within(Root)
               ELSE d[k - 1].dir /\ d[k] \in Within(d[k - 1].at)
      <4>1. SUFFICES ASSUME NEW k \in 1..Found + 1
                     PROVE  /\ d[k].name = asked[k]
                            /\ IF k = 1 THEN d[k] \in Within(Root)
                               ELSE d[k - 1].dir /\ d[k] \in Within(d[k - 1].at)
        OBVIOUS
      <4>2. CASE k \in 1..Found
        BY <2>5, <4>2
      <4>3. CASE k = Found + 1
        <5>1. d[k] = d[Found + 1] /\ d[k - 1] = d[Found + 1 - 1]
          BY <1>4, <4>3
        <5>2. asked[k] = asked[Found + 1] /\ (k = 1 <=> Found + 1 = 1)
          BY <1>4, <4>3
        <5> QED
          BY <3>2, <3>3, <5>1, <5>2
      <4> QED
        BY <3>1, <4>2, <4>3
    <3> QED
      BY <2>2, <3>4 DEF Chain
  <2> QED
    BY <2>2, <2>6
<1>8. ASSUME NEW c, Chain(asked, Found + 1, c)
      PROVE  Here = c[Found + 1]
  <2>1. /\ c[Found + 1].name = Head(rest)
        /\ Found = 0 => c[Found + 1] \in Within(Root)
        /\ Found # 0 => c[Found + 1] \in Within(node.at)
    BY <1>2, <1>3, <1>4, <1>8, NextOnChain
  <2>2. c[Found + 1] \in Within(dir)
    BY <1>2, <2>1 DEF DirIsNext
  <2> QED
    BY <1>3, <1>6, <2>1, <2>2, NameOnce
<1>9. NodeIsLast'
  BY <1>1, <1>4, <1>6, <1>7, <1>8 DEF NodeIsLast
<1> QED
  BY <1>1, <1>5, <1>9 DEF LookupInv, SearchSound, TraverseFinds

\* Nothing is left to search: no chain goes on from here.
LEMMA MissingIsRight ==
    ASSUME LookupInv, Missing, asked' = asked
    PROVE  LookupInv'
<1>1. pc = "search" /\ l >= h /\ pc' = "found" /\ node' = NULL
  BY DEF Missing, Return
<1>2. RestIsEnd /\ NodeIsLast /\ DirIsNext /\ SearchSound
  BY <1>1 DEF LookupInv
<1>3. ASSUME NEW e \in Entries, Names(asked, e)
      PROVE  FALSE
  <2>1. PICK c : Chain(asked, Len(asked), c)
    BY <1>3 DEF Names
  <2>2. rest # <<>> /\ Found < Len(asked) /\ Len(asked) \in Nat
    BY <1>2, FoundIsNat DEF DirIsNext
  <2>3. /\ c[Found + 1].name = Head(rest)
        /\ c[Found + 1] \in Within(dir)
    BY <1>2, <2>1, <2>2, NextOnChain DEF DirIsNext
  <2>4. PICK i \in 1..Len(Dirs[dir]) : Dirs[dir][i].name = Head(rest)
    BY <2>3 DEF Within
  <2>5. l < i /\ i <= h
    BY <1>1, <1>2, <2>4 DEF SearchSound
  <2>6. l \in Nat /\ h \in Nat /\ i \in Int
    BY <1>2, <2>4 DEF DirIsNext
  <2> QED
    BY <1>1, <2>5, <2>6
<1> QED
  BY <1>1, <1>3 DEF LookupInv, SearchSound, TraverseFinds

LEMMA EndIsRight ==
    ASSUME LookupInv, EndOfPath, asked' = asked
    PROVE  LookupInv'
<1>1. RestIsEnd /\ NodeIsLast /\ pc' = "found"
  BY DEF LookupInv, EndOfPath, Return
<1>2. CASE rest # <<>> /\ node # NULL /\ ~ node.dir /\ node' = NULL
  <2>1. ASSUME NEW e \in Entries, Names(asked, e)
        PROVE  FALSE
    <3>1. PICK c : Chain(asked, Len(asked), c)
      BY <2>1 DEF Names
    <3>2. Found < Len(asked) /\ Len(asked) \in Nat /\ Found # 0
      BY <1>1, <1>2, FoundIsNat, NullAtFirst
    <3> QED
      BY <1>1, <1>2, <3>1, <3>2, NextOnChain
  <2> QED
    BY <1>1, <1>2, <2>1 DEF LookupInv, SearchSound, TraverseFinds
<1>3. CASE rest = <<>> /\ node' = node
  <2>1. Found = Len(asked)
    BY <1>1, <1>3, FoundIsNat
  <2>2. node = NULL => asked = <<>>
    BY <1>1, <2>1, NullAtFirst DEF RestIsEnd
  <2>3. node # NULL => Names(asked, node)
    BY <1>1, <2>1, NullAtFirst DEF NodeIsLast, Names, RestIsEnd
  <2> QED
    BY <1>1, <1>3, <2>2, <2>3 DEF LookupInv, SearchSound, TraverseFinds, Names
<1> QED
  BY <1>2, <1>3 DEF EndOfPath, Return

-----------------------------------------------------------------------------
LEMMA LookupKeeps ==
    ASSUME LookupInv, [Next]_vars
    PROVE  LookupInv'
<1>1. ASSUME NEW path \in Asked, Open(path)
      PROVE  LookupInv'
  BY <1>1, TraverseBegins DEF Open
<1>2. ASSUME NEW path \in Asked, List(path)
      PROVE  LookupInv'
  <2>1. asked' = path /\ (Traverse(path) \/ OpenDir(Root))
    BY <1>2 DEF List
  <2>2. OpenDir(Root) => pc' \in {"idle", "list"}
    BY DEF OpenDir
  <2> QED
    BY <2>1, <2>2, TraverseBegins, Elsewhere
<1>3. CASE Lookup
  <2>1. asked' = asked
    BY <1>3 DEF Lookup
  <2>2. CASE NextName
    BY <2>1, <2>2, NextNameKeeps
  <2>3. CASE EndOfPath
    BY <2>1, <2>3, EndIsRight
  <2>4. CASE Compare
    BY <2>1, <2>4, HalfLeftOut, NameFound
  <2>5. CASE Missing
    BY <2>1, <2>5, MissingIsRight
  <2> QED
    BY <1>3, <2>2, <2>3, <2>4, <2>5 DEF Lookup, TraverseStep
<1>4. CASE Listing
  BY <1>4, Elsewhere DEF Listing, ReadDir, CloseDir, Forget
<1>5. CASE Opened \/ Listed
  <2>1. pc' = "idle" \/ pc' = "list"
    BY <1>5 DEF Opened, Listed, OpenDir, Forget
  <2> QED
    BY <2>1, Elsewhere
<1>6. ASSUME pc = "idle", pc' = pc
      PROVE  LookupInv'
  BY <1>6, Elsewhere
<1>7. CASE ReadAll
  <2>1. pc = "idle" /\ pc' = pc
    BY <1>7 DEF ReadAll, MayRead, Give, Halt
  <2> QED
    BY <2>1, <1>6
<1>8. ASSUME NEW trailing \in BOOLEAN, ReadLine(trailing)
      PROVE  LookupInv'
  BY <1>8, <1>6 DEF ReadLine, MayRead, Give
<1>9. ReadOne => LookupInv'
  BY <1>6 DEF ReadOne, MayRead, Give
<1>10. ASSUME NEW count \in Counts, ReadCount(count)
       PROVE  LookupInv'
  <2>1. CASE ~ ReadOne
    <3>1. pc = "idle" /\ pc' = pc
      BY <1>10, <2>1 DEF ReadCount, MayRead, Give, Halt
    <3> QED
      BY <3>1, <1>6
  <2> QED
    BY <1>9, <2>1
<1>11. ASSUME NEW whence \in Whences, NEW off \in Offsets, Seek(whence, off)
       PROVE  LookupInv'
  BY <1>11, <1>6 DEF Seek, MayRead
<1>12. CASE Close \/ ReadLineRefused
  <2>1. pc = "idle" /\ pc' = pc
    BY <1>12 DEF Close, ReadLineRefused, Halt, MayRead
  <2> QED
    BY <2>1, <1>6
<1>14. CASE Restart
  BY <1>14, Elsewhere DEF Restart, Forget
<1>13. CASE UNCHANGED vars
  <2>1. UNCHANGED <<pc, rest, node, dir, l, h, asked>>
    BY <1>13 DEF vars, walk
  <2>2. Found' = Found /\ RestIsEnd' = RestIsEnd
    BY <2>1 DEF Found, RestIsEnd
  <2>3. NodeIsLast' = NodeIsLast
    BY <2>1, <2>2 DEF NodeIsLast, Chain
  <2>4. DirIsNext' = DirIsNext /\ SearchSound' = SearchSound
    BY <2>1, <2>2 DEF DirIsNext, SearchSound
  <2>5. TraverseFinds' = TraverseFinds
    BY <2>1 DEF TraverseFinds, Names, Chain
  <2> QED
    BY <2>1, <2>2, <2>3, <2>4, <2>5 DEF LookupInv
<1> QED
  BY <1>1, <1>2, <1>3, <1>4, <1>5, <1>7, <1>8, <1>9, <1>10, <1>11, <1>12, <1>13,
     <1>14 DEF Next, Inside

LEMMA LookupHolds == Spec => []LookupInv
<1>1. Init => LookupInv
  BY DEF Init, InitMmfs, LookupInv, SearchSound, TraverseFinds
<1>2. LookupInv /\ [Next]_vars => LookupInv'
  BY LookupKeeps
<1> QED
  BY <1>1, <1>2, PTL DEF Spec

\* mmfs_traverse, modules/mmfs.c: the bounds of its search always enclose the
\* entry that has the name, however many entries a directory has.
THEOREM SearchIsSound == Spec => []SearchSound
<1>1. LookupInv => SearchSound
  BY DEF LookupInv
<1> QED
  BY <1>1, LookupHolds, PTL

\* mmfs_traverse, modules/mmfs.c: it finds what a path names, through any
\* number of levels, and finds nothing only where the path names nothing.
THEOREM LookupFinds == Spec => []TraverseFinds
<1>1. LookupInv => TraverseFinds
  BY DEF LookupInv
<1> QED
  BY <1>1, LookupHolds, PTL

-----------------------------------------------------------------------------
(* Minima: the numbers are well-founded. *)

LEMMA LessThan == OpToRel(<, Nat) = {ss \in Nat \X Nat : ss[1] < ss[2]}
BY DEF OpToRel

LEMMA MinThere ==
    ASSUME NEW S, S \subseteq Nat, S # {}
    PROVE  Min(S) \in S /\ \A y \in S : Min(S) <= y
<1> DEFINE R == {ss \in Nat \X Nat : ss[1] < ss[2]}
<1>1. IsWellFoundedOn(R, Nat)
  BY NatLessThanWellFounded, LessThan, Zenon
<1>2. PICK x \in S : \A y \in S : ~ (<<y, x>> \in R)
  <2> HIDE DEF R
  <2> QED
    BY <1>1, WFMin, Zenon
<1>3. ASSUME NEW y \in S
      PROVE  x <= y
  <2>1. x \in Nat /\ y \in Nat
    OBVIOUS
  <2>2. ASSUME y < x
        PROVE  FALSE
    <3>1. <<y, x>> \in R
      BY <2>1, <2>2
    <3> QED
      BY <3>1, <1>2
  <2> QED
    BY <2>1, <2>2
<1> QED
  BY <1>3 DEF Min

\* The smallest of a set, when one is known.
LEMMA MinIs ==
    ASSUME NEW S, S \subseteq Int, NEW m \in S, \A y \in S : m <= y
    PROVE  Min(S) = m
<1>1. \A z \in S : (\A y \in S : z <= y) => z = m
  OBVIOUS
<1> QED
  BY <1>1 DEF Min

-----------------------------------------------------------------------------
(* Bytes and descriptors *)

Any == {Byte(p) : p \in Int}

LEMMA BytesSeq ==
    ASSUME NEW a \in Int, NEW n \in Nat
    PROVE  /\ Bytes(a, n) \in Seq(Any) /\ Len(Bytes(a, n)) = n
           /\ \A i \in 1..n : Bytes(a, n)[i] = Byte(a + i - 1)
<1>1. \A i \in 1..n : Byte(a + i - 1) \in Any
  BY DEF Any
<1>2. Bytes(a, n) = [i \in 1..n |-> Byte(a + i - 1)]
  BY DEF Bytes
<1>3. Bytes(a, n) \in [1..n -> Any]
  BY <1>1, <1>2
<1>4. Bytes(a, n) \in Seq(Any)
  BY <1>3, SeqDef
<1>5. Len(Bytes(a, n)) = n
  BY <1>2, <1>4, LenProperties
<1> QED
  BY <1>2, <1>4, <1>5

LEMMA NoBytes == ASSUME NEW a \in Int PROVE Bytes(a, 0) = <<>>
BY BytesSeq

\* What is read on from where a read ended.
LEMMA BytesJoin ==
    ASSUME NEW a \in Int, NEW m \in Nat, NEW n \in Nat
    PROVE  Bytes(a, m) \o Bytes(a + m, n) = Bytes(a, m + n)
<1> DEFINE s == Bytes(a, m)
           t == Bytes(a + m, n)
           u == Bytes(a, m + n)
<1>1. /\ s \in Seq(Any) /\ Len(s) = m /\ \A i \in 1..m : s[i] = Byte(a + i - 1)
      /\ t \in Seq(Any) /\ Len(t) = n /\ \A i \in 1..n : t[i] = Byte(a + m + i - 1)
      /\ u \in Seq(Any) /\ Len(u) = m + n
      /\ \A i \in 1..m + n : u[i] = Byte(a + i - 1)
  BY BytesSeq
<1> HIDE DEF s, t, u
<1>2. /\ s \o t \in Seq(Any) /\ Len(s \o t) = m + n
      /\ \A i \in 1..m + n : (s \o t)[i] = IF i <= m THEN s[i] ELSE t[i - m]
  BY <1>1, SMTT(30)
<1>3. ASSUME NEW i \in 1..m + n
      PROVE  (s \o t)[i] = u[i]
  <2>1. CASE i <= m
    <3>1. i \in 1..m
      BY <2>1
    <3>2. (s \o t)[i] = s[i] /\ s[i] = Byte(a + i - 1) /\ u[i] = Byte(a + i - 1)
      BY <1>1, <1>2, <2>1, <3>1
    <3> QED
      BY <3>2
  <2>2. CASE ~ (i <= m)
    <3>1. i - m \in 1..n /\ a + m + (i - m) - 1 = a + i - 1
      BY <2>2
    <3>2. t[i - m] = Byte(a + m + (i - m) - 1)
      BY <3>1, <1>1
    <3>3. (s \o t)[i] = t[i - m]
      BY <1>2, <2>2
    <3>5. u[i] = Byte(a + i - 1)
      BY <1>1
    <3>4. Byte(a + m + (i - m) - 1) = Byte(a + i - 1)
      BY <3>1
    <3> QED
      BY <3>2, <3>3, <3>4, <3>5
  <2> QED
    BY <2>1, <2>2
<1>4. s \o t = u
  BY <1>1, <1>2, <1>3, SeqEqual
<1> QED
  BY <1>4 DEF s, t, u

LEMMA BytesAppend ==
    ASSUME NEW a \in Int, NEW n \in Nat
    PROVE  Append(Bytes(a, n), Byte(a + n)) = Bytes(a, n + 1)
<1> DEFINE s == Bytes(a, n)
           u == Bytes(a, n + 1)
<1>1. /\ s \in Seq(Any) /\ Len(s) = n /\ \A i \in 1..n : s[i] = Byte(a + i - 1)
      /\ u \in Seq(Any) /\ Len(u) = n + 1
      /\ \A i \in 1..n + 1 : u[i] = Byte(a + i - 1)
  BY BytesSeq
<1>2. Byte(a + n) \in Any /\ u[n + 1] = Byte(a + n)
  BY <1>1 DEF Any
<1> HIDE DEF s, u
<1>3. Append(s, Byte(a + n)) = u
  BY <1>1, <1>2
<1> QED
  BY <1>3 DEF s, u

\* A descriptor like those that are open: its file is in the image, and its
\* position not far before it.
Desc ==
    {f \in [start : Nat, ptr : Int, end : Nat] :
        -Reach <= f.ptr /\ f.end <= Len(Image)}

LEMMA MemoryIsNat ==
    /\ Chunk \in Nat /\ Chunk > 0 /\ Reach \in Nat /\ Len(Image) \in Nat
    /\ Base \in Nat /\ Reach <= Base /\ Word \in Nat /\ Heap \in Nat
    /\ Chunk <= Heap /\ Base + Len(Image) + Heap < Word
<1>1. Image \in Seq(Nat)
  BY ImageAssumption DEF ImageAssumption
<1> QED
  BY <1>1, LenProperties, ReaderAssumption, MemoryAssumption
     DEF ReaderAssumption, MemoryAssumption

\* mmfs_read of what a block has room for: the address does not go round.
LEMMA ReadableFits ==
    ASSUME NEW f \in Desc, NEW size \in 0..Heap
    PROVE  /\ Readable(f, size) \in 0..size
           /\ f.ptr <= f.end => f.ptr + Readable(f, size) <= f.end
           /\ f.ptr >= f.end => Readable(f, size) = 0
           /\ f.ptr + size <= f.end => Readable(f, size) = size
           /\ f.ptr + size > f.end /\ f.ptr <= f.end
                => Readable(f, size) = f.end - f.ptr
<1>1. /\ f.ptr \in Int /\ f.end \in Nat /\ size \in Nat /\ size <= Heap
      /\ -Reach <= f.ptr /\ f.end <= Len(Image)
  BY MemoryIsNat DEF Desc
<1>2. CASE f.ptr >= f.end
  BY <1>1, <1>2 DEF Readable
<1>3. CASE f.ptr < f.end
  <2>1. Base + f.ptr + size \in Nat /\ Base + f.ptr + size < Word
    BY <1>1, <1>3, MemoryIsNat
  <2>2. \A a, b \in Nat : a < b => a % b = a
    OBVIOUS
  <2>3. (Base + f.ptr + size) % Word = Base + f.ptr + size
    BY <2>1, <2>2, MemoryIsNat
  <2>4. Base + f.ptr + size >= Base + f.end <=> f.ptr + size >= f.end
    BY <1>1, MemoryIsNat
  <2>5. Readable(f, size) = IF f.ptr + size >= f.end THEN f.end - f.ptr ELSE size
    BY <1>1, <1>3, <2>3, <2>4 DEF Readable
  <2> QED
    BY <1>1, <1>3, <2>5
<1> QED
  BY <1>1, <1>2, <1>3

-----------------------------------------------------------------------------
(* The reads of a file object *)

\* An open descriptor is that of a file of the image; its position is not
\* before the one the bytes given are counted from.
ObjectOK ==
    /\ fd \in Desc /\ fd.start <= fd.end
    /\ from \in Int /\ from <= fd.ptr

ReadInv ==
    /\ fd # Closed => ObjectOK
    /\ NothingLost

LEMMA MoveKeepsFile ==
    ASSUME NEW f \in Desc, NEW p \in Int, -Reach <= p
    PROVE  /\ [f EXCEPT !.ptr = p] \in Desc
           /\ [f EXCEPT !.ptr = p].start = f.start
           /\ [f EXCEPT !.ptr = p].end = f.end
           /\ [f EXCEPT !.ptr = p].ptr = p
BY DEF Desc

\* A read that takes the next n bytes, and does not leave the file.
LEMMA TakeKeeps ==
    ASSUME ReadInv, fd # Closed, NEW n \in Nat,
           fd' = [fd EXCEPT !.ptr = @ + n], got' = got \o Bytes(fd.ptr, n),
           from' = from, strayed' = strayed,
           InFile(fd) => fd.ptr + n <= fd.end
    PROVE  ReadInv'
<1>1. /\ fd \in Desc /\ fd.ptr \in Int /\ fd.start \in Nat /\ fd.end \in Nat
      /\ from \in Int /\ from <= fd.ptr /\ -Reach <= fd.ptr
      /\ fd.start <= fd.end /\ Reach \in Nat
      /\ got = Bytes(from, fd.ptr - from)
  BY ReaderAssumption DEF ReadInv, ObjectOK, NothingLost, Desc
<1>2. /\ fd' \in Desc /\ fd'.start = fd.start /\ fd'.end = fd.end
      /\ fd'.ptr = fd.ptr + n
  <2>1. /\ fd.ptr + n \in Int /\ -Reach <= fd.ptr + n
        /\ fd' = [fd EXCEPT !.ptr = fd.ptr + n]
    BY <1>1
  <2> QED
    BY <1>1, <2>1, MoveKeepsFile
<1>3. ObjectOK'
  BY <1>1, <1>2 DEF ObjectOK
<1>4. got' = Bytes(from, fd'.ptr - from)
  <2>1. fd.ptr - from \in Nat /\ from + (fd.ptr - from) = fd.ptr
    BY <1>1
  <2>2. Bytes(from, fd.ptr - from) \o Bytes(from + (fd.ptr - from), n)
          = Bytes(from, fd.ptr - from + n)
    BY <1>1, <2>1, BytesJoin
  <2>3. fd.ptr - from + n = fd'.ptr - from
    BY <1>1, <1>2
  <2> QED
    BY <1>1, <2>1, <2>2, <2>3
<1>5. InFile(fd)' \/ strayed'
  BY <1>1, <1>2 DEF InFile, ReadInv, NothingLost
<1> QED
  BY <1>3, <1>4, <1>5 DEF ReadInv, NothingLost

LEMMA StillKeeps ==
    ASSUME ReadInv, UNCHANGED <<fd, got, from, strayed>>
    PROVE  ReadInv'
BY DEF ReadInv, ObjectOK, NothingLost, InFile

\* mmfs_read of a size.
LEMMA ReadSome ==
    ASSUME ReadInv, fd # Closed, NEW size \in 0..Heap,
           fd' = mmfs_read(fd, size).fd, got' = got \o mmfs_read(fd, size).bytes,
           from' = from, strayed' = strayed
    PROVE  ReadInv'
<1> DEFINE n == Readable(fd, size)
<1>1. fd \in Desc
  BY DEF ReadInv, ObjectOK
<1>2. n \in Nat /\ (fd.ptr <= fd.end => fd.ptr + n <= fd.end)
  BY <1>1, ReadableFits
<1>3. fd' = [fd EXCEPT !.ptr = @ + n] /\ got' = got \o Bytes(fd.ptr, n)
  BY DEF mmfs_read
<1> HIDE DEF n
<1> QED
  BY <1>2, <1>3, TakeKeeps DEF InFile

LEMMA NothingTaken ==
    ASSUME ReadInv, fd # Closed, fd' = fd, got' = got \o <<>>,
           from' = from, strayed' = strayed
    PROVE  ReadInv'
<1>1. fd.ptr - from \in Nat /\ from \in Int /\ got = Bytes(from, fd.ptr - from)
  BY DEF ReadInv, ObjectOK, NothingLost, Desc
<1>2. got \in Seq(Any)
  BY <1>1, BytesSeq
<1>3. got' = got
  BY <1>2, ConcatEmptySeq
<1> QED
  BY <1>3, StillKeeps

LEMMA ReadAllKeeps == ASSUME ReadInv, ReadAll PROVE ReadInv'
<1> DEFINE size == fd.end - fd.ptr
<1>1. fd # Closed /\ fd \in Desc /\ size \in Int /\ Heap \in Nat
  BY MemoryIsNat DEF ReadAll, MayRead, ReadInv, ObjectOK, Desc
<1>2. from' = from /\ strayed' = strayed
  BY DEF ReadAll, Give, Halt
<1>3. CASE Halt
  BY <1>3, StillKeeps DEF Halt
<1>4. CASE fd' = fd /\ got' = got \o <<>>
  BY <1>1, <1>2, <1>4, NothingTaken
<1>5. CASE size \in 1..Heap /\ fd' = mmfs_read(fd, size).fd
             /\ got' = got \o mmfs_read(fd, size).bytes
  <2>1. size \in 0..Heap
    BY <1>1, <1>5
  <2> HIDE DEF size
  <2> QED
    BY <1>1, <1>2, <1>5, <2>1, ReadSome
<1> QED
  BY <1>3, <1>4, <1>5 DEF ReadAll, Give

LEMMA ReadOneKeeps == ASSUME ReadInv, ReadOne PROVE ReadInv'
<1>1. /\ fd # Closed /\ from' = from /\ strayed' = strayed
      /\ fd' = mmfs_read(fd, 1).fd /\ got' = got \o mmfs_read(fd, 1).bytes
  BY DEF ReadOne, MayRead, Give
<1>2. 1 \in 0..Heap
  BY MemoryIsNat
<1> QED
  BY <1>1, <1>2, ReadSome

\* A size no block has room for is read only where nothing is left.
LEMMA ReadCountKeeps ==
    ASSUME ReadInv, NEW count \in Counts, ReadCount(count)
    PROVE  ReadInv'
<1> DEFINE size == count % Word
<1>1. count \in Int /\ Word \in Nat /\ Word # 0 /\ Heap \in Nat
  BY ReaderAssumption, MemoryIsNat DEF ReaderAssumption
<1>2. size \in Nat
  BY <1>1
<1> HIDE DEF size
<1>3. CASE ~ binary
  BY <1>3, ReadOneKeeps DEF ReadCount
<1>4. CASE binary /\ Halt
  BY <1>4, StillKeeps DEF Halt
<1>5. CASE binary /\ ~ Halt
  <2>1. /\ fd # Closed /\ from' = from /\ strayed' = strayed
        /\ fd' = mmfs_read(fd, size).fd /\ got' = got \o mmfs_read(fd, size).bytes
        /\ size <= Heap \/ Readable(fd, size) = 0
    BY <1>5 DEF ReadCount, MayRead, Give, size
  <2>2. CASE size <= Heap
    <3>1. size \in 0..Heap
      BY <1>1, <1>2, <2>2
    <3> QED
      BY <2>1, <3>1, ReadSome
  <2>3. CASE Readable(fd, size) = 0
    <3>1. fd \in Desc /\ fd.ptr \in Int
      BY <2>1 DEF ReadInv, ObjectOK, Desc
    <3>2. mmfs_read(fd, size).bytes = <<>> /\ mmfs_read(fd, size).fd = fd
      <4>1. fd.ptr + 0 = fd.ptr /\ [fd EXCEPT !.ptr = fd.ptr] = fd
        BY <3>1 DEF Desc
      <4> QED
        BY <2>3, <3>1, <4>1, NoBytes DEF mmfs_read
    <3> QED
      BY <2>1, <3>2, NothingTaken
  <2> QED
    BY <2>1, <2>2, <2>3
<1> QED
  BY <1>3, <1>4, <1>5

-----------------------------------------------------------------------------
(* readLine: its chunks *)

LEMMA ChunkAt ==
    ASSUME fd \in Desc, NEW i \in Nat
    PROVE  /\ At(i) \in Desc /\ At(i).end = fd.end
           /\ At(i).ptr = fd.ptr + i * Chunk /\ i * Chunk \in Nat
           /\ Actual(i) \in 0..Chunk
<1>1. i * Chunk \in Nat
  BY MemoryIsNat
<1>2. /\ At(i) \in Desc /\ At(i).end = fd.end
      /\ At(i).ptr = fd.ptr + i * Chunk
  <2>1. fd.ptr \in Int /\ -Reach <= fd.ptr
    BY DEF Desc
  <2>2. fd.ptr + i * Chunk \in Int /\ -Reach <= fd.ptr + i * Chunk
    BY <1>1, <2>1, MemoryIsNat
  <2> QED
    BY <2>2, MoveKeepsFile DEF At
<1> QED
  BY <1>1, <1>2, ReadableFits, MemoryIsNat DEF Actual

\* The newlines of a chunk, as offsets in it.
Newlines(i) == {j \in 0..Actual(i) - 1 : Byte(At(i).ptr + j) = NL}

LEMMA NewlineThere ==
    ASSUME fd \in Desc, NEW i \in Nat
    PROVE  /\ Newline(i) \in Nat
           /\ Newline(i) # 0 => /\ Newline(i) < Actual(i)
                                /\ Byte(At(i).ptr + Newline(i)) = NL
<1>1. Newline(i) = IF Newlines(i) = {} THEN 0 ELSE Min(Newlines(i))
  BY DEF Newline, Newlines
<1>2. Actual(i) \in Nat
  <2>1. Actual(i) \in 0..Chunk
    BY ChunkAt
  <2> QED
    BY <2>1
<1>3. Newlines(i) \subseteq Nat
  BY DEF Newlines
<1>4. Newlines(i) # {} => Newline(i) \in Newlines(i)
  BY <1>1, <1>3, MinThere
<1>5. CASE Newlines(i) = {}
  BY <1>1, <1>5
<1>6. CASE Newlines(i) # {}
  BY <1>2, <1>4, <1>6 DEF Newlines
<1> QED
  BY <1>5, <1>6

Ends(i) == Newline(i) # 0 \/ Actual(i) < Chunk

\* The loop ends, and all chunks before its last are full.
LEMMA LastChunkEnds ==
    ASSUME ObjectOK
    PROVE  /\ LastChunk \in Nat /\ Ends(LastChunk)
           /\ \A i \in 0..LastChunk - 1 : Newline(i) = 0 /\ Actual(i) = Chunk
<1> DEFINE far == Len(Image) + Reach
           S == {i \in 0..far : Ends(i)}
<1>1. fd \in Desc /\ fd.ptr \in Int /\ fd.end \in Nat
  BY DEF ObjectOK, Desc
<1>2. far \in Nat
  BY MemoryIsNat
<1>3. Actual(far) = 0
  <2>1. far * Chunk >= far
    BY <1>2, MemoryIsNat
  <2>2. /\ At(far) \in Desc /\ At(far).ptr = fd.ptr + far * Chunk
        /\ At(far).end = fd.end /\ far * Chunk \in Nat
    BY <1>1, <1>2, ChunkAt
  <2>3. At(far).ptr >= At(far).end
    BY <1>1, <1>2, <2>1, <2>2, MemoryIsNat DEF Desc
  <2> QED
    BY <2>2, <2>3, ReadableFits, MemoryIsNat DEF Actual
<1>4. far \in S
  BY <1>2, <1>3, MemoryIsNat DEF Ends
<1>5. LastChunk = Min(S)
  BY DEF LastChunk, Ends
<1>6. LastChunk \in S /\ \A i \in S : LastChunk <= i
  <2>1. S \subseteq Nat
    BY <1>2
  <2> QED
    BY <1>4, <1>5, <2>1, MinThere
<1>7. ASSUME NEW i \in 0..LastChunk - 1
      PROVE  Newline(i) = 0 /\ Actual(i) = Chunk
  <2>1. i \in 0..far /\ ~ (LastChunk <= i)
    BY <1>2, <1>6
  <2>2. ~ Ends(i)
    BY <2>1, <1>6
  <2>3. Actual(i) \in 0..Chunk
    BY <1>1, <2>1, ChunkAt
  <2> QED
    BY <2>2, <2>3, MemoryIsNat DEF Ends
<1> QED
  BY <1>2, <1>6, <1>7

\* Behind a full chunk the descriptor is still in the file.
LEMMA FullChunk ==
    ASSUME fd \in Desc, NEW k \in Nat, Actual(k) = Chunk
    PROVE  fd.ptr + (k * Chunk + Chunk) <= fd.end
<1>1. /\ At(k) \in Desc /\ At(k).end = fd.end /\ k * Chunk \in Nat
      /\ At(k).ptr = fd.ptr + k * Chunk /\ fd.ptr \in Int /\ fd.end \in Nat
  BY ChunkAt DEF Desc
<1>2. At(k).ptr >= At(k).end => Readable(At(k), Chunk) = 0
  BY <1>1, ReadableFits, MemoryIsNat
<1>3. At(k).ptr <= At(k).end => At(k).ptr + Readable(At(k), Chunk) <= At(k).end
  BY <1>1, ReadableFits, MemoryIsNat
<1>4. Readable(At(k), Chunk) = Chunk
  BY DEF Actual
<1> QED
  BY <1>1, <1>2, <1>3, <1>4, MemoryIsNat

LEMMA ReadLineKeeps ==
    ASSUME ReadInv, NEW trailing \in BOOLEAN, ReadLine(trailing)
    PROVE  ReadInv'
<1> DEFINE last == LastChunk
           found == Newline(last) # 0
           read == last * Chunk + (IF found THEN Newline(last) ELSE Actual(last))
           len == read + (IF found /\ trailing THEN 1 ELSE 0)
           n == read + (IF found THEN 1 ELSE 0)
<1>1. fd # Closed /\ ObjectOK /\ fd \in Desc /\ fd.ptr \in Int /\ fd.end \in Nat
  BY DEF ReadLine, MayRead, ReadInv, ObjectOK, Desc
<1>2. /\ last \in Nat /\ Ends(last)
      /\ \A i \in 0..last - 1 : Newline(i) = 0 /\ Actual(i) = Chunk
  BY <1>1, LastChunkEnds
<1>3. /\ At(last) \in Desc /\ At(last).end = fd.end
      /\ At(last).ptr = fd.ptr + last * Chunk /\ last * Chunk \in Nat
      /\ Actual(last) \in 0..Chunk
  BY <1>1, <1>2, ChunkAt
<1>4. /\ Newline(last) \in Nat
      /\ found => Newline(last) < Actual(last) /\ Byte(At(last).ptr + Newline(last)) = NL
  BY <1>1, <1>2, NewlineThere
<1>5. read \in Nat /\ n \in Nat /\ n <= last * Chunk + Actual(last)
  BY <1>3, <1>4, MemoryIsNat
<1>6. /\ fd' = [fd EXCEPT !.ptr = @ + n]
      /\ from' = from /\ strayed' = strayed
      /\ got' = got \o (IF found /\ ~ trailing THEN Append(Bytes(fd.ptr, len), NL)
                         ELSE Bytes(fd.ptr, len))
  <2>1. fd.ptr + read + (IF found THEN 1 ELSE 0) = fd.ptr + n
    BY <1>1, <1>5
  <2> QED
    BY <2>1 DEF ReadLine, Give
<1>7. (IF found /\ ~ trailing THEN Append(Bytes(fd.ptr, len), NL)
       ELSE Bytes(fd.ptr, len)) = Bytes(fd.ptr, n)
  <2>1. CASE found /\ ~ trailing
    <3>1. len = read /\ n = read + 1 /\ fd.ptr + read = At(last).ptr + Newline(last)
      BY <1>1, <1>3, <1>4, <1>5, <2>1
    <3>2. Byte(fd.ptr + read) = NL
      BY <1>4, <2>1, <3>1
    <3> HIDE DEF read, len, n
    <3> QED
      BY <1>1, <1>5, <2>1, <3>1, <3>2, BytesAppend
  <2>2. CASE ~ (found /\ ~ trailing)
    BY <2>2
  <2> QED
    BY <2>1, <2>2
<1>8. ASSUME InFile(fd)
      PROVE  fd.ptr + n <= fd.end
  <2>1. CASE At(last).ptr <= fd.end
    <3>1. At(last).ptr + Actual(last) <= fd.end
      BY <1>3, <2>1, ReadableFits, MemoryIsNat DEF Actual
    <3> QED
      BY <1>1, <1>3, <1>5, <3>1, MemoryIsNat
  <2>2. CASE At(last).ptr > fd.end
    <3>1. last # 0
      BY <1>1, <1>3, <1>8, <2>2, MemoryIsNat DEF InFile
    <3> DEFINE k == last - 1
    <3>2. k \in Nat /\ k \in 0..last - 1
      BY <1>2, <3>1
    <3>3. last * Chunk = k * Chunk + Chunk
      BY <1>2, MemoryIsNat
    <3>4. fd.ptr + (k * Chunk + Chunk) <= fd.end
      BY <1>1, <1>2, <3>2, FullChunk
    <3> QED
      BY <1>1, <1>3, <2>2, <3>3, <3>4, MemoryIsNat
  <2> QED
    BY <1>1, <1>3, <2>1, <2>2, MemoryIsNat
<1> HIDE DEF n
<1> QED
  BY <1>1, <1>5, <1>6, <1>7, <1>8, TakeKeeps

\* A readLine that runs out of memory loses full chunks.
LEMMA RefusedKeeps == ASSUME ReadInv, ReadLineRefused PROVE ReadInv'
<1>1. CASE Halt
  BY <1>1, StillKeeps DEF Halt
<1>2. ASSUME NEW n \in 1..LastChunk,
             fd' = [fd EXCEPT !.ptr = @ + n * Chunk],
             from' = fd'.ptr, got' = <<>>, strayed' = strayed
      PROVE  ReadInv'
  <2>1. ObjectOK /\ fd \in Desc /\ fd # Closed
    BY DEF ReadLineRefused, MayRead, ReadInv, ObjectOK
  <2>2. /\ fd.ptr \in Int /\ fd.start \in Nat /\ fd.end \in Nat
        /\ fd.start <= fd.end /\ -Reach <= fd.ptr
    BY <2>1 DEF ObjectOK, Desc
  <2> DEFINE k == n - 1
  <2>3. LastChunk \in Nat /\ k \in Nat /\ Actual(k) = Chunk
    BY <2>1, LastChunkEnds
  <2>4. n \in Nat /\ n * Chunk = k * Chunk + Chunk /\ n * Chunk \in Nat
    BY <2>3, MemoryIsNat
  <2>5. fd.ptr + n * Chunk <= fd.end
    BY <2>1, <2>3, <2>4, FullChunk
  <2> HIDE DEF k
  <2>6. /\ fd' \in Desc /\ fd'.start = fd.start /\ fd'.end = fd.end
        /\ fd'.ptr = fd.ptr + n * Chunk
    <3>1. /\ fd.ptr + n * Chunk \in Int /\ -Reach <= fd.ptr + n * Chunk
          /\ fd' = [fd EXCEPT !.ptr = fd.ptr + n * Chunk]
      BY <1>2, <2>2, <2>4, MemoryIsNat
    <3> QED
      BY <2>1, <3>1, MoveKeepsFile
  <2>7. ObjectOK' /\ from' \in Int
    BY <1>2, <2>2, <2>4, <2>6 DEF ObjectOK
  <2>8. got' = Bytes(from', fd'.ptr - from')
    BY <1>2, <2>2, <2>4, <2>6, <2>7, NoBytes
  <2>9. InFile(fd)' \/ strayed'
    BY <1>2, <2>1, <2>2, <2>4, <2>5, <2>6 DEF InFile, ReadInv, NothingLost
  <2> QED
    BY <2>7, <2>8, <2>9 DEF ReadInv, NothingLost
<1> QED
  BY <1>1, <1>2 DEF ReadLineRefused

-----------------------------------------------------------------------------
(* All steps *)

LEMMA SeekKeeps ==
    ASSUME ReadInv, NEW whence \in Whences, NEW off \in Offsets, Seek(whence, off)
    PROVE  ReadInv'
<1>1. fd # Closed /\ ObjectOK /\ fd \in Desc
  BY DEF Seek, MayRead, ReadInv, ObjectOK
<1>2. \E p : fd' = [fd EXCEPT !.ptr = p]
  <2>1. fd' = mmfs_lseek(fd, off, whence)
    BY DEF Seek
  <2> QED
    BY <2>1 DEF mmfs_lseek
<1>3. /\ fd' \in Desc /\ fd'.start = fd.start /\ fd'.end = fd.end
      /\ -Reach <= fd'.ptr /\ fd'.ptr \in Int
  <2>1. PICK p : fd' = [fd EXCEPT !.ptr = p]
    BY <1>2
  <2>2. fd'.ptr = p /\ fd'.start = fd.start /\ fd'.end = fd.end
    BY <1>1, <2>1 DEF Desc
  <2>3. p \in -Reach..Len(Image) + Reach
    BY <2>2 DEF Seek
  <2>4. p \in Int /\ -Reach <= p
    BY <2>3, MemoryIsNat
  <2>5. fd' \in Desc
    BY <1>1, <2>1, <2>4 DEF Desc
  <2> QED
    BY <2>2, <2>4, <2>5
<1>4. from' = fd'.ptr /\ got' = <<>> /\ strayed' = (strayed \/ ~ InFile(fd)')
  BY DEF Seek, InFile
<1>5. ObjectOK'
  BY <1>1, <1>3, <1>4 DEF ObjectOK
<1>6. got' = Bytes(from', fd'.ptr - from')
  BY <1>3, <1>4, NoBytes
<1> QED
  BY <1>4, <1>5, <1>6 DEF ReadInv, NothingLost

\* A path leads to a file of the image.
LEMMA FilesInImage ==
    ASSUME NEW e \in Entries, ~ e.dir
    PROVE  e.at \in Nat /\ e.size \in Nat /\ e.at + e.size <= Len(Image)
<1>1. PICK d \in DOMAIN Dirs : e \in Within(d)
  BY DEF Entries
<1>2. PICK i \in 1..Len(Dirs[d]) : e = Dirs[d][i]
  BY <1>1 DEF Within
<1>3. e \in Entry
  BY NullIsNoEntry
<1> QED
  BY <1>2, <1>3, ImageAssumption DEF ImageAssumption, Entry

LEMMA FoundIsEntry ==
    ASSUME LookupInv, pc = "found", node # NULL
    PROVE  node \in Entries
<1>1. PICK c \in [1..Len(asked) -> Entries] :
        Chain(asked, Len(asked), c) /\ c[Len(asked)] = node /\ asked # <<>>
  BY DEF LookupInv, TraverseFinds, Names
<1> QED
  BY <1>1 DEF Chain

LEMMA OpenedKeeps == ASSUME ReadInv, LookupInv, Opened PROVE ReadInv'
<1>1. CASE node # NULL /\ ~ node.dir
  <2>1. /\ fd' = [start |-> node.at, ptr |-> node.at, end |-> node.at + node.size]
        /\ from' = node.at /\ got' = <<>>
    BY <1>1 DEF Opened, mmfs_open
  <2>2. node.at \in Nat /\ node.size \in Nat /\ node.at + node.size <= Len(Image)
    BY <1>1, FoundIsEntry, FilesInImage DEF Opened
  <2>3. ObjectOK'
    BY <2>1, <2>2, MemoryIsNat DEF ObjectOK, Desc
  <2>4. got' = Bytes(from', fd'.ptr - from')
    BY <2>1, <2>2, NoBytes
  <2>5. InFile(fd)'
    BY <2>1, <2>2 DEF InFile
  <2> QED
    BY <2>3, <2>4, <2>5 DEF ReadInv, NothingLost
<1>2. CASE ~ (node # NULL /\ ~ node.dir)
  BY <1>2, StillKeeps DEF Opened, object
<1> QED
  BY <1>1, <1>2

LEMMA ReadStep ==
    ASSUME ReadInv, LookupInv, [Next]_vars
    PROVE  ReadInv'
<1>1. ASSUME UNCHANGED object
      PROVE  ReadInv'
  BY <1>1, StillKeeps DEF object
<1>2. ASSUME NEW path \in Asked, Open(path) \/ List(path)
      PROVE  ReadInv'
  BY <1>1, <1>2 DEF Open, List
<1>3. CASE Lookup \/ Listing \/ Listed
  BY <1>1, <1>3 DEF Lookup, Listing, Listed
<1>4. CASE Opened
  BY <1>4, OpenedKeeps
<1>5. CASE ReadAll \/ ReadOne
  BY <1>5, ReadAllKeeps, ReadOneKeeps
<1>6. ASSUME NEW trailing \in BOOLEAN, ReadLine(trailing)
      PROVE  ReadInv'
  BY <1>6, ReadLineKeeps
<1>7. ASSUME NEW count \in Counts, ReadCount(count)
      PROVE  ReadInv'
  BY <1>7, ReadCountKeeps
<1>8. ASSUME NEW whence \in Whences, NEW off \in Offsets, Seek(whence, off)
      PROVE  ReadInv'
  BY <1>8, SeekKeeps
<1>9. CASE Close \/ Restart
  BY <1>9 DEF Close, Restart, NoObject, ReadInv, NothingLost
<1>10. CASE UNCHANGED vars
  BY <1>1, <1>10 DEF vars
<1> QED
  BY <1>2, <1>3, <1>4, <1>5, <1>6, <1>7, <1>8, <1>9, <1>10, RefusedKeeps
     DEF Next, Inside

LEMMA ReadHolds == Spec => []ReadInv
<1>1. Init => ReadInv
  BY DEF Init, ReadInv, NothingLost
<1>2. ReadInv /\ LookupInv /\ [Next]_vars => ReadInv'
  BY ReadStep
<1> QED
  BY <1>1, <1>2, LookupHolds, PTL DEF Spec

\* fs_handle_readAllByte, fs_handle_readLine, fs_handle_readByte, mmfs_read:
\* whatever the mix of reads of a ROM file, and whatever the count, no byte is
\* left out or given twice, and only a seek leaves the file.  A count below
\* zero, the size of which mmfs_read does not cut, halts the machine before the
\* descriptor has moved, on the assumption that no block that malloc gives
\* reaches from the image to the end of the address space.
THEOREM BytesInOrder == Spec => []NothingLost
<1>1. ReadInv => NothingLost
  BY DEF ReadInv
<1> QED
  BY <1>1, ReadHolds, PTL

-----------------------------------------------------------------------------
(* Lines *)

\* Where the line at the descriptor ends: before the first newline there
\* is, or with the file.
LEMMA LineLenIs ==
    ASSUME fd \in Desc, InFile(fd)
    PROVE  /\ LineLen \in Nat /\ fd.ptr + LineLen <= fd.end
           /\ \A j \in 0..LineLen - 1 : Byte(fd.ptr + j) # NL
           /\ fd.ptr + LineLen < fd.end => Byte(fd.ptr + LineLen) = NL
<1> DEFINE S == {p \in fd.ptr..fd.end - 1 : Byte(p) = NL}
<1>1. fd.ptr \in Nat /\ fd.end \in Nat /\ fd.ptr <= fd.end
  BY DEF InFile, Desc
<1>2. LineLen = (IF S = {} THEN fd.end ELSE Min(S)) - fd.ptr
  BY DEF LineLen
<1>3. CASE S = {}
  <2>1. LineLen = fd.end - fd.ptr
    BY <1>2, <1>3
  <2>2. ASSUME NEW j \in 0..LineLen - 1
        PROVE  Byte(fd.ptr + j) # NL
    <3>1. fd.ptr + j \in fd.ptr..fd.end - 1
      BY <1>1, <2>1
    <3> QED
      BY <1>3, <3>1
  <2> QED
    BY <1>1, <2>1, <2>2
<1>4. CASE S # {}
  <2>1. Min(S) \in S /\ \A y \in S : Min(S) <= y
    <3>1. S \subseteq Nat
      BY <1>1
    <3> QED
      BY <1>4, <3>1, MinThere
  <2> DEFINE m == Min(S)
  <2>2. m \in fd.ptr..fd.end - 1 /\ Byte(m) = NL
    BY <2>1
  <2>3. LineLen = m - fd.ptr
    BY <1>2, <1>4
  <2> HIDE DEF m
  <2>4. LineLen \in Nat /\ fd.ptr + LineLen = m /\ m < fd.end
    BY <1>1, <2>2, <2>3
  <2>5. ASSUME NEW j \in 0..LineLen - 1, Byte(fd.ptr + j) = NL
        PROVE  FALSE
    <3>1. fd.ptr + j \in S /\ ~ (m <= fd.ptr + j)
      BY <1>1, <2>2, <2>4, <2>5
    <3> QED
      BY <2>1, <3>1 DEF m
  <2> QED
    BY <1>1, <2>2, <2>4, <2>5
<1> QED
  BY <1>3, <1>4

\* A chunk that lies in the line is full and has no newline.
LEMMA ChunkInLine ==
    ASSUME fd \in Desc, InFile(fd), NEW i \in Nat,
           i * Chunk + Chunk <= LineLen
    PROVE  ~ Ends(i)
<1>1. fd.ptr \in Nat /\ fd.end \in Nat
  BY DEF InFile, Desc
<1>2. /\ At(i) \in Desc /\ At(i).end = fd.end
      /\ At(i).ptr = fd.ptr + i * Chunk /\ i * Chunk \in Nat
  BY ChunkAt
<1>3. /\ LineLen \in Nat /\ fd.ptr + LineLen <= fd.end
      /\ \A j \in 0..LineLen - 1 : Byte(fd.ptr + j) # NL
  BY LineLenIs
<1>4. Actual(i) = Chunk
  <2>1. At(i).ptr + Chunk <= At(i).end
    BY <1>1, <1>2, <1>3, MemoryIsNat
  <2> QED
    BY <1>2, <2>1, ReadableFits, MemoryIsNat DEF Actual
<1>5. ASSUME NEW j \in 0..Chunk - 1
      PROVE  Byte(At(i).ptr + j) # NL
  <2>1. i * Chunk + j \in 0..LineLen - 1
    BY <1>2, <1>3, MemoryIsNat
  <2>2. At(i).ptr + j = fd.ptr + (i * Chunk + j)
    BY <1>1, <1>2, MemoryIsNat
  <2> QED
    BY <1>3, <2>1, <2>2
<1>6. Newline(i) = 0
  BY <1>4, <1>5 DEF Newline
<1> QED
  BY <1>4, <1>6, MemoryIsNat DEF Ends

\* What readLine takes of its last chunk, without the newline.
Stop(i) == IF Newline(i) # 0 THEN Newline(i) ELSE Actual(i)

\* The chunk the line ends in is the one the loop ends with.
LEMMA LineEnds ==
    ASSUME ObjectOK, InFile(fd), LineLen % Chunk # 0
    PROVE  /\ LineLen = LastChunk * Chunk + Stop(LastChunk)
           /\ Newline(LastChunk) # 0 <=> fd.ptr + LineLen < fd.end
<1> DEFINE L == LineLen
           q == L \div Chunk
           r == L % Chunk
<1>1. fd \in Desc /\ fd.ptr \in Nat /\ fd.end \in Nat
  BY DEF ObjectOK, InFile, Desc
<1>2. /\ L \in Nat /\ fd.ptr + L <= fd.end
      /\ \A j \in 0..L - 1 : Byte(fd.ptr + j) # NL
      /\ fd.ptr + L < fd.end => Byte(fd.ptr + L) = NL
  BY <1>1, LineLenIs
<1>3. q \in Nat /\ r \in 1..Chunk - 1 /\ L = q * Chunk + r
  BY <1>2, MemoryIsNat
<1> HIDE DEF L, q, r
<1>4. /\ At(q) \in Desc /\ At(q).end = fd.end
      /\ At(q).ptr = fd.ptr + q * Chunk /\ q * Chunk \in Nat
  BY <1>1, <1>3, ChunkAt
<1>5. At(q).ptr + r = fd.ptr + L /\ At(q).ptr \in Nat
  BY <1>1, <1>3, <1>4, MemoryIsNat
<1>6. ASSUME NEW j \in 0..r - 1
      PROVE  Byte(At(q).ptr + j) # NL
  <2>1. q * Chunk + j \in 0..L - 1
    BY <1>3, <1>4, MemoryIsNat
  <2>2. At(q).ptr + j = fd.ptr + (q * Chunk + j)
    BY <1>1, <1>3, <1>4, MemoryIsNat
  <2> QED
    BY <1>2, <2>1, <2>2
<1>7. /\ Actual(q) \in 0..Chunk /\ At(q).end \in Nat
      /\ At(q).ptr + Chunk <= At(q).end => Actual(q) = Chunk
      /\ At(q).ptr + Chunk > At(q).end /\ At(q).ptr <= At(q).end
           => Actual(q) = At(q).end - At(q).ptr
  BY <1>4, ReadableFits, MemoryIsNat DEF Actual, Desc
<1>8. ASSUME fd.ptr + L < fd.end
      PROVE  Ends(q) /\ Newline(q) # 0 /\ Stop(q) = r
  <2>1. Actual(q) \in Nat /\ r < Actual(q)
    <3>1. At(q).ptr + r < At(q).end
      BY <1>4, <1>5, <1>8
    <3>2. r \in Nat /\ r < Chunk /\ Chunk \in Nat
      BY <1>3, MemoryIsNat
    <3> QED
      BY <1>5, <1>7, <3>1, <3>2
  <2>2. r \in Newlines(q)
    BY <1>2, <1>3, <1>5, <1>8, <2>1, MemoryIsNat DEF Newlines
  <2>3. ASSUME NEW j \in Newlines(q)
        PROVE  r <= j
    <3>1. j \in Nat /\ Byte(At(q).ptr + j) = NL
      BY <2>1 DEF Newlines
    <3> QED
      BY <1>3, <1>6, <3>1, MemoryIsNat
  <2>4. Newlines(q) \subseteq Int
    BY DEF Newlines
  <2>5. Min(Newlines(q)) = r
    BY <2>2, <2>3, <2>4, MinIs
  <2>6. Newline(q) = r
    BY <2>2, <2>5 DEF Newline, Newlines
  <2> QED
    BY <1>3, <1>8, <2>6, MemoryIsNat DEF Ends, Stop
<1>9. ASSUME ~ (fd.ptr + L < fd.end)
      PROVE  Ends(q) /\ Newline(q) = 0 /\ Stop(q) = r
  <2>1. Actual(q) = r
    <3>1. At(q).ptr + r = At(q).end
      BY <1>1, <1>2, <1>4, <1>5, <1>9
    <3>2. r \in Nat /\ r < Chunk /\ Chunk \in Nat
      BY <1>3, MemoryIsNat
    <3> QED
      BY <1>5, <1>7, <3>1, <3>2
  <2>2. Newline(q) = 0
    BY <1>6, <2>1 DEF Newline
  <2> QED
    BY <1>3, <1>9, <2>1, <2>2, MemoryIsNat DEF Ends, Stop
<1>10. LastChunk = q
  <2>1. /\ LastChunk \in Nat /\ Ends(LastChunk)
        /\ \A i \in 0..LastChunk - 1 : ~ Ends(i)
    BY LastChunkEnds, MemoryIsNat DEF Ends
  <2>2. Ends(q)
    BY <1>8, <1>9
  <2>3. ASSUME LastChunk < q
        PROVE  FALSE
    <3>1. LastChunk * Chunk + Chunk <= q * Chunk
      <4>1. \A a, b, c \in Nat : a < b => a * c + c <= b * c
        OBVIOUS
      <4> QED
        BY <1>3, <2>1, <2>3, <4>1, MemoryIsNat
    <3>2. LastChunk * Chunk \in Nat
      BY <2>1, MemoryIsNat
    <3>3. LastChunk * Chunk + Chunk <= L
      BY <1>2, <1>3, <1>4, <3>1, <3>2, MemoryIsNat
    <3> QED
      BY <1>1, <2>1, <3>3, ChunkInLine DEF L
  <2>4. ASSUME q < LastChunk
        PROVE  FALSE
    BY <1>3, <2>1, <2>2, <2>4
  <2> QED
    BY <1>3, <2>1, <2>3, <2>4
<1> QED
  BY <1>3, <1>8, <1>9, <1>10 DEF L, Stop

\* fs_handle_readLine gives the line at the descriptor and goes on behind it,
\* whatever the image and the size of its chunks, unless the line's length is
\* a multiple of that size.
THEOREM LinesAreWhole == Spec => LinesWhole
<1>1. ASSUME ReadInv, NEW trailing \in BOOLEAN
      PROVE  LineWhole(trailing)
  <2> SUFFICES ASSUME ReadLine(trailing), InFile(fd), LineLen % Chunk # 0
               PROVE  LET skip == IF fd.ptr + LineLen < fd.end THEN 1 ELSE 0
                      IN /\ out' = Bytes(fd.ptr, LineLen + (IF trailing THEN skip ELSE 0))
                         /\ fd'.ptr = fd.ptr + LineLen + skip
    BY DEF LineWhole
  <2> DEFINE found == Newline(LastChunk) # 0
             read == LastChunk * Chunk
                       + (IF found THEN Newline(LastChunk) ELSE Actual(LastChunk))
             len == read + (IF found /\ trailing THEN 1 ELSE 0)
  <2>1. ObjectOK /\ fd \in Desc /\ fd.ptr \in Nat
    BY <1>1 DEF ReadLine, MayRead, ReadInv, ObjectOK, Desc, InFile
  <2>2. LineLen = read /\ (found <=> fd.ptr + LineLen < fd.end)
    BY <2>1, LineEnds DEF Stop
  <2>3. LineLen \in Nat /\ LineLen # 0
    BY <2>1, LineLenIs, MemoryIsNat
  <2>4. /\ out' = IF len = 0 THEN Nil ELSE Bytes(fd.ptr, len)
        /\ fd' = [fd EXCEPT !.ptr = @ + read + (IF found THEN 1 ELSE 0)]
    BY DEF ReadLine, Give
  <2>5. fd'.ptr = fd.ptr + read + (IF found THEN 1 ELSE 0)
    BY <2>1, <2>4 DEF Desc
  <2> HIDE DEF found, read
  <2>6. len # 0
    BY <2>2, <2>3
  <2> QED
    BY <2>2, <2>3, <2>4, <2>5, <2>6
<1>2. ReadInv => [\A trailing \in BOOLEAN : LineWhole(trailing)]_vars
  BY <1>1
<1> QED
  BY <1>2, ReadHolds, PTL DEF LinesWhole

-----------------------------------------------------------------------------
(* Listings *)

\* The iterator's directory is in the image, and its place counts what it
\* has given.
ListInv ==
    /\ pc = "list" => dir \in DOMAIN Dirs /\ offset \in 0..Len(Dirs[dir])
    /\ pc # "list" => listed = <<>>
    /\ ListComplete

LEMMA ListBegins ==
    ASSUME listed = <<>>, NEW d \in DOMAIN Dirs, OpenDir(d)
    PROVE  ListInv'
<1>1. Dirs[d] \in Seq(Entry)
  BY ImageAssumption DEF ImageAssumption
<1>2. Len(Dirs[d]) \in Nat
  BY <1>1, LenProperties
<1>3. /\ pc' = "list" /\ dir' = d /\ offset' = 0 /\ listed' = <<>>
  BY DEF OpenDir
<1>4. SubSeq([i \in 1..Len(Dirs[d]) |-> Dirs[d][i].name], 1, 0) = <<>>
  OBVIOUS
<1> QED
  BY <1>2, <1>3, <1>4 DEF ListInv, ListComplete

LEMMA ListGoesOn == ASSUME ListInv, ReadDir PROVE ListInv'
<1> DEFINE names == [i \in 1..Len(Dirs[dir]) |-> Dirs[dir][i].name]
<1>1. /\ pc = "list" /\ pc' = "list" /\ dir' = dir /\ dir \in DOMAIN Dirs
      /\ offset \in 0..Len(Dirs[dir]) /\ offset < Len(Dirs[dir])
      /\ listed = SubSeq(names, 1, offset)
      /\ listed' = Append(listed, Dirs[dir][offset + 1].name)
      /\ offset' = (offset + 1) % OffsetRange
  BY DEF ReadDir, ListInv, ListComplete, walk
<1>2. Dirs[dir] \in Seq(Entry) /\ Len(Dirs[dir]) < OffsetRange /\ OffsetRange \in Nat
  BY <1>1, ImageAssumption, OffsetAssumption DEF ImageAssumption, OffsetAssumption
<1>3. Len(Dirs[dir]) \in Nat /\ \A i \in 1..Len(Dirs[dir]) : Dirs[dir][i].name \in Int
  <2>1. \A i \in 1..Len(Dirs[dir]) : Dirs[dir][i] \in Entry
    BY <1>2, ElementOfSeq
  <2> QED
    BY <1>2, <2>1, LenProperties DEF Entry
<1>4. offset \in Nat /\ offset' = offset + 1
  <2>1. offset \in Nat /\ 0 <= offset + 1 /\ offset + 1 < OffsetRange
    BY <1>1, <1>2, <1>3
  <2>2. \A a, b \in Nat : a < b => a % b = a
    OBVIOUS
  <2>3. (offset + 1) % OffsetRange = offset + 1
    BY <1>2, <2>1, <2>2
  <2> QED
    BY <1>1, <2>1, <2>3
<1>5. names \in Seq(Int) /\ Len(names) = Len(Dirs[dir])
  <2>1. names \in [1..Len(Dirs[dir]) -> Int]
    BY <1>3
  <2>2. names \in Seq(Int)
    BY <1>3, <2>1, SeqDef
  <2> QED
    BY <1>3, <2>1, <2>2, LenProperties
<1>6. names[offset + 1] = Dirs[dir][offset + 1].name
  BY <1>1, <1>3, <1>4
<1> HIDE DEF names
<1>7. SubSeq(names, 1, offset + 1) = Append(SubSeq(names, 1, offset), names[offset + 1])
  BY <1>1, <1>3, <1>4, <1>5, SMTT(30)
<1>8. listed' = SubSeq(names, 1, offset')
  BY <1>1, <1>4, <1>6, <1>7
<1>9. ListComplete'
  <2>1. names' = names
    BY <1>1 DEF names
  <2>2. ListComplete' = (pc' = "list" => listed' = SubSeq(names', 1, offset'))
    BY DEF ListComplete, names
  <2> QED
    BY <1>8, <2>1, <2>2
<1>10. offset' \in 0..Len(Dirs[dir])
  BY <1>1, <1>3, <1>4
<1> QED
  BY <1>1, <1>9, <1>10 DEF ListInv

LEMMA ListStep ==
    ASSUME ListInv, LookupInv, [Next]_vars
    PROVE  ListInv'
<1>1. ASSUME pc # "list", pc' # "list", listed' = listed
      PROVE  ListInv'
  BY <1>1 DEF ListInv, ListComplete
<1>2. ASSUME NEW path \in Asked, Open(path)
      PROVE  ListInv'
  BY <1>1, <1>2 DEF Open, Traverse, iterator
<1>3. ASSUME NEW path \in Asked, List(path)
      PROVE  ListInv'
  <2>1. CASE pc = "idle" /\ OpenDir(Root)
    BY <2>1, ListBegins, ImageAssumption DEF ListInv, ImageAssumption
  <2>2. CASE Traverse(path) /\ UNCHANGED iterator
    BY <1>1, <2>2 DEF Traverse, iterator
  <2> QED
    BY <1>3, <2>1, <2>2 DEF List
<1>4. CASE Lookup
  BY <1>1, <1>4
     DEF Lookup, iterator, TraverseStep, NextName, EndOfPath, Compare, Missing, Return
<1>5. CASE Listing
  <2>1. CloseDir => pc' # "list" /\ listed' = <<>>
    BY DEF CloseDir, Forget
  <2>2. CloseDir => ListInv'
    BY <2>1 DEF ListInv, ListComplete
  <2> QED
    BY <1>5, <2>2, ListGoesOn DEF Listing
<1>6. CASE Opened
  BY <1>1, <1>6 DEF Opened, Forget, iterator
<1>7. CASE Listed
  <2>1. pc = "found" /\ listed = <<>>
    BY <1>7 DEF Listed, ListInv
  <2>2. CASE node # NULL /\ node.dir
    <3>1. node.at \in DOMAIN Dirs /\ OpenDir(node.at)
      BY <1>7, <2>1, <2>2, FoundIsEntry, EntryLeadsOn DEF Listed
    <3> QED
      BY <2>1, <3>1, ListBegins
  <2>3. CASE ~ (node # NULL /\ node.dir)
    BY <1>1, <1>7, <2>1, <2>3 DEF Listed, Forget, iterator
  <2> QED
    BY <2>2, <2>3
<1>8. ASSUME UNCHANGED <<pc, dir, offset, listed>>
      PROVE  ListInv'
  BY <1>8 DEF ListInv, ListComplete
<1>9. CASE ReadAll \/ ReadOne \/ ReadLineRefused
  BY <1>8, <1>9 DEF ReadAll, ReadOne, ReadLineRefused, Give, Halt, iterator, walk
<1>10. ASSUME NEW trailing \in BOOLEAN, ReadLine(trailing)
       PROVE  ListInv'
  BY <1>8, <1>10 DEF ReadLine, Give, iterator, walk
<1>11. ASSUME NEW count \in Counts, ReadCount(count)
       PROVE  ListInv'
  BY <1>8, <1>11 DEF ReadCount, ReadOne, Give, Halt, iterator, walk
<1>12. ASSUME NEW whence \in Whences, NEW off \in Offsets, Seek(whence, off)
       PROVE  ListInv'
  BY <1>8, <1>12 DEF Seek, iterator, walk
<1>13. CASE Close
  BY <1>8, <1>13 DEF Close, iterator, walk
<1>14. CASE Restart
  BY <1>14 DEF Restart, Forget, ListInv, ListComplete
<1>15. CASE UNCHANGED vars
  BY <1>8, <1>15 DEF vars, iterator, walk
<1> QED
  BY <1>2, <1>3, <1>4, <1>5, <1>6, <1>7, <1>9, <1>10, <1>11, <1>12, <1>13, <1>14,
     <1>15 DEF Next, Inside

\* mmfs_opendir, mmfs_readdir, mmfs_closedir: every listing names the entries
\* of its directory in order, once each, whatever was listed before.
THEOREM ListingsComplete == Spec => []ListComplete
<1>1. Init => ListInv
  BY DEF Init, InitMmfs, ListInv, ListComplete
<1>2. ListInv /\ LookupInv /\ [Next]_vars => ListInv'
  BY ListStep
<1>3. ListInv => ListComplete
  BY DEF ListInv
<1> QED
  BY <1>1, <1>2, <1>3, LookupHolds, PTL DEF Spec
-----------------------------------------------------------------------------
(* Progress *)

\* What a call has before it: its phases, the names still to be found, whether
\* the directory for the next one is open, and the entries in question.
Phase == CASE pc = "idle" -> 0 [] pc = "list" -> 1 [] pc = "found" -> 2 [] OTHER -> 3
NamesLeft == IF pc \in {"next", "search"} THEN Len(rest) ELSE 0
Place == IF pc = "next" THEN 1 ELSE 0
EntriesLeft ==
    CASE pc = "search" -> IF l < h THEN h - l ELSE 0
      [] pc = "list"   -> Len(Dirs[dir]) - offset
      [] OTHER         -> 0

\* The first of the four that changes gets smaller.
Shrinks ==
    \/ Phase' < Phase
    \/ /\ Phase' = Phase
       /\ \/ NamesLeft' < NamesLeft
          \/ /\ NamesLeft' = NamesLeft
             /\ \/ Place' < Place
                \/ Place' = Place /\ EntriesLeft' < EntriesLeft

\* Where a call may be in a state, and the measure is of numbers.
Measured ==
    /\ pc \in {"idle", "next", "search", "found", "list"}
    /\ Phase \in Nat /\ NamesLeft \in Nat /\ Place \in Nat /\ EntriesLeft \in Nat

\* Nothing happens inside a call but steps of it, and each brings it closer
\* to its end.
CallsShrink == [][pc # "idle" => Inside /\ Shrinks]_vars

Places == {"idle", "next", "search", "found", "list"}

\* The machine halts in the functions of a file object only.
HaltsIdle == halted => pc = "idle" /\ fd # Closed

\* A call of fs.open or fs.list begins, and a function of a file object runs.
Begins == pc = "idle" /\ fd = Closed /\ pc' \in Places /\ UNCHANGED halted
OnObject == MayRead /\ UNCHANGED pc /\ (UNCHANGED halted \/ UNCHANGED fd)

LEMMA KindsOfStep ==
    ASSUME [Next]_vars
    PROVE  Inside \/ Begins \/ OnObject \/ Restart \/ UNCHANGED vars
<1>1. ASSUME NEW path \in Asked, Open(path) \/ List(path)
      PROVE  Begins
  BY <1>1 DEF Open, List, Traverse, OpenDir, object, Begins, Places
<1>2. ASSUME NEW trailing \in BOOLEAN, ReadLine(trailing)
      PROVE  OnObject
  BY <1>2 DEF ReadLine, Give, OnObject
<1>3. ReadAll => OnObject
  BY DEF ReadAll, Give, Halt, OnObject
<1>4. ReadLineRefused => OnObject
  BY DEF ReadLineRefused, Halt, OnObject
<1>5. ReadOne => OnObject
  BY DEF ReadOne, Give, OnObject
<1>6. ASSUME NEW count \in Counts, ReadCount(count)
      PROVE  OnObject
  BY <1>5, <1>6 DEF ReadCount, Give, Halt, OnObject
<1>7. ASSUME NEW whence \in Whences, NEW off \in Offsets, Seek(whence, off)
      PROVE  OnObject
  BY <1>7 DEF Seek, OnObject
<1>8. Close => OnObject
  BY DEF Close, OnObject
<1> QED
  BY <1>1, <1>2, <1>3, <1>4, <1>5, <1>6, <1>7, <1>8 DEF Next

LEMMA PlaceStep ==
    ASSUME pc \in Places, HaltsIdle, [Next]_vars
    PROVE  /\ pc' \in Places /\ HaltsIdle'
           /\ pc # "idle" /\ vars' # vars => Inside
<1>1. CASE Inside
  <2>1. pc # "idle" /\ pc' \in Places
    BY <1>1 DEF Inside, Lookup, TraverseStep, NextName, EndOfPath, Compare, Missing,
                Return, Listing, ReadDir, CloseDir, Opened, Listed, OpenDir, Forget,
                Places
  <2>2. UNCHANGED halted
    BY <1>1 DEF Inside, Lookup, Listing, Opened, Listed, object
  <2> QED
    BY <1>1, <2>1, <2>2 DEF HaltsIdle
<1>2. CASE Begins
  BY <1>2 DEF Begins, HaltsIdle
<1>3. CASE OnObject
  BY <1>3 DEF OnObject, MayRead, HaltsIdle, Places
<1>4. CASE Restart
  BY <1>4 DEF Restart, Forget, HaltsIdle, Places
<1>5. CASE UNCHANGED vars
  BY <1>5 DEF vars, object, HaltsIdle
<1> QED
  BY <1>1, <1>2, <1>3, <1>4, <1>5, KindsOfStep

LEMMA MeasureIsNat ==
    ASSUME LookupInv, ListInv, pc \in Places
    PROVE  Measured
<1>1. pc \in {"next", "search"} => Len(rest) \in Nat
  BY DEF LookupInv, RestIsEnd
<1>2. pc = "search" => l \in Nat /\ h \in Nat
  BY DEF LookupInv, DirIsNext
<1>3. pc = "list" => offset \in 0..Len(Dirs[dir]) /\ Len(Dirs[dir]) \in Nat
  <2>1. pc = "list" => dir \in DOMAIN Dirs /\ offset \in 0..Len(Dirs[dir])
    BY DEF ListInv
  <2> QED
    BY <2>1, ImageAssumption, LenProperties DEF ImageAssumption
<1>4. EntriesLeft \in Nat
  BY <1>2, <1>3 DEF EntriesLeft
<1> QED
  BY <1>1, <1>4 DEF Measured, Places, Phase, NamesLeft, Place

\* A lookup comes closer to its result with every name it opens a directory
\* for, and with every comparison.
LEMMA LookupShrinks ==
    ASSUME LookupInv, Lookup
    PROVE  Shrinks
<1>1. pc \in {"next", "search"} /\ RestIsEnd
  BY DEF LookupInv, Lookup, TraverseStep, NextName, EndOfPath, Compare, Missing
<1>2. CASE NextName
  BY <1>2 DEF NextName, Shrinks, Phase, NamesLeft, Place
<1>3. CASE EndOfPath \/ Missing
  BY <1>1, <1>3 DEF EndOfPath, Missing, Return, Shrinks, Phase
<1>4. CASE Compare
  <2>1. /\ pc = "search" /\ l < h /\ l \in Nat /\ h \in Nat
        /\ Middle \in Nat /\ l <= Middle /\ Middle < h
        /\ Head(rest) \in Int /\ Here.name \in Int
        /\ rest \in Seq(Int) /\ rest # <<>>
    BY <1>1, <1>4, AroundHere DEF Compare, LookupInv, DirIsNext, RestIsEnd
  <2>2. CASE Head(rest) = Here.name
    <3>1. pc' = "next" /\ rest' = Tail(rest)
      BY <1>4, <2>2 DEF Compare
    <3>2. Len(Tail(rest)) < Len(rest)
      BY <2>1
    <3> QED
      BY <2>1, <3>1, <3>2 DEF Shrinks, Phase, NamesLeft
  <2>3. CASE Head(rest) # Here.name
    <3>1. pc' = pc /\ rest' = rest
      BY <1>4, <2>3 DEF Compare
    <3>2. /\ l' = IF Head(rest) > Here.name THEN Middle + 1 ELSE l
          /\ h' = IF Head(rest) < Here.name THEN Middle ELSE h
      BY <1>4 DEF Compare
    <3>3. EntriesLeft' < EntriesLeft
      <4>1. EntriesLeft = h - l
        BY <2>1 DEF EntriesLeft
      <4>2. EntriesLeft' = IF l' < h' THEN h' - l' ELSE 0
        BY <2>1, <3>1 DEF EntriesLeft
      <4>3. CASE Head(rest) > Here.name
        BY <2>1, <3>2, <4>1, <4>2, <4>3
      <4>4. CASE Head(rest) < Here.name
        BY <2>1, <3>2, <4>1, <4>2, <4>4
      <4> QED
        BY <2>1, <2>3, <4>3, <4>4
    <3> QED
      BY <3>1, <3>3 DEF Shrinks, Phase, NamesLeft, Place
  <2> QED
    BY <2>2, <2>3
<1> QED
  BY <1>2, <1>3, <1>4 DEF Lookup, TraverseStep

\* A listing comes closer to its end with every entry: its place has room for
\* all of them and does not go round.
LEMMA ListingShrinks ==
    ASSUME ListInv, Listing
    PROVE  Shrinks
<1>1. CASE CloseDir
  BY <1>1 DEF CloseDir, Forget, Shrinks, Phase
<1>2. CASE ReadDir
  <2>1. /\ pc = "list" /\ pc' = pc /\ dir' = dir /\ dir \in DOMAIN Dirs
        /\ offset \in 0..Len(Dirs[dir]) /\ offset < Len(Dirs[dir])
        /\ offset' = (offset + 1) % OffsetRange
    BY <1>2 DEF ReadDir, ListInv, walk
  <2>2. Len(Dirs[dir]) \in Nat /\ Len(Dirs[dir]) < OffsetRange /\ OffsetRange \in Nat
    BY <2>1, ImageAssumption, OffsetAssumption, LenProperties
       DEF ImageAssumption, OffsetAssumption
  <2>3. offset' = offset + 1
    <3>1. \A a, b \in Nat : a < b => a % b = a
      OBVIOUS
    <3>2. offset + 1 \in Nat /\ offset + 1 < OffsetRange
      BY <2>1, <2>2
    <3> QED
      BY <2>1, <2>2, <3>1, <3>2
  <2>4. EntriesLeft' < EntriesLeft
    BY <2>1, <2>2, <2>3 DEF EntriesLeft
  <2> QED
    BY <2>1, <2>4 DEF Shrinks, Phase, NamesLeft, Place
<1> QED
  BY <1>1, <1>2 DEF Listing

\* mmfs_traverse, fs_list: a call that has begun takes finitely many steps,
\* since each lowers a measure of numbers and no other call begins meanwhile.
\* It is what CallsReturn rests on besides the fairness of Inside.
THEOREM CallsEnd == Spec => []Measured /\ CallsShrink
<1> DEFINE Inv == LookupInv /\ ListInv /\ pc \in Places /\ HaltsIdle
<1>1. Init => Inv
  <2>1. Init => ListInv /\ pc \in Places /\ HaltsIdle
    BY DEF Init, InitMmfs, ListInv, ListComplete, Places, HaltsIdle
  <2>2. Init => LookupInv
    BY DEF Init, InitMmfs, LookupInv, SearchSound, TraverseFinds
  <2> QED
    BY <2>1, <2>2
<1>2. Inv /\ [Next]_vars => Inv'
  BY LookupKeeps, ListStep, PlaceStep
<1>3. Inv => Measured
  BY MeasureIsNat
<1>4. Inv /\ [Next]_vars => [pc # "idle" => Inside /\ Shrinks]_vars
  <2> SUFFICES ASSUME Inv, [Next]_vars, pc # "idle", vars' # vars
               PROVE  Inside /\ Shrinks
    OBVIOUS
  <2>1. Inside
    BY PlaceStep
  <2>2. Opened \/ Listed => Shrinks
    BY DEF Opened, Listed, OpenDir, Forget, Shrinks, Phase
  <2> QED
    BY <2>1, <2>2, LookupShrinks, ListingShrinks DEF Inside
<1> QED
  BY <1>1, <1>2, <1>3, <1>4, PTL DEF Spec, CallsShrink
=============================================================================
