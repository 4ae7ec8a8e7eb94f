---------------------------- MODULE MCFileReader ----------------------------
(* A small instance of FileReader for TLC: a root with four entries and a   *)
(* directory with three, two files with and without empty lines.            *)
EXTENDS FileReader

File(name, at, size) == [name |-> name, dir |-> FALSE, at |-> at, size |-> size]
Directory(name, at) == [name |-> name, dir |-> TRUE, at |-> at, size |-> 0]

MCDirs == <<<<File(1, 0, 4), Directory(3, 2), File(5, 4, 9), Directory(7, 3)>>,
            <<File(1, 4, 9), Directory(2, 3), File(3, 13, 0)>>,
            <<>>>>

\* Chunks of 3: lines of 2 and 1; then of 0, 1, 3 and 2 bytes.
x == 120
y == 121
MCForeign == -1
MCImage == <<x, y, NL, x,
             NL, x, NL, y, x, y, NL, y, x>>

MCNames == 0..8
MCAsked == {<<>>} \cup {<<a>> : a \in MCNames} \cup {<<a, b>> : a, b \in {1, 2, 3, 4, 7}}
                  \cup {<<3, 2, 1>>, <<3, 1, 1>>}
MCOffsets == {-2, 0, 1}
\* As a size, -1 is 63, of which the address goes round, and 66 is 2.
MCCounts == {-1, 0, 4, 20, 66}
=============================================================================
