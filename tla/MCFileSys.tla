----------------------------- MODULE MCFileSys -----------------------------
(* A small instance of FileSys for TLC: a ROM with a directory of two       *)
(* levels, and paths that reach it, its copies and a file of their own.     *)
EXTENDS FileSys

MCRom == <<[path |-> <<"rom", "a">>, dir |-> TRUE, size |-> 0],
           [path |-> <<"rom", "a", "b">>, dir |-> TRUE, size |-> 0],
           [path |-> <<"rom", "a", "b", "c">>, dir |-> FALSE, size |-> 1],
           [path |-> <<"rom", "f">>, dir |-> FALSE, size |-> 1]>>

MCRaw == {<<>>, <<"rom">>, <<"rom", "a">>, <<"rom", ".", "f">>,
          <<"d">>, <<"d", "b">>, <<"rom", "..", "d", "b", "c">>}

Symmetry == Permutations(Handles)
=============================================================================
