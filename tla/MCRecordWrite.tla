---------------------------- MODULE MCRecordWrite ----------------------------
(***************************************************************************)
(* RecordWrite with few small pages.  Nodes are interchangeable.           *)
(***************************************************************************)
EXTENDS RecordWrite, TLC

\* A database in which other nodes left some free space in each of three pages.
MCTables ==
    {[pages |-> 3, ranges |-> {[page |-> 0, start |-> 2, end |-> 3],
                               [page |-> 1, start |-> 0, end |-> 1],
                               [page |-> 2, start |-> 1, end |-> 3]}]}

Symmetry == Permutations(Nodes)
=============================================================================
