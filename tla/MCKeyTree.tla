---------------------------- MODULE MCKeyTree ----------------------------
(* Small instances of KeyTree: trees of five leafs under one node, and of  *)
(* seven and ten leafs under two, with keys between the ones that are      *)
(* there.                                                                  *)
EXTENDS KeyTree, TLC

CONSTANTS v0, v1

MCKeys == 1..61
MCValues == {v0, v1}

Even(n) == {2 * i : i \in 1..n}
MCStarts == {[k \in Even(n) |-> v0] : n \in {15, 21, 30}}

Change(stored, removed) ==
    [k \in stored \cup removed |-> IF k \in removed THEN None ELSE v1]

MCRequests ==
    { Change({1, 3, 5, 7, 9}, {}),            \* the first leafs overflow
      Change({25, 26, 27, 29, 61}, {28}),     \* so do the middle and the last one
      Change({8}, {2, 4, 6}),                 \* the first leaf is emptied
      Change({15}, {26, 28, 30, 32}),         \* and others in the middle
      Change({11, 13}, {24}),                 \* one key here, one there
      Change({3}, Even(30) \ {12, 16}) }      \* nearly everything goes
=============================================================================
