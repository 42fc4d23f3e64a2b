---------------------------- MODULE MCDataIndex ----------------------------
(***************************************************************************)
(* Three records with two values and batches of one key, so that the build *)
(* file is sorted from up to three batches.                                *)
(***************************************************************************)
EXTENDS DataIndex

\* Two records with a value that the third does not have, between them.
MCStarts == {<<1, 2, 1>>}
=============================================================================
