-------------------------------- MODULE Trees --------------------------------
(***************************************************************************)
(* Values of a database.  A value is a tree: a function from the paths     *)
(* below it to "obj" or to a leaf, with <<>> for the value itself and      *)
(* nothing for null.  Updates map relative paths to values: <<>> for a     *)
(* value that is replaced, <<key>> for each property that a merge sets     *)
(* (or, with Null, removes).                                               *)
(***************************************************************************)
EXTENDS Naturals, FiniteSets, SequencesExt

----------------------------------------------------------------------------
\* Trees and paths.
Null == [p \in {} |-> "obj"]
Object == [p \in {<<>>} |-> "obj"]
Rest(p, n) == SubSeq(p, n + 1, Len(p))
At(tree, p) ==
    [q \in {Rest(r, Len(p)) : r \in {d \in DOMAIN tree : IsPrefix(p, d)}} |-> tree[p \o q]]
Kind(tree, p) == IF p \in DOMAIN tree THEN tree[p] ELSE "none"
\* Keys are strings.  All that is above something in a tree is an object.
Path == Seq(STRING)
Above(p) == {SubSeq(p, 1, n) : n \in 0..(Len(p) - 1)}
IsTree(tree) ==
    \A p \in DOMAIN tree : p \in Path /\ \A q \in Above(p) : Kind(tree, q) = "obj"
IsLeaf(tree) == Kind(tree, <<>>) \notin {"obj", "none"}

\* The tree with the values of updates put at path.
Applied(tree, path, updates) ==
    LET kept == {q \in DOMAIN tree : \A r \in DOMAIN updates : ~IsPrefix(path \o r, q)}
        put  == [q \in UNION {{path \o r \o d : d \in DOMAIN updates[r]} : r \in DOMAIN updates} |->
                   LET r == CHOOSE r \in DOMAIN updates : IsPrefix(path \o r, q)
                   IN updates[r][Rest(q, Len(path \o r))]]
    IN [q \in kept \union DOMAIN put |-> IF q \in DOMAIN put THEN put[q] ELSE tree[q]]

\* compareValues and getChildValues of acebase-core: the places where two
\* values start to differ, below objects on both sides.
Differences(old, new) ==
    {p \in DOMAIN old \union DOMAIN new :
       /\ Kind(old, p) # Kind(new, p)
       /\ \A n \in 0..(Len(p) - 1) : Kind(old, SubSeq(p, 1, n)) = Kind(new, SubSeq(p, 1, n))}

\* PathInfo of acebase-core.
OnTrail(pattern, path) ==
    \A i \in 1..(IF Len(pattern) < Len(path) THEN Len(pattern) ELSE Len(path)) :
        pattern[i] \in {path[i], "*"}
Filled(pattern, path) ==
    [i \in DOMAIN pattern |-> IF i <= Len(path) /\ pattern[i] = "*" THEN path[i] ELSE pattern[i]]

\* The value of updates by themselves.
TreeOf(updates) == IF <<>> \in DOMAIN updates THEN updates[<<>>] ELSE Applied(Object, <<>>, updates)
==============================================================================
