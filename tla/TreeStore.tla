------------------------------ MODULE TreeStore ------------------------------
(***************************************************************************)
(* What a storage engine promises: one tree, in which every request takes  *)
(* effect at once and as a whole.  A request that fails on an engine       *)
(* without transactions may leave anything at the keys it was writing, and *)
(* what is left there may show again later; all other data is as it was.   *)
(* A read gives what the tree has; of a node above such keys, it may fail. *)
(***************************************************************************)
EXTENDS Trees

CONSTANTS
    Requests,   \* [op, path, value]; the leaf "null" is a value to remove
    Paths       \* the paths that are read

VARIABLES
    tree,   \* the data
    read,   \* what reads give: path -> value, or Failed
    asked,  \* the request that is carried out, {} without one
    torn    \* the keys that a request has failed on

----------------------------------------------------------------------------
WithoutNulls(t) ==
    [q \in {d \in DOMAIN t : \A n \in 0..Len(d) : Kind(t, SubSeq(d, 1, n)) # "null"} |-> t[q]]

\* Objects on the way to a node, as the nodes that are not there are created.
WithObjects(t, trail) == [q \in DOMAIN t \union trail |-> IF q \in trail THEN "obj" ELSE t[q]]

\* An update merges its value into the node, other requests replace the node.
Keys(value) == {p \in DOMAIN value : Len(p) = 1}
Put(t, r) ==
    WithoutNulls(
      IF r.op = "update"
      THEN Applied(WithObjects(t, Above(r.path) \union {r.path}), r.path,
                   [p \in Keys(r.value) |-> At(r.value, p)])
      ELSE Applied(WithObjects(t, Above(r.path)), r.path, [p \in {<<>>} |-> r.value]))

\* Whether t and u agree on all data but what is at the keys or below.
Agree(t, u, keys) ==
    \A p \in DOMAIN t \union DOMAIN u :
        (\A k \in keys : ~IsPrefix(k, p)) => Kind(t, p) = Kind(u, p)

\* Reads give the data, but of what is torn, or fail where something below is.
Failed == [p \in {<<>>} |-> "failed"]
Reads(t, seen, keys) ==
    /\ DOMAIN seen = Paths
    /\ \A p \in {q \in Paths : \A k \in keys : ~IsPrefix(k, q)} :
         seen[p] # At(t, p) => seen[p] = Failed /\ \E k \in keys : IsPrefix(p, k)

----------------------------------------------------------------------------
Init == tree = Object /\ read = [p \in Paths |-> At(Object, p)] /\ asked = {} /\ torn = {}

Ask == asked = {} /\ asked' \in {{r} : r \in Requests} /\ UNCHANGED <<tree, read, torn>>

Write ==
    /\ \E r \in asked : Agree(tree', Put(tree, r), torn)
    /\ Reads(tree', read', torn)
    /\ asked' = {}
    /\ UNCHANGED torn

\* The keys are those that the request names, or the first on its way that is
\* not there.  What has failed before may be left as it is.
Fail ==
    /\ \E r \in asked : \E keys \in SUBSET torn' :
         /\ keys # {} \/ Keys(r.value) = {}
         /\ \A k \in keys : IsPrefix(r.path, k) \/ (k # <<>> /\ IsPrefix(k, r.path))
         /\ torn' = torn \union keys
    /\ Agree(tree', tree, torn')
    /\ Reads(tree', read', torn')
    /\ asked' = {}

Next == Ask \/ Write \/ Fail

Spec == Init /\ [][Next]_<<tree, read, asked, torn>>
==============================================================================
