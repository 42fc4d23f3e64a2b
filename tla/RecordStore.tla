----------------------------- MODULE RecordStore -----------------------------
(***************************************************************************)
(* The storage engines that keep a record per node, by its path: custom    *)
(* storage, of which LocalStorage and IndexedDB are instances.  Small      *)
(* values are inline in the record of their parent and move to a record of *)
(* their own, and back, when they are written.                             *)
(*                                                                         *)
(* Writes and reads of the database exclude each other (NodeLock).  A      *)
(* write is a number of changes of single records; LocalStorage makes them *)
(* one by one and cannot undo them.                                        *)
(***************************************************************************)
EXTENDS Trees

CONSTANTS
    Requests,       \* [op, path, value], op "set", "update" or "transact"
    Paths,          \* the paths that are read
    MaxFailures     \* bound on the requests that fail

ASSUME RecordStoreAssumption ==
    /\ \A r \in Requests : r.op \in {"set", "update", "transact"}
    /\ \A r \in Requests : r.path \in Path /\ IsTree(r.value) /\ <<>> \in DOMAIN r.value
    /\ Paths \subseteq Path
    /\ \A r \in Requests : r.op = "update" => Kind(r.value, <<>>) = "obj"
    /\ \A r \in Requests : r.path = <<>> => Kind(r.value, <<>>) = "obj"
    /\ MaxFailures \in Nat

VARIABLES
    nodes,  \* the records: path -> tree of its inline values
    write,  \* the changes a write still has to make, {} without one
    base,   \* the records when the last write began
    torn    \* the keys of writes that failed (not in the code)

vars == <<nodes, write, base, torn>>

----------------------------------------------------------------------------
\* The leaf "big" is a value that is too large to be inline.  An empty object
\* is inline, one that has but nulls is not.
FitsInline(value) == DOMAIN value = {<<>>} /\ value[<<>>] # "big"

Children(t) == {q \in DOMAIN t : Len(q) = 1}
Dedicated(value) ==
    {q \in DOMAIN value : q = <<>> \/ (Kind(value, q) # "null" /\ ~FitsInline(At(value, q)))}

\* childrenOf and descendantsOf.
ChildrenOf(s, p) == {q \in DOMAIN s : Len(q) = Len(p) + 1 /\ IsPrefix(p, q)}
DescendantsOf(s, p) == {q \in DOMAIN s : IsStrictPrefix(p, q)}

\* What getNode finds: the record of a node and those below it, a value that is
\* inline before one that is not; without a record, what the parent has inline.
Held(s, p) ==
    LET inlined == UNION {{r \o c : c \in Children(s[r])} : r \in DescendantsOf(s, p) \union {p}}
        inline(q) == p \o q \in inlined
        rows == {Rest(r, Len(p)) : r \in DescendantsOf(s, p) \union {p}}
        paths == (UNION {{q \o c : c \in DOMAIN s[p \o q]} : q \in rows})
                 \union (UNION {{SubSeq(q, 1, n) : n \in 0..Len(q)} : q \in rows})
        value(q) == CASE q # <<>> /\ inline(q) -> s[Front(p \o q)][<<Last(q)>>]
                      [] ~(q # <<>> /\ inline(q)) /\ q \in rows -> s[p \o q][<<>>]
                      [] OTHER -> "obj"
    IN CASE p \in DOMAIN s -> [q \in paths |-> value(q)]
         [] p \notin DOMAIN s /\ p # <<>> /\ Front(p) \in DOMAIN s -> At(s[Front(p)], <<Last(p)>>)
         [] OTHER -> Null

\* getNodeInfo.
InParent(s, p) == p # <<>> /\ Front(p) \in DOMAIN s /\ <<Last(p)>> \in DOMAIN s[Front(p)]
Exists(s, p) == p \in DOMAIN s \/ InParent(s, p)

\* Rows come in any order.  Below the row r they cannot be merged if a child c
\* that r has inline has rows too, when those of a row come before it (of the
\* node itself, when they are below a value that is no object); nor if the value
\* of r is no object, but has rows below it.
Twice(s, p, r) ==
    \E c \in Children(s[r]) : \E d \in DOMAIN s :
        IsPrefix(r \o c, d) /\ (r = p => d # r \o c /\ s[r][c] # "obj")
BelowLeaf(s, p, r) ==
    s[r][<<>>] # "obj" /\ (r = p \/ ~InParent(s, r)) /\ DescendantsOf(s, r) # {}

\* getNode: it throws if it would for an order of the rows.
Failed == [p \in {<<>>} |-> "failed"]
ReadFails(s, p) ==
    p \in DOMAIN s /\ \E r \in DescendantsOf(s, p) \union {p} : Twice(s, p, r) \/ BelowLeaf(s, p, r)
ReadNode(s, p) == IF ReadFails(s, p) THEN Failed ELSE Held(s, p)

----------------------------------------------------------------------------
\* setNode and updateNode: the record that is written, and with what.  The
\* nodes that are not there are written as a value of the nearest that is.
Wrapped(trail, value) ==
    LET above == {SubSeq(trail, 1, n) : n \in 0..(Len(trail) - 1)}
    IN [q \in above \union {trail \o d : d \in DOMAIN value} |->
          IF q \in above THEN "obj" ELSE value[Rest(q, Len(trail))]]
Merge(at, path, value) ==
    [path |-> at, value |-> Wrapped(Rest(path, Len(at)), value), merge |-> TRUE]

UpdateNode(s, path, value) ==
    LET near == CHOOSE p \in {SubSeq(path, 1, n) : n \in 0..Len(path)} :
                  /\ Exists(s, p)
                  /\ \A n \in (Len(p) + 1)..Len(path) : ~Exists(s, SubSeq(path, 1, n))
    IN Merge(IF near \in DOMAIN s THEN near ELSE Front(near), path, value)

SetNode(s, path, value) ==
    IF path = <<>> THEN [path |-> path, value |-> value, merge |-> FALSE]
    ELSE UpdateNode(s, Front(path), Wrapped(<<Last(path)>>, value))

\* setNode with assert_revision, for the new value of a transaction.  A node
\* that is not there has no revision.
SetTransacted(s, path, value) ==
    CASE path = <<>> \/ ~Exists(s, path) -> SetNode(s, path, value)
      [] path # <<>> /\ path \in DOMAIN s /\ Kind(value, <<>>) # "null" /\ ~FitsInline(value) ->
           [path |-> path, value |-> value, merge |-> FALSE]
      [] OTHER -> Merge(Front(path), path, value)

Target(s, r) ==
    CASE r.op = "set" -> SetNode(s, r.path, r.value)
      [] r.op = "update" -> UpdateNode(s, r.path, r.value)
      [] r.op = "transact" -> SetTransacted(s, r.path, r.value)

----------------------------------------------------------------------------
\* _writeNode at the node w.path \o q, where q is Dedicated in w.value: only
\* the node that is written itself is merged, nodes below it are replaced.
HasRecord(s, w, q) == w.path \o q \in DOMAIN s
Current(s, w, q) == IF HasRecord(s, w, q) THEN s[w.path \o q] ELSE Null
Merging(w, q) == w.merge /\ q = <<>>
BothObjects(s, w, q) == Kind(Current(s, w, q), <<>>) = "obj" /\ Kind(w.value, q) = "obj"

\* Mutant of Unmentioned: inline values stay although their keys are written.
InlineNow(s, w, q) == Children(Current(s, w, q))

\* Inline values that stay as they are.
Unmentioned(s, w, q) == {c \in Children(Current(s, w, q)) : q \o c \notin DOMAIN w.value}
Staying(s, w, q) == IF BothObjects(s, w, q) /\ Merging(w, q) THEN Unmentioned(s, w, q) ELSE {}

NewInline(w, q) ==
    {c \in Children(At(w.value, q)) :
       Kind(w.value, q \o c) # "null" /\ FitsInline(At(w.value, q \o c))}
NewRecord(s, w, q) ==
    [c \in {<<>>} \union NewInline(w, q) \union Staying(s, w, q) |->
        IF c = <<>> \/ c \in NewInline(w, q) THEN w.value[q \o c] ELSE Current(s, w, q)[c]]

\* Mutant of Removed: a value that moves inline keeps its record.
RemovedNotMoving(s, w, q) ==
    LET here == w.path \o q IN
    IF ~HasRecord(s, w, q) THEN {}
    ELSE IF Merging(w, q)
         THEN {here \o c : c \in {c \in Children(w.value) : Kind(w.value, c) = "null"}}
         ELSE {p \in ChildrenOf(s, here) : Rest(p, Len(w.path)) \notin DOMAIN w.value}

\* The children whose records are removed: of a merge those that are null,
\* otherwise those the new value does not mention, and those that move inline.
Removed(s, w, q) ==
    LET here == w.path \o q
        moving == {p \in ChildrenOf(s, here) : Rest(p, Len(here)) \in DOMAIN NewRecord(s, w, q)}
    IN IF ~HasRecord(s, w, q) THEN {}
       ELSE moving \union
            IF Merging(w, q)
            THEN {here \o c : c \in {c \in Children(w.value) : Kind(w.value, c) = "null"}}
            ELSE {p \in ChildrenOf(s, here) : Rest(p, Len(w.path)) \notin DOMAIN w.value}

\* The changes of a write: path -> the record to store there, Null to remove
\* the record and all below it (_deleteNode).
Changes(s, w) ==
    LET stores == {w.path \o q : q \in Dedicated(w.value)}
        removes == UNION {Removed(s, w, q) : q \in Dedicated(w.value)}
    IN [p \in stores \union removes |->
          IF p \in stores THEN NewRecord(s, w, Rest(p, Len(w.path))) ELSE Null]

\* The keys that a write is for.
Written(w) ==
    IF w.merge THEN {w.path \o c : c \in Children(w.value)} ELSE {w.path}

----------------------------------------------------------------------------
\* The database is opened for the first time: it gets a root.
Init ==
    /\ nodes = [p \in {<<>>} |-> Object]
    /\ write = {}
    /\ base = nodes
    /\ torn = {}

\* A write has its lock, and reads the records it needs.
Begin(r) ==
    /\ write = {}
    /\ LET w == Target(nodes, r)
       IN write' = {[request |-> r, keys |-> Written(w), todo |-> Changes(nodes, w)]}
    /\ base' = nodes
    /\ UNCHANGED <<nodes, torn>>

Stored(s, p, record) == [q \in DOMAIN s \union {p} |-> IF q = p THEN record ELSE s[q]]

\* Mutant of Changed: records below one that is removed are left.
ChangedAlone(s, p, record) ==
    IF record = Null THEN [q \in DOMAIN s \ {p} |-> s[q]] ELSE Stored(s, p, record)

Changed(s, p, record) ==
    IF record = Null THEN [q \in DOMAIN s \ ({p} \union DescendantsOf(s, p)) |-> s[q]]
                     ELSE Stored(s, p, record)

\* One change.  The record of a node that was there is stored when all is done
\* below it; new nodes are stored in no particular order.
Step(w, p) ==
    /\ p \in DOMAIN base => \A q \in DOMAIN w.todo : ~IsStrictPrefix(p, q)
    /\ nodes' = Changed(nodes, p, w.todo[p])
    /\ write' = {[w EXCEPT !.todo = [q \in DOMAIN w.todo \ {p} |-> w.todo[q]]]}
    /\ UNCHANGED <<base, torn>>

\* The write is done and its lock is released.
Commit(w) ==
    /\ w.todo = [p \in {} |-> Null]
    /\ write' = {}
    /\ UNCHANGED <<nodes, base, torn>>

\* A change cannot be made (LocalStorage is full), or the program stops.  What
\* was changed stays: LocalStorageTransaction.rollback does nothing.
Fail(w) ==
    /\ Cardinality(torn) < MaxFailures
    /\ w.todo # [p \in {} |-> Null]
    /\ write' = {}
    /\ torn' = torn \union w.keys
    /\ UNCHANGED <<nodes, base>>

Next ==
    \/ \E r \in Requests : Begin(r)
    \/ \E w \in write : \E p \in DOMAIN w.todo : Step(w, p)
    \/ \E w \in write : Commit(w) \/ Fail(w)

Spec == Init /\ [][Next]_vars

----------------------------------------------------------------------------
Sound(p) == \A k \in torn : ~IsPrefix(k, p)

\* A node has one place: it is inline in the record of its parent or it has a
\* record of its own, and then its parent has a record too.  (When no write is
\* under way, and where none has failed.)
OneHome ==
    write = {} =>
      \A p \in {q \in DOMAIN nodes : Sound(q)} : p # <<>> =>
        /\ Kind(IF Front(p) \in DOMAIN nodes THEN nodes[Front(p)] ELSE Null, <<>>) = "obj"
        /\ ~InParent(nodes, p)

\* A node reads the same by itself and as a part of the root.  A read fails but
\* of a node that has, below it, what a write failed on.
ReadsAgree ==
    write = {} => \A p \in {q \in Paths : Sound(q)} :
        /\ ReadFails(nodes, p) => \E k \in torn : IsPrefix(p, k)
        /\ ~ReadFails(nodes, p) /\ ~ReadFails(nodes, <<>>) =>
               ReadNode(nodes, p) = At(ReadNode(nodes, <<>>), p)

\* The engine implements the tree: as readers see it, a write takes effect at
\* once, and it does with the data what the request says, wherever the nodes
\* it touches were stored and will be; a write that fails harms no other data,
\* and fails no read but of nodes with what it was for below them.
Readable == IF write = {} THEN nodes ELSE base
Visible == Held(Readable, <<>>)
Seen == [p \in Paths |-> ReadNode(Readable, p)]
Store == INSTANCE TreeStore
           WITH tree <- Visible, read <- Seen, asked <- {w.request : w \in write}
ImplementsTree == Store!Spec
==============================================================================
