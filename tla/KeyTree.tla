------------------------------ MODULE KeyTree ------------------------------
(***************************************************************************)
(* The B+tree in which a binary record keeps the children of a node that   *)
(* has more than a hundred of them (btree/), and the merge of an update    *)
(* into it (_mergeNode of storage/binary/index.ts).  The update becomes a  *)
(* list of operations that the tree takes in the order of their keys; when *)
(* the tree refuses, the record grows or the tree is built anew, and the   *)
(* operations that are left are tried again.                               *)
(*                                                                         *)
(* The tree is a sequence of blocks of one size, each of which holds a     *)
(* node or a leaf; block 1 is the root.  Whether keys and values are too   *)
(* long for the bytes of their block is not computed: during one update    *)
(* the writes of one kind may fail, as often as they like.                 *)
(***************************************************************************)
EXTENDS Integers, FiniteSets, Sequences, SequencesExt, FiniteSetsExt, Functions

CONSTANTS
    Keys,          \* the keys of the children, positive numbers
    Values,        \* what a child can be
    None,          \* no child; the value of a key that an update removes
    Starts,        \* the children a tree can start with, functions to Values
    StartEntries,  \* entriesPerNode of a tree that is created
    MaxEntries,    \* the most that entriesPerNode can become
    FillFactor,    \* the fill factor of the tree, in percent
    Requests,      \* the updates, functions from keys to Values \cup {None}
    MaxMerges,     \* bound on the updates of a behaviour
    MaxFailing,    \* bound on the updates of a behaviour in which writes can fail
    CanFail        \* the writes that can fail: "leaf", "split", "node", "remove"

ASSUME KeyTreeAssumption ==
    /\ Keys \subseteq Nat \ {0}
    /\ None \notin Values
    /\ \A s \in Starts : DOMAIN s \subseteq Keys /\ \A k \in DOMAIN s : s[k] \in Values
    /\ \A r \in Requests : DOMAIN r \subseteq Keys
                           /\ \A k \in DOMAIN r : r[k] \in Values \cup {None}
    /\ StartEntries \in Nat /\ StartEntries >= 3      \* minNodeSize
    /\ MaxEntries \in Nat /\ MaxEntries >= StartEntries
    /\ FillFactor \in 1..100
    /\ (2 * StartEntries * FillFactor + 100) \div 200 >= 3
    /\ CanFail \subseteq {"leaf", "split", "node", "remove"}

VARIABLES
    tree,      \* blocks, entriesPerNode, room for more blocks, blocks that were freed
    pc,        \* what the merge does next
    todo,      \* operations: the keys that are left
    taken,     \* the key of the operation that was shifted off the list, or 0
    batch,     \* batchedOps: the keys done in the leaf in memory
    leaf,      \* the leaf in memory: the key it was looked up with, its block, its entries
    retry,     \* how often the merge has tried again, up to 3
    left,      \* how many operations there were at the last try
    current,   \* changes: what the merge read of the children that are in the update
    asked,     \* the update
    failing,   \* the kind of write that may fail in this merge, or "none"
    before,    \* history: the children when the merge began
    lost,      \* history: the operations that were dropped
    thrown,    \* history: the last merge ended in an error
    merges,    \* how many updates there were
    failures   \* in how many of them writes could fail

work == <<todo, taken, batch, leaf>>
tries == <<retry, left>>
request == <<asked, current, failing>>
history == <<before, thrown, merges, failures>>
vars == <<tree, pc, work, tries, request, lost, history>>

Root == 1
Nothing == [k \in {} |-> None]
NoLeaf == [key |-> 0, at |-> 0, entries |-> Nothing]
LowKeys(S, n) == {k \in S : Cardinality({j \in S : j < k}) < n}

(* ---------------------------------------------------------------------- *)
(* Reading.  A tree is [blocks, entriesPerNode, capacity, freed].          *)

Junk == [kind |-> "junk"]
Leaf(entries, prev, next) == [kind |-> "leaf", entries |-> entries, prev |-> prev, next |-> next]
Node(keys, kids) == [kind |-> "node", keys |-> keys, kids |-> kids]

IsLeaf(t, b) == t.blocks[b].kind = "leaf"
IsNode(t, b) == t.blocks[b].kind = "node"

\* Which child of a node a key belongs to: the one of the first entry with a
\* greater key, or else the gtChild.
Position(node, key) ==
    Min({i \in 1..Len(node.keys) : key < node.keys[i]} \cup {Len(node.kids)})

\* The blocks from the root to the leaf that a key leads to.
Trail(t, key) ==
    LET below[d \in Nat, b \in Nat] ==
          IF d = 0 \/ ~IsNode(t, b) THEN <<b>>
          ELSE <<b>> \o below[d - 1, t.blocks[b].kids[Position(t.blocks[b], key)]]
    IN  below[Len(t.blocks), Root]

FirstLeaf(t) == Last(Trail(t, 0))
LastLeaf(t) == Last(Trail(t, 1 + Max(Keys)))

\* The leaf that a key leads to, read into memory.
Loaded(t, key) ==
    LET b == Last(Trail(t, key))
    IN  [key |-> key, at |-> b, entries |-> t.blocks[b].entries]

\* The value of a key, looked up from the root.
Found(t, key) ==
    LET entries == Loaded(t, key).entries
    IN  IF key \in DOMAIN entries THEN entries[key] ELSE None

\* The leafs from the first, each the next of the one before.
Chain(t) ==
    LET from[n \in Nat, b \in Nat] ==
          IF n = 0 \/ ~IsLeaf(t, b) \/ t.blocks[b].next = 0 THEN <<b>>
          ELSE <<b>> \o from[n - 1, t.blocks[b].next]
    IN  from[Len(t.blocks), FirstLeaf(t)]

\* The children as the chain of leafs has them.
Content(t) ==
    LET leafs == {b \in Range(Chain(t)) : IsLeaf(t, b)}
        entriesOf(b) == t.blocks[b].entries
    IN  [k \in UNION {DOMAIN entriesOf(b) : b \in leafs} |->
            LET b == CHOOSE b \in leafs : k \in DOMAIN entriesOf(b) IN entriesOf(b)[k]]

\* findAll refuses to look up more than two keys when the first or the last
\* leaf is empty: it takes the key of an entry that is not there.
CanLookUp(t, keys) ==
    Cardinality(keys) > 2 =>
        \A b \in {FirstLeaf(t), LastLeaf(t)} : DOMAIN t.blocks[b].entries # {}

(* ---------------------------------------------------------------------- *)
(* Building a tree from sorted entries.                                    *)

CeilDiv(a, b) == (a + b - 1) \div b

\* The entries in leafs of n each; a tree without entries has one empty leaf.
Leafs(entries, n) ==
    LET keys == DOMAIN entries
        upTo(i) == LowKeys(keys, i * n)
    IN  [i \in 1..Max({1, CeilDiv(Cardinality(keys), n)}) |->
            Restrict(entries, upTo(i) \ upTo(i - 1))]

\* How many children the nodes of a level get in a tree that is created: as
\* many as they can have, but the last node takes some of the one before it
\* if it would have too few.
Divided(n, perNode) ==
    LET full == perNode + 1
        whole == n \div full
        rest == n % full
        short == 1 + Max({1, perNode \div 2}) - rest
        evenly == [i \in 1..whole |-> full]
    IN  IF rest = 0 THEN evenly
        ELSE IF whole = 0 \/ short <= 0 THEN Append(evenly, rest)
        ELSE Front(evenly) \o <<full - short, rest + short>>

\* ... and in a tree that is rebuilt: nodes are filled to the fill factor,
\* but the last three children are not parted.
Grouped(n, perNode) ==
    LET from[i \in Nat, c \in Nat] ==
          IF i = n THEN <<c + 1>>
          ELSE IF c = perNode \/ (n - i = 2 /\ c + 3 > perNode)
          THEN <<c + 1>> \o from[i + 1, 0]
          ELSE from[i + 1, c + 1]
    IN  from[1, 0]

\* A level of nodes over the level below it; an item of a level is known by
\* its first key and the items below it.
Above(level, sizes) ==
    LET start(i) == FoldLeft(+, 0, SubSeq(sizes, 1, i - 1))
    IN  [i \in 1..Len(sizes) |->
            [first |-> level[start(i) + 1].first,
             below |-> [j \in 1..sizes[i] |-> start(i) + j]]]

\* The levels from the root to the leafs; sizes[n] is how n items are divided.
Levels(leafs, sizes) ==
    LET level[l \in Nat] ==
          IF l = 0
          THEN [i \in 1..Len(leafs) |->
                   [first |-> Min(DOMAIN leafs[i] \cup {1 + Max(Keys)}), below |-> <<>>]]
          ELSE Above(level[l - 1], sizes[Len(level[l - 1])])
        top == CHOOSE l \in 0..Len(leafs) : Len(level[l]) = 1
    IN  [i \in 1..(top + 1) |-> level[top + 1 - i]]

\* The blocks of the tree, a level after the other.
Laid(leafs, sizes) ==
    LET levels == Levels(leafs, sizes)
        start(l) == FoldLeft(LAMBDA n, s : n + Len(s), 0, SubSeq(levels, 1, l - 1))
        at(i) == start(Len(levels)) + i
        node(l, item) ==
            [kind |-> "node",
             keys |-> [j \in 1..(Len(item.below) - 1) |-> levels[l + 1][item.below[j + 1]].first],
             kids |-> [j \in 1..Len(item.below) |-> start(l + 1) + item.below[j]]]
        leafBlock(i) == Leaf(leafs[i], IF i = 1 THEN 0 ELSE at(i - 1),
                             IF i = Len(leafs) THEN 0 ELSE at(i + 1))
    IN  FlattenSeq([l \in 1..Len(levels) |->
            [i \in 1..Len(levels[l]) |->
                IF l = Len(levels) THEN leafBlock(i) ELSE node(l, levels[l][i])]])

WithRoom(blocks, perNode, room) ==
    [blocks |-> blocks, entriesPerNode |-> perNode,
     capacity |-> Len(blocks) + Max({1, Len(blocks) \div 10, room}), freed |-> {}]

Created(entries) ==
    LET perLeaf == Max({3, (StartEntries * FillFactor) \div 100})
        leafs == Leafs(entries, perLeaf)
        sizes == [n \in 1..Len(leafs) |-> Divided(n, StartEntries)]
    IN  WithRoom(Laid(leafs, sizes), StartEntries, 1)

\* A tree is built anew from the entries in the chain of leafs, with more
\* entries per node (a tenth more; at least one, as in trees of real size) and room
\* for those that are inserted.
Rebuilt(t, inserts) ==
    LET perNode == Min({MaxEntries, Max({t.entriesPerNode + 1, (11 * t.entriesPerNode + 5) \div 10})})
        perLeaf == (2 * perNode * FillFactor + 100) \div 200
        leafs == Leafs(Content(t), perLeaf)
        sizes == [n \in 1..Len(leafs) |-> Grouped(n, perLeaf)]
    IN  WithRoom(Laid(leafs, sizes), perNode,
                 CeilDiv(Max({0, inserts}), perLeaf))

(* ---------------------------------------------------------------------- *)
(* Space for blocks.                                                       *)

\* _registerFreeSpace: the last block goes back to the free space.
Released(t, b) ==
    IF b = Len(t.blocks) THEN [t EXCEPT !.blocks = Front(@)]
    ELSE [t EXCEPT !.blocks[b] = Junk, !.freed = @ \cup {b}]

\* Blocks that are freed next to each other become one.
Runs(S) ==
    {r \in {S \cap i..j : <<i, j>> \in S \X S} :
        /\ r # {} /\ Cardinality(r) = Max(r) - Min(r) + 1
        /\ Min(r) - 1 \notin S /\ Max(r) + 1 \notin S}

Wasteful(t) == 2 * Cardinality(t.freed) > t.capacity

\* Mutant: what is handed out stays in the list of freed blocks.
RequestedAgain(t) ==
    {[tree |-> t, at |-> Min(r)] : r \in Runs(t.freed)}
    \cup (IF Wasteful(t) \/ Len(t.blocks) >= t.capacity THEN {}
          ELSE {[tree |-> [t EXCEPT !.blocks = Append(@, Junk)], at |-> Len(t.blocks) + 1]})

\* _requestFreeSpace: freed blocks, which may be too small, or else a new
\* one at the end.  A run of freed blocks is handed out as a whole.
Requested(t) ==
    {[tree |-> [t EXCEPT !.freed = @ \ r], at |-> Min(r)] : r \in Runs(t.freed)}
    \cup (IF Wasteful(t) \/ Len(t.blocks) >= t.capacity THEN {}
          ELSE {[tree |-> [t EXCEPT !.blocks = Append(@, Junk)], at |-> Len(t.blocks) + 1]})

\* ... or an error: "full" is tree-full-no-autogrow.
Refusals(t) ==
    IF Wasteful(t) THEN {"other"}
    ELSE IF Len(t.blocks) >= t.capacity THEN {"full"} ELSE {}

(* ---------------------------------------------------------------------- *)
(* Saving the leaf in memory.  What comes of it: the new tree and an error *)
(* ("none" if there is none).                                              *)

Done(t) == [tree |-> t, error |-> "none"]
Error(t, e) == [tree |-> t, error |-> e]

\* The outcomes of a step that asks for a block: done with the block, no
\* block, or a write that fails and is rolled back, to the tree undone.
WithBlock(t, done, kind, undone) ==
    {Done(done[g]) : g \in Requested(t)}
    \cup {Error(t, e) : e \in Refusals(t)}
    \cup {Error(undone, "other") : g \in {g \in Requested(t) : failing = kind}}

\* The node above the last block of a trail, and which child of it that is.
ParentOf(trail) == trail[Len(trail) - 1]
IndexIn(t, parent, key) == Position(t.blocks[parent], key)
IsFull(t, b) == Len(t.blocks[b].keys) >= t.entriesPerNode

\* Mutant: the new child is put before the one that was split.
ChildSplitBefore(t, parent, i, sep, b) ==
    [t EXCEPT !.blocks[parent] = Node(InsertAt(@.keys, i, sep), InsertAt(@.kids, i, b))]

\* The tree after a child of a node was split in two at key sep.
ChildSplit(t, parent, i, sep, b) ==
    [t EXCEPT !.blocks[parent] = Node(InsertAt(@.keys, i, sep), InsertAt(@.kids, i + 1, b))]

\* _splitNode: the first keep entries stay, the next one goes to the parent.
SplitNode(t, trail, d, keep, key) ==
    LET at == trail[d]
        n == t.blocks[at]
        move(s, from) == SubSeq(s, from, Len(s))
        split[g \in Requested(t)] ==
            ChildSplit([g.tree EXCEPT
                           !.blocks[at] = Node(SubSeq(n.keys, 1, keep), SubSeq(n.kids, 1, keep + 1)),
                           !.blocks[g.at] = Node(move(n.keys, keep + 2), move(n.kids, keep + 2))],
                       trail[d - 1], IndexIn(t, trail[d - 1], key), n.keys[keep + 1], g.at)
        \* the rollback misses the entry that was to disappear, and its child
        \* is the gtChild now
        rolledBack ==
            Node(SubSeq(n.keys, 1, keep) \o move(n.keys, keep + 2),
                 SubSeq(n.kids, 1, keep) \o SubSeq(n.kids, keep + 2, Len(n.keys))
                                         \o <<n.kids[keep + 1]>>)
    IN  WithBlock(t, split, "node", [t EXCEPT !.blocks[at] = rolledBack])

\* The nodes above a leaf that are full, up to the first that is not: the
\* highest of them is split first.
HighestFull(t, trail) ==
    Min({d \in 1..(Len(trail) - 1) : \A e \in d..(Len(trail) - 1) : IsFull(t, trail[e])})

\* keepEntries of a node: as asked for the parent of the leaf, else a half.
KeepOfNode(t, trail, d, l) ==
    LET asksForAll == d = Len(trail) - 1 /\ t.blocks[l.at].next = 0
    IN  Min({t.entriesPerNode - 2,
             IF asksForAll THEN t.entriesPerNode ELSE Len(t.blocks[trail[d]].keys) \div 2})

\* _splitLeaf, when its parent has room for another entry.
SplitLeaf(t, trail, l) ==
    LET keys == DOMAIN l.entries
        next == t.blocks[l.at].next
        keep == IF next = 0 THEN t.entriesPerNode ELSE Cardinality(keys) \div 2
        kept == LowKeys(keys, keep)
        split[g \in Requested(t)] ==
            LET t1 == [g.tree EXCEPT
                          !.blocks[g.at] = Leaf(Restrict(l.entries, keys \ kept), l.at, next),
                          !.blocks[l.at] = Leaf(Restrict(l.entries, kept), @.prev, g.at)]
                t2 == IF next = 0 THEN t1 ELSE [t1 EXCEPT !.blocks[next].prev = g.at]
            IN  ChildSplit(t2, ParentOf(trail), IndexIn(t, ParentOf(trail), l.key),
                           Min(keys \ kept), g.at)
    IN  WithBlock(t, split, "split", t)

\* Mutant: the leaf before still names the old block.
RelinkedNext(t, l, b) ==
    LET old == t.blocks[l.at]
    IN  IF old.next = 0 THEN t ELSE [t EXCEPT !.blocks[old.next].prev = b]

\* The leaf b takes the place of the leaf l in the chain.
Relinked(t, l, b) ==
    LET old == t.blocks[l.at]
        t1 == IF old.prev = 0 THEN t ELSE [t EXCEPT !.blocks[old.prev].next = b]
    IN  IF old.next = 0 THEN t1 ELSE [t1 EXCEPT !.blocks[old.next].prev = b]

\* _rebuildLeaf: a leaf that has outgrown its block moves to a larger one;
\* a leaf that is the whole tree grows where it is.
RebuildLeaf(t, trail, l) ==
    LET old == t.blocks[l.at]
        parent == ParentOf(trail)
        i == IndexIn(t, parent, l.key)
        moved[g \in Requested(t)] ==
            Released([Relinked(g.tree, l, g.at) EXCEPT
                         !.blocks[g.at] = Leaf(l.entries, old.prev, old.next),
                         !.blocks[parent].kids[i] = g.at], l.at)
    IN  IF Len(trail) > 1 THEN WithBlock(t, moved, "never", t)
        ELSE IF Len(t.blocks) < t.capacity
             THEN {Done([t EXCEPT !.blocks[l.at].entries = l.entries])}
             ELSE {Error(t, "other")}

\* _writeLeaf.
WriteLeaf(t, l) == [t EXCEPT !.blocks[l.at].entries = l.entries]

\* Mutant: the gtChild is forgotten.
WithoutLeft(n, i) == Node(RemoveAt(n.keys, i), RemoveAt(n.kids, i))

\* A node without its i-th child; when that is the gtChild, the child of the
\* last entry takes its place.
Without(n, i) == Node(RemoveAt(n.keys, Min({i, Len(n.keys)})), RemoveAt(n.kids, i))

\* _removeLeaf: an empty leaf leaves the chain and its parent.
RemoveLeaf(t, trail, l) ==
    LET old == t.blocks[l.at]
        parent == ParentOf(trail)
        i == IndexIn(t, parent, l.key)
        t1 == IF old.prev = 0 THEN t ELSE [t EXCEPT !.blocks[old.prev].next = old.next]
        t2 == IF old.next = 0 THEN t1 ELSE [t1 EXCEPT !.blocks[old.next].prev = old.prev]
    IN  {Done(Released([t2 EXCEPT !.blocks[parent] = Without(@, i)], l.at))}
        \cup {Error(t, "other") : x \in {"remove"} \cap {failing}}

\* saveLeaf.
SaveLeaf(t, l) ==
    LET trail == Trail(t, l.key)
        isRoot == Len(trail) = 1
        n == Cardinality(DOMAIN l.entries)
    IN  IF n > t.entriesPerNode
        THEN IF isRoot THEN {Error(t, "other")} ELSE SplitLeaf(t, trail, l)
        ELSE IF n > 0 \/ isRoot
        THEN {Done(WriteLeaf(t, l))}
             \cup UNION {RebuildLeaf(t, trail, l) : x \in {"leaf"} \cap {failing}}
        ELSE IF Len(t.blocks[ParentOf(trail)].keys) > 1 THEN RemoveLeaf(t, trail, l)
        ELSE {Done(WriteLeaf(t, l))}

\* A leaf has too many entries and its parent has no room for another one.
MustSplitParent(t, l) ==
    LET trail == Trail(t, l.key)
    IN  /\ Cardinality(DOMAIN l.entries) > t.entriesPerNode
        /\ Len(trail) > 1 /\ IsFull(t, ParentOf(trail))

\* One node above the leaf is split; the root cannot be.
SplitParent(t, l) ==
    LET trail == Trail(t, l.key)
        d == HighestFull(t, trail)
    IN  IF d = 1 THEN {Error(t, "other")}
        ELSE SplitNode(t, trail, d, KeepOfNode(t, trail, d, l), l.key)

(* ---------------------------------------------------------------------- *)
(* The loop of _process.                                                   *)

\* Mutant: every key is taken to be in the leaf in memory.
PointsHereAlways(t, l, key) == TRUE

\* Whether the entries of the nodes above the leaf in memory lead to it.
PointsHere(t, l, key) ==
    LET trail == Trail(t, l.key)
        i(d) == IndexIn(t, trail[d - 1], l.key)
        n(d) == t.blocks[trail[d - 1]]
        isGreatest(d) == i(d) > Len(n(d).keys)
        \* the lowest place where the way to the leaf is not to a gtChild
        turns == {d \in 2..Len(trail) : ~isGreatest(d)}
        low == IF turns = {} THEN 2 ELSE Max(turns)
    IN  /\ \A d \in low..Len(trail) : isGreatest(d) => key >= Last(n(d).keys)
        /\ turns # {} => key < n(low).keys[i(low)]

\* In a tree of one leaf the key is compared with the last entry instead,
\* and anything but a greater key is an error.
IsMisplaced(t, l, key) ==
    /\ IsLeaf(t, Root)
    /\ DOMAIN l.entries = {} \/ key < Max(DOMAIN l.entries)

\* An operation adds a key that is not there, or updates or removes one that
\* is.
IsAdd(key) == current[key] = None
IsRemove(key) == asked[key] = None
Fits(l, key) == key \in DOMAIN l.entries <=> ~IsAdd(key)
Applied(l, key) ==
    [l EXCEPT !.entries = IF IsRemove(key) THEN Restrict(@, DOMAIN @ \ {key})
                          ELSE (key :> asked[key]) @@ @]

\* The catch of _process: what was done in the leaf in memory is pushed back
\* to the operations; an operation that was shifted off and has not been
\* pushed to the batch is in neither.
Fail(t, operations, dropped, e) ==
    /\ tree' = t
    /\ todo' = operations
    /\ lost' = lost \cup dropped
    /\ taken' = 0 /\ batch' = {} /\ leaf' = NoLeaf
    /\ pc' = IF e = "full" THEN "grow" ELSE "rebuild"
    /\ UNCHANGED <<tries, request, history>>

\* The merge is over.  The next one makes a new BinaryBPlusTree, which knows
\* of no freed blocks.
End(t, threw) ==
    /\ tree' = [t EXCEPT !.freed = {}]
    /\ pc' = "idle"
    /\ todo' = {} /\ taken' = 0 /\ batch' = {} /\ leaf' = NoLeaf
    /\ retry' = 0 /\ left' = 0
    /\ current' = Nothing /\ failing' = "none"
    /\ thrown' = threw
    /\ UNCHANGED <<asked, before, lost, merges, failures>>

(* ---------------------------------------------------------------------- *)

Init ==
    /\ \E s \in Starts : tree = Created(s)
    /\ pc = "idle" /\ todo = {} /\ taken = 0 /\ batch = {} /\ leaf = NoLeaf
    /\ retry = 0 /\ left = 0
    /\ asked = Nothing /\ current = Nothing /\ failing = "none"
    /\ before = Content(tree) /\ lost = {} /\ thrown = FALSE
    /\ merges = 0 /\ failures = 0

\* _mergeNode: the affected children are looked up, and what changes becomes
\* operations.  An update that cannot look them up changes nothing.
Merge(r) ==
    LET found == [k \in DOMAIN r |-> Found(tree, k)]
        operations == {k \in DOMAIN r : found[k] # None \/ r[k] # None}
        refused == ~CanLookUp(tree, DOMAIN r)
    IN  /\ pc = "idle" /\ merges < MaxMerges
        /\ asked' = r /\ before' = Content(tree) /\ merges' = merges + 1
        /\ lost' = {} /\ thrown' = refused
        /\ IF refused \/ operations = {}
           THEN UNCHANGED <<pc, todo, current, failing, failures>>
           ELSE /\ pc' = "start" /\ todo' = operations /\ current' = found
                /\ failing' \in {"none"} \cup {w \in CanFail : failures < MaxFailing}
                /\ failures' = IF failing' = "none" THEN failures ELSE failures + 1
        /\ UNCHANGED <<tree, taken, batch, leaf, tries>>

\* Mutant: it never gives up.
IsStuckNever == FALSE

\* processOperations gives up when two fixes did not help.
IsStuck == retry > 2 /\ Cardinality(todo) = left

Start ==
    /\ pc = "start"
    /\ IF IsStuck \/ todo = {} THEN End(tree, IsStuck)
       ELSE /\ left' = Cardinality(todo)
            /\ leaf' = Loaded(tree, Min(todo))
            /\ pc' = "take"
            /\ UNCHANGED <<tree, todo, taken, batch, retry, request, lost, history>>

IsCrowded(t, l) == Cardinality(DOMAIN l.entries) > t.entriesPerNode

\* The next operation, if the leaf in memory is the one for it; if not, the
\* leaf is saved first.
Take ==
    LET key == Min(todo)
        here == ~IsCrowded(tree, leaf) /\ PointsHere(tree, leaf, key)
    IN  /\ pc = "take" /\ todo # {}
        /\ IF ~IsCrowded(tree, leaf) /\ IsMisplaced(tree, leaf, key)
           THEN Fail(tree, (todo \ {key}) \cup batch, {key}, "other")
           ELSE /\ todo' = todo \ {key} /\ taken' = key
                /\ pc' = IF here THEN "apply" ELSE "save"
                /\ UNCHANGED <<tree, batch, leaf, tries, request, lost, history>>

TakeNone ==
    /\ pc = "take" /\ todo = {}
    /\ pc' = "save"
    /\ UNCHANGED <<tree, work, tries, request, lost, history>>

Apply ==
    /\ pc = "apply"
    /\ IF ~Fits(leaf, taken) THEN Fail(tree, todo \cup batch \cup {taken}, {}, "other")
       ELSE /\ leaf' = Applied(leaf, taken)
            /\ batch' = batch \cup {taken}
            /\ taken' = 0 /\ pc' = "take"
            /\ UNCHANGED <<tree, todo, tries, request, lost, history>>

\* Mutant: what was done in the leaf is not pushed back.
FailSaveForgets(o) == Fail(o.tree, todo, {taken} \ {0}, o.error)

FailSave(o) == Fail(o.tree, todo \cup batch, {taken} \ {0}, o.error)

\* A full node above the leaf is split before the leaf can be.
SaveSplitsParent ==
    /\ pc = "save" /\ MustSplitParent(tree, leaf)
    /\ \E o \in SplitParent(tree, leaf) :
          IF o.error # "none" THEN FailSave(o)
          ELSE tree' = o.tree /\ UNCHANGED <<pc, work, tries, request, lost, history>>

\* The leaf is saved, and the leaf for the operation that was taken is loaded.
Save ==
    /\ pc = "save" /\ ~MustSplitParent(tree, leaf)
    /\ \E o \in SaveLeaf(tree, leaf) :
          IF o.error # "none" THEN FailSave(o)
          ELSE IF taken = 0 THEN End(o.tree, FALSE)
          ELSE /\ tree' = o.tree
               /\ batch' = {}
               /\ leaf' = Loaded(o.tree, taken)
               /\ pc' = "apply"
               /\ UNCHANGED <<todo, taken, tries, request, lost, history>>

Retry(t) ==
    /\ tree' = t
    /\ pc' = "start"
    /\ retry' = Min({retry + 1, 3})
    /\ UNCHANGED <<work, left, request, lost, history>>

\* The record gets a tenth more space; the tree is opened anew.
Grow ==
    /\ pc = "grow"
    /\ Retry([tree EXCEPT !.capacity = @ + Max({1, @ \div 10}), !.freed = {}])

\* _rebuildKeyTree.
Rebuild ==
    LET inserts == {k \in DOMAIN current : IsAdd(k) /\ ~IsRemove(k)}
        deletes == {k \in DOMAIN current : ~IsAdd(k) /\ IsRemove(k)}
    IN  /\ pc = "rebuild"
        /\ Retry(Rebuilt(tree, Cardinality(inserts) - Cardinality(deletes)))

Step == Start \/ Take \/ TakeNone \/ Apply \/ SaveSplitsParent \/ Save \/ Grow \/ Rebuild
Next == (\E r \in Requests : Merge(r)) \/ Step
Spec == Init /\ [][Next]_vars

\* A merge that has begun takes its next step: WF_vars(Step) written out, with
\* pc # "idle" for ENABLED Step.
Fairness == []<>(pc = "idle") \/ []<><<Step>>_vars
FairSpec == Spec /\ Fairness

(* ---------------------------------------------------------------------- *)
(* Properties.                                                             *)

\* The type of the state.
TypeOK ==
    /\ \A b \in 1..Len(tree.blocks) :
          \/ tree.blocks[b] = Junk
          \/ /\ IsLeaf(tree, b)
             /\ DOMAIN tree.blocks[b].entries \subseteq Keys
             /\ {tree.blocks[b].prev, tree.blocks[b].next} \subseteq 0..Len(tree.blocks)
          \/ /\ IsNode(tree, b)
             /\ Len(tree.blocks[b].kids) = Len(tree.blocks[b].keys) + 1
             /\ Range(tree.blocks[b].kids) \subseteq 1..Len(tree.blocks)
    /\ tree.freed \subseteq 1..Len(tree.blocks)
    /\ tree.entriesPerNode \in StartEntries..MaxEntries
    /\ pc \in {"idle", "start", "take", "apply", "save", "grow", "rebuild"}
    /\ todo \cup batch \cup lost \subseteq DOMAIN asked
    /\ taken \in {0} \cup Keys /\ taken \notin todo \cup batch
    /\ retry \in 0..3

\* At every moment, also after a step that failed, the leafs can be read one
\* after the other, in the order of their keys, and they have every child
\* that is not in the update, and of those in it the old or the new value:
\* that is what a rebuild makes a new tree of.
ChainKeepsAll ==
    LET c == Chain(tree)
        keysAt(i) == DOMAIN tree.blocks[c[i]].entries
        value(f, k) == IF k \in DOMAIN f THEN f[k] ELSE None
        content == Content(tree)
    IN  /\ \A i \in 1..Len(c) : IsLeaf(tree, c[i])
        /\ tree.blocks[Last(c)].next = 0
        /\ \A i, j \in 1..Len(c) : i < j => \A k \in keysAt(i), m \in keysAt(j) : k < m
        /\ \A k \in DOMAIN before \cup DOMAIN content \cup DOMAIN asked :
              \/ value(content, k) = value(before, k)
              \/ k \in DOMAIN asked /\ value(content, k) = asked[k]

\* Between updates every key leads from the root to the leaf that has it, no
\* leaf or node has more entries than it may have, and no node is without.
DescentFindsAll ==
    pc = "idle" =>
        LET content == Content(tree)
        IN
        /\ \A b \in 1..Len(tree.blocks) :
              /\ IsLeaf(tree, b) =>
                    Cardinality(DOMAIN tree.blocks[b].entries) <= tree.entriesPerNode
              /\ IsNode(tree, b) => Len(tree.blocks[b].keys) \in 1..tree.entriesPerNode
        /\ \A k \in Keys :
              Found(tree, k) = IF k \in DOMAIN content THEN content[k] ELSE None

\* An update that does not end in an error has done all it was asked, but for
\* the operations that were dropped.
TakesEffect ==
    pc = "idle" /\ ~thrown =>
        LET done == DOMAIN asked \ lost
        IN  Content(tree) =
               [k \in {k \in DOMAIN before \cup DOMAIN asked :
                          IF k \in done THEN asked[k] # None ELSE k \in DOMAIN before} |->
                   IF k \in done THEN asked[k] ELSE before[k]]

\* No block is used twice: every block below the root has one parent, none of
\* them is in the list of freed blocks, and each leaf follows the one that it
\* names as the one before it.
NoBlockTwice ==
    LET nodes == {b \in 1..Len(tree.blocks) : IsNode(tree, b)}
        c == Chain(tree)
    IN  /\ \A b, d \in nodes :
              \A i \in 1..Len(tree.blocks[b].kids), j \in 1..Len(tree.blocks[d].kids) :
                  tree.blocks[b].kids[i] = tree.blocks[d].kids[j] => b = d /\ i = j
        /\ \A b \in nodes : Range(tree.blocks[b].kids) \cap (tree.freed \cup {Root}) = {}
        /\ \A i \in 1..Len(c) :
              /\ c[i] \notin tree.freed
              /\ tree.blocks[c[i]].prev = IF i = 1 THEN 0 ELSE c[i - 1]

\* However often writes fail, every update ends.
Settles == pc # "idle" ~> pc = "idle"

\* An operation is done once and in the right leaf: whatever was saved, pushed
\* back and tried again before, the tree never finds that the key of an
\* addition is there already or that the one to change is missing.
AppliesOnce == pc = "apply" => Fits(leaf, taken)

\* "So all operations will be processed": an update that does not end in an
\* error has dropped none.
NothingLost == pc = "idle" /\ ~thrown => lost = {}
=============================================================================
