--------------------------- MODULE TransactionLog ---------------------------
(***************************************************************************)
(* The transaction log of a binary database, in a database of its own, and *)
(* a client that keeps a copy of some paths by it: it has the data as of a *)
(* cursor, and asks for what was changed since.  A write gets its cursor   *)
(* when it is called, takes effect when it has its lock, and is logged     *)
(* after it has released it.                                               *)
(***************************************************************************)
EXTENDS ValueTracking

CONSTANTS
    Requests,   \* writes: [path, type ("set" or "update"), updates]
    Filters,    \* what a client may ask for: sequences of [path, events]
    MaxWrites,  \* bound on the writes in a behaviour
    MaxFlight,  \* bound on the writes under way at a time
    MaxAge      \* settings.transactions.maxAge, in units of the clock

ASSUME LogAssumption ==
    MaxWrites \in Nat /\ MaxFlight \in Nat /\ MaxAge \in Nat \ {0}

VARIABLES
    db,       \* the data
    clock,    \* Date.now(); a write takes at least one unit
    made,     \* the writes that were called
    calls,    \* writes that have a cursor and wait for their lock: [id, request]
    unlogged, \* items of writes that are done and are not in the log yet
    log,      \* the items of "history" in the transaction database
    client    \* {[for, cursor, copy, whole]}, {} before it has loaded anything

vars == <<db, clock, made, calls, unlogged, log, client>>

----------------------------------------------------------------------------
\* Paths and values.
Strictly(p, q) == IsPrefix(p, q) /\ p # q
KeysOf(tree) == {q[1] : q \in DOMAIN tree \ {<<>>}}

\* "===" and "in" of two values: objects are never the same.
Identical(x, y) == x = y /\ Kind(x, <<>>) # "obj"
NewKeys(new, old) == KeysOf(new) \ KeysOf(old)

\* The part of a tree that is on one of the paths.
Part(tree, paths) ==
    [q \in {d \in DOMAIN tree : \E p \in paths : IsPrefix(p, d)} |-> tree[q]]
PathsOf(for) == {for[i].path : i \in DOMAIN for}

\* ID.generate(): a time that is compared, and the number of the write that
\* got it, 0 for a cursor of a reader.
Cursor(nr) == [time |-> clock, nr |-> nr]
OldestValidCursor == clock - MaxAge

----------------------------------------------------------------------------
\* logMutation.  The mutations are the places where the old and the new value
\* of the node that was written start to differ; nulls are not stored.
Mutations(old, new, base) ==
    {[target |-> p, prev |-> At(old, base \o p), val |-> At(new, base \o p)] :
       p \in Differences(At(old, base), At(new, base))}

\* The removal of a node is logged on its parent.
Logged(r) ==
    IF r.updates = (<<>> :> Null)
    THEN [path |-> Front(r.path), type |-> "update", updates |-> (<<Last(r.path)>> :> Null)]
    ELSE r

\* A mutant: the keys that are removed are not written down.
ItemOfUpdated(call, w, old) ==
    LET r == Logged(call.request)
        list == Mutations(old, Applied(old, w.path, w.updates), w.path)
    IN [id |-> call.id, path |-> r.path, type |-> r.type, timestamp |-> clock,
        value |-> TreeOf(r.updates), base |-> w.path, list |-> list,
        updated |-> IF w.path = r.path
                    THEN {m.target[1] : m \in {x \in list : x.target # <<>> /\ x.val # Null}}
                    ELSE KeysOf(TreeOf(r.updates)),
        deleted |-> {}]

\* The item of a write w on the data old.
ItemOf(call, w, old) ==
    LET r == Logged(call.request)
        list == Mutations(old, Applied(old, w.path, w.updates), w.path)
    IN [id |-> call.id, path |-> r.path, type |-> r.type, timestamp |-> clock,
        value |-> TreeOf(r.updates), base |-> w.path, list |-> list,
        updated |-> IF w.path = r.path
                    THEN {m.target[1] : m \in {x \in list : x.target # <<>> /\ x.val # Null}}
                    ELSE KeysOf(TreeOf(r.updates)),
        deleted |-> IF w.path = r.path
                    THEN {m.target[1] : m \in {x \in list : Len(x.target) = 1 /\ x.val = Null}}
                    ELSE {}]

----------------------------------------------------------------------------
\* getMutations.  The paths to filter on are those that are not below another,
\* and of an item the first that is on its trail counts.
FilterPath(item, for) ==
    LET top == SelectSeq(for, LAMBDA f : \A p \in PathsOf(for) : ~Strictly(p, f.path))
        on  == SelectSeq(top, LAMBDA f : IsPrefix(f.path, item.path) \/ IsPrefix(item.path, f.path))
    IN IF on = <<>> THEN {} ELSE {on[1].path}

\* Whether an item below whose path the filter is has data for it.
Targets(item, path) ==
    item.type = "set" \/ path[Len(item.path) + 1] \in item.updated \union item.deleted

\* Whether an item changes the value at a path that it has data for.
HasTargetMutation(item, path) ==
    \E m \in item.list :
        LET at == item.base \o m.target IN
        IF Strictly(at, path)
        THEN ~Identical(At(m.val, Rest(path, Len(at))), At(m.prev, Rest(path, Len(at))))
        ELSE IsPrefix(at, path) \/ IsPrefix(path, at)

\* What an item has for a filter: all of it, or the value at the filter path.
Entry(item, path, type, updates) ==
    [id |-> item.id, timestamp |-> item.timestamp, path |-> path, type |-> type,
     updates |-> updates, base |-> item.base, list |-> item.list]
EntriesOf(item, for) ==
    UNION {IF ~Strictly(item.path, path)
           THEN {Entry(item, item.path, item.type,
                       IF item.type = "set" THEN (<<>> :> item.value)
                       ELSE [k \in {<<k>> : k \in KeysOf(item.value) \union item.deleted} |->
                               At(item.value, k)])}
           ELSE IF Targets(item, path) /\ HasTargetMutation(item, path)
           THEN {Entry(item, path, "set", (<<>> :> At(item.value, Rest(path, Len(item.path)))))}
           ELSE {} : path \in FilterPath(item, for)}

\* The changes of an entry that are on its path, as changes of that path if
\* they were made above it.
OnTarget(e) ==
    IF ~Strictly(e.base, e.path) THEN e.list
    ELSE LET trail == Rest(e.path, Len(e.base))
             on == {m \in e.list : IsPrefix(m.target, trail)}
             moved(m) == [target |-> trail, prev |-> At(m.prev, Rest(trail, Len(m.target))),
                          val |-> At(m.val, Rest(trail, Len(m.target)))]
         IN {x \in {moved(m) : m \in on} : ~Identical(x.val, x.prev)}

Values == {"value", "child_changed", "mutated", "mutations"}

\* A mutant: changes above the path that is asked for are not looked into.
RelevantFromPath(at, m, target) ==
    LET asked(type) == type \in target.events
    IN CASE IsPrefix(target.path, at) /\ target.events \cap Values # {} -> TRUE
         [] at = target.path ->
              \/ asked("child_added") /\ NewKeys(m.val, m.prev) # {}
              \/ asked("child_removed") /\ NewKeys(m.prev, m.val) # {}
         [] Strictly(target.path, at) ->
              /\ Len(at) = Len(target.path) + 1
              /\ \/ asked("child_added") /\ m.prev = Null
                 \/ asked("child_removed") /\ m.val = Null
         [] OTHER -> FALSE

\* Whether a change from prev to val at a path is an event that is asked for.
Relevant(at, m, target) ==
    LET rest == Rest(target.path, Len(at))
        val  == At(m.val, rest)
        prev == At(m.prev, rest)
        asked(type) == type \in target.events
    IN CASE IsPrefix(target.path, at) /\ target.events \cap Values # {} -> TRUE
         [] at = target.path ->
              \/ asked("child_added") /\ NewKeys(m.val, m.prev) # {}
              \/ asked("child_removed") /\ NewKeys(m.prev, m.val) # {}
         [] Strictly(target.path, at) ->
              /\ Len(at) = Len(target.path) + 1
              /\ \/ asked("child_added") /\ m.prev = Null
                 \/ asked("child_removed") /\ m.val = Null
         [] Strictly(at, target.path) /\ ~Identical(prev, val) ->
              \/ target.events \cap (Values \ {"child_changed"}) # {}
              \/ asked("child_added") /\ NewKeys(val, prev) # {}
              \/ asked("child_removed") /\ NewKeys(prev, val) # {}
         [] OTHER -> FALSE

\* A mutant: items of the time of the cursor are left out.
SinceAfter(cursor, items) ==
    {i \in items : i.id.time > cursor.time /\ i.timestamp >= cursor.time}

\* The items from the cursor on.  An item with the very cursor is the write of
\* the client itself, if it is the only one of its time.
Since(cursor, items) ==
    LET from == {i \in items : i.id.time >= cursor.time /\ i.timestamp >= cursor.time}
        same == {i \in items : i.id.time = cursor.time}
    IN IF Cardinality(same) = 1 THEN {i \in from : i.id # cursor} ELSE from

GetMutations(cursor, for, items) ==
    LET entries == UNION {EntriesOf(i, for) : i \in Since(cursor, items)}
        kept == {e \in {[x EXCEPT !.list = OnTarget(x)] : x \in entries} :
                   \E m \in e.list : \E i \in DOMAIN for : Relevant(e.base \o m.target, m, for[i])}
    IN SetToSortSeq(kept, LAMBDA x, y : x.timestamp < y.timestamp)

----------------------------------------------------------------------------
\* getChanges.  A mutation replaces the earlier ones at its path and below it,
\* and what is left is merged into one update per parent.
SetOperations(e) ==
    {[path |-> e.base \o m.target, val |-> m.val] : m \in e.list}

Supersede(all, e) ==
    SelectSeq(all, LAMBDA s : \A new \in SetOperations(e) : ~IsPrefix(new.path, s.path))
    \o SetToSeq(SetOperations(e))

MergeIntoParent(updates, s) ==
    IF s.path = <<>> THEN Append(updates, [path |-> <<>>, updates |-> (<<>> :> s.val)])
    ELSE LET mine == SelectInSeq(updates, LAMBDA u : u.path = Front(s.path))
             key  == (<<Last(s.path)>> :> s.val)
         IN IF mine = 0 THEN Append(updates, [path |-> Front(s.path), updates |-> key])
            ELSE [updates EXCEPT ![mine].updates = key @@ @]

GetChanges(cursor, for, items) ==
    FoldLeft(MergeIntoParent, <<>>, FoldLeft(Supersede, <<>>, GetMutations(cursor, for, items)))

\* What a client makes of them: it writes them to its copy, one by one.
Written(copy, u) ==
    LET w == Target(copy, u.path, u.updates) IN Applied(copy, w.path, w.updates)
Replay(copy, for, changes) ==
    LET above == UNION {{SubSeq(d, 1, n) : n \in 0..Len(d)} : d \in DOMAIN copy \union {<<>>}}
    IN Part(FoldLeft(Written, copy @@ [p \in above |-> "obj"], changes), PathsOf(for))

----------------------------------------------------------------------------
\* What getMutations does not find: a change below the filter path made by a
\* write above it; what is at other paths than the first that a write is above;
\* a child that came to be because something deeper was written.
Veiled(c) ==
    \E i \in Since(c.cursor, log) : \E n \in DOMAIN c.for :
        LET p == c.for[n].path IN
        \/ \E q \in FilterPath(i, c.for) : \E m \in i.list :
             Strictly(i.path, q) /\ Strictly(i.base, q) /\ Strictly(q, i.base \o m.target)
        \/ Strictly(i.path, p) /\ \A q \in FilterPath(i, c.for) : ~IsPrefix(q, p)
        \/ /\ c.for[n].events \cap ParentEvents # {}
           /\ IsPrefix(i.base, p) /\ Strictly(p, i.path) /\ Len(i.path) > Len(p) + 1

----------------------------------------------------------------------------
Init ==
    /\ db = Object
    /\ clock = 0
    /\ made = 0
    /\ calls = {} /\ unlogged = {} /\ log = {}
    /\ client = {}

InFlight == calls \union unlogged

\* setNode, updateNode: a cursor is generated, and the lock requested.
Call(r) ==
    /\ made < MaxWrites
    /\ Cardinality(InFlight) < MaxFlight
    /\ made' = made + 1
    /\ calls' = calls \union {[id |-> Cursor(made + 1), request |-> r]}
    /\ UNCHANGED <<db, clock, unlogged, log, client>>

\* A property is removed from a node that is there.
Allowed(r) ==
    Null \in {r.updates[k] : k \in DOMAIN r.updates} =>
        Kind(db, Logged(r).path) = "obj"

\* The write has its lock, and is done.  What has not changed is not logged.
Apply(call) ==
    LET w == Target(db, call.request.path, call.request.updates)
        item == ItemOf(call, w, db)
    IN /\ Allowed(call.request)
       /\ db' = Applied(db, w.path, w.updates)
       /\ clock' = clock + 1
       /\ calls' = calls \ {call}
       /\ unlogged' = IF item.list = {} THEN unlogged ELSE unlogged \union {item}
       /\ UNCHANGED <<made, log, client>>

\* The item is stored in the transaction database.
Store(item) ==
    /\ unlogged' = unlogged \ {item}
    /\ log' = log \union {item}
    /\ UNCHANGED <<db, clock, made, calls, client>>

\* getNode: the client gets its first copy, and a cursor.  Only one that asks
\* for the values can keep the copy true.
KeepsCopy(for) == \A i \in DOMAIN for : for[i].events \cap Values # {}
Load(for) ==
    /\ client = {}
    /\ client' = {[for |-> for, cursor |-> Cursor(0), copy |-> Part(db, PathsOf(for)),
                   whole |-> InFlight = {} /\ KeepsCopy(for)]}
    /\ UNCHANGED <<db, clock, made, calls, unlogged, log>>

\* The client writes and remembers the cursor of its write.
Caught(c) == c.whole /\ InFlight = {} /\ c.copy = Part(db, PathsOf(c.for))
Own(c, r) ==
    LET w == Target(db, r.path, r.updates)
        item == ItemOf([id |-> Cursor(made + 1), request |-> r], w, db)
    IN /\ made < MaxWrites
       /\ Caught(c)
       /\ Allowed(r)
       /\ item.list # {}
       /\ db' = Applied(db, w.path, w.updates)
       /\ clock' = clock + 1
       /\ made' = made + 1
       /\ log' = log \union {item}
       /\ client' = {[c EXCEPT !.cursor = item.id, !.copy = Part(db', PathsOf(c.for))]}
       /\ UNCHANGED <<calls, unlogged>>

\* getChanges: the client catches up, and gets a new cursor.  What is too old
\* to be asked for is removed.
Accepted(c) == c.cursor.time >= OldestValidCursor
Sync(c) ==
    /\ Accepted(c)
    /\ client' = {[c EXCEPT !.cursor = Cursor(0),
                            !.copy = Replay(c.copy, c.for, GetChanges(c.cursor, c.for, log)),
                            !.whole = @ /\ InFlight = {} /\ ~Veiled(c)]}
    /\ log' = {i \in log : i.id.time >= OldestValidCursor}
    /\ UNCHANGED <<db, clock, made, calls, unlogged>>

Next ==
    \/ \E r \in Requests : Call(r)
    \/ \E call \in calls : Apply(call)
    \/ \E item \in unlogged : Store(item)
    \/ \E for \in Filters : Load(for)
    \/ \E c \in client : Sync(c) \/ \E r \in Requests : Own(c, r)

Spec == Init /\ [][Next]_vars

----------------------------------------------------------------------------
\* A client that asks for the changes, now that nothing is under way, and
\* whose cursor was generated when nothing was, gets from its copy to the data.
CatchesUp ==
    \A c \in client :
        c.whole /\ InFlight = {} /\ Accepted(c) /\ ~Veiled(c) =>
            Replay(c.copy, c.for, GetChanges(c.cursor, c.for, log)) = Part(db, PathsOf(c.for))

\* The same with the mutations themselves, which a client applies in turn,
\* each as the set or the update that it is.
MutationsCatchUp ==
    \A c \in client :
        c.whole /\ InFlight = {} /\ Accepted(c) /\ ~Veiled(c) =>
            Replay(c.copy, c.for, GetMutations(c.cursor, c.for, log)) = Part(db, PathsOf(c.for))

\* A mutation is reported to those who ask for one of the events that it is:
\* a value that changed on or around the path, a child that came or went.
HasEvent(i, target) ==
    \E m \in i.list :
        LET at == i.base \o m.target
            here(v) == {at \o q : q \in DOMAIN v}
            children(v) == {p \in here(v) : IsPrefix(target.path, p) /\ Len(p) = Len(target.path) + 1}
        IN \/ target.events \cap Values # {}
              /\ \E p \in here(m.prev) \union here(m.val) : IsPrefix(target.path, p)
           \/ "child_added" \in target.events /\ ~(children(m.val) \subseteq children(m.prev))
           \/ "child_removed" \in target.events /\ ~(children(m.prev) \subseteq children(m.val))
ReportsEvents ==
    \A c \in client : ~Veiled(c) =>
        {e.id : e \in Range(GetMutations(c.cursor, c.for, log))} =
        {i.id : i \in {j \in Since(c.cursor, log) :
                          \E n \in DOMAIN c.for : HasEvent(j, c.for[n])}}
==============================================================================
