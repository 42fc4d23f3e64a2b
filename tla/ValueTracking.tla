---------------------------- MODULE ValueTracking ----------------------------
(***************************************************************************)
(* What a write prepares besides the data itself: the part of the old data *)
(* it loads, the new data it makes of it, the events it owes subscribers   *)
(* and the updates of the indexes.  Operators only; TrackedStore has the   *)
(* state.                                                                  *)
(***************************************************************************)
EXTENDS Trees

CONSTANT Letters    \* the characters of the strings among the leaves, by their keys
ASSUME LettersAssumption ==
    \A v \in DOMAIN Letters :
        /\ v \notin {"obj", "none"}
        /\ "0" \in DOMAIN Letters[v] /\ DOMAIN Letters[v] \subseteq STRING \ {"*"}
        /\ \A k \in DOMAIN Letters[v] : Letters[v][k] \notin {"obj", "none"}

\* getNode with the option include.
Include(tree, keys) ==
    [q \in {d \in DOMAIN tree : \E k \in keys : IsPrefix(d, k) \/ IsPrefix(k, d)} |-> tree[q]]

\* What a client may ask for: a value, Null for none, in place of a node, or of
\* some properties of it; the root stays an object.
IsValue(v) ==
    /\ v = [p \in DOMAIN v |-> v[p]]
    /\ IsTree(v)
    /\ \A p \in DOMAIN v : v[p] # "none"
IsRequest(r) ==
    /\ r.path \in Path
    /\ \/ DOMAIN r.updates = {<<>>}
       \/ DOMAIN r.updates # {} /\ \A k \in DOMAIN r.updates : k \in Path /\ Len(k) = 1
    /\ \A k \in DOMAIN r.updates : IsValue(r.updates[k])
    /\ r.path = <<>> /\ <<>> \in DOMAIN r.updates => Kind(r.updates[<<>>], <<>>) = "obj"

----------------------------------------------------------------------------
\* Where a write takes place.  A value that fits in its parent is merged into
\* the parent, a node that is not there yet into the nearest node that is, and
\* a node without a record of its own is replaced.
FitsInline(tree) == DOMAIN tree \subseteq {<<>>}
Merged(path, updates) ==
    IF path # <<>> /\ <<>> \in DOMAIN updates /\ FitsInline(updates[<<>>])
    THEN [path |-> Front(path), updates |-> [k \in {<<Last(path)>>} |-> updates[<<>>]]]
    ELSE [path |-> path, updates |-> updates]
Target(db, path, updates) ==
    LET w == Merged(path, updates)
        near == CHOOSE p \in {SubSeq(w.path, 1, n) : n \in 0..Len(w.path)} :
                  /\ p \in DOMAIN db
                  /\ \A n \in (Len(p) + 1)..Len(w.path) : SubSeq(w.path, 1, n) \notin DOMAIN db
        trail == Rest(w.path, Len(near))
        parents == [p \in Above(Tail(trail)) \union {Tail(trail)} |-> "obj"]
        here == IF trail = <<>> THEN w.updates
                ELSE [k \in {<<Head(trail)>>} |-> Applied(parents, Tail(trail), w.updates)]
    IN [path |-> near,
        updates |-> IF near # <<>> /\ FitsInline(At(db, near)) /\ <<>> \notin DOMAIN here
                    THEN [k \in {<<>>} |-> TreeOf(here)] ELSE here]

----------------------------------------------------------------------------
\* Subscriptions: [path, type, notify], the path with wildcards.
ParentEvents == {"child_added", "child_removed"}
MutationEvents == {"mutated", "mutations"}

\* A mutant: the data of a "value" event is looked for where the write is.
DataNeededAtPath(s, path) ==
    LET e == Filled(s.path, path) IN
    IF s.notify \/ Len(e) > Len(path) \/ ~OnTrail(e, path) THEN {} ELSE {path}

\* getValueSubscribersForPath: the data it needs loaded, of a write at path.
DataNeeded(s, path) ==
    LET e == Filled(s.path, path)
        below == Len(path) - Len(e)
    IN IF s.notify \/ below < 0 \/ ~OnTrail(e, path) THEN {}
       ELSE CASE s.type = "value" -> {e}
              [] s.type \in MutationEvents /\ below > 0 -> {path}
              [] s.type = "child_changed" /\ below > 0 -> {SubSeq(path, 1, Len(e) + 1)}
              [] s.type \in ParentEvents /\ below = 1 -> {path}
              [] OTHER -> {}

\* getAllSubscribersForPath: the data the event is about, {} if there is none.
DataPath(s, path) ==
    LET e == Filled(s.path, path)
        child == IF Len(path) <= Len(e) THEN "*" ELSE path[Len(e) + 1]
    IN IF ~OnTrail(s.path, path) THEN {}
       ELSE CASE s.type = "value" -> {e}
              [] s.type \in MutationEvents -> {path}
              [] s.type = "child_changed" -> {Append(e, child)}
              [] s.type \in ParentEvents /\ Len(path) <= Len(e) + 1 -> {Append(e, child)}
              [] OTHER -> {}
AllSubscribers(subs, path) == {s \in subs : DataPath(s, path) # {}}

\* Indexes: [path, key, include], the key and the included keys as paths.
IndexKeys(i) == {i.key} \union i.include
RecordPattern(i) == Append(i.path, "*")
\* A mutant: indexes on the parents of path are not looked for.
AffectedIndexesBelow(indexes, path) ==
    {i \in indexes : Len(path) <= Len(RecordPattern(i)) /\ OnTrail(RecordPattern(i), path)}
AffectedIndexes(indexes, path) ==
    {i \in indexes :
       LET n == Len(RecordPattern(i)) IN
       IF Len(path) > n THEN OnTrail(RecordPattern(i), path) /\ <<path[n + 1]>> \in IndexKeys(i)
                        ELSE OnTrail(RecordPattern(i), path)}

\* getUpdateImpact, and the filter that _writeNodeWithTracking adds to it.
Shortest(paths) == CHOOSE p \in paths : \A q \in paths : Len(p) <= Len(q)
Impact(subs, indexes, path, updates) ==
    LET needed == UNION {DataNeeded(s, path) : s \in subs}
        top == IF needed = {} THEN path ELSE Shortest(needed)
        values == \E s \in subs : top \in DataNeeded(s, path) /\ s.type # "mutated"
        affected == AffectedIndexes(indexes, path)
        topIndex == Shortest({i.path : i \in affected})
        record == IF topIndex = path THEN path ELSE Filled(Append(topIndex, "*"), path)
        higher == affected # {} /\ Len(record) < Len(top)
    IN [path |-> path,
        updates |-> updates,
        subs |-> AllSubscribers(subs, path),
        indexes |-> affected,
        top |-> IF higher THEN record ELSE top,
        keys |-> CASE higher -> UNION {IndexKeys(i) : i \in {j \in affected : j.path = topIndex}}
                   [] ~higher /\ ~values /\ <<>> \notin DOMAIN updates ->
                        {Rest(path, Len(top)) \o r : r \in DOMAIN updates}
                   [] OTHER -> {<<>>}]

\* The data on the top event path before and after the write w.
OldData(db, w) == Include(At(db, w.top), w.keys)
NewData(db, w) ==
    LET old == OldData(db, w)
    IN Applied(IF old = Null THEN Object ELSE old, Rest(w.path, Len(w.top)), w.updates)

----------------------------------------------------------------------------
\* Events: [sub, path, old, new]; a notification carries no values.
Event(s, path, old, new) ==
    [sub |-> s, path |-> path,
     old |-> IF s.notify THEN Null ELSE old, new |-> IF s.notify THEN Null ELSE new]

\* getChildValues takes a property of any value, and Object.keys the keys of any
\* value: the characters of a string are children of it, each a string itself.
InString(tree, p) ==
    \E n \in 1..Len(p) :
        LET v == Kind(tree, SubSeq(p, 1, n - 1)) IN
        /\ v \in DOMAIN Letters /\ p[n] \in DOMAIN Letters[v]
        /\ \A i \in (n + 1)..Len(p) : p[i] = "0"
Child(tree, p) ==
    LET n == CHOOSE n \in 1..Len(p) : Kind(tree, SubSeq(p, 1, n - 1)) \in DOMAIN Letters
        c == Letters[Kind(tree, SubSeq(p, 1, n - 1))][p[n]]
    IN IF InString(tree, p) THEN [q \in {<<>>} |-> c] ELSE At(tree, p)
Characters(tree, n) ==
    UNION {{q \o <<k>> \o [i \in 1..(n - Len(q) - 1) |-> "0"] : k \in DOMAIN Letters[tree[q]]} :
             q \in {q \in DOMAIN tree : tree[q] \in DOMAIN Letters /\ Len(q) < n}}
NamesNoCharacter(p) == \A i \in 1..Len(p), v \in DOMAIN Letters : p[i] \notin DOMAIN Letters[v]

\* callSubscriberWithValues: whether this is an event of the type.
Triggers(type, old, new) ==
    /\ old # new
    /\ type = "child_changed" => old # Null /\ new # Null
    /\ type = "child_added" => old = Null
    /\ type = "child_removed" => new = Null

\* A notification on a path above the data that was loaded.
NotifiedAbove(s, w, old, new) ==
    LET e == Filled(s.path, w.path)
        parent == Len(e) + 1 = Len(w.top)
    IN {Event(s, d, Null, Null) : d \in
          {d \in DataPath(s, w.path) :
             CASE s.type = "value" -> TRUE
               [] s.type = "child_changed" -> ~parent \/ (old # Null /\ new # Null)
               [] OTHER -> parent /\ Triggers(s.type, old, new)}}

\* triggerAllEvents: events on the data that was loaded or below it.
ValueEvents(s, w, old, new) ==
    LET value(tree, p) == Child(tree, Rest(p, Len(w.top)))
        keys(tree, d) == DOMAIN tree \union Characters(tree, Len(d) - Len(w.top))
        happened(d) == {w.top \o q : q \in keys(old, d) \union keys(new, d)}
    IN UNION {{Event(s, p, value(old, p), value(new, p)) : p \in
                 {p \in happened(d) :
                    /\ Len(p) = Len(d)
                    /\ OnTrail(d, p)
                    /\ Triggers(s.type, value(old, p), value(new, p))}} : d \in DataPath(s, w.path)}

\* triggerAllEvents and prepareMutationEvents: every change on its own path.
\* A wildcard below the data that was loaded is looked up as a key.
MutatedEvents(s, w, old, new) ==
    LET e == Filled(s.path, w.path)
        from == IF Len(e) <= Len(w.top) THEN w.top ELSE e
        before == Child(old, Rest(from, Len(w.top)))
        after == Child(new, Rest(from, Len(w.top)))
    IN {Event(s, from \o q, At(before, q), At(after, q)) : q \in Differences(before, after)}

EventsOf(db, w) ==
    LET old == OldData(db, w)
        new == NewData(db, w)
        above(s) == s.notify /\ Len(s.path) < Len(w.top)
    IN IF old = new THEN {}
       ELSE UNION {CASE s.type \in MutationEvents -> MutatedEvents(s, w, old, new)
                     [] s.type \notin MutationEvents /\ above(s) -> NotifiedAbove(s, w, old, new)
                     [] OTHER -> ValueEvents(s, w, old, new) : s \in w.subs}

----------------------------------------------------------------------------
\* DataIndex.handleRecordUpdate: an entry [record, key, meta] is removed and
\* added when the key or an included key of the record changed.
RecordUpdated(i, entries, record, old, new) ==
    LET meta == [k \in i.include |-> IF Len(k) = 1 THEN At(new, k) ELSE Null]
        before == At(old, i.key)
        after == At(new, i.key)
        removed == {e \in entries : e.record = record /\ e.key = before}
        added == IF IsLeaf(after) THEN {[record |-> record, key |-> after, meta |-> meta]} ELSE {}
    IN IF \A k \in IndexKeys(i) : At(old, k) = At(new, k) THEN entries
       ELSE (entries \ removed) \union added

\* _writeNodeWithTracking: the records of an index that the write touches.
\* Updates of different records do not meet.
IndexUpdated(db, w, i, entries) ==
    LET old == OldData(db, w)
        new == NewData(db, w)
        records == {p \in {w.top \o q : q \in DOMAIN old \union DOMAIN new} :
                      Len(p) = Len(i.path) + 1 /\ OnTrail(RecordPattern(i), p)}
        value(tree, p) == At(tree, Rest(p, Len(w.top)))
        updated(r) == RecordUpdated(i, {e \in entries : e.record = r}, r, value(old, r), value(new, r))
    IN IF i \notin w.indexes \/ old = new THEN entries
       ELSE {e \in entries : e.record \notin records} \union UNION {updated(r) : r \in records}
==============================================================================
