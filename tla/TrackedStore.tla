---------------------------- MODULE TrackedStore ----------------------------
(***************************************************************************)
(* A database whose writes are tracked: _writeNodeWithTracking under the   *)
(* write lock, which is one for the whole database, with subscriptions and *)
(* indexes.  A write reads what it has to prepare when it has the lock, and*)
(* its events fire after it: subscriptions come and go in between.  One    *)
(* client keeps a copy of a node by its "mutated" events.                  *)
(***************************************************************************)
EXTENDS ValueTracking

CONSTANTS
    Requests,       \* writes of the clients: [path, updates]
    Indexes,        \* the indexes of the database
    Subscriptions,  \* subscriptions that clients may have
    Mirror,         \* the subscription of the client that keeps a copy
    MaxSubs         \* bound on the subscriptions at a time

ASSUME TrackedAssumption ==
    /\ Mirror \in Subscriptions /\ Mirror.type = "mutated" /\ ~Mirror.notify
    /\ \A i \in 1..Len(Mirror.path) : Mirror.path[i] # "*"
    /\ NamesNoCharacter(Mirror.path)
    /\ \A i \in Indexes : \A k \in IndexKeys(i) : k # <<>> /\ NamesNoCharacter(k)
    /\ \A s \in Subscriptions : s.path \in Path
    /\ \A i \in Indexes : i.path \in Path /\ i.key \in Path /\ i.include \subseteq Path
    /\ \A r \in Requests : IsRequest(r)
    /\ MaxSubs \in Nat

VARIABLES
    db,     \* the tree that is stored
    idx,    \* entries of each index
    subs,   \* subscriptions now
    write,  \* the impact of the write that has the lock, {} without one
    queue,  \* the events that are deferred
    copy    \* the copy of the mirroring client, {} when it has none

vars == <<db, idx, subs, write, queue, copy>>

----------------------------------------------------------------------------
Init ==
    /\ db = Object
    /\ idx = [i \in Indexes |-> {}]
    /\ subs = {}
    /\ write = {}
    /\ queue = {}
    /\ copy = {}

\* subscriptions.add and remove.  They come and go at any time.  A subscription
\* is looked at when a write begins, and again when its events fire, of which
\* only the mirroring client keeps anything: the others are left alone in
\* between, where they make no difference.
MayChange(s) == s = Mirror \/ (write = {} /\ queue = {})
Subscribe(s) ==
    /\ MayChange(s)
    /\ s \notin subs
    /\ Cardinality(subs) < MaxSubs
    /\ subs' = subs \union {s}
    /\ UNCHANGED <<db, idx, write, queue, copy>>

Unsubscribe(s) ==
    /\ MayChange(s)
    /\ s \in subs
    /\ subs' = subs \ {s}
    /\ copy' = IF s = Mirror THEN {} ELSE copy
    /\ UNCHANGED <<db, idx, write, queue>>

\* A write has its lock and looks up what its update has an impact on.  A
\* property is removed from a node that is there.
Begin(r) ==
    LET w == Target(db, r.path, r.updates) IN
    /\ write = {}
    /\ Null \in {r.updates[k] : k \in DOMAIN r.updates} =>
         Kind(db, Merged(r.path, r.updates).path) = "obj"
    /\ write' = {Impact(subs, Indexes, w.path, w.updates)}
    /\ UNCHANGED <<db, idx, subs, queue, copy>>

\* The data is written, the indexes are updated, the events are deferred and
\* the lock is released.  All of it waits for files: what was deferred before
\* has fired.
End ==
    /\ queue = {}
    /\ \E w \in write :
         /\ db' = Applied(db, w.path, w.updates)
         /\ idx' = [i \in Indexes |-> IndexUpdated(db, w, i, idx[i])]
         /\ queue' = EventsOf(db, w)
    /\ write' = {}
    /\ UNCHANGED <<subs, copy>>

\* trigger calls the subscriptions there are by now; their changes are of
\* different paths.
Fire ==
    /\ queue # {}
    /\ copy' =
         {LET mine == {e \in queue : e.sub = Mirror}
              below(e) == Rest(e.path, Len(Mirror.path))
          IN Applied(c, <<>>, [p \in {below(e) : e \in mine} |->
                                 (CHOOSE e \in mine : below(e) = p).new]) : c \in copy}
    /\ queue' = {}
    /\ UNCHANGED <<db, idx, subs, write>>

\* A mutant: the value is read without a lock.
LoadUnlocked ==
    /\ Mirror \in subs
    /\ copy = {}
    /\ copy' = {At(db, Mirror.path)}
    /\ UNCHANGED <<db, idx, subs, write, queue>>

\* The mirroring client gets the value it keeps a copy of, with a read lock.
Load ==
    /\ Mirror \in subs
    /\ copy = {}
    /\ write = {}
    /\ copy' = {At(db, Mirror.path)}
    /\ UNCHANGED <<db, idx, subs, write, queue>>

Next ==
    \/ \E s \in Subscriptions : Subscribe(s) \/ Unsubscribe(s)
    \/ \E r \in Requests : Begin(r)
    \/ End
    \/ Fire
    \/ Load

Spec == Init /\ [][Next]_vars

----------------------------------------------------------------------------
\* What subscription s is owed when the database changes from old to new,
\* from the whole database and whatever part of it the write has loaded.
Owed(s, old, new) ==
    LET places == {p \in DOMAIN old \union DOMAIN new :
                     /\ Len(p) = Len(s.path) + (IF s.type \in MutationEvents \union {"value"} THEN 0 ELSE 1)
                     /\ OnTrail(s.path, p)}
        event(p) == Event(s, p, At(old, p), At(new, p))
    IN IF s.type \in MutationEvents
       THEN UNION {{event(p \o q) : q \in Differences(At(old, p), At(new, p))} : p \in places}
       ELSE {event(p) : p \in {q \in places : Triggers(s.type, At(old, q), At(new, q))}}

\* The events of a write are the changes it made that its subscribers are
\* owed, each with the values of the database before and after, although the
\* write loads a part of the data only, which the other subscriptions and the
\* indexes determine.  This is so of all that is not inside a string: the code
\* takes the characters of a string for its children, and fires for them too.
IsCharacter(p, old, new) == InString(old, p) \/ InString(new, p)
EventsAreChanges ==
    [][\A w \in write : write' = {} =>
         LET owed == UNION {Owed(s, db, db') : s \in w.subs} IN
         {e \in queue' : ~IsCharacter(e.path, db, db')} = {e \in owed : ~IsCharacter(e.path, db, db')}]_vars

\* An index has an entry of every record with an indexed value, with that
\* value and the values that it includes of other keys.
IndexFollows ==
    \A i \in Indexes :
        idx[i] = {[record |-> p, key |-> At(db, p \o i.key), meta |-> [k \in i.include |-> At(db, p \o k)]] :
                    p \in {q \in DOMAIN db : Len(q) = Len(i.path) + 1 /\ OnTrail(i.path, q)
                                             /\ IsLeaf(At(db, q \o i.key))}}

\* The copy a client keeps is the data, once the events that are under way
\* have fired, whenever it subscribed and loaded.
CopyFollows ==
    queue = {} => \A c \in copy : c = At(db, Mirror.path)
==============================================================================
