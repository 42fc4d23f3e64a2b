----------------------------- MODULE DataIndex -----------------------------
(***************************************************************************)
(* One index on a property of the records of a collection: its build by    *)
(* way of a build file, batches and a merge file, the updates that writes  *)
(* of records send it, its lock, its query cache, its rebuild when it      *)
(* cannot be updated in place, and restarts of the process.                *)
(***************************************************************************)
EXTENDS Integers, FiniteSets, SequencesExt

CONSTANTS
    Records,     \* the records of the collection
    Values,      \* values of the indexed property, positive
    Starts,      \* what the collection may have in the beginning
    NoFile,      \* in place of a file or a result that is not there
    MaxBatch,    \* values in memory while the build file is sorted
    Asked,       \* the keys that queries look up
    MaxEvents    \* bound on writes, queries, failures and crashes together

\* The key of a record without the property, which only a build adds.
Missing == 0
Keys == Values \union {Missing}

ASSUME IndexAssumption ==
    /\ Values \subseteq Nat \ {0}
    /\ Starts \subseteq [Records -> Keys]
    /\ MaxBatch \in Nat \ {0, 1}
    /\ Asked \subseteq Keys
    /\ MaxEvents \in Nat

VARIABLES
    data,    \* record -> value of its property
    index,   \* the index file: key -> sequence of records, or NoFile
    files,   \* [build, merge]: the files of a build, or NoFile
    state,   \* "none", "build", "ready", "rebuild", "error"
    queue,   \* updates that came during a build: [record, ops]
    waiting, \* jobs that wait for the lock of the index
    active,  \* the job that has it, or NoJob
    todo,    \* records that the build has not read yet
    cache,   \* key -> [found, raced] of a query, or NoFile
    events,  \* writes, queries, failures and crashes until now
    excuses  \* what the index cannot be blamed for; see Agrees

vars == <<data, index, files, state, queue, waiting, active, todo, cache, events, excuses>>

NoJob == [kind |-> "none"]
NoCache == [k \in Keys |-> NoFile]
NoOne == 0
NoKey == -1
Empty == [k \in Keys |-> <<>>]

----------------------------------------------------------------------------
\* The tree.  Of a key with one value a removal removes the entry, whichever
\* record the value is of; a key or a value that is not there is no error.
Added(tree, key, r) == [tree EXCEPT ![key] = Append(@, r)]
RemovedAll(tree, key, r) == [tree EXCEPT ![key] = <<>>]
Removed(tree, key, r) ==
    [tree EXCEPT ![key] = IF Len(@) = 1 THEN <<>> ELSE IF Contains(@, r) THEN RemoveFirst(@, r) ELSE @]
Transaction(tree, ops) ==
    FoldLeft(LAMBDA t, op : IF op.type = "add" THEN Added(t, op.key, op.record) ELSE Removed(t, op.key, op.record),
             tree, ops)

\* handleRecordUpdate and _updateTree: null is not removed and not added.
Operations(r, old, new) ==
    (IF old = Missing THEN <<>> ELSE <<[type |-> "remove", key |-> old, record |-> r]>>)
    \o (IF new = Missing THEN <<>> ELSE <<[type |-> "add", key |-> new, record |-> r]>>)

----------------------------------------------------------------------------
\* The batches of a build file, of [key, record]: the values of keys that are
\* in memory, until a new key comes when there are too many.
Batches(file) ==
    LET next(b, e) ==
          LET last == b[Len(b)]
              known == \E i \in DOMAIN last : last[i].key = e.key
          IN IF known \/ Len(last) + 1 < MaxBatch THEN [b EXCEPT ![Len(b)] = Append(@, e)]
             ELSE Append(b, <<e>>)
    IN FoldLeft(next, <<<<>>>>, file)
\* The entry of each batch when the merge begins, the first of its keys: one
\* that another batch has loaded is added to that, and the next is loaded.
FirstKeys(batches) ==
    LET load(keys, batch) ==
          LET fresh == {e.key : e \in Range(batch)} \ keys
          IN keys \union {IF fresh = {} THEN NoKey ELSE Min(fresh)}
    IN FoldLeft(load, {}, batches)
\* A batch that has nothing more then fails an assertion, and the build.
MergeFails(file) == NoKey \in FirstKeys(Batches(file))

\* The merge: an entry for each key, its values by batch.
Merged(file) ==
    LET of(k) == SelectSeq(file, LAMBDA e : e.key = k)
    IN {[key |-> k, values |-> [i \in DOMAIN of(k) |-> of(k)[i].record]] : k \in {e.key : e \in Range(file)}}
\* createFromEntryStream
TreeFrom(entries) ==
    [k \in Keys |-> IF \E e \in entries : e.key = k THEN (CHOOSE e \in entries : e.key = k).values ELSE <<>>]

----------------------------------------------------------------------------
Jobs == Range(waiting) \union {active}
Updates == {j \in Jobs : j.kind = "update"}
\* A write has the lock of its record until its updates of the index are done,
\* and those of the queue that it has found.
Busy(r) == \E j \in Updates : j.owner = r
\* The index is not up to date with the record.
Pending(r) == (\E j \in Updates : j.record = r) \/ (\E i \in DOMAIN queue : queue[i].record = r)

Job(q, owner) == [kind |-> "update", record |-> q.record, ops |-> q.ops, owner |-> owner, retry |-> 0, step |-> "start"]
\* _processUpdateQueue: all updates of the queue ask for the lock.
ProcessQueue(jobs, owner) ==
    /\ waiting' = jobs \o [i \in DOMAIN queue |-> Job(queue[i], owner)]
    /\ queue' = <<>>
    /\ cache' = IF queue = <<>> THEN cache ELSE NoCache

Init ==
    /\ data \in Starts
    /\ index = NoFile /\ files = [build |-> NoFile, merge |-> NoFile]
    /\ state = "none" /\ queue = <<>> /\ waiting = <<>> /\ active = NoJob /\ todo = {}
    /\ cache = NoCache
    /\ events = 0
    /\ excuses = {}

\* The lock goes to the first that waits for it.
Grant ==
    /\ active = NoJob /\ waiting # <<>> /\ Head(waiting).kind # "build"
    /\ active' = Head(waiting) /\ waiting' = Tail(waiting)
    /\ UNCHANGED <<data, index, files, state, queue, todo, cache, events, excuses>>

----------------------------------------------------------------------------
\* createIndex and the build.
CreateIndex ==
    /\ state = "none"
    /\ state' = "build" /\ waiting' = Append(waiting, [kind |-> "build", step |-> "scan"])
    /\ UNCHANGED <<data, index, files, queue, active, todo, cache, events, excuses>>

\* A build file that is there already is not written, and then taken for one
\* without values.
StartBuild ==
    /\ active = NoJob /\ waiting # <<>> /\ Head(waiting).kind = "build"
    /\ waiting' = Tail(waiting)
    /\ \/ /\ files.build = NoFile
          /\ active' = [kind |-> "build", step |-> "scan"]
          /\ files' = [files EXCEPT !.build = <<>>] /\ todo' = Records /\ UNCHANGED index
       \/ /\ files.build # NoFile
          /\ active' = [kind |-> "build", step |-> "empty"]
          /\ files' = [files EXCEPT !.build = NoFile] /\ index' = Empty /\ UNCHANGED todo
    /\ UNCHANGED <<data, state, queue, cache, events, excuses>>

\* A record is read with a lock on it.
Scan(r) ==
    /\ active.kind = "build" /\ active.step = "scan" /\ r \in todo /\ ~ Busy(r)
    /\ files' = [files EXCEPT !.build = Append(@, [key |-> data[r], record |-> r])]
    /\ todo' = todo \ {r}
    /\ UNCHANGED <<data, index, state, queue, waiting, active, cache, events, excuses>>

\* The build file is sorted into a merge file, unless there is one.
Sort ==
    /\ active.kind = "build" /\ active.step = "scan" /\ todo = {}
    /\ files.merge # NoFile \/ ~ MergeFails(files.build)
    /\ files' = IF files.merge # NoFile THEN files ELSE [build |-> NoFile, merge |-> Merged(files.build)]
    /\ active' = [active EXCEPT !.step = "load"]
    /\ UNCHANGED <<data, index, state, queue, waiting, todo, cache, events, excuses>>
\* An index that cannot be built is forgotten, its files stay.
BuildFails ==
    /\ active.kind = "build" /\ active.step = "scan" /\ todo = {}
    /\ files.merge = NoFile /\ MergeFails(files.build)
    /\ state' = "none" /\ active' = NoJob /\ waiting' = <<>> /\ queue' = <<>> /\ cache' = NoCache
    /\ excuses' = excuses \union {"files"}
    /\ UNCHANGED <<data, index, files, todo, events>>

Load ==
    /\ active.kind = "build" /\ active.step = "load"
    /\ index' = TreeFrom(files.merge)
    /\ active' = [active EXCEPT !.step = "done"]
    /\ UNCHANGED <<data, files, state, queue, waiting, todo, cache, events, excuses>>
FinishBuild ==
    /\ active.kind = "build" /\ active.step \in {"done", "empty"}
    /\ files' = IF active.step = "done" THEN [files EXCEPT !.merge = NoFile] ELSE files
    /\ state' = "ready" /\ active' = NoJob
    /\ ProcessQueue(waiting, NoOne)
    /\ UNCHANGED <<data, index, todo, events, excuses>>

----------------------------------------------------------------------------
\* Writes of records.

\* The build reads a record after the write, and its queue has the update too.
Early(r) == state = "build" /\ (active.kind # "build" \/ r \in todo)
\* An update goes past one of the same record that is in the queue.
Overtakes(r) == state = "ready" /\ \E i \in DOMAIN queue : queue[i].record = r

Kept == cache
Cleared == NoCache
Write(r, v) ==
    LET update == [record |-> r, ops |-> Operations(r, data[r], v)]
    IN /\ events < MaxEvents /\ v # data[r] /\ ~ Busy(r)
       /\ data' = [data EXCEPT ![r] = v]
       /\ events' = events + 1
       /\ \/ state = "none" /\ UNCHANGED <<queue, waiting, cache, excuses>>
          \/ state = "error" /\ excuses' = excuses \union {"error"} /\ UNCHANGED <<queue, waiting, cache>>
          \/ /\ state = "ready"
             /\ cache' = Cleared
             /\ waiting' = Append(waiting, Job(update, r))
             /\ excuses' = IF Overtakes(r) THEN excuses \union {"overtaken"} ELSE excuses
             /\ UNCHANGED queue
          \/ /\ state \in {"build", "rebuild"}
             /\ queue' = Append(queue, update)
             /\ excuses' = IF Early(r) THEN excuses \union {"early"} ELSE excuses
             /\ UNCHANGED <<waiting, cache>>
       /\ UNCHANGED <<index, files, state, active, todo>>

\* The operations of an update are done, and then those of the queue.
Update ==
    /\ active.kind = "update" /\ active.step = "start"
    /\ index' = Transaction(index, active.ops)
    /\ active' = NoJob
    /\ ProcessQueue(waiting, active.owner)
    /\ UNCHANGED <<data, files, state, todo, events, excuses>>

\* After the first n operations the tree has no room: it is rebuilt.  If it was
\* and nothing could be done the update fails, and does not release the lock.
UpdateFails(n) ==
    /\ active.kind = "update" /\ active.step = "start" /\ n < Len(active.ops)
    /\ events < MaxEvents
    /\ events' = events + 1
    /\ index' = Transaction(index, SubSeq(active.ops, 1, n))
    /\ \/ /\ active.retry > 0 /\ n = 0
          /\ active' = [kind |-> "stuck"]
          /\ excuses' = excuses \union {"error"} /\ UNCHANGED state
       \/ /\ active.retry = 0 \/ n > 0
          /\ active' = [active EXCEPT !.step = "rebuild", !.ops = SubSeq(@, n + 1, Len(@))]
          /\ state' = "rebuild" /\ UNCHANGED excuses
    /\ UNCHANGED <<data, files, queue, waiting, todo, cache>>

\* The rebuilt tree has the same entries.  The operations that are left wait for
\* the lock again, after later ones of the same record that wait already.
LeftOver(job) == [Job(job, job.owner) EXCEPT !.retry = job.retry + 1]
Rebuilt ==
    /\ active.kind = "update" /\ active.step = "rebuild"
    /\ state' = "ready" /\ active' = NoJob
    /\ waiting' = Append(waiting, LeftOver(active))
    /\ excuses' = excuses \union (IF \E j \in Range(waiting) : j.kind = "update" /\ j.record = active.record
                                  THEN {"overtaken"} ELSE {})
    /\ UNCHANGED <<data, index, files, queue, todo, cache, events>>
RebuildFails ==
    /\ active.kind = "update" /\ active.step = "rebuild"
    /\ events < MaxEvents
    /\ events' = events + 1
    /\ state' = "error" /\ active' = NoJob
    /\ excuses' = excuses \union {"error"}
    /\ UNCHANGED <<data, index, files, queue, waiting, todo, cache>>

LockNeverTimesOut == FALSE /\ UNCHANGED vars
\* The lock was not released in time: all that wait for it are refused.
LockTimeout ==
    /\ active.kind = "stuck"
    /\ active' = NoJob /\ waiting' = <<>>
    /\ UNCHANGED <<data, index, files, state, queue, todo, cache, events, excuses>>

----------------------------------------------------------------------------
\* Queries: from the cache, or from the tree into the cache.
Opens == state \in {"ready", "build", "rebuild"}
Ask(key) ==
    /\ events < MaxEvents /\ Opens /\ cache[key] = NoFile
    /\ events' = events + 1
    /\ waiting' = Append(waiting, [kind |-> "read", key |-> key])
    /\ UNCHANGED <<data, index, files, state, queue, active, todo, cache, excuses>>
Read ==
    /\ active.kind = "read"
    /\ cache' = [cache EXCEPT ![active.key] =
                    [found |-> Range(index[active.key]), raced |-> \E j \in Range(waiting) : j.kind = "update"]]
    /\ active' = NoJob
    /\ UNCHANGED <<data, index, files, state, queue, waiting, todo, events, excuses>>
Expire(key) ==
    /\ cache[key] # NoFile
    /\ cache' = [cache EXCEPT ![key] = NoFile]
    /\ UNCHANGED <<data, index, files, state, queue, waiting, active, todo, events, excuses>>

\* What a start of the process takes an index for: its file is ready.
OnDisk == IF index = NoFile THEN "none" ELSE "ready"
\* The process ends and starts again: what is on disk is what it has.  Of the
\* values for the build file, and of the operations on the tree, some are there.
Crash ==
    /\ events < MaxEvents
    /\ events' = events + 1
    /\ \/ /\ active.kind = "update" /\ UNCHANGED files
          /\ \E n \in 0..Len(active.ops) : index' = Transaction(index, SubSeq(active.ops, 1, n))
       \/ /\ active.kind = "build" /\ active.step = "scan" /\ UNCHANGED index
          /\ \E n \in 0..Len(files.build) : files' = [files EXCEPT !.build = SubSeq(@, 1, n)]
       \/ /\ active.kind = "build" => active.step # "scan"
          /\ UNCHANGED <<index, files>>
    /\ state' = OnDisk
    /\ excuses' = excuses \union (IF Updates # {} \/ queue # <<>> THEN {"crash"} ELSE {})
                          \union (IF active.kind = "build" THEN {"files"} ELSE {})
    /\ queue' = <<>> /\ waiting' = <<>> /\ active' = NoJob /\ todo' = {} /\ cache' = NoCache
    /\ UNCHANGED data

Build == StartBuild \/ (\E r \in Records : Scan(r)) \/ Sort \/ BuildFails \/ Load \/ FinishBuild
\* The steps that release the lock, or let the next have it.
Turn == Grant \/ Update \/ Rebuilt \/ LockTimeout \/ Read
Next ==
    \/ CreateIndex \/ Build \/ Turn \/ RebuildFails \/ Crash
    \/ \E r \in Records, v \in Keys : Write(r, v)
    \/ \E n \in 0..1 : UpdateFails(n)
    \/ \E k \in Asked : Ask(k) \/ Expire(k)

Spec == Init /\ [][Next]_vars
\* What has begun goes on; nothing else is promised.
FairSpec == Spec /\ WF_vars(Turn)

----------------------------------------------------------------------------
\* Entries of a record under a key.
Times(r, k) == Cardinality({i \in DOMAIN index[k] : index[k][i] = r})
UpToDate == state \in {"ready", "rebuild"} =>
    \A r \in Records, v \in Values : ~ Pending(r) => Times(r, v) = IF data[r] = v THEN 1 ELSE 0

\* A record has exactly one entry, under its value, once its updates are done:
\* after writes that overlap each other, a build, a rebuild and a restart.  The
\* excuses are the orders of steps in which the code gets it wrong.
Agrees == excuses = {} => UpToDate

\* A cached result is what the tree has, also when updates came since, unless
\* updates waited for the lock when it was read.
CacheFollows == \A k \in Keys :
    cache[k] # NoFile => cache[k].raced \/ cache[k].found = Range(index[k])

\* A write does not keep its record locked: the updates of the index that it
\* waits for are done or refused, also when an update before them has failed
\* and kept the lock.
Settles == \A r \in Records : Busy(r) ~> ~ Busy(r)
=============================================================================
