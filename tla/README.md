# AceBase in TLA+

AceBase is a realtime NoSQL database for node.js and the browser. This directory
holds TLA+ models of its core, TLC configurations that check them on small
instances, and proofs, checked by TLAPS, that hold for every instance. Paths below
are relative to `src/src/` of the repository.

## 1. The system

An API (`api-local.ts`) runs requests on a storage engine (`storage/index.ts` and a
subclass per kind of storage). Every read and write of the engine first takes a lock
from a `NodeLocker` (`node-lock.ts`). In a node cluster, or between browser tabs, the
locker that counts is the one of the master process, and the others reach it through
messages (`ipc/`). The binary engine keeps nodes as records in a file whose free space
is a table of ranges; the record of a node with more than a hundred children holds a
B+tree of them (`storage/binary/`, `btree/`). The other engines keep a record per node
by its path (`storage/custom/`, `storage/sqlite/`, `storage/mssql/`). A write passes
the subscriptions on the paths it touches, which turn into events, and the indexes
(`data-index/`), which are B+trees in files of their own.

| Component | State it keeps | Operations | What makes it correct | Module |
| --- | --- | --- | --- | --- |
| Node locking (`node-lock.ts`) | the queue of locks, their timers, quit | lock, unlock, moveToParent, timeoutHandler, quit | readers or one writer; no lost wakeup; order of the queue; quit is final and resolves | `NodeLock`, `RWLock` |
| IPC, locks (`ipc/ipc.ts`, `ipc/index.ts`) | lists of locks and peers, pending requests | lock, release, move by message; hello, bye, exit, death | what peers believe to hold is compatible; each request answered once; nothing orphaned | `IPCLocks` |
| IPC, the rest (`ipc/`) | subscriptions of other peers, master of the tabs, websocket | subscribe, event, notification, request, election, reconnect | events reach who subscribed, a new master takes over all locks | not modelled |
| Value tracking (`storage/index.ts`) | subscriptions, list of indexes | subscribe, write, trigger, transact | events are the changes made; indexes and copies follow the data | `Trees`, `ValueTracking`, `TrackedStore` |
| Free space and record writes (`storage/binary/`) | FST ranges and pages, table and addresses on file | allocate, release, write and load the table, write a record | one owner per record, whenever it stops and restarts | `FreeSpaceTable`, `RecordWrite` |
| Key trees (`storage/binary/`, `btree/`) | blocks of the tree, its freed blocks, list of operations | merge: find, apply, split, move, remove, grow, rebuild | all children found, each operation done once, no block used twice | `KeyTree` |
| Record-per-node engines (`storage/custom/`, `storage/sqlite/`) | records by path, values inline in them | set, update, transact, read | one tree, whatever is stored where | `TreeStore`, `RecordStore` |
| Transaction log (`storage/binary/`) | log items, cursors, the copy of a client | log a write, getMutations, getChanges, purge | what a cursor is given brings the copy up to date; events are reported to who asked | `TransactionLog` |
| Data indexes (`data-index/`, `storage/create-index.ts`) | tree file, build and merge file, cache, update queue, lock, state | build, update, rebuild, query, start | each record once, under its value; the cache follows the tree; no write waits for ever | `DataIndex` |
| Queries (`query.ts`, `matchNode`, lookups) | plan, results so far, children to match | plan, look up, intersect, match, load, sort, skip, take | sound, complete and the right window, beside writes and late index updates | `Query` |
| Thread safety, batches (`thread-safe.ts`, `async-task-batch.ts`) | locks by target, running tasks | lock, release, wait; add, start, finish | exclusion; every task ends | the lock of an index in `DataIndex`; the rest not modelled |
| Node cache (`node-cache.ts`) | entries with expiry | update, find, invalidate | no entry older than the data | not modelled |
| Node transactions, beta (`node-transaction.ts`) | granted locks, queue | requestLock, releaseLock | conflicting locks are never granted together | not modelled |
| Special indexes, quicksort, geohash | none | pure functions | agree with a scan of the data | not modelled |
| API, entry points, file promises, encodings | settings | delegation, I/O | - | not modelled |

What is hard here is that JavaScript hides its concurrency: code runs to the next
`await`, and at each `await` other transactions, timers, messages and event callbacks
come in. Locks expire while their holder goes on; state is read before an `await` and
used after it; files are written by calls that nobody awaits; and several engines
cannot undo the first half of a write whose second half fails. `PROJECT.json` lists
these hazards at the lines where they bite, with the properties that watch them.

## 2. The modules

`MC*` modules only give the constants of a component small values. Every definition that
models code is mapped to its lines in `PROJECT.json`. Definitions whose comment says
*mutant* are not part of a specification: each is a plausible bug, there to show that a
property notices it.

### RWLock, NodeLock, NodeLock_proofs

`RWLock` is the abstract promise: a set of holds, of which no two of different
transactions clash. `NodeLock` is `NodeLocker`: `state` is the state of each lock
object (`"done"`: not in `_locks`), `ahead` the part of the order of `_locks` that is
used, `timeoutCount` the warnings of a granted lock, `quit` what `_quit` does. The
actions `Lock`, `Release`, `MoveToParent`, `Timeout` and `Quit` are the methods and the
timer, and each includes the visit of the queue that its code ends in
(`ProcessLockQueue`); `MoveToParent` unlocks without visiting it, as the code does.
Paths play no part in granting (`_allowLock` ignores them on purpose). `Quit` of an empty
locker resolves at once and sets nothing (line 71): what is locked after it is granted.

### IPCLocks, IPCLocks_proofs

Extends `NodeLock` with the peers of a cluster. `phase` is what a peer is doing with a
request, `info` the `granted` flags in `_locks` of the master, `net` the messages under
way, `peers` and `exiting` who is there. `Master...` actions are the calls of
transactions of the master, `Worker...` those of workers and what they do with results,
`Handle...` the message handlers of the master, `TimerFires` the timers of the locker
with the results that the locks it frees lead to, `Exit`, `Crash` and `ClusterExit` how
a peer goes. What happens in one turn of the event loop is one action. Messages are a
set, so they may arrive in more orders than a cluster delivers them in. A transaction has
any number of requests of a kind, told apart by the `id` of the lock: a nested
`_updateNode` asks for a write lock while its caller holds one (`MoveLock`: the lock that
takes the place of one that moves keeps its `id`). A move fails when the other lock has
expired; the worker then removes the lock, and the `finally` of its writer releases it all
the same (`WorkerGetsNoMove`, phase "stale"). `NodeLocker.unlock` throws, the master
answers with `ok = FALSE` (`MasterRelease`), and the release is rejected
(`WorkerGetsNotUnlocked`). Nobody awaits that release, so the rejection is an unhandled
one, which by default ends a node.js process: a `Crash`. `IPCLocks_proofs` proves all the
safety properties (section 4).

### Trees, ValueTracking, TrackedStore, TrackedStore_proofs

A value is a function from relative paths to `"obj"` or a leaf. `ValueTracking` has the
operators of `_writeNodeWithTracking`: which subscriptions and indexes a write concerns,
the part of the old data it loads for them, the events and index updates it makes of
it. `TrackedStore` has the state and interleaves: `Begin` takes the lock and computes
the impact, `End` writes, updates the indexes and defers the events, `Fire` delivers
them later, `Subscribe`, `Unsubscribe` and `Load` come between. One client keeps a copy
of a node by its "mutated" events.

Left out: subscriptions of type "mutated" and "mutations" with a wildcard below the
written collection, which get no events at all (line 1122 looks the wildcard up as a key);
indexes on a nested key, which `indexes.getAll` does not find (line 249). Subscriptions
other than the client's own change only between writes, which loses nothing: nobody looks
at them in between. A removal is of a property of a node that is there.
`TrackedAssumption` says what clients ask for (`IsRequest`): a value for a node, or values
for one or more of its properties; the root stays an object. The client library warns of
empty updates and sends none. The path of the client's own subscription has no wildcard.

The code takes the characters of a string for its children: `Object.keys` lists them and
`getChildValues` returns them (lines 1062-1068). `Letters` says which leaves are strings and
what their characters are, and `Child` and `Characters` are these two functions. So the
events of the model include those the code fires for characters, which no change calls for:
replacing nothing by the string "v" at `c` fires `child_added` for `c/0` (section 5).
`EventsAreChanges` compares the events that are not
inside a string (`IsCharacter`). The paths of the client's own subscription and the keys of
indexes name no character. `TrackedStore_proofs` proves the three properties (section 4).

### FreeSpaceTable, RecordWrite, RecordWrite_proofs

`FreeSpaceTable` is the `FST` of the binary engine: `ranges` and `pages` in memory,
`file` the table on file, `writes` the writes of the table that have not ended.
`Allocations` is `allocate` (exact range, smaller range, new pages, scraps), `Released`
is `release` with its merging of neighbours, `Image` is what a table that is too large
is cut to. `RecordWrite` adds the write of a node: `Allocate`, `TableWritten`, `Trim`,
`Link` (or `StoreFails`), `Free`; `Unlink` is removal and `Restart` a stop at any moment,
after which only what is on file is left. `GrowFails` is the `ftruncate` of line 605 that
makes `allocate` reject.

Writes of the table are not ordered by the code: `release` starts one that nobody awaits
(line 542), `allocate` awaits its own only. Here the writes end in any order (`Lands`), and
each may fail (`LandsNot`), which line 598 logs and swallows, so that whoever waits goes on
as if the table was saved. Two things about the past are written down to state properties
with, and no step of the program looks at them: a write is `late` once one that was started
after it has ended, and the file is `behind` when a write that started later than its own
failed or was written over. A start with a table that is not `Sound` (it has records free
that nodes use, lacks their pages, or has ranges that are none) is where the database is
lost: `damaged`. What the program does from there is not followed, and the properties are
about runs up to there. `CrashSafe` is what can be said about getting there: the file is
unsound only while it is `behind`. The next write of the table that succeeds repairs it.
Starts and ends of ranges are stored modulo `Width`: with pages of 65536 records, which the
constructor allows, the end of a last range is read back as 0 (section 5).

Assumed (`TableAssumption`): a database that is opened has a table as releases and
allocations leave it (`WellKept`), at least one scrap is allowed in an allocation (the
code allows 3 or 10), and a page has at most as many records as `Width`. A write of the
table reaches the file whole or not at all. Which of two equally good ranges is taken is
left open, so the order of the array is abstracted to a set. Not modelled: the `isLocked`
branches and records that are rewritten in place.

### KeyTree

The B+tree of a record's children and the merge of an update into it. `tree` is a
sequence of blocks of one size (nodes and leafs; block 1 is the root), with
`entriesPerNode`, the number of blocks there is room for, and the blocks that were
freed. `Merge` looks up the children and makes operations of the changes; `Take`,
`Apply`, `Save` and `SaveSplitsParent` are the loop of `_process`, with the leaf in memory
(`leaf`), the operation that was shifted off the list (`taken`) and those done in that
leaf (`batch`); `Fail` is its `catch`; `Grow`, `Rebuild` and `Start` are
`processOperations`. Splitting, moving, removing and building are operators
(`SplitLeaf`, `SplitNode`, `RebuildLeaf`, `RemoveLeaf`, `Created`, `Rebuilt`).

Abstractions: bytes are not computed; instead the writes of one kind may fail during an
update, as often as they like, which covers a leaf, node or pointer that outgrows its
block at any moment. A leaf that moves fits in its larger block (if not, the rollback
at line 2144 throws and the tree stays broken; section 5). The keys are those
of an object, in their order: for arrays `findAll` compares keys as strings (section 5).
`entriesPerNode` grows by at least one at each rebuild, as in trees of real size.
Trees with several values per key, `autoGrow` and ext_data belong to indexes and are
left out. `Wasteful`, more than half of the tree freed in one update, does not occur in
trees of the size that is checked.

### TreeStore, RecordStore, Trees_proofs, RecordStore_proofs

`TreeStore` is the abstract promise of a storage engine: requests take effect on one
tree, at once and as a whole; one that fails may leave anything at the keys it was
writing and nothing else. Those keys stay `torn`: what a failed write left there may show
again later, and a later write to a place below one may count as failed there. `read` is
what reads of `Paths` give: what the tree has, or, of a node above torn keys, an error.

`RecordStore` is the custom engine: `nodes` has a record per path with inline
values, `Begin` computes what `setNode`, `updateNode` or the set of a transaction will
store and remove, `Step` makes one change, `Commit` ends the write, `Fail` breaks it off
with LocalStorage's `rollback`, which does nothing. `base` is what readers see until the
lock is released; `torn`, a history variable, has the keys of failed writes. `Held` is
what `getNode` puts together from the records of a node, `ReadNode` what it answers: it
throws where the records that a failed write left cannot be merged (`ReadFails`: a value
inline and in records at once, `custom/index.ts:1123` and 1150, or records below a value
that is no object, 1123 and 1165). Whether it does can depend on the order in which
LocalStorage lists its keys, which no standard fixes; the model takes a read that fails in
one order to fail. Such a read fails until something in its way is written again, and it
may be one of the root; the properties say that no node is affected but those above what
a write failed on. The set or update of a node reads records one by one, not with
`getNode`: it does so only for subscriptions, indexes and schemas, which `TrackedStore` has
and these modules leave out. A transaction has read its node before it begins.

Abstractions: identical children are written again instead of skipped; the removal of a
subtree is one step (LocalStorage does it in one turn); arrays, value types, filters
and revisions are left out. Values are trees over string keys, with all that is above
something an object, which is what a JavaScript value is; an update and a value for the
root are objects, as the code insists on.

A null inside an object that replaces another does not do what README.md:294 says ("Any
property that has a null value will be removed from the parent object node"): its key is
one of those of the new value, so its record is not removed (`custom/index.ts:677`), and
`set("a/b", { x: null, y: 1 })` leaves a large `x`. `Removed` models this as it is, and the
invariants are proved with such requests too; `ImplementsTree` is false with them, so the
requests of the run have nulls only where an update or a set removes a node, and its theorem
has that as a hypothesis (`NullsAtTop`).

`Trees_proofs` has what the proofs need to know of paths (prefixes, concatenation, the
first, last and next key) and of trees, `RecordStore_proofs` the invariants and the
refinement (section 4).

### TransactionLog

Extends `ValueTracking`. A call of `setNode` or `updateNode` gets its cursor (`Call`),
takes effect when it has its lock (`Apply`, with the write of `ValueTracking`) and is
stored in the log after it has released it (`Store`); `clock` is the time, of which
writes of one moment may share a unit. A `client` is external code that does what
README.md says a client with a cursor can do: it loads the paths it asks for (`Load`),
writes and keeps the cursor of its write (`Own`), and asks for the changes since (`Sync`,
which also drops what is older than `maxAge`). `GetMutations` and `GetChanges` are the
two methods step by step: the filter paths, what of an item is on one (`EntriesOf`,
`OnTarget`), relevance to the events (`Relevant`), and the merge of mutations into one
update per parent (`Supersede`, `MergeIntoParent`).

Exempt, because the code does not deliver it: a client that loads while a write that has
its cursor already is still waiting (`whole`), as that write is logged under a time
before the cursor of the client; and what `getMutations` does not look for (`Veiled`):
changes below a filter path made by a write above it, a second filter path below one
write, and a child that came to be because something deeper was written. Not modelled:
wildcards in the filter, entries that fail to be stored.

### DataIndex, DataIndex_proofs

One index on one property of the records of a collection. `index` is the tree in its
file (key to sequence of records), `files` the build and the merge file, `state` what
the class calls so, `queue` the updates that came during a build, `waiting` and `active`
the jobs at the lock of the index, `cache` the query cache. `CreateIndex`, `StartBuild`,
`Scan`, `Sort`, `BuildFails`, `Load` and `FinishBuild` are the build; `Write` is the write of a
record with the update that it sends; `Update`, `UpdateFails`, `Rebuilt` and `RebuildFails`
are `_processTreeOperations`; `Ask`, `Read` and `Expire` are queries; `LockTimeout` is the
timer of the lock, and `Crash` a stop between any two steps and the start after it. The
operators `Added` and `Removed` are the B+tree with several values per key: removing from
a key with one value removes the entry, whichever record the value is of.
`Batches`, `FirstKeys` and `Merged` are the sort of the build file.

`Agrees` holds for behaviours without one of five orders of steps, which `excuses` notes
when they happen; with any one of them left out TLC finds a state in which the index
disagrees with the data:

- `early`: a write during a build, of a record that the build has still to read, is in
  the tree and in the queue: it is applied twice, or removes the entry of another record;
- `overtaken`: an update that is left after a rebuild waits for the lock again and is
  done after a later one of the same record; or a write goes past one in the queue;
- `error`: writes are not sent to an index in the error state, and one whose update
  failed for good is not repaired;
- `crash`: updates that were not done are not known to a restart;
- `files`: build and merge files of a build that stopped are used by the next one, and
  a build file that is there makes the index empty.

Not modelled: a crash inside the sort or the load, a wait for the lock that times out
(thread-safe.ts:124 then deletes a lock that is held), dropping an index, wildcard
paths. A query that reads the old tree just before an update that waits puts it in the
cache, although the cache was cleared for that update: such a result is `raced`, and
exempt from `CacheFollows` until it expires. `DataIndex_proofs` proves `CacheFollows`.

### Query, Query_proofs

One query beside writes. `plan` is which index each filter and sort has, and what for
(`Assigned`, `PlanOf`); then the index lookups (`Lookup`, or `IndexTake` for a sort that
an index does), their intersection (`Merge`), and either the results themselves, or
loading them to sort (`LoadResult`, `FinishLoad`), or the scan of the children that are
left (`Match`, `LoadValue`, `FinishScan`), and loading what was asked for (`Reload`). The
lookups, matches and loads finish in any order. `Write` changes a record, and each index
follows later (`lag`, `UpdateIndex`). `seen` has the values each record had during the
query. `Compare` is the comparison of an index search, `Test` that of `matchNode`.

A scan awaits its matches in batches of `BatchSize`, inside the stream of children, but
for the last batch, which it awaits afterwards. What fails in the stream, a match or the
listing (`ListingFails`, if `ReadErrors`), ends in the answer `[]` (the step `"empty"`,
`Empty`); a match that fails in the last batch rejects the query (the step `"failed"`), of
which nothing is claimed. The model matches the children in any order and lets either
happen whenever there is such a batch. Errors of lookups and loads, which reject the query
too, are left out.

A property that a record does not have is `Missing`. Where values were loaded it is null,
first in the order (`Ahead`, `Before`). Where they are from an index it is `undefined` if
the index has the key (`KnownKeys`), which the comparisons of `query.ts` and
`data-index.ts` take neither for null nor order consistently: then (`Undecided`) the order
of the results is whatever the sort makes of it, and the model allows all of them
(`Orders`, `KnownOrders`, `IndexOrders`).

Exempt, because the code does otherwise: `Lost` (a filter given to an index whose lookup
is then not made is not applied), `Emptied` (no result of an index is taken for no index),
`ByNull` (an index compares a missing value as null, a scan does not match it), `Unlisted`
(`!exists` finds in an index only records that were there when it was built),
`TossesWrong` (results beyond skip and take are dropped from the end also when the last
are to be taken, and with a skip and no take), `SortLost` and `Unsortable` (sorts by an
index that is not looked up, or that does not list all records), and `Disordered` (of
results that are sorted by what an index says, and of which one misses a sort key,
`WindowRight` claims the number and the members, not the places). `Complete` does not
speak of an answer that an error has emptied. What the code does in these two cases is
in section 5. `Filters` and `IsQuery` say what is asked for: no filter
compares with a missing value. `Query_proofs` proves `Sound`, `Complete` and `WindowRight`
(section 4). Not modelled: live queries (`query.ts` 612-761), text and array operators
(pure functions of one value), special indexes, wildcard paths, include and exclude. `in`
sorts its values as strings; the values of the model are single digits, for which that is
the same.

## 3. What the runs check

| Run | Shows | Bounds |
| --- | --- | --- |
| `nodelock` | `Exclusive`, `NoLostWakeup`, `QueueOrder`, `QuitIsFinal`, that `NodeLock` implements `RWLock`, and `QuitResolves`, `PendingSettles` | 2 transactions, 2 locks in the queue each (of 4 kinds: mode and priority), 3 warnings before a lock expires, as in the code |
| `ipc_locks` | `ExclusiveAcrossPeers`, `ResultsAwaited`, `NoOrphanLock`, `GoneIsClean` | a master and 2 workers with a transaction each, 3 requests that anybody is busy with, 2 peers that leave |
| `ipc_liveness` | `RequestsAnswered` | master and worker, a transaction each, one peer leaves |
| `record_write` | `OneOwner`, `CrashSafe`, `Merged`, `LostOnlyWhenFull` | 2 nodes, pages of 3 records, up to 4 pages, values of 2 to 5 records, a table of at most 3 ranges, 2 writes under way |
| `tracked_events` | `IndexFollows`, `CopyFollows`, `EventsAreChanges` | 9 subscriptions of which any 2 are there, 2 indexes, writes at 4 depths |
| `record_store` | `OneHome`, `ReadsAgree`, and that `RecordStore` implements `TreeStore` | nodes at 3 depths, 21 requests, 6 paths that are read, one write that fails |
| `key_tree` | `ChainKeepsAll`, `DescentFindsAll`, `TakesEffect`, `NoBlockTwice`, `AppliesOnce`, `Settles` | trees of 5, 7 and 10 leafs, nodes of 4 to 6 entries, 6 updates of which any 2 follow each other, failing writes in one of them |
| `key_tree_lost` (violation) | `NothingLost`: an operation is dropped without an error | as above |
| `transaction_log` | `CatchesUp`, `MutationsCatchUp`, `ReportsEvents` | 9 requests at 3 depths, 3 writes of which 2 are under way at a time, 7 filters of one or two paths, entries that live 2 units of time |
| `query` | `Sound`, `Complete`, `WindowRight` | 20 queries with up to 3 filters, 2 sort keys, skip and take; 5 databases of 3 records, 5 sets of indexes, batches of 2, one write during the query, listings that fail |
| `query_and` (violation) | `LogicalAnd`: a filter whose index finds nothing is not applied | the same databases and indexes, one query, no writes |
| `data_index` | `Agrees`, `CacheFollows`, `Settles` | 3 records, 2 values, batches of one key, 4 of writes, queries, failures and crashes together |

Why the bounds are enough. *Locks:* two transactions with two locks each hold, wait and
pass each other in every combination of kinds; the safety properties are also proved for
any number of them. *Peers:* two workers compete for a lock that the master hands on, and
each may go while the other waits. A transaction has a read and a write lock there: the
move of one fails when the other has expired, and the release that follows is refused.
Nested locks of one mode need a second `id`, with which the run is out of reach; for those
the properties are proved only. *Free space:* a value takes one record, part of a page, or
more than a page in several ranges, and the table overflows its room. *Tracking:* any two of nine
subscriptions are enough to need different parts of the old data; the nine are on, above
and below what is written, with and without wildcards. *Records:* three depths are a node,
its parent whose record takes it in, and its children that move with it. *Key tree:* five
leafs fill the root of a tree, ten need two nodes; two updates make one work on what the
other left (an empty leaf, a rebuilt or grown tree). *Log:* three writes are one before,
one across and one after a load or a synchronisation; the requests are on, above and below
the filter paths. *Index:* three records with two values give a key with one value and a
key with two, in batches that share a key; four events are two writes that overlap with a
failure and a crash or a query, and each of the five excuses is reached within them.
*Queries:* every path of the plan (no index, one, two, an index with included keys that
takes over other filters, an index that sorts) meets results on both sides of skip and
take, and a write may fall between any two steps; with three children and batches of two
(1000 in the code) a match is in a full batch or in the last one, and there are scans of
one child without a full batch. Every run fires all actions that its question concerns.

The two violations are disagreements between the code and what its documentation or
comments say, quoted under `findings` in `PROJECT.json`.

### Fairness

`NodeLock` and `IPCLocks` assume weak fairness of timers and of message handling only:
node.js fires a timer that is set and delivers the messages of a process that lives.
Nothing is assumed of transactions: they may never release. `QuitResolves` states as its
premise that they do; `PendingSettles` and `RequestsAnswered` state that no new requests
come in, because `lock` lets new readers pass a waiting writer. `KeyTree` assumes that a
merge takes its next step, which is weak fairness of `Step`: the code between two
`await`s ends. It is written out as a formula with `pc = "idle"`, in place of `ENABLED`,
which is costly to evaluate on trees. Writes may fail for ever. `DataIndex` assumes weak
fairness of `Turn`: who has the lock goes on, the lock is handed to the next, and its
timer fires. A build is not in it, because no write waits for one: its update is queued.

## 4. What is proved

A table of the results; the argument for each component follows.

| Module | Theorem | States | For all |
| --- | --- | --- | --- |
| `NodeLock_proofs` | `TypeCorrect`, `MutualExclusion`, `WaitsForAReason` | `TypeOK`, `Exclusive`, `NoLostWakeup` are invariants | transactions, ids, numbers of warnings |
| | `GrantsInOrder`, `QuitFinal` | the action properties `QueueOrder`, `QuitIsFinal` | |
| | `Refinement` | `NodeLock` implements `RWLock` | |
| `IPCLocks_proofs` | `ClusterUsesLocker`, `ClusterIsRWLock` | a cluster implements `NodeLock`, and so `RWLock` | workers, transactions, messages under way, peers that leave |
| | `ClusterTypeCorrect`, `ClusterExclusive`, `ClusterResultsAwaited`, `ClusterHasNoOrphans`, `ClusterExitsClean` | `IPCTypeOK`, `ExclusiveAcrossPeers`, `ResultsAwaited`, `NoOrphanLock`, `GoneIsClean` are invariants | |
| `RecordWrite_proofs` | `RecordsHaveOneOwner`, `CrashesAreSafe`, `FreeSpaceIsMerged` | `OneOwner`, `CrashSafe`, `Merged` are invariants | nodes, lengths of values, sizes of pages, records and tables, writes under way, in any order and failing |
| | `RecordsAreRarelyLost` | the action property `LostOnlyWhenFull` | |
| `TrackedStore_proofs` | `CopiesFollow` | `CopyFollows` is an invariant | requests, subscriptions, indexes, the order of loads, writes and events |
| | `IndexesFollow` | `IndexFollows` is an invariant | the same, with indexes that satisfy `PlainIndexes` |
| | `EveryEventIsOwed` | the action property `EventsAreChanges` | the same, with subscriptions that satisfy `MutationsExact`; events that are not about characters |
| `RecordStore_proofs` | `NodesHaveOneHome`, `NodesReadTheSame` | `OneHome`, `ReadsAgree` are invariants | requests (paths, values, operations), paths that are read, numbers of failures, orders of changes |
| | `RecordsImplementTree` | `ImplementsTree`: `RecordStore` implements `TreeStore` | the same, with requests that satisfy `NullsAtTop` |
| `Query_proofs` | `AnswersAreSound`, `AnswersAreComplete`, `WindowsAreRight` | `Sound`, `Complete`, `WindowRight` are invariants | records, indexes, queries, writes, the order of lookups, matches and loads, with `OrderedBounds` |
| `DataIndex_proofs` | `CacheIsTrue` | `CacheFollows` is an invariant | records, values, keys asked for, numbers of events |

None of these invariants is inductive by itself. TLC agreed with each inductive one on
the instance of its run before it was proved, but for those of `TrackedStore_proofs`, which
speaks of all paths, and the first of `Query_proofs`: there TLC checked the properties
themselves (`CalmInv` it did check).

**NodeLock_proofs** (assumption: the two bounds are natural numbers). The inductive
`IInv` joins `TypeOK`, `Exclusive` and `NoLostWakeup` with `QueueOrdered` (of any two pending
locks one is ahead of the other, without which a visit of the queue is not determined) and
`ResolvedEmpty` (no lock is left when quit has resolved). The heart of the proof is
`ProcessLockQueueKeepsIInv`: after a release or an expiry (the state function `s`)
pending locks may have nothing left to wait for, and one visit of the queue restores
`NoLostWakeup`, because a lock is refused only for one that was granted before or in the
same visit. `PushKeepsIInv` does the same for a new lock; the actions follow, one lemma
each. `Refinement` rests on the observation that a step ends at most one hold
(`StepOfRWLock`).

**IPCLocks_proofs** (assumptions: those of `NodeLock`, and `PeersAssumption`). That the
cluster implements `NodeLock` takes no invariant: each action of a peer or of a message
handler is, of the variables of the locker, one of its actions or none (`StepOfLocker`).
All theorems of `NodeLock_proofs` then hold of the locker of a cluster. What peers believe
needs `IPCInv`. A request runs through ten stages (`Unused`, `AskedFor`, `Waiting`,
`Told`, `Holding`, `Returning`, `Returned`, `Stale`, of a lock that is released although a
failed move gave it up, and the ends `Unheard`, of a worker that the master no longer
knows, and `Left`, of one that died); a stage says at once what the peer
believes, what the locker has, what `_locks` of the master notes, and exactly which
messages about the request are under way. `AtStage` says that each request is at one of
them; without the messages in it, a result that arrives could find anything. `OneLock`
says that a request has one lock in the locker, and not both the one it moves from and the
one it moves to, and `Tidy` that peers leave nothing behind. The visit of the queue is what
makes this hard: one release or expiry may grant any number of locks of others, and their
results are sent in the same turn. `MasterDoneEffect` says what `MasterDone` then does to a
request: it goes from `Waiting` to `Told` or `Holding` and all others stay
(`OthersKeepStage`), while the request itself takes the step of its action (`OwnStage`).
`ExclusiveAcrossPeers` follows from `Exclusive` of the locker, since what is held is granted
or expired there.

**RecordWrite_proofs** (assumptions: `TableAssumption`,
`RecordAssumption`).
The lemmas about the table say what allocation and release are for, whatever the table:
`AllocationsAreGood` (the ranges handed out and those left are free of overlap, and
together are what was free before plus the new pages; for each of the four ways of
`Allocations`), `RunsAreKept` and `RunsCoverAll` (what a release leaves is merged and covers
what was free and what was released: for each free record the start and the end of its
run exist, by induction over a well-founded order, `Smallest` and `Largest`),
`DroppedRanges` and `ImageFrees` (what is cut off, and that what is stored of a table has
nothing free that the table has not, also where an end does not fit in its bits). The
inductive `IInv` has `Separate` (the three uses of records by nodes, and free space, never
meet) and `Saved`: not only the table in the file, while it is not behind, but also every
table on its way there that is not late keeps the records of the nodes on file, and those
that are about to be written from the moment their write of the table ended; a range that
still waits for its write is kept from that write on. `CrashSafe` alone says nothing of the
writes that are still to land. That lateness goes down the order in which writes were
started (`InOrder`) is what `TableWrittenStep` needs for a write that ends out of order.
`Inv` is `IInv` up to the first start with a table that is not sound.

**TrackedStore_proofs** (assumption: `TrackedAssumption`). A write sees only the part of
the old data that `Impact` asks for, at one place that serves all subscriptions and
indexes it concerns, and makes all events and index updates of that. Three questions come
up for each of them. *Is what it needs loaded?* `TargetGood` and `ImpactGood` say where
the write and the loading take place, `PlaceNeeded`, `PlaceLoaded` and `KeyLoaded` that
each subscription and index has what it looks at in there, and `ChangeIsLoaded` and
`LoadedAt` that at such a place the loaded data has the same changes as the whole database
(`DifferencesAt`: the differences of two trees below a place are those of the two
subtrees). *Are the results right?* `MutationsAreChanges`: the changes, put into the old
tree, make the new one, and no two are on one trail, so that their order does not matter;
`ValueEventsAre`, `NotifiedAre`, `OwedIsDue` and `EventsAre`: the events are those that
`Owed` says of the two databases, both ways, for each type of subscription, up to
characters of strings (`StringsLoaded`: what is outside strings in the database is so in
the part that is loaded); `NothingOwed`: whoever is not asked for data is owed nothing.
`NotAffected`, `Found` and `IndexWritten`: an index that is passed over has no key that
changed, and one that is not gets the entries it should have. *Does it stay right between
the steps?* The inductive `IInv` says that the database is a `GoodTree`, that a write
under way has what its lock found (`WriteIs`; and, since subscribing and loading go on
beside it, that it counts on the client if there is a copy), that the client's deferred
events have the values of the database and are apart (`EventsGood`), and that a copy is
the data everywhere but at and below those events (`CopyIs`). `CopyFollows` by itself says
nothing while events are on their way. Two hypotheses are facts about the code, and the
run satisfies them: `PlainIndexes`, indexes on one key that include no others
(`indexes.getAll` at line 249 and the loading at line 722 miss changes of nested and of
included keys), and `MutationsExact`, subscriptions of the two mutation types on paths
without wildcards (line 1122 looks a wildcard up as a key).

**Trees_proofs, RecordStore_proofs** (assumption: `RecordStoreAssumption`). Between two
writes the records are a `GoodStore` but for the keys that failed writes left torn:
`StoreType` (the root has a record, inline values have one key), `Linked` (above a record
there are records) and `OneEach` (those are of objects and do not have it inline). `Linked`
is what `OneHome` lacks to be inductive: a write that fails may have removed a record whose
children it had not come to, and a later write must not take those for its own. While a
write is under way the records are `Partly` written: the store it found, with any part of
its changes, in whatever order they were made (`OneMore`; a record that is removed takes
with it all below, and nothing that is stored is below one that is removed,
`StoresAreKept`). Of the order that `Step` prescribes only this is used, and only for the
refinement: the record that a write merges into, if it was there, is stored last.
`TargetGood` says what is known of a write: it is at or above a record, whatever the
request. `DoneStore` is the heart: when all changes are made the store is good again,
because a record that was left alone below one that was stored is a child that is
mentioned and dedicated, or that a merge does not mention (`WhatIsRemoved` is the other
side). `FailedStore` says that after any part of them it is good but for the keys of the
write (`Untouched`: what is not at or below a key is as it was). `ReadsAgree` follows since in a
good store a node is read from what is at its path and below only (`NodeOf`, `ReadRecord`,
`ReadInline`, `HeldBelowRoot`), and since a read that fails met a record that is no link in
one (`ReadsFail`), so a write failed below the node.

*The refinement* (hypothesis: `NullsAtTop`). The tree is what is read from the root
(`Visible`), of the records that a write found as long as it has its lock. All that is read
is one function of a path (`ReadsAs`; `KindRead`, `SafeReads`), so that trees are compared
path by path. `TargetShape` says what the engine writes for a request, whatever it finds:
the value, at the path or wrapped in the nodes that are missing, merged into the nearest
that is there, below which there is no record yet (`Shape`). `PutKind` says what the request
makes of the tree, and `DoneReads` that the records read the same when all changes are made:
at and below the keys of the write (`WrittenReads`, by whether a value is dedicated, inline
or null; `NullsAreGone` is where `NullsAtTop` is needed), at the record that is merged, and
everywhere else (`Unwritten`, for any part of the changes). Then the steps follow: `Begin`
is `Ask`, a change is a stutter, `Fail` is `Fail` by `Unwritten`, and `Commit` is `Write`;
when the path of the write is below a torn key, `Commit` may be a `Fail` that tears nothing
new. What reads give between two writes is `SeenIsTree`.

**Query_proofs** (assumption: `QueryAssumption`; hypothesis: `OrderedBounds`, the bounds of
`between` are given in order, which is known to matter: section 5). `Sound` and `Complete`
speak of the end of a query, and have to hold of each child on its way there. What the way
is depends on the plan: `PlanIsGood` says what any plan is, however the indexes were given
out (a filter is scanned for, or has a lookup of its own on an index of its key, or goes
with that of another filter; by the smallest number of filters after which it were not so,
since a plan is a recursive function). What is right on the way is the inductive `IInv`.
`Base`: all that an index has was so at some moment (`seen`), and its entries for a missing
key were made of records that missed it. `SetsGood`: what a lookup found has passed all
filters that the lookup stands for. `AllSound`: children that are scanned have met the
filters that have an index, those that are loaded or returned all of them. `AllComplete`: a
record that meets the filters all the time has an entry in each result so far, then is
among the children to scan, to load or returned. `ComparedIs` relates the two comparisons:
what passes a scan passes the index, and what passes the index passes a scan or has a
missing value (`ByNull`). `LookupKeeps` says that the entry of a record that never stops to
meet the filters is there and is the one that counts, also while the index lags; that `sets`
were read at different moments does no harm, since `seen` only grows. `FoundAnswers` and
`ListedAnswers` are the merge. Sorting (`Ranked`: elements of a finite set in a strict total
order, each at one place; `RankedIs`, `StableIsTotal`), skip, take and tossing keep what
they should (`AnswerIs`, `PushedIs`).

`WindowRight` is about queries that nothing is written during, and has an invariant of its
own, `CalmInv`: as long as `writes` is 0, `Calm`. `Fresh`: every index has what is so now,
and each record has one entry. `Fitting` are the children that meet the filters, `All`
their records. While children are scanned or loaded the results are a `Pile`: no child is
in it twice, it has what they are sorted by (`Alike`), and a child that fits, is not
waiting and not in it came after all that are in it when the pile had reached the `Limit`.
`PileGrows` is the heart: to add one and to toss the last of the order leaves a pile, in
whatever order matches and loads end. What is returned is `Placed`: of any order that
agrees with the sort, the place of each allows as many before and after it as there are
(`PlacesAre`), and the part that `Window` cuts out is that of skip and take (`WindowAt`,
`PlacedIs`). The four ways end there: `CalmIndexTake`, where the order of the entries of
the index agrees with the sort (`IndexOrdersAre`, `AheadInIndex`), `CalmMerge`, where the
lookups find exactly what fits and know what it is sorted by (`FoundIs`, `KnownAlike`,
`KnownOrdersAre`), and `CalmFinish` for both that load or scan. `Exact` is what the
property is exempt from, and is used in each of them.

**DataIndex_proofs** (of `IndexAssumption` the proof uses that queries ask for keys of the
index). `CacheFollows` relates the cache to the tree, and the tree changes in steps that do
not touch the cache: an update, the load of a build, a crash. The inductive `IInv` says why
none of them leaves a stale result. `NothingStale`: beside a result that is not `raced`
no update is waiting or being done, because announcing one clears the cache and a read
with one behind it marks its result. `BuildFirst`: a build is the first of all jobs and
until it ends nothing else has the lock, so there is no result to go stale. `Shapes` is
what a proof needs to know of jobs. The queue is handled by lemmas on `Append`, `Tail`
and concatenation (`JobComes`, `ProcessQueueShapes`, `ReleasedBuildFirst`), and the actions
follow, one lemma each.

**Only model-checked.** All liveness, which TLAPS cannot prove without `ENABLED`. What folds
and recursive functions compute for every input, which needs induction over data: `Agrees`
of `DataIndex` (it counts entries in sequences that folds compute), the chain, descent and
effect of `KeyTree` (`Chain`, `Trail`, `Levels`), and the merge of mutations of
`TransactionLog`.

## 5. Plan

Done: locks, peers, tracked writes, records and free space, key trees, records by path,
the transaction log, data indexes, queries. What is left, most important first.

1. Modules:
   - `Transact`: `transactNode` with and without lock, revisions and retries;
   - `PeerEvents`: remote subscriptions, events and notifications of `ipc/ipc.ts`
     (key index table, root record, cache), composed with the order of writes;
   - `TabMaster`: `ipc/browser.ts`, the election and the move of locks to a new master,
     on top of `NodeLock`;
   - `ThreadSafe`: both locks of `thread-safe.ts`, with `RWLock` as their abstract
     specification, and `TaskBatch` for `async-task-batch.ts`;
   - `RecordCache`: `node-cache.ts` and the cache of IndexedDB transactions, with
     aborts and other tabs;
   - `NodeTransaction`: `node-transaction.ts` with an abstract lock table;
   - live queries on top of `Query` and `ValueTracking`.
2. Theorems:
   - the bookkeeping of `KeyTree` (`todo`, `batch`, `taken` and `lost` partition the
     operations that were not done);
   - that the entries of `TransactionLog` are the mutations of the writes they stand for,
     from `MutationsAreChanges` of `TrackedStore_proofs`, up to the merge, which is a fold.

### Not modelled, and known to deserve a look

Places that were met while reading, where no property says anything yet. Some are left
out of a model on purpose, as its section says; the others are in parts without a model.

*Locks and peers.* `ipc/ipc.ts:404`: `exit` of the master never resolves after a lock was
refused, because its entry stays in the list that `exit` waits for (JSDoc at line 85:
"Resolves once its locks are cleared"); `ipc/ipc.ts:189`: a remote subscription is never
cancelled, as its path is compared with the event; `ipc/browser.ts:120`: locks that are
released while they are requested again from a new master; `ipc/remote.ts:208`: what is
sent while a websocket peer reconnects is lost; `thread-safe.ts:124`: the last waiter that
times out deletes a lock that is held; `thread-safe.ts:161`: shared holders from the queue
are not counted; `async-task-batch.ts:68`: `start` runs `undefined` when there are fewer
tasks than its limit; `node-transaction.ts:214`: `processQueue` tests an object that is
always true.

*Writes and events.* `storage/index.ts:1062`: `Object.keys` of a value that is a string gives
its characters, so `child_added` and `child_removed` fire for `c/0` when a string is stored
at `c` or replaced, although README.md:493 says "triggered when a child node is added";
`storage/index.ts:249` and `:722`: an index on a nested key, or one
that includes another key, does not follow every write; `:861`: a worker asks the master
to update an index without naming its file; `:1122`: "mutated" subscriptions with a
wildcard below the written path; `:1320`: transactions without a lock rely on revisions,
and an update keeps the revision (`storage/custom/index.ts:734`).

*Engines.* `storage/binary/index.ts:592`: the end of a range is stored with `setUint16`, so
that of a range up to the end of a page of 65536 records (allowed by lines 130-131, and read
back at line 798) is stored as 0: the range is lost at the next start, and `release` merges
such ranges wrongly; `:1348`: an entry of the log that cannot be stored is only reported on
the console, and no cursor will ever find that change; `storage/binary/index.ts:212`: the notification of a root record is written and
sent on as a change of one's own; `:1278`: repairing a tree swallows its error; `:1535`:
`getMutations` takes the keys of a value that may be null; `:2179`: a client that loads
while an earlier write waits misses it (`whole` in `TransactionLog`); `:3658`: the test
for gaps in a changed array sorts numbers as strings; `:4397`: allocation may use more
scraps than the worst case that was counted on. `storage/custom/index.ts:677`: a null in
an object that replaces another does not remove a dedicated record (section 2); `:725`: a
failed write is rolled back while others of its children are still being written.
`storage/sqlite/index.ts:486`: an object that is overwritten keeps inline values; `:1141`:
`valueFitsInline(null)` throws. `storage/custom/indexed-db/transaction.ts:86`: the cache
is filled before the records are stored; `:220`: a sibling that sorts between a path and
its children hides them.

*Trees, indexes, queries.* `btree/binary-tree.ts:2144`: when the larger leaf of
`_rebuildLeaf` cannot be written either, the rollback reads `options.nextLeaf`, which the
call at line 2834 does not give: it throws, and the parent keeps pointing to a block that
was never written; `btree/binary-tree.ts:714`: `freeBytes` of ext_data is off by
eight; `:1557`: a search for several keys sorts them as strings and stops at a falsy one;
`:1765` and `:1768`: `findAll` fails on an empty first or last leaf (modelled as `CanLookUp`:
the update ends in an error and changes nothing) and sorts numeric keys as strings.
`data-index/data-index.ts:585`: a rename that succeeds at its second try still throws.
`query.ts:553`: every error in the stream of children is answered with `[]`, as if there
were none, a failing match in a full batch of 1000 (485-493), a read that fails, and
`findAll` on a tree with an empty first or last leaf (see `:1765`) among them, although
README.md:1052 says that all child nodes are matched and returned; `query.ts:58`: an included
key that a record does not have is `undefined` in its metadata (`data-index.ts:699`, 1188),
which is neither null nor in a consistent order, so that `[2, undefined, 1]` ascending is
left as it is; `query.ts:562`: a child removed between listing and match rejects the query, and node.js
may report a match that fails before the listing ends as unhandled. Bounds of
`between` in the wrong order are swapped by an index and match nothing in a scan.

## 6. Running

    tlc -workers 2 -config NodeLock_locks.cfg NodeLock.tla
    tlapm NodeLock_proofs.tla

Each run of `PROJECT.json` names its module and configuration. The longest
(`data_index`) takes about three minutes on two cores. The proofs take about
twenty-five minutes together, of which `IPCLocks_proofs` takes most.
