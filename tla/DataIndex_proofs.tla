-------------------------- MODULE DataIndex_proofs --------------------------
(***************************************************************************)
(* The query cache of an index, for any records, values, queries and       *)
(* bounds: a result that was not read ahead of an update is always what    *)
(* the tree has.                                                           *)
(*                                                                         *)
(* It is not inductive: a step that changes the tree would have to know    *)
(* that nothing is cached.  For an update that is so because a cached      *)
(* result that is not marked excludes that an update waits or is being     *)
(* done (`NothingStale`), which announcing one ensures; for a build it is  *)
(* so because it comes first, before any query (`BuildFirst`).             *)
(***************************************************************************)
EXTENDS DataIndex, TLAPS

\* What jobs look like.
IsBuild(j) == j.kind = "build" /\ j = [kind |-> "build", step |-> j.step]
IsRead(j) == j.kind = "read" /\ j.key \in Keys
IsUpdate(j) ==
    /\ j.kind = "update"
    /\ j = [kind |-> "update", record |-> j.record, ops |-> j.ops, owner |-> j.owner,
            retry |-> j.retry, step |-> j.step]

IsSequence(s) == s \in Seq(Range(s))
Shapes ==
    /\ IsSequence(waiting) /\ IsSequence(queue)
    /\ \A i \in 1..Len(waiting) : IsBuild(waiting[i]) \/ IsRead(waiting[i]) \/ IsUpdate(waiting[i])
    /\ active.kind \in {"none", "stuck"} \/ IsBuild(active) \/ IsRead(active) \/ IsUpdate(active)
    /\ cache = [k \in Keys |-> cache[k]]

\* A build is the first of the jobs, and until it ends there is no other that
\* is done and nothing is cached.
BuildFirst ==
    /\ state = "none" => active.kind = "none" /\ waiting = <<>>
    /\ state = "build" => active.kind = "build" \/ (active.kind = "none" /\ waiting # <<>> /\ waiting[1].kind = "build")
    /\ state \in {"none", "build"} => cache = NoCache
    /\ active.kind = "build" => state = "build"
    /\ \A i \in 1..Len(waiting) :
          waiting[i].kind = "build" => i = 1 /\ active.kind = "none" /\ state = "build"

NoUpdates == active.kind # "update" /\ \A i \in 1..Len(waiting) : waiting[i].kind # "update"
NothingStale == \A k \in Keys :
    cache[k] # NoFile => cache[k].raced \/ (NoUpdates /\ cache[k].found = Range(index[k]))

IInv == Shapes /\ BuildFirst /\ NothingStale

-----------------------------------------------------------------------------

LEMMA IsSequenceOf == ASSUME NEW S, NEW s \in Seq(S) PROVE IsSequence(s)
<1>1. \A i \in 1..Len(s) : s[i] \in Range(s)
  BY DEF Range
<1> QED
  BY <1>1 DEF IsSequence

LEMMA EmptySequence == IsSequence(<<>>)
<1>1. <<>> \in Seq(Records)
  OBVIOUS
<1> QED
  BY <1>1, IsSequenceOf

\* What the operations on the queue do to its elements.
LEMMA OfAppend ==
    ASSUME NEW s, IsSequence(s), NEW x
    PROVE  /\ IsSequence(Append(s, x))
           /\ Len(Append(s, x)) = Len(s) + 1 /\ Len(s) \in Nat
           /\ \A i \in 1..Len(s) : Append(s, x)[i] = s[i]
           /\ Append(s, x)[Len(s) + 1] = x
<1>1. s \in Seq(Range(s) \union {x}) /\ Append(s, x) \in Seq(Range(s) \union {x})
  BY DEF IsSequence
<1>2. /\ Len(Append(s, x)) = Len(s) + 1 /\ Len(s) \in Nat
      /\ \A i \in 1..Len(s) : Append(s, x)[i] = s[i]
      /\ Append(s, x)[Len(s) + 1] = x
  BY <1>1
<1> QED
  BY <1>1, <1>2, IsSequenceOf

LEMMA OfTail ==
    ASSUME NEW s, IsSequence(s), s # <<>>
    PROVE  /\ IsSequence(Tail(s))
           /\ Len(s) \in Nat /\ Len(s) > 0 /\ Len(Tail(s)) = Len(s) - 1
           /\ \A i \in 1..Len(Tail(s)) : Tail(s)[i] = s[i + 1]
           /\ Head(s) = s[1]
<1>1. s \in Seq(Range(s)) /\ Tail(s) \in Seq(Range(s))
  BY DEF IsSequence
<1>2. /\ Len(s) \in Nat /\ Len(s) > 0 /\ Len(Tail(s)) = Len(s) - 1
      /\ \A i \in 1..Len(Tail(s)) : Tail(s)[i] = s[i + 1]
      /\ Head(s) = s[1]
  BY <1>1
<1> QED
  BY <1>1, <1>2, IsSequenceOf

-----------------------------------------------------------------------------

LEMMA InitIInv == Init => IInv
<1> SUFFICES ASSUME Init PROVE IInv
  OBVIOUS
<1>1. IsSequence(<<>>)
  BY EmptySequence
<1>2. Shapes
  BY <1>1 DEF Init, Shapes, NoJob, NoCache
<1>3. BuildFirst
  BY DEF Init, BuildFirst, NoJob
<1>4. NothingStale
  BY DEF Init, NothingStale, NoCache
<1> QED
  BY <1>2, <1>3, <1>4 DEF IInv

\* The job that gets the lock is no longer in the queue, and a build is not
\* among those that are left.
LEMMA GrantKeepsIInv == IInv /\ Grant => IInv'
<1> SUFFICES ASSUME IInv, Grant PROVE IInv'
  OBVIOUS
<1>1. /\ IsSequence(waiting') /\ Len(waiting) \in Nat /\ Len(waiting) > 0
      /\ Len(waiting') = Len(waiting) - 1
      /\ \A i \in 1..Len(waiting') : waiting'[i] = waiting[i + 1] /\ i + 1 \in 2..Len(waiting)
      /\ active' = waiting[1] /\ active'.kind # "build"
  BY OfTail DEF IInv, Shapes, Grant
<1>2. Shapes'
  BY <1>1 DEF IInv, Shapes, Grant
<1>3. BuildFirst'
  BY <1>1 DEF IInv, Shapes, BuildFirst, Grant, NoJob, NoCache
<1>4. NoUpdates => NoUpdates'
  BY <1>1 DEF NoUpdates
<1>5. NothingStale'
  BY <1>4 DEF IInv, NothingStale, Grant
<1> QED
  BY <1>2, <1>3, <1>5 DEF IInv

LEMMA CreateIndexKeepsIInv == IInv /\ CreateIndex => IInv'
<1> SUFFICES ASSUME IInv, CreateIndex PROVE IInv'
  OBVIOUS
<1>1. waiting = <<>> /\ active.kind = "none" /\ cache = NoCache
  BY DEF IInv, BuildFirst, CreateIndex
<1>2. waiting' = Append(waiting, [kind |-> "build", step |-> "scan"])
  BY DEF CreateIndex
<1>3. IsSequence(waiting') /\ Len(waiting') = 1 /\ waiting'[1] = [kind |-> "build", step |-> "scan"]
  <2>1. IsSequence(waiting) /\ Len(waiting) = 0
    BY <1>1 DEF IInv, Shapes
  <2> DEFINE build == [kind |-> "build", step |-> "scan"]
  <2> HIDE DEF build
  <2>2. /\ IsSequence(Append(waiting, build))
        /\ Len(Append(waiting, build)) = Len(waiting) + 1
        /\ Append(waiting, build)[Len(waiting) + 1] = build
    BY <2>1, OfAppend, Zenon
  <2>3. waiting' = Append(waiting, build)
    BY <1>2 DEF build
  <2>4. IsSequence(waiting') /\ Len(waiting') = 1 /\ waiting'[1] = build
    BY <2>1, <2>2, <2>3
  <2> QED
    BY <2>4 DEF build
<1>4. Shapes'
  BY <1>3 DEF IInv, Shapes, CreateIndex, IsBuild
<1>5. BuildFirst'
  BY <1>1, <1>3 DEF BuildFirst, CreateIndex, NoCache
<1>6. NothingStale'
  BY <1>1 DEF NothingStale, CreateIndex, NoCache
<1> QED
  BY <1>4, <1>5, <1>6 DEF IInv

-----------------------------------------------------------------------------
\* The build: nothing is cached until it ends.

LEMMA StartBuildKeepsIInv == IInv /\ StartBuild => IInv'
<1> SUFFICES ASSUME IInv, StartBuild PROVE IInv'
  OBVIOUS
<1>1. /\ IsSequence(waiting') /\ Len(waiting) \in Nat /\ Len(waiting) > 0
      /\ Len(waiting') = Len(waiting) - 1
      /\ \A i \in 1..Len(waiting') : waiting'[i] = waiting[i + 1] /\ i + 1 \in 2..Len(waiting)
      /\ waiting[1].kind = "build"
  BY OfTail DEF IInv, Shapes, StartBuild
<1>2. state = "build" /\ cache = NoCache
  BY <1>1 DEF IInv, BuildFirst
<1>3. active'.kind = "build" /\ IsBuild(active') /\ state' = state /\ cache' = cache /\ queue' = queue
  BY DEF StartBuild, IsBuild
<1>4. Shapes'
  BY <1>1, <1>3 DEF IInv, Shapes
<1>5. BuildFirst'
  BY <1>1, <1>2, <1>3 DEF IInv, BuildFirst, NoCache
<1>6. NothingStale'
  BY <1>2, <1>3 DEF NothingStale, NoCache
<1> QED
  BY <1>4, <1>5, <1>6 DEF IInv

\* Steps of a build that keep it active.
LEMMA BuildingKeepsIInv ==
    ASSUME IInv, active.kind = "build", IsBuild(active'),
           UNCHANGED <<state, queue, waiting, cache>>
    PROVE  IInv'
<1>1. state = "build" /\ cache = NoCache /\ active'.kind = "build"
  BY DEF IInv, BuildFirst, IsBuild
<1>2. Shapes'
  BY <1>1 DEF IInv, Shapes
<1>3. BuildFirst'
  BY <1>1 DEF IInv, BuildFirst, NoCache
<1>4. NothingStale'
  BY <1>1 DEF NothingStale, NoCache
<1> QED
  BY <1>2, <1>3, <1>4 DEF IInv

LEMMA ScanKeepsIInv == ASSUME NEW r \in Records PROVE IInv /\ Scan(r) => IInv'
<1> SUFFICES ASSUME IInv, Scan(r) PROVE IInv'
  OBVIOUS
<1>1. IsBuild(active')
  BY DEF IInv, Shapes, Scan, IsBuild, IsRead, IsUpdate
<1> QED
  BY <1>1, BuildingKeepsIInv DEF Scan

LEMMA SortKeepsIInv == IInv /\ Sort => IInv'
<1> SUFFICES ASSUME IInv, Sort PROVE IInv'
  OBVIOUS
<1>1. IsBuild(active)
  BY DEF IInv, Shapes, Sort, IsRead, IsUpdate
<1>2. active' = [kind |-> "build", step |-> "load"]
  BY <1>1 DEF Sort, IsBuild
<1>3. IsBuild(active')
  BY <1>2 DEF IsBuild
<1> QED
  BY <1>3, BuildingKeepsIInv DEF Sort

LEMMA LoadKeepsIInv == IInv /\ Load => IInv'
<1> SUFFICES ASSUME IInv, Load PROVE IInv'
  OBVIOUS
<1>1. IsBuild(active)
  BY DEF IInv, Shapes, Load, IsRead, IsUpdate
<1>2. active' = [kind |-> "build", step |-> "done"]
  BY <1>1 DEF Load, IsBuild
<1>3. IsBuild(active')
  BY <1>2 DEF IsBuild
<1> QED
  BY <1>3, BuildingKeepsIInv DEF Load

\* A failed build and a restart leave no jobs and no results.
LEMMA ResetKeepsIInv ==
    ASSUME waiting' = <<>>, queue' = <<>>, active' = NoJob, cache' = NoCache,
           state' \in {"none", "ready"}
    PROVE  IInv'
<1>1. IsSequence(<<>>)
  BY EmptySequence
<1>2. Shapes'
  BY <1>1 DEF Shapes, NoJob, NoCache
<1>3. BuildFirst'
  BY DEF BuildFirst, NoJob, NoCache
<1>4. NothingStale'
  BY DEF NothingStale, NoCache
<1> QED
  BY <1>2, <1>3, <1>4 DEF IInv

LEMMA BuildFailsKeepsIInv == IInv /\ BuildFails => IInv'
  BY ResetKeepsIInv DEF BuildFails

LEMMA CrashKeepsIInv == IInv /\ Crash => IInv'
  BY ResetKeepsIInv DEF Crash, OnDisk

-----------------------------------------------------------------------------
\* Updates.  Whatever becomes of one: while it is done, what is cached is marked.

LEMMA WhileUpdating ==
    ASSUME NothingStale, active.kind = "update"
    PROVE  \A k \in Keys : cache[k] # NoFile => cache[k].raced
  BY DEF NothingStale, NoUpdates

LEMMA ClearedOrMarked ==
    ASSUME \/ cache' = NoCache
           \/ cache' = cache /\ \A k \in Keys : cache[k] # NoFile => cache[k].raced
    PROVE  NothingStale'
  BY DEF NothingStale, NoCache

\* What ProcessQueue makes of the queue: updates, at the end of the jobs.
LEMMA ProcessQueueShapes ==
    ASSUME Shapes, NEW owner, ProcessQueue(waiting, owner)
    PROVE  /\ IsSequence(waiting') /\ IsSequence(queue')
           /\ Len(waiting) \in Nat /\ Len(waiting') \in Nat
           /\ \A i \in 1..Len(waiting') :
                 (i \in 1..Len(waiting) /\ waiting'[i] = waiting[i]) \/ IsUpdate(waiting'[i])
           /\ cache' = cache \/ cache' = NoCache
           /\ cache' = [k \in Keys |-> cache'[k]]
<1> DEFINE more == [i \in DOMAIN queue |-> Job(queue[i], owner)]
<1>1. IsSequence(waiting) /\ IsSequence(queue) /\ cache = [k \in Keys |-> cache[k]]
  BY DEF Shapes
<1>2. queue \in Seq(Range(queue)) /\ Len(queue) \in Nat /\ DOMAIN queue = 1..Len(queue)
  BY <1>1 DEF IsSequence
<1>3. more \in Seq(Range(more))
  <2>1. DOMAIN more = 1..Len(queue) /\ \A i \in 1..Len(queue) : more[i] \in Range(more)
    BY <1>2 DEF Range
  <2>2. more = [i \in 1..Len(queue) |-> more[i]]
    BY <1>2
  <2> HIDE DEF more
  <2>3. more \in [1..Len(queue) -> Range(more)]
    BY <2>1, <2>2
  <2> QED
    BY <1>2, <2>3
<1>4. IsSequence(more) /\ Len(more) = Len(queue)
  BY <1>2, <1>3 DEF IsSequence
<1>5. \A i \in 1..Len(more) : IsUpdate(more[i])
  BY <1>2, <1>4 DEF IsUpdate, Job
<1>6. waiting' = waiting \o more /\ queue' = <<>> /\ (cache' = cache \/ cache' = NoCache)
  BY DEF ProcessQueue
<1> HIDE DEF more
<1>7. /\ IsSequence(waiting') /\ Len(waiting') = Len(waiting) + Len(more)
      /\ Len(waiting) \in Nat /\ Len(more) \in Nat
      /\ \A i \in 1..Len(waiting) : waiting'[i] = waiting[i]
      /\ \A i \in 1..Len(more) : waiting'[Len(waiting) + i] = more[i]
  <2> DEFINE S == Range(waiting) \union Range(more)
  <2>1. waiting \in Seq(S) /\ more \in Seq(S) /\ waiting \o more \in Seq(S)
    BY <1>1, <1>4 DEF IsSequence
  <2> HIDE DEF S
  <2>2. IsSequence(waiting')
    BY <1>6, <2>1, IsSequenceOf
  <2> QED
    BY <1>6, <2>1, <2>2
<1>8. ASSUME NEW i \in 1..Len(waiting'), i \notin 1..Len(waiting)
      PROVE  IsUpdate(waiting'[i])
  <2>1. i - Len(waiting) \in 1..Len(more) /\ i = Len(waiting) + (i - Len(waiting))
    BY <1>7, <1>8
  <2> QED
    BY <1>5, <1>7, <2>1
<1>9. IsSequence(queue')
  BY <1>6, EmptySequence
<1>10. cache' = [k \in Keys |-> cache'[k]]
  BY <1>1, <1>6 DEF NoCache
<1> QED
  BY <1>6, <1>7, <1>8, <1>9, <1>10

\* The lock is released, and the queue follows: there is no build among the
\* jobs then, as nothing is done while one waits.
LEMMA ReleasedBuildFirst ==
    ASSUME IInv, NEW owner, ProcessQueue(waiting, owner),
           active.kind \in {"build", "update"}, active' = NoJob,
           state' \notin {"none", "build"}
    PROVE  BuildFirst' /\ Shapes'
<1>1. \A i \in 1..Len(waiting) : waiting[i].kind # "build"
  BY DEF IInv, BuildFirst
<1>2. \A i \in 1..Len(waiting') : waiting'[i].kind # "build"
  BY <1>1, ProcessQueueShapes DEF IInv, IsUpdate
<1>3. BuildFirst'
  BY <1>2 DEF BuildFirst, NoJob
<1>4. \A i \in 1..Len(waiting') : IsBuild(waiting'[i]) \/ IsRead(waiting'[i]) \/ IsUpdate(waiting'[i])
  BY ProcessQueueShapes DEF IInv, Shapes
<1>5. IsSequence(waiting') /\ IsSequence(queue') /\ cache' = [k \in Keys |-> cache'[k]]
  BY ProcessQueueShapes DEF IInv
<1>6. active'.kind \in {"none", "stuck"}
  BY DEF NoJob
<1> QED
  BY <1>3, <1>4, <1>5, <1>6 DEF Shapes

LEMMA FinishBuildKeepsIInv == IInv /\ FinishBuild => IInv'
<1> SUFFICES ASSUME IInv, FinishBuild PROVE IInv'
  OBVIOUS
<1>1. cache = NoCache /\ active.kind = "build"
  BY DEF IInv, BuildFirst, FinishBuild
<1>2. ProcessQueue(waiting, NoOne) /\ active' = NoJob /\ state' = "ready"
  BY DEF FinishBuild
<1>3. BuildFirst' /\ Shapes'
  BY <1>1, <1>2, ReleasedBuildFirst
<1>4. cache' = NoCache
  BY <1>1, <1>2 DEF ProcessQueue
<1>5. NothingStale'
  BY <1>4, ClearedOrMarked
<1> QED
  BY <1>3, <1>5 DEF IInv

LEMMA UpdateKeepsIInv == IInv /\ Update => IInv'
<1> SUFFICES ASSUME IInv, Update PROVE IInv'
  OBVIOUS
<1>1. active.kind = "update" /\ state \notin {"none", "build"}
  BY DEF IInv, BuildFirst, Update
<1>2. ProcessQueue(waiting, active.owner) /\ active' = NoJob /\ state' = state
  BY DEF Update
<1>3. BuildFirst' /\ Shapes'
  BY <1>1, <1>2, ReleasedBuildFirst
<1>4. cache' = cache \/ cache' = NoCache
  BY <1>2 DEF ProcessQueue
<1>5. NothingStale'
  BY <1>1, <1>4, WhileUpdating, ClearedOrMarked DEF IInv
<1> QED
  BY <1>3, <1>5 DEF IInv

LEMMA UpdateFailsKeepsIInv == ASSUME NEW n \in 0..1 PROVE IInv /\ UpdateFails(n) => IInv'
<1> SUFFICES ASSUME IInv, UpdateFails(n) PROVE IInv'
  OBVIOUS
<1>1. active.kind = "update" /\ state \notin {"none", "build"} /\ IsUpdate(active)
  BY DEF IInv, Shapes, BuildFirst, UpdateFails, IsBuild, IsRead
<1>2. UNCHANGED <<queue, waiting, cache>> /\ state' \in {state, "rebuild"}
  BY DEF UpdateFails
<1>3. active' = [kind |-> "stuck"] \/ IsUpdate(active')
  <2>1. CASE active' = [active EXCEPT !.step = "rebuild", !.ops = SubSeq(@, n + 1, Len(@))]
    <3>1. active' = [kind |-> "update", record |-> active.record,
                     ops |-> SubSeq(active.ops, n + 1, Len(active.ops)), owner |-> active.owner,
                     retry |-> active.retry, step |-> "rebuild"]
      BY <1>1, <2>1 DEF IsUpdate
    <3> QED
      BY <3>1 DEF IsUpdate
  <2> QED
    BY <2>1 DEF UpdateFails
<1>4. active'.kind \in {"stuck", "update"}
  BY <1>3 DEF IsUpdate
<1>5. Shapes'
  BY <1>2, <1>3 DEF IInv, Shapes
<1>6. BuildFirst'
  BY <1>1, <1>2, <1>4 DEF IInv, BuildFirst, NoCache
<1>7. NothingStale'
  BY <1>1, <1>2, WhileUpdating, ClearedOrMarked DEF IInv
<1> QED
  BY <1>5, <1>6, <1>7 DEF IInv

\* A query or an update that comes waits behind what is there.
LEMMA JobComes ==
    ASSUME Shapes, NEW job, IsRead(job) \/ IsUpdate(job), waiting' = Append(waiting, job)
    PROVE  /\ IsSequence(waiting') /\ Len(waiting) \in Nat /\ Len(waiting') = Len(waiting) + 1
           /\ \A i \in 1..Len(waiting) : waiting'[i] = waiting[i]
           /\ \A i \in 1..Len(waiting') :
                 (i \in 1..Len(waiting) /\ waiting'[i] = waiting[i]) \/ (waiting'[i] = job /\ i \notin 1..Len(waiting))
           /\ \A i \in 1..Len(waiting') : IsBuild(waiting'[i]) \/ IsRead(waiting'[i]) \/ IsUpdate(waiting'[i])
           /\ job.kind \in {"read", "update"}
<1>1. IsSequence(waiting)
  BY DEF Shapes
<1>2. /\ IsSequence(Append(waiting, job))
      /\ Len(Append(waiting, job)) = Len(waiting) + 1 /\ Len(waiting) \in Nat
      /\ \A i \in 1..Len(waiting) : Append(waiting, job)[i] = waiting[i]
      /\ Append(waiting, job)[Len(waiting) + 1] = job
  BY <1>1, OfAppend, Zenon
<1>3. ASSUME NEW i \in 1..Len(waiting')
      PROVE  (i \in 1..Len(waiting) /\ waiting'[i] = waiting[i]) \/ (waiting'[i] = job /\ i \notin 1..Len(waiting))
  BY <1>2
<1>4. \A i \in 1..Len(waiting') : IsBuild(waiting'[i]) \/ IsRead(waiting'[i]) \/ IsUpdate(waiting'[i])
  BY <1>3 DEF Shapes
<1>5. job.kind \in {"read", "update"}
  BY DEF IsRead, IsUpdate
<1> QED
  BY <1>2, <1>3, <1>4, <1>5

LEMMA RebuiltKeepsIInv == IInv /\ Rebuilt => IInv'
<1> SUFFICES ASSUME IInv, Rebuilt PROVE IInv'
  OBVIOUS
<1>1. active.kind = "update" /\ IsUpdate(active)
  BY DEF IInv, Shapes, Rebuilt, IsBuild, IsRead
<1>2. /\ waiting' = Append(waiting, LeftOver(active)) /\ active' = NoJob /\ state' = "ready"
      /\ UNCHANGED <<queue, cache>>
  BY DEF Rebuilt
<1>3. IsUpdate(LeftOver(active))
  <2>1. LeftOver(active) = [Job(active, active.owner) EXCEPT !.retry = active.retry + 1]
    BY DEF LeftOver
  <2>2. \A n : [Job(active, active.owner) EXCEPT !.retry = n]
                = [kind |-> "update", record |-> active.record, ops |-> active.ops,
                   owner |-> active.owner, retry |-> n, step |-> "start"]
    BY DEF Job
  <2> QED
    BY <2>1, <2>2 DEF IsUpdate
<1>4. /\ IsSequence(waiting')
      /\ \A i \in 1..Len(waiting') :
            (i \in 1..Len(waiting) /\ waiting'[i] = waiting[i]) \/ waiting'[i] = LeftOver(active)
      /\ \A i \in 1..Len(waiting') : IsBuild(waiting'[i]) \/ IsRead(waiting'[i]) \/ IsUpdate(waiting'[i])
  BY <1>2, <1>3, JobComes DEF IInv
<1>5. Shapes'
  BY <1>2, <1>4 DEF IInv, Shapes, NoJob
<1>6. \A i \in 1..Len(waiting') : waiting'[i].kind # "build"
  BY <1>1, <1>3, <1>4 DEF IInv, BuildFirst, IsUpdate
<1>7. BuildFirst'
  BY <1>2, <1>6 DEF BuildFirst, NoJob
<1>8. NothingStale'
  BY <1>1, <1>2, WhileUpdating, ClearedOrMarked DEF IInv
<1> QED
  BY <1>5, <1>7, <1>8 DEF IInv

LEMMA RebuildFailsKeepsIInv == IInv /\ RebuildFails => IInv'
<1> SUFFICES ASSUME IInv, RebuildFails PROVE IInv'
  OBVIOUS
<1>1. active.kind = "update" /\ active' = NoJob /\ state' = "error" /\ UNCHANGED <<queue, waiting, cache>>
  BY DEF RebuildFails
<1>2. Shapes'
  BY <1>1 DEF IInv, Shapes, NoJob
<1>3. BuildFirst'
  BY <1>1 DEF IInv, BuildFirst, NoJob
<1>4. NothingStale'
  BY <1>1, WhileUpdating, ClearedOrMarked DEF IInv
<1> QED
  BY <1>2, <1>3, <1>4 DEF IInv

LEMMA LockTimeoutKeepsIInv == IInv /\ LockTimeout => IInv'
<1> SUFFICES ASSUME IInv, LockTimeout PROVE IInv'
  OBVIOUS
<1>1. /\ active.kind = "stuck" /\ active' = NoJob /\ waiting' = <<>>
      /\ UNCHANGED <<index, state, queue, cache>>
  BY DEF LockTimeout
<1>2. Shapes'
  BY <1>1, EmptySequence DEF IInv, Shapes, NoJob
<1>3. BuildFirst'
  BY <1>1 DEF IInv, BuildFirst, NoJob
<1>4. NothingStale'
  BY <1>1 DEF IInv, NothingStale, NoUpdates, NoJob
<1> QED
  BY <1>2, <1>3, <1>4 DEF IInv

-----------------------------------------------------------------------------
\* Writes and queries.

\* An update that is announced clears the cache.
LEMMA WriteKeepsIInv ==
    ASSUME NEW r \in Records, NEW v \in Keys PROVE IInv /\ Write(r, v) => IInv'
<1> SUFFICES ASSUME IInv, Write(r, v) PROVE IInv'
  OBVIOUS
<1> DEFINE update == [record |-> r, ops |-> Operations(r, data[r], v)]
<1>0. UNCHANGED <<index, state, active>>
  BY DEF Write
<1>1. CASE UNCHANGED <<queue, waiting, cache>>
  <2>1. Shapes' /\ BuildFirst' /\ NothingStale'
    BY <1>0, <1>1 DEF IInv, Shapes, BuildFirst, NothingStale, NoUpdates, NoCache
  <2> QED
    BY <2>1 DEF IInv
<1>2. CASE queue' = Append(queue, update) /\ UNCHANGED <<waiting, cache>>
  <2> HIDE DEF update
  <2>1. IsSequence(queue)
    BY DEF IInv, Shapes
  <2>2. IsSequence(Append(queue, update))
    BY <2>1, OfAppend, Zenon
  <2>3. Shapes'
    BY <1>0, <1>2, <2>2 DEF IInv, Shapes
  <2>4. BuildFirst' /\ NothingStale'
    BY <1>0, <1>2 DEF IInv, BuildFirst, NothingStale, NoUpdates, NoCache
  <2> QED
    BY <2>3, <2>4 DEF IInv
<1>3. CASE /\ state = "ready" /\ cache' = Cleared /\ waiting' = Append(waiting, Job(update, r))
           /\ UNCHANGED queue
  <2>1. IsUpdate(Job(update, r))
    BY DEF IsUpdate, Job
  <2> HIDE DEF update
  <2>2. /\ IsSequence(waiting')
        /\ \A i \in 1..Len(waiting') :
              (i \in 1..Len(waiting) /\ waiting'[i] = waiting[i]) \/ waiting'[i] = Job(update, r)
        /\ \A i \in 1..Len(waiting') : IsBuild(waiting'[i]) \/ IsRead(waiting'[i]) \/ IsUpdate(waiting'[i])
    BY <1>3, <2>1, JobComes DEF IInv
  <2>3. cache' = NoCache
    BY <1>3 DEF Cleared
  <2>4. Shapes'
    BY <1>0, <1>3, <2>2, <2>3 DEF IInv, Shapes, NoCache
  <2>5. \A i \in 1..Len(waiting') : waiting'[i].kind # "build"
    BY <1>3, <2>1, <2>2 DEF IInv, BuildFirst, IsUpdate
  <2>6. BuildFirst'
    BY <1>0, <1>3, <2>5 DEF IInv, BuildFirst
  <2>7. NothingStale'
    BY <2>3, ClearedOrMarked
  <2> QED
    BY <2>4, <2>6, <2>7 DEF IInv
<1> QED
  BY <1>1, <1>2, <1>3 DEF Write

LEMMA AskKeepsIInv == ASSUME NEW key \in Asked PROVE IInv /\ Ask(key) => IInv'
<1> SUFFICES ASSUME IInv, Ask(key) PROVE IInv'
  OBVIOUS
<1> DEFINE job == [kind |-> "read", key |-> key]
<1>1. IsRead(job)
  BY IndexAssumption DEF IsRead
<1>2. /\ waiting' = Append(waiting, job) /\ UNCHANGED <<index, state, queue, active, cache>>
      /\ state # "none"
  BY DEF Ask, Opens
<1>3. job.kind = "read"
  OBVIOUS
<1> HIDE DEF job
<1>4. /\ IsSequence(waiting') /\ Len(waiting) \in Nat /\ Len(waiting') = Len(waiting) + 1
      /\ \A i \in 1..Len(waiting) : waiting'[i] = waiting[i]
      /\ \A i \in 1..Len(waiting') :
            (i \in 1..Len(waiting) /\ waiting'[i] = waiting[i]) \/ (waiting'[i] = job /\ i \notin 1..Len(waiting))
      /\ \A i \in 1..Len(waiting') : IsBuild(waiting'[i]) \/ IsRead(waiting'[i]) \/ IsUpdate(waiting'[i])
  BY <1>1, <1>2, JobComes DEF IInv
<1>5. Shapes'
  BY <1>2, <1>4 DEF IInv, Shapes
<1>6. BuildFirst'
  <2>1. state = "build" /\ active.kind # "build" => waiting' # <<>> /\ waiting'[1].kind = "build"
    <3> SUFFICES ASSUME state = "build", active.kind # "build"
                 PROVE  waiting' # <<>> /\ waiting'[1].kind = "build"
      OBVIOUS
    <3>1. waiting # <<>> /\ waiting[1].kind = "build" /\ IsSequence(waiting)
      BY DEF IInv, BuildFirst, Shapes
    <3>2. Len(waiting) > 0
      BY <3>1, OfTail, Zenon
    <3>3. waiting'[1] = waiting[1] /\ Len(waiting') > 0
      BY <1>4, <3>2
    <3> QED
      BY <3>1, <3>3
  <2>2. \A i \in 1..Len(waiting') :
            waiting'[i].kind = "build" => i = 1 /\ active.kind = "none" /\ state = "build"
    BY <1>3, <1>4 DEF IInv, BuildFirst
  <2> QED
    BY <1>2, <2>1, <2>2 DEF IInv, BuildFirst, NoCache
<1>7. NoUpdates => NoUpdates'
  BY <1>2, <1>3, <1>4 DEF NoUpdates
<1>8. NothingStale'
  BY <1>2, <1>7 DEF IInv, NothingStale
<1> QED
  BY <1>5, <1>6, <1>8 DEF IInv

\* A result is marked if an update waits, and nothing else is being done.
LEMMA ReadKeepsIInv == IInv /\ Read => IInv'
<1> SUFFICES ASSUME IInv, Read PROVE IInv'
  OBVIOUS
<1> DEFINE new == [found |-> Range(index[active.key]), raced |-> \E j \in Range(waiting) : j.kind = "update"]
<1>1. active.kind = "read" /\ active.key \in Keys
  BY DEF IInv, Shapes, Read, IsBuild, IsUpdate, IsRead
<1>2. /\ cache' = [cache EXCEPT ![active.key] = new] /\ active' = NoJob
      /\ UNCHANGED <<index, state, queue, waiting>>
  BY DEF Read
<1>3. cache' = [k \in Keys |-> IF k = active.key THEN new ELSE cache[k]]
  BY <1>1, <1>2 DEF IInv, Shapes
<1>4. \A k \in Keys : cache'[k] = IF k = active.key THEN new ELSE cache[k]
  BY <1>3
<1>5. Shapes'
  BY <1>2, <1>3 DEF IInv, Shapes, NoJob
<1>6. BuildFirst'
  BY <1>1, <1>2 DEF IInv, BuildFirst, NoJob
<1>7. new.raced \/ NoUpdates'
  <2>1. waiting \in Seq(Range(waiting))
    BY DEF IInv, Shapes, IsSequence
  <2>2. \A i \in 1..Len(waiting) : waiting[i] \in Range(waiting)
    BY <2>1
  <2> QED
    BY <1>2, <2>2 DEF NoUpdates, NoJob
<1>8. new.found = Range(index[active.key])
  OBVIOUS
<1>9. NoUpdates => NoUpdates'
  BY <1>2 DEF NoUpdates, NoJob
<1> HIDE DEF new
<1>10. NothingStale'
  BY <1>2, <1>4, <1>7, <1>8, <1>9 DEF IInv, NothingStale
<1> QED
  BY <1>5, <1>6, <1>10 DEF IInv

LEMMA ExpireKeepsIInv == ASSUME NEW key \in Asked PROVE IInv /\ Expire(key) => IInv'
<1> SUFFICES ASSUME IInv, Expire(key) PROVE IInv'
  OBVIOUS
<1>1. cache' = [cache EXCEPT ![key] = NoFile] /\ UNCHANGED <<index, state, queue, waiting, active>>
  BY DEF Expire
<1>2. cache' = [k \in Keys |-> IF k = key THEN NoFile ELSE cache[k]]
  BY <1>1 DEF IInv, Shapes
<1>3. Shapes'
  BY <1>1, <1>2 DEF IInv, Shapes
<1>4. cache = NoCache => cache' = NoCache
  BY <1>2 DEF NoCache
<1>5. BuildFirst'
  BY <1>1, <1>4 DEF IInv, BuildFirst, NoCache
<1>6. NothingStale'
  BY <1>1, <1>2 DEF IInv, NothingStale, NoUpdates
<1> QED
  BY <1>3, <1>5, <1>6 DEF IInv

-----------------------------------------------------------------------------

LEMMA StepKeepsIInv == IInv /\ [Next]_vars => IInv'
<1> SUFFICES ASSUME IInv, [Next]_vars PROVE IInv'
  OBVIOUS
<1>1. CASE UNCHANGED vars
  BY <1>1 DEF vars, IInv, Shapes, BuildFirst, NothingStale, NoUpdates, IsSequence, IsBuild, IsRead,
              IsUpdate, NoCache
<1>2. CASE Build
  BY <1>2, StartBuildKeepsIInv, ScanKeepsIInv, SortKeepsIInv, BuildFailsKeepsIInv, LoadKeepsIInv,
     FinishBuildKeepsIInv DEF Build
<1>3. CASE Turn
  BY <1>3, GrantKeepsIInv, UpdateKeepsIInv, RebuiltKeepsIInv, LockTimeoutKeepsIInv, ReadKeepsIInv DEF Turn
<1>4. CASE CreateIndex \/ RebuildFails \/ Crash
  BY <1>4, CreateIndexKeepsIInv, RebuildFailsKeepsIInv, CrashKeepsIInv
<1>5. CASE \E r \in Records, v \in Keys : Write(r, v)
  BY <1>5, WriteKeepsIInv
<1>6. CASE \E n \in 0..1 : UpdateFails(n)
  BY <1>6, UpdateFailsKeepsIInv
<1>7. CASE \E k \in Asked : Ask(k) \/ Expire(k)
  BY <1>7, AskKeepsIInv, ExpireKeepsIInv
<1> QED
  BY <1>1, <1>2, <1>3, <1>4, <1>5, <1>6, <1>7 DEF Next

\* A cached result of a query is what the tree has, whatever builds, updates,
\* failures and restarts came since it was read, unless an update waited for
\* the lock then (data-index.ts, cache and handleRecordUpdate).
THEOREM CacheIsTrue == Spec => []CacheFollows
<1>1. IInv => CacheFollows
  BY DEF IInv, NothingStale, CacheFollows
<1> QED
  BY <1>1, InitIInv, StepKeepsIInv, PTL DEF Spec
=============================================================================
