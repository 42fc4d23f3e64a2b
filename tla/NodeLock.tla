------------------------------ MODULE NodeLock ------------------------------
(***************************************************************************)
(* NodeLocker (src/node-lock.ts): the queue of locks through which every   *)
(* read and write of a database goes.                                      *)
(*                                                                         *)
(* Paths play no part in granting (`_allowLock` ignores them on purpose),  *)
(* so a lock is known by its transaction, its mode, whether it was         *)
(* requested with priority, and a number that tells equal ones apart.  A   *)
(* lock that is "done" is not in `_locks`: it has not been requested yet,  *)
(* or it was released or rejected, and stands for a new NodeLock object    *)
(* when it is requested (again).                                           *)
(*                                                                         *)
(* Of the order of the array `_locks` only the part that is used is kept:  *)
(* which pending locks are ahead of a pending lock.  `requested`, on which *)
(* the pending locks are sorted, is the time at which a lock was pushed,   *)
(* and Array.sort is stable, so the two orders are one.                    *)
(*                                                                         *)
(* Not modelled: `comment`, `history`, `waitingFor` (never read), and the  *)
(* option `noTimeout`, which no caller passes.                             *)
(***************************************************************************)
EXTENDS Naturals, FiniteSets

CONSTANTS
    Tids,           \* transactions
    Ids,            \* numbers that tell equal lock requests apart
    MaxWarnings,    \* warnings before a lock expires (3 in the code)
    MaxPerTid       \* bound: locks one transaction has in the queue at once

ASSUME BoundsAssumption == MaxWarnings \in Nat /\ MaxPerTid \in Nat

VARIABLES
    state,          \* lock.state; "done" when the lock is not in `_locks`
    ahead,          \* the pending locks that are ahead of a pending lock
    timeoutCount,   \* how often the timer of a granted lock has fired
    quit            \* `_quit`: not called, waiting for locks, or resolved

vars == <<state, ahead, timeoutCount, quit>>

Locks == [tid : Tids, forWriting : BOOLEAN, priority : BOOLEAN, id : Ids]

LOCK_STATE == {"pending", "locked", "expired", "done"}

-----------------------------------------------------------------------------

InState(s, st) == {l \in Locks : s[l] = st}

\* The locks in `_locks`, and those of transaction t.
Queued(s) == {l \in Locks : s[l] # "done"}
OfTid(s, t) == {l \in Queued(s) : l.tid = t}

Clash(l, m) == l.tid # m.tid /\ (l.forWriting \/ m.forWriting)

\* Mutants of AllowLock: it overlooks readers that a writer has to wait for,
\* or it waits for locks that have expired.
AllowWriterAmongReaders(s, l) ==
    \A m \in InState(s, "locked") : l.tid # m.tid => ~ m.forWriting
AllowLockUnlessExpired(s, l) ==
    \A m \in InState(s, "locked") \cup InState(s, "expired") : ~ Clash(l, m)

\* `_allowLock`: no other transaction has a granted lock that clashes.
AllowLock(s, l) == \A m \in InState(s, "locked") : ~ Clash(l, m)

\* The order in which `_processLockQueue` visits the pending locks.
Before(m, l) ==
    \/ m.priority /\ ~ l.priority
    \/ m.priority = l.priority /\ m \in ahead[l]

\* G is what one visit of the pending locks grants: each lock is tested
\* against the locks granted before, those of this visit included.
GrantPass(s, G) ==
    \A l \in InState(s, "pending") :
        l \in G <=> /\ AllowLock(s, l)
                    /\ \A m \in G : Before(m, l) => ~ Clash(l, m)

\* The other attributes follow `state`: a lock that is pushed as pending
\* comes after those that are, one that is granted or removed leaves the
\* order, and the timer of a lock runs only while it is granted.
FollowState ==
    /\ ahead' = [l \in Locks |->
                    IF state'[l] # "pending" THEN {}
                    ELSE InState(state', "pending") \cap
                         (IF state[l] = "pending" THEN ahead[l]
                          ELSE InState(state, "pending"))]
    /\ timeoutCount' = [l \in Locks |->
                    IF state'[l] = "locked" THEN timeoutCount[l] ELSE 0]

\* Mutant of GrantPending: the queue is processed although `quit` was called.
GrantWhenQuitting(s) ==
    /\ \E G \in SUBSET InState(s, "pending") :
        /\ GrantPass(s, G)
        /\ state' = [l \in Locks |-> IF l \in G THEN "locked" ELSE s[l]]
    /\ quit' = quit

GrantPending(s) ==
    /\ quit = "no"
    /\ \E G \in SUBSET InState(s, "pending") :
        /\ GrantPass(s, G)
        /\ state' = [l \in Locks |-> IF l \in G THEN "locked" ELSE s[l]]
    /\ quit' = quit

\* Mutant of RejectPending: whether locks are left is tested too early.
RejectAfterTest(s) ==
    /\ quit # "no"
    /\ state' = [l \in Locks |-> IF s[l] = "pending" THEN "done" ELSE s[l]]
    /\ quit' = IF Queued(s) = {} THEN "resolved" ELSE quit

RejectPending(s) ==
    /\ quit # "no"
    /\ state' = [l \in Locks |-> IF s[l] = "pending" THEN "done" ELSE s[l]]
    /\ quit' = IF Queued(state') = {} THEN "resolved" ELSE quit

\* `_processLockQueue`, in the state s its caller left.
ProcessLockQueue(s) == (GrantPending(s) \/ RejectPending(s)) /\ FollowState

\* Mutant of Push: a lock that jumps the queue is granted right away.
PushPriorityGranted(s, l) ==
    /\ state' = [s EXCEPT ![l] = IF l.priority \/ AllowLock(s, l)
                                 THEN "locked" ELSE "pending"]
    /\ quit' = quit
    /\ FollowState

\* A new lock is pushed, and granted at once if nothing clashes with it:
\* the locks that are pending already are not looked at.
Push(s, l) ==
    /\ state' = [s EXCEPT ![l] = IF AllowLock(s, l) THEN "locked"
                                                    ELSE "pending"]
    /\ quit' = quit
    /\ FollowState

-----------------------------------------------------------------------------

Init ==
    /\ state = [l \in Locks |-> "done"]
    /\ ahead = [l \in Locks |-> {}]
    /\ timeoutCount = [l \in Locks |-> 0]
    /\ quit = "no"

\* `lock(path, tid, forWriting)`.  It throws, changing nothing, when a lock
\* of the transaction has expired or when the locker is quitting.
Lock(l) ==
    /\ state[l] = "done"
    /\ ~ l.priority
    /\ \A m \in OfTid(state, l.tid) : state[m] # "expired"
    /\ quit = "no"
    /\ Cardinality(OfTid(state, l.tid)) < MaxPerTid
    /\ Push(state, l)

\* `release`, by the transaction the lock was granted to.
Release(l) ==
    /\ state[l] \in {"locked", "expired"}
    /\ ProcessLockQueue([state EXCEPT ![l] = "done"])

\* `moveToParent` when the lock is not allowed any more.  (When it is, only
\* its path changes.)  The lock is unlocked without processing the queue,
\* and a lock with priority is requested in its place: not if another lock
\* of the transaction has expired, but also when the locker is quitting.
MoveToParent(l) ==
    /\ state[l] \in {"locked", "expired"}
    /\ ~ AllowLock(state, l)
    /\ LET s == [state EXCEPT ![l] = "done"]
       IN  IF \E m \in OfTid(s, l.tid) : s[m] = "expired"
           THEN state' = s /\ quit' = quit /\ FollowState
           ELSE \E id \in Ids :
                   LET n == [l EXCEPT !.priority = TRUE, !.id = id]
                   IN  s[n] = "done" /\ Push(s, n)

\* Mutants of Timeout: one warning too many, and a lock that expires without
\* the queue being processed.
TimeoutOneLate(l) ==
    /\ state[l] = "locked"
    /\ IF timeoutCount[l] <= MaxWarnings
       THEN /\ timeoutCount' = [timeoutCount EXCEPT ![l] = @ + 1]
            /\ UNCHANGED <<state, ahead, quit>>
       ELSE ProcessLockQueue([state EXCEPT ![l] = "expired"])
TimeoutQueueForgotten(l) ==
    /\ state[l] = "locked"
    /\ IF timeoutCount[l] < MaxWarnings
       THEN /\ timeoutCount' = [timeoutCount EXCEPT ![l] = @ + 1]
            /\ UNCHANGED <<state, ahead, quit>>
       ELSE /\ state' = [state EXCEPT ![l] = "expired"]
            /\ quit' = quit
            /\ FollowState

\* The timer of a granted lock: it warns a few times, then the lock expires.
\* An expired lock stays in `_locks` until it is released.
Timeout(l) ==
    /\ state[l] = "locked"
    /\ IF timeoutCount[l] < MaxWarnings
       THEN /\ timeoutCount' = [timeoutCount EXCEPT ![l] = @ + 1]
            /\ UNCHANGED <<state, ahead, quit>>
       ELSE ProcessLockQueue([state EXCEPT ![l] = "expired"])

\* `quit`.  When there are no locks it resolves at once and `_quit` stays
\* unset: locks that are asked for after that are still granted.
Quit ==
    /\ quit = "no"
    /\ quit' = IF Queued(state) = {} THEN "no" ELSE "waiting"
    /\ UNCHANGED <<state, ahead, timeoutCount>>

Next ==
    \/ \E l \in Locks : Lock(l) \/ Release(l) \/ MoveToParent(l) \/ Timeout(l)
    \/ Quit

Spec == Init /\ [][Next]_vars

\* Only the timers are relied on: they fire while their lock is granted.
FairSpec == Spec /\ \A l \in Locks : WF_vars(Timeout(l))

-----------------------------------------------------------------------------

\* Every attribute of a lock keeps its type.
TypeOK ==
    /\ state \in [Locks -> LOCK_STATE]
    /\ ahead \in [Locks -> SUBSET Locks]
    /\ timeoutCount \in [Locks -> 0 .. MaxWarnings]
    /\ quit \in {"no", "waiting", "resolved"}

\* `ahead` is an order of the pending locks: of two of them exactly one is
\* ahead of the other (the array `_locks` has each lock once).
QueueOrdered ==
    /\ \A l \in Locks : ahead[l] \subseteq InState(state, "pending") \ {l}
    /\ \A l \in Locks : state[l] # "pending" => ahead[l] = {}
    /\ \A l, m \in InState(state, "pending") :
           l # m => (l \in ahead[m] <=> m \notin ahead[l])

\* Two transactions never hold locks that clash: if one of them may write,
\* no other one reads or writes, whichever way the locks were granted (at
\* once, from the queue, or by moving to a parent path).
Exclusive ==
    \A l, m \in InState(state, "locked") : ~ Clash(l, m)

\* No wakeup is lost: a lock waits only while another transaction holds a
\* lock that clashes with it.  The queue is not processed by `moveToParent`,
\* nor when a lock is granted, so this rests on what those steps give up.
NoLostWakeup ==
    \A l \in InState(state, "pending") : ~ AllowLock(state, l)

\* A lock that is granted from the queue is never the reason that one that
\* comes before it keeps waiting: what clashes with the latter was granted
\* before this step, or comes before it as well.
QueueOrder ==
    [][\A l, m \in InState(state, "pending") :
        (state'[l] = "locked" /\ state'[m] = "pending" /\ Before(m, l)) =>
            \E k \in Locks : /\ state'[k] = "locked"
                             /\ Clash(k, m)
                             /\ state[k] = "locked" \/ Before(k, m)]_vars

\* Once `quit` has been called nothing is granted any more, not even a lock
\* that moves to a parent path with priority, and when the promise resolves
\* no lock is left.
QuitIsFinal ==
    [][quit # "no" =>
        /\ \A l \in Locks : state'[l] = "locked" => state[l] = "locked"
        /\ quit' = "resolved" => Queued(state') = {}]_vars

\* If transactions release what they were granted, expired or not, then
\* `quit` resolves, whatever was pending and whatever moves to a parent.
QuitResolves ==
    (\A l \in Locks : []<>(state[l] \notin {"locked", "expired"})) =>
        (quit = "waiting" ~> quit = "resolved")

\* With nothing but the timers to rely on, every pending lock is granted or
\* rejected once no new locks arrive: also when two transactions wait for
\* each other, both reading and both asking to write.  (While new readers
\* keep arriving a writer may wait forever: `lock` does not look at the
\* queue.)
Request == \E l \in Locks : Lock(l) \/ MoveToParent(l)

PendingSettles ==
    <>[][~ Request]_vars =>
        \A l \in Locks : [](state[l] = "pending" => <>(state[l] # "pending"))

-----------------------------------------------------------------------------

\* NodeLocker implements a readers-writer lock: the holds are the locks
\* that are granted and have not expired.
Held == {<<l.tid, IF l.forWriting THEN "write" ELSE "read">> :
            l \in InState(state, "locked")}

RW == INSTANCE RWLock WITH holds <- Held

ImplementsRWLock == RW!Spec
=============================================================================
