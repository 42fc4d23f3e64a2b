-------------------------- MODULE NodeLock_proofs --------------------------
(***************************************************************************)
(* Proofs about NodeLock, for any transactions, ids and bounds.            *)
(*                                                                         *)
(* The inductive invariant is the conjunction of what the runs check, plus *)
(* `ResolvedEmpty`.  Its parts need each other: `moveToParent` takes a     *)
(* lock away without processing the queue, which loses no wakeup only      *)
(* because the lock had expired, and it had because granted locks never    *)
(* clash; and locks that one visit of the queue grants do not clash only   *)
(* because the queue orders them.                                          *)
(***************************************************************************)
EXTENDS NodeLock, TLAPS

ResolvedEmpty == quit = "resolved" => Queued(state) = {}

IInv == TypeOK /\ QueueOrdered /\ Exclusive /\ NoLostWakeup /\ ResolvedEmpty

-----------------------------------------------------------------------------

\* What a step leaves of the order of the pending locks is an order again,
\* if it makes at most one more lock pending: the queue is pushed to one
\* lock at a time.
LEMMA FollowStateOrdered ==
    ASSUME TypeOK, QueueOrdered, FollowState,
           state' \in [Locks -> LOCK_STATE],
           \A l, m \in Locks :
               /\ state[l] # "pending" /\ state'[l] = "pending"
               /\ state[m] # "pending" /\ state'[m] = "pending"
               => l = m
    PROVE  /\ QueueOrdered'
           /\ ahead' \in [Locks -> SUBSET Locks]
           /\ timeoutCount' \in [Locks -> 0 .. MaxWarnings]
<1>1. ahead' \in [Locks -> SUBSET Locks]
  BY DEF FollowState, InState
<1>2. timeoutCount' \in [Locks -> 0 .. MaxWarnings]
  BY BoundsAssumption DEF FollowState, TypeOK
<1>3. \A l \in Locks : ahead'[l] \subseteq InState(state', "pending") \ {l}
  BY DEF FollowState, InState, QueueOrdered
<1>4. \A l \in Locks : state'[l] # "pending" => ahead'[l] = {}
  BY DEF FollowState
<1>5. ASSUME NEW l \in Locks, NEW m \in Locks, l # m,
             state'[l] = "pending", state'[m] = "pending"
      PROVE  l \in ahead'[m] <=> m \notin ahead'[l]
  <2>1. ahead'[l] = InState(state', "pending") \cap
                      (IF state[l] = "pending" THEN ahead[l]
                       ELSE InState(state, "pending"))
    BY <1>5 DEF FollowState
  <2>2. ahead'[m] = InState(state', "pending") \cap
                      (IF state[m] = "pending" THEN ahead[m]
                       ELSE InState(state, "pending"))
    BY <1>5 DEF FollowState
  <2>3. l \in InState(state', "pending") /\ m \in InState(state', "pending")
    BY <1>5 DEF InState
  <2>4. state[l] = "pending" \/ state[m] = "pending"
    BY <1>5
  <2>5. CASE state[l] = "pending" /\ state[m] = "pending"
    BY <1>5, <2>1, <2>2, <2>3, <2>5 DEF QueueOrdered, InState
  <2>6. CASE state[l] = "pending" /\ state[m] # "pending"
    BY <1>5, <2>1, <2>2, <2>3, <2>6 DEF QueueOrdered, InState
  <2>7. CASE state[l] # "pending" /\ state[m] = "pending"
    BY <1>5, <2>1, <2>2, <2>3, <2>7 DEF QueueOrdered, InState
  <2> QED BY <2>4, <2>5, <2>6, <2>7
<1> QED BY <1>1, <1>2, <1>3, <1>4, <1>5 DEF QueueOrdered, InState

\* Of two pending locks one comes before the other in a visit of the queue.
LEMMA BeforeTotal ==
    ASSUME TypeOK, QueueOrdered,
           NEW l \in Locks, NEW m \in Locks, l # m,
           state[l] = "pending", state[m] = "pending"
    PROVE  Before(l, m) \/ Before(m, l)
<1>1. l.priority \in BOOLEAN /\ m.priority \in BOOLEAN
  BY DEF Locks
<1>2. l \in ahead[m] \/ m \in ahead[l]
  BY DEF QueueOrdered, InState
<1> QED BY <1>1, <1>2 DEF Before

LEMMA ClashSymmetric ==
    ASSUME NEW l \in Locks, NEW m \in Locks
    PROVE  Clash(l, m) <=> Clash(m, l)
BY DEF Clash

\* Processing the queue keeps the invariant, after a step that made no lock
\* pending or granted.
LEMMA ProcessLockQueueKeepsIInv ==
    ASSUME IInv,
           NEW s \in [Locks -> LOCK_STATE],
           \A l \in Locks : s[l] = "pending" <=> state[l] = "pending",
           \A l \in Locks : s[l] = "locked" => state[l] = "locked",
           quit = "resolved" => \A l \in Locks : s[l] = "done",
           ProcessLockQueue(s)
    PROVE  IInv'
<1> USE DEF IInv
<1>1. CASE GrantPending(s) /\ FollowState
  <2>1. PICK G \in SUBSET InState(s, "pending") :
            /\ GrantPass(s, G)
            /\ state' = [l \in Locks |-> IF l \in G THEN "locked" ELSE s[l]]
    BY <1>1 DEF GrantPending
  <2>2. state' \in [Locks -> LOCK_STATE]
    BY <2>1 DEF LOCK_STATE
  <2>3. TypeOK' /\ QueueOrdered'
    <3>1. \A l \in Locks : state'[l] = "pending" => state[l] = "pending"
      BY <2>1
    <3>2. quit' \in {"no", "waiting", "resolved"}
      BY <1>1 DEF GrantPending, TypeOK
    <3> QED BY <1>1, <2>2, <3>1, <3>2, FollowStateOrdered DEF TypeOK
  <2>4. Exclusive'
    <3> SUFFICES ASSUME NEW l \in Locks, NEW m \in Locks,
                        state'[l] = "locked", state'[m] = "locked"
                 PROVE  ~ Clash(l, m)
      BY DEF Exclusive, InState
    <3>1. CASE l \notin G /\ m \notin G
      BY <2>1, <3>1 DEF Exclusive, InState
    <3>2. CASE l \in G /\ m \notin G
      <4>1. AllowLock(s, l)
        BY <2>1, <3>2 DEF GrantPass
      <4>2. s[m] = "locked"
        BY <2>1, <3>2
      <4> QED BY <4>1, <4>2 DEF AllowLock, InState
    <3>3. CASE l \notin G /\ m \in G
      <4>1. AllowLock(s, m)
        BY <2>1, <3>3 DEF GrantPass
      <4>2. s[l] = "locked"
        BY <2>1, <3>3
      <4> QED BY <4>1, <4>2, ClashSymmetric DEF AllowLock, InState
    <3>4. CASE l \in G /\ m \in G
      <4>1. CASE l = m
        BY <4>1 DEF Clash
      <4>2. CASE l # m
        <5>1. state[l] = "pending" /\ state[m] = "pending"
          BY <2>1, <3>4 DEF InState
        <5>2. Before(l, m) \/ Before(m, l)
          BY <4>2, <5>1, BeforeTotal
        <5>3. ~ Clash(l, m) \/ ~ Clash(m, l)
          BY <2>1, <3>4, <5>2 DEF GrantPass
        <5> QED BY <5>3, ClashSymmetric
      <4> QED BY <4>1, <4>2
    <3> QED BY <3>1, <3>2, <3>3, <3>4
  <2>5. NoLostWakeup'
    <3> SUFFICES ASSUME NEW l \in Locks, state'[l] = "pending"
                 PROVE  \E m \in Locks : state'[m] = "locked" /\ Clash(l, m)
      BY DEF NoLostWakeup, AllowLock, InState
    <3>1. l \in InState(s, "pending") /\ l \notin G
      BY <2>1 DEF InState
    <3>2. CASE ~ AllowLock(s, l)
      BY <2>1, <3>2 DEF AllowLock, InState
    <3>3. CASE \E m \in G : Clash(l, m)
      BY <2>1, <3>3 DEF InState
    <3> QED BY <2>1, <3>1, <3>2, <3>3 DEF GrantPass
  <2>6. ResolvedEmpty'
    BY <1>1 DEF GrantPending, ResolvedEmpty
  <2> QED BY <2>3, <2>4, <2>5, <2>6
<1>2. CASE RejectPending(s) /\ FollowState
  <2>1. state' = [l \in Locks |-> IF s[l] = "pending" THEN "done" ELSE s[l]]
    BY <1>2 DEF RejectPending
  <2>2. state' \in [Locks -> LOCK_STATE]
    BY <2>1 DEF LOCK_STATE
  <2>3. \A l \in Locks : state'[l] # "pending"
    BY <2>1
  <2>4. TypeOK' /\ QueueOrdered'
    <3>1. quit' \in {"no", "waiting", "resolved"}
      BY <1>2 DEF RejectPending, TypeOK
    <3> QED BY <1>2, <2>2, <2>3, <3>1, FollowStateOrdered DEF TypeOK
  <2>5. Exclusive'
    BY <2>1 DEF Exclusive, InState
  <2>6. NoLostWakeup'
    BY <2>3 DEF NoLostWakeup, InState
  <2>7. ResolvedEmpty'
    BY <1>2, <2>1 DEF RejectPending, ResolvedEmpty, Queued
  <2> QED BY <2>4, <2>5, <2>6, <2>7
<1> QED BY <1>1, <1>2 DEF ProcessLockQueue

\* Taking away a lock that is not granted, without processing the queue,
\* and then pushing a lock, keeps the invariant (`moveToParent`; `lock` is
\* the case in which nothing is taken away).
LEMMA PushKeepsIInv ==
    ASSUME IInv, quit # "resolved",
           NEW s \in [Locks -> LOCK_STATE],
           \A l \in Locks : s[l] = "pending" <=> state[l] = "pending",
           \A l \in Locks : s[l] = "locked" <=> state[l] = "locked",
           NEW n \in Locks, s[n] = "done", Push(s, n)
    PROVE  IInv'
<1> USE DEF IInv
<1>1. state' = [s EXCEPT ![n] = IF AllowLock(s, n) THEN "locked"
                                                   ELSE "pending"]
  BY DEF Push
<1>2. state' \in [Locks -> LOCK_STATE]
  BY <1>1 DEF LOCK_STATE
<1>3. TypeOK' /\ QueueOrdered'
  <2>1. \A l \in Locks :
            state[l] # "pending" /\ state'[l] = "pending" => l = n
    BY <1>1
  <2>2. quit' \in {"no", "waiting", "resolved"}
    BY DEF Push, TypeOK
  <2>3. FollowState
    BY DEF Push
  <2> QED BY <1>2, <2>1, <2>2, <2>3, FollowStateOrdered DEF TypeOK
<1>4. Exclusive'
  <2> SUFFICES ASSUME NEW l \in Locks, NEW m \in Locks,
                      state'[l] = "locked", state'[m] = "locked"
               PROVE  ~ Clash(l, m)
    BY DEF Exclusive, InState
  <2>1. CASE l = n /\ m = n
    BY <2>1 DEF Clash
  <2>2. CASE l # n /\ m # n
    BY <1>1, <2>2 DEF Exclusive, InState
  <2>3. CASE l = n /\ m # n
    <3>1. AllowLock(s, n) /\ s[m] = "locked"
      BY <1>1, <2>3
    <3> QED BY <2>3, <3>1 DEF AllowLock, InState
  <2>4. CASE l # n /\ m = n
    <3>1. AllowLock(s, n) /\ s[l] = "locked"
      BY <1>1, <2>4
    <3> QED BY <2>4, <3>1, ClashSymmetric DEF AllowLock, InState
  <2> QED BY <2>1, <2>2, <2>3, <2>4
<1>5. NoLostWakeup'
  <2> SUFFICES ASSUME NEW l \in Locks, state'[l] = "pending"
               PROVE  \E m \in Locks : state'[m] = "locked" /\ Clash(l, m)
    BY DEF NoLostWakeup, AllowLock, InState
  <2>1. ~ AllowLock(s, l)
    <3>1. CASE l = n
      BY <1>1, <3>1
    <3>2. CASE l # n
      BY <1>1, <3>2 DEF NoLostWakeup, AllowLock, InState
    <3> QED BY <3>1, <3>2
  <2> QED BY <1>1, <2>1 DEF AllowLock, InState
<1>6. ResolvedEmpty'
  BY DEF Push, ResolvedEmpty
<1> QED BY <1>3, <1>4, <1>5, <1>6

-----------------------------------------------------------------------------

LEMMA InitIInv == Init => IInv
BY BoundsAssumption DEF Init, IInv, TypeOK, LOCK_STATE, QueueOrdered, InState,
   Exclusive, NoLostWakeup, ResolvedEmpty, Queued

LEMMA LockKeepsIInv ==
    ASSUME IInv, NEW l \in Locks, Lock(l)
    PROVE  IInv'
<1>1. state \in [Locks -> LOCK_STATE] /\ quit # "resolved"
  BY DEF IInv, TypeOK, Lock
<1> QED BY <1>1, PushKeepsIInv DEF Lock

LEMMA ReleaseKeepsIInv ==
    ASSUME IInv, NEW l \in Locks, Release(l)
    PROVE  IInv'
<1> DEFINE s == [state EXCEPT ![l] = "done"]
<1>1. s \in [Locks -> LOCK_STATE]
  BY DEF IInv, TypeOK, LOCK_STATE
<1>2. state[l] # "pending" /\ state[l] # "done"
  BY DEF Release
<1>3. /\ \A m \in Locks : s[m] = "pending" <=> state[m] = "pending"
      /\ \A m \in Locks : s[m] = "locked" => state[m] = "locked"
  BY <1>2 DEF IInv, TypeOK
<1>4. quit # "resolved"
  BY <1>2 DEF IInv, ResolvedEmpty, Queued
<1>5. ProcessLockQueue(s)
  BY DEF Release
<1> QED BY <1>1, <1>3, <1>4, <1>5, ProcessLockQueueKeepsIInv

\* A lock that `moveToParent` takes away has expired: a granted one would
\* have been allowed to stay.
LEMMA MoveToParentExpired ==
    ASSUME IInv, NEW l \in Locks, MoveToParent(l)
    PROVE  state[l] = "expired"
BY DEF IInv, MoveToParent, Exclusive, AllowLock, InState

LEMMA MoveToParentKeepsIInv ==
    ASSUME IInv, NEW l \in Locks, MoveToParent(l)
    PROVE  IInv'
<1> DEFINE s == [state EXCEPT ![l] = "done"]
<1>1. s \in [Locks -> LOCK_STATE]
  BY DEF IInv, TypeOK, LOCK_STATE
<1>2. state[l] = "expired"
  BY MoveToParentExpired
<1>3. /\ \A m \in Locks : s[m] = "pending" <=> state[m] = "pending"
      /\ \A m \in Locks : s[m] = "locked" <=> state[m] = "locked"
  BY <1>2 DEF IInv, TypeOK
<1>4. quit # "resolved"
  BY <1>2 DEF IInv, ResolvedEmpty, Queued
<1>5. CASE state' = s /\ quit' = quit /\ FollowState
  <2>1. TypeOK' /\ QueueOrdered'
    BY <1>1, <1>3, <1>5, FollowStateOrdered DEF IInv, TypeOK
  <2>2. Exclusive' /\ NoLostWakeup'
    BY <1>3, <1>5 DEF IInv, Exclusive, NoLostWakeup, AllowLock, InState
  <2>3. ResolvedEmpty'
    BY <1>4, <1>5 DEF ResolvedEmpty
  <2> QED BY <2>1, <2>2, <2>3 DEF IInv
<1>6. ASSUME NEW id \in Ids,
             s[[l EXCEPT !.priority = TRUE, !.id = id]] = "done",
             Push(s, [l EXCEPT !.priority = TRUE, !.id = id])
      PROVE  IInv'
  <2> DEFINE n == [l EXCEPT !.priority = TRUE, !.id = id]
  <2>1. n \in Locks
    BY DEF Locks
  <2> HIDE DEF n
  <2>2. s[n] = "done" /\ Push(s, n)
    BY <1>6 DEF n
  <2> HIDE DEF s
  <2> QED BY <1>1, <1>3, <1>4, <2>1, <2>2, PushKeepsIInv
<1> QED BY <1>5, <1>6 DEF MoveToParent

LEMMA TimeoutKeepsIInv ==
    ASSUME IInv, NEW l \in Locks, Timeout(l)
    PROVE  IInv'
<1>1. CASE timeoutCount[l] < MaxWarnings
  <2>1. /\ timeoutCount' = [timeoutCount EXCEPT ![l] = @ + 1]
        /\ UNCHANGED <<state, ahead, quit>>
    BY <1>1 DEF Timeout
  <2>2. timeoutCount' \in [Locks -> 0 .. MaxWarnings]
    BY <1>1, <2>1, BoundsAssumption DEF IInv, TypeOK
  <2> QED BY <2>1, <2>2 DEF IInv, TypeOK, QueueOrdered, Exclusive,
             NoLostWakeup, AllowLock, ResolvedEmpty, InState, Queued
<1>2. CASE ~ (timeoutCount[l] < MaxWarnings)
  <2> DEFINE s == [state EXCEPT ![l] = "expired"]
  <2>1. s \in [Locks -> LOCK_STATE]
    BY DEF IInv, TypeOK, LOCK_STATE
  <2>2. state[l] = "locked"
    BY DEF Timeout
  <2>3. /\ \A m \in Locks : s[m] = "pending" <=> state[m] = "pending"
        /\ \A m \in Locks : s[m] = "locked" => state[m] = "locked"
    BY <2>2 DEF IInv, TypeOK
  <2>4. quit # "resolved"
    BY <2>2 DEF IInv, ResolvedEmpty, Queued
  <2>5. ProcessLockQueue(s)
    BY <1>2 DEF Timeout
  <2> QED BY <2>1, <2>3, <2>4, <2>5, ProcessLockQueueKeepsIInv
<1> QED BY <1>1, <1>2

LEMMA QuitKeepsIInv ==
    ASSUME IInv, Quit
    PROVE  IInv'
BY DEF IInv, Quit, TypeOK, QueueOrdered, Exclusive, NoLostWakeup, AllowLock,
   ResolvedEmpty, InState, Queued

LEMMA NextIInv == IInv /\ [Next]_vars => IInv'
<1> SUFFICES ASSUME IInv, [Next]_vars PROVE IInv'
  OBVIOUS
<1>1. CASE \E l \in Locks : Lock(l)
  BY <1>1, LockKeepsIInv
<1>2. CASE \E l \in Locks : Release(l)
  BY <1>2, ReleaseKeepsIInv
<1>3. CASE \E l \in Locks : MoveToParent(l)
  BY <1>3, MoveToParentKeepsIInv
<1>4. CASE \E l \in Locks : Timeout(l)
  BY <1>4, TimeoutKeepsIInv
<1>5. CASE Quit
  BY <1>5, QuitKeepsIInv
<1>6. CASE UNCHANGED vars
  BY <1>6 DEF vars, IInv, TypeOK, QueueOrdered, Exclusive, NoLostWakeup,
     AllowLock, ResolvedEmpty, InState, Queued
<1> QED BY <1>1, <1>2, <1>3, <1>4, <1>5, <1>6 DEF Next

\* The inductive invariant holds in every reachable state.
THEOREM Invariance == Spec => []IInv
BY InitIInv, NextIInv, PTL DEF Spec

\* Every attribute of a lock keeps its type.
THEOREM TypeCorrect == Spec => []TypeOK
<1>1. IInv => TypeOK
  BY DEF IInv
<1> QED BY <1>1, Invariance, PTL

\* Two transactions never hold clashing locks.
THEOREM MutualExclusion == Spec => []Exclusive
<1>1. IInv => Exclusive
  BY DEF IInv
<1> QED BY <1>1, Invariance, PTL

\* A lock waits only while a lock that is granted clashes with it.
THEOREM WaitsForAReason == Spec => []NoLostWakeup
<1>1. IInv => NoLostWakeup
  BY DEF IInv
<1> QED BY <1>1, Invariance, PTL

-----------------------------------------------------------------------------

\* A visit of the queue grants in the order of the queue.
LEMMA ProcessLockQueueInOrder ==
    ASSUME NEW s \in [Locks -> LOCK_STATE],
           \A l \in Locks : s[l] = "pending" <=> state[l] = "pending",
           \A l \in Locks : s[l] = "locked" => state[l] = "locked",
           ProcessLockQueue(s),
           NEW l \in Locks, NEW m \in Locks,
           state[l] = "pending", state[m] = "pending",
           state'[l] = "locked", state'[m] = "pending", Before(m, l)
    PROVE  \E k \in Locks : /\ state'[k] = "locked"
                            /\ Clash(k, m)
                            /\ state[k] = "locked" \/ Before(k, m)
<1>1. CASE GrantPending(s)
  <2>1. PICK G \in SUBSET InState(s, "pending") :
            /\ GrantPass(s, G)
            /\ state' = [k \in Locks |-> IF k \in G THEN "locked" ELSE s[k]]
    BY <1>1 DEF GrantPending
  <2>2. m \in InState(s, "pending") /\ m \notin G
    BY <2>1 DEF InState
  <2>3. CASE ~ AllowLock(s, m)
    BY <2>1, <2>3, ClashSymmetric DEF AllowLock, InState
  <2>4. CASE \E k \in G : Before(k, m) /\ Clash(m, k)
    BY <2>1, <2>4, ClashSymmetric DEF InState
  <2> QED BY <2>1, <2>2, <2>3, <2>4 DEF GrantPass
<1>2. CASE RejectPending(s)
  BY <1>2 DEF RejectPending
<1> QED BY <1>1, <1>2 DEF ProcessLockQueue

\* Pushing a lock grants no lock that was pending.
LEMMA PushGrantsNoPending ==
    ASSUME NEW s \in [Locks -> LOCK_STATE],
           NEW l \in Locks, s[l] = "pending",
           NEW n, s[n] = "done", Push(s, n)
    PROVE  state'[l] = "pending"
BY DEF Push

\* A granted lock never is the reason that one before it keeps waiting.
THEOREM GrantsInOrder == Spec => QueueOrder
<1> DEFINE Pair(l, m) ==
      (state'[l] = "locked" /\ state'[m] = "pending" /\ Before(m, l)) =>
          \E k \in Locks : /\ state'[k] = "locked"
                           /\ Clash(k, m)
                           /\ state[k] = "locked" \/ Before(k, m)
<1>1. ASSUME IInv, [Next]_vars,
             NEW l \in InState(state, "pending"),
             NEW m \in InState(state, "pending")
      PROVE  Pair(l, m)
  <2> SUFFICES ASSUME state'[l] = "locked", state'[m] = "pending",
                      Before(m, l)
               PROVE  \E k \in Locks : /\ state'[k] = "locked"
                                       /\ Clash(k, m)
                                       /\ state[k] = "locked" \/ Before(k, m)
    OBVIOUS
  <2>1. /\ l \in Locks /\ m \in Locks
        /\ state[l] = "pending" /\ state[m] = "pending"
        /\ state \in [Locks -> LOCK_STATE]
    BY <1>1 DEF InState, IInv, TypeOK
  <2>2. ASSUME NEW p \in Locks, Lock(p) PROVE FALSE
    BY <2>1, <2>2, PushGrantsNoPending DEF Lock
  <2>3. ASSUME NEW p \in Locks, Release(p)
        PROVE  \E k \in Locks : /\ state'[k] = "locked"
                                /\ Clash(k, m)
                                /\ state[k] = "locked" \/ Before(k, m)
    <3> DEFINE s == [state EXCEPT ![p] = "done"]
    <3>1. s \in [Locks -> LOCK_STATE]
      BY <2>1 DEF LOCK_STATE
    <3>2. ProcessLockQueue(s) /\ state[p] \in {"locked", "expired"}
      BY <2>3 DEF Release
    <3>3. \A k \in Locks : /\ s[k] = "pending" <=> state[k] = "pending"
                           /\ s[k] = "locked" => state[k] = "locked"
      BY <2>1, <3>2
    <3> HIDE DEF s
    <3> QED BY <2>1, <3>1, <3>2, <3>3, ProcessLockQueueInOrder
  <2>4. ASSUME NEW p \in Locks, MoveToParent(p) PROVE FALSE
    <3> DEFINE s == [state EXCEPT ![p] = "done"]
    <3>1. s \in [Locks -> LOCK_STATE] /\ s[l] = "pending"
      BY <2>1, <2>4 DEF LOCK_STATE, MoveToParent
    <3>2. CASE state' = s
      BY <3>1, <3>2
    <3>3. ASSUME NEW n, s[n] = "done", Push(s, n) PROVE FALSE
      BY <2>1, <3>1, <3>3, PushGrantsNoPending
    <3> HIDE DEF s
    <3>4. state' = s \/ \E n : s[n] = "done" /\ Push(s, n)
      BY <2>4 DEF MoveToParent, s
    <3> QED BY <3>2, <3>3, <3>4
  <2>5. ASSUME NEW p \in Locks, Timeout(p)
        PROVE  \E k \in Locks : /\ state'[k] = "locked"
                                /\ Clash(k, m)
                                /\ state[k] = "locked" \/ Before(k, m)
    <3> DEFINE s == [state EXCEPT ![p] = "expired"]
    <3>1. s \in [Locks -> LOCK_STATE]
      BY <2>1 DEF LOCK_STATE
    <3>2. ProcessLockQueue(s) /\ state[p] = "locked"
      BY <2>1, <2>5 DEF Timeout
    <3>3. \A k \in Locks : /\ s[k] = "pending" <=> state[k] = "pending"
                           /\ s[k] = "locked" => state[k] = "locked"
      BY <2>1, <3>2
    <3> HIDE DEF s
    <3> QED BY <2>1, <3>1, <3>2, <3>3, ProcessLockQueueInOrder
  <2>6. ASSUME Quit \/ UNCHANGED vars PROVE FALSE
    BY <2>1, <2>6 DEF Quit, vars
  <2> QED BY <1>1, <2>2, <2>3, <2>4, <2>5, <2>6 DEF Next
<1>2. IInv /\ [Next]_vars =>
        [\A l, m \in InState(state, "pending") : Pair(l, m)]_vars
  BY <1>1
<1> QED BY <1>2, Invariance, PTL DEF Spec, QueueOrder

\* After `quit` nothing is granted, and it resolves with no lock left.
THEOREM QuitFinal == Spec => QuitIsFinal
<1> DEFINE Final ==
      quit # "no" =>
        /\ \A l \in Locks : state'[l] = "locked" => state[l] = "locked"
        /\ quit' = "resolved" => Queued(state') = {}
<1>1. ASSUME IInv, [Next]_vars, quit # "no" PROVE Final
  <2>1. IInv' => (quit' = "resolved" => Queued(state') = {})
    BY DEF IInv, ResolvedEmpty, Queued
  <2>2. IInv'
    BY <1>1, NextIInv
  <2>3. \A l \in Locks : state'[l] = "locked" => state[l] = "locked"
    <3> SUFFICES ASSUME NEW l \in Locks, state'[l] = "locked"
                 PROVE  state[l] = "locked"
      OBVIOUS
    <3>1. ASSUME NEW p \in Locks, Lock(p) PROVE FALSE
      BY <1>1, <3>1 DEF Lock
    <3>2. ASSUME NEW p \in Locks, Release(p) PROVE state[l] = "locked"
      BY <1>1, <3>2 DEF Release, ProcessLockQueue, GrantPending,
         RejectPending, IInv, TypeOK
    <3>3. ASSUME NEW p \in Locks, MoveToParent(p) PROVE state[l] = "locked"
      <4> DEFINE s == [state EXCEPT ![p] = "done"]
      <4>1. s \in [Locks -> LOCK_STATE]
        BY <1>1 DEF IInv, TypeOK, LOCK_STATE
      <4>2. PICK m \in Locks : state[m] = "locked" /\ Clash(p, m)
        BY <3>3 DEF MoveToParent, AllowLock, InState
      <4>3. s[m] = "locked"
        BY <1>1, <3>3, <4>2, MoveToParentExpired DEF IInv, TypeOK
      <4>4. CASE state' = s
        BY <1>1, <4>4 DEF IInv, TypeOK
      <4>5. ASSUME NEW n, n \in Locks,
                   n.tid = p.tid /\ n.forWriting = p.forWriting, Push(s, n)
            PROVE  state[l] = "locked"
        <5>1. Clash(n, m)
          BY <4>2, <4>5 DEF Clash
        <5>2. ~ AllowLock(s, n)
          BY <4>2, <4>3, <5>1 DEF AllowLock, InState
        <5>3. state' = [s EXCEPT ![n] = "pending"]
          BY <4>5, <5>2 DEF Push
        <5> QED BY <1>1, <4>1, <5>3 DEF IInv, TypeOK
      <4>6. \A id \in Ids :
              LET n == [p EXCEPT !.priority = TRUE, !.id = id]
              IN  n \in Locks /\ n.tid = p.tid /\ n.forWriting = p.forWriting
        BY DEF Locks
      <4> HIDE DEF s
      <4>7. state' = s \/ \E id \in Ids :
                            Push(s, [p EXCEPT !.priority = TRUE, !.id = id])
        BY <3>3 DEF MoveToParent, s
      <4> QED BY <4>4, <4>5, <4>6, <4>7
    <3>4. ASSUME NEW p \in Locks, Timeout(p) PROVE state[l] = "locked"
      BY <1>1, <3>4 DEF Timeout, ProcessLockQueue, GrantPending,
         RejectPending, IInv, TypeOK
    <3>5. ASSUME Quit \/ UNCHANGED vars PROVE state[l] = "locked"
      BY <3>5 DEF Quit, vars
    <3> QED BY <1>1, <3>1, <3>2, <3>3, <3>4, <3>5 DEF Next
  <2> QED BY <2>1, <2>2, <2>3
<1>2. IInv /\ [Next]_vars => [Final]_vars
  BY <1>1
<1> QED BY <1>2, Invariance, PTL DEF Spec, QuitIsFinal

-----------------------------------------------------------------------------

HoldOf(l) == <<l.tid, IF l.forWriting THEN "write" ELSE "read">>

\* Any step that takes away at most one lock and keeps the granted ones from
\* clashing is one that a readers-writer lock may take.
LEMMA StepOfRWLock ==
    ASSUME Exclusive', NEW l \in Locks,
           \A m \in Locks \ {l} : state[m] = "locked" => state'[m] = "locked"
    PROVE  RW!Next \/ UNCHANGED Held
<1>1. Held' \subseteq RW!Holds
  BY DEF Held, RW!Holds, RW!Modes, InState, Locks
<1>2. RW!Compatible(Held')
  <2> SUFFICES ASSUME NEW g \in Held', NEW h \in Held'
               PROVE  ~ RW!Clash(g, h)
    BY DEF RW!Compatible
  <2>1. PICK k \in Locks : state'[k] = "locked" /\ g = HoldOf(k)
    BY DEF Held, InState, HoldOf
  <2>2. PICK m \in Locks : state'[m] = "locked" /\ h = HoldOf(m)
    BY DEF Held, InState, HoldOf
  <2>3. ~ Clash(k, m)
    BY <2>1, <2>2 DEF Exclusive, InState
  <2> QED BY <2>1, <2>2, <2>3 DEF Clash, RW!Clash, HoldOf, Locks
<1>3. Held \ {HoldOf(l)} \subseteq Held'
  BY DEF Held, HoldOf, InState
<1>4. CASE HoldOf(l) \in Held
  <2>1. Held' = (Held \ {HoldOf(l)}) \cup Held'
    BY <1>3
  <2>2. RW!Return(HoldOf(l))
    BY <1>1, <1>2, <2>1 DEF RW!Return
  <2> QED BY <1>4, <2>2 DEF RW!Next
<1>5. CASE HoldOf(l) \notin Held
  <2>1. Held' = Held \cup Held'
    BY <1>3, <1>5
  <2>2. RW!Grant
    BY <1>1, <1>2, <2>1 DEF RW!Grant
  <2> QED BY <2>2 DEF RW!Next
<1> QED BY <1>4, <1>5

\* NodeLocker implements a readers-writer lock.
THEOREM Refinement == Spec => ImplementsRWLock
<1>1. Init => RW!Init
  BY DEF Init, RW!Init, Held, InState
<1>2. IInv /\ [Next]_vars => [RW!Next]_Held
  <2> SUFFICES ASSUME IInv, [Next]_vars
               PROVE  RW!Next \/ UNCHANGED Held
    OBVIOUS
  <2>1. Exclusive' /\ state \in [Locks -> LOCK_STATE]
    BY NextIInv DEF IInv, TypeOK
  <2>2. CASE UNCHANGED state
    BY <2>2 DEF Held, InState
  <2>3. ASSUME NEW l \in Locks, Lock(l) \/ Release(l) \/ Timeout(l)
        PROVE  \A m \in Locks \ {l} :
                  state[m] = "locked" => state'[m] = "locked"
    <3>1. CASE Lock(l)
      BY <2>1, <3>1 DEF Lock, Push
    <3>2. ASSUME NEW s, ProcessLockQueue(s),
                 \A m \in Locks \ {l} : s[m] = state[m]
          PROVE  \A m \in Locks \ {l} :
                    state[m] = "locked" => state'[m] = "locked"
      BY <3>2 DEF ProcessLockQueue, GrantPending, RejectPending, InState
    <3>3. CASE Release(l)
      <4> DEFINE s == [state EXCEPT ![l] = "done"]
      <4>1. ProcessLockQueue(s) /\ \A m \in Locks \ {l} : s[m] = state[m]
        BY <2>1, <3>3 DEF Release
      <4> HIDE DEF s
      <4> QED BY <3>2, <4>1
    <3>4. CASE Timeout(l)
      <4> DEFINE s == [state EXCEPT ![l] = "expired"]
      <4>1. CASE UNCHANGED state
        BY <4>1
      <4>2. CASE ProcessLockQueue(s)
        <5>1. \A m \in Locks \ {l} : s[m] = state[m]
          BY <2>1
        <5> HIDE DEF s
        <5> QED BY <3>2, <4>2, <5>1
      <4> QED BY <3>4, <4>1, <4>2 DEF Timeout
    <3> QED BY <2>3, <3>1, <3>3, <3>4
  <2>4. ASSUME NEW l \in Locks, MoveToParent(l)
        PROVE  \A m \in Locks \ {l} :
                  state[m] = "locked" => state'[m] = "locked"
    <3> DEFINE s == [state EXCEPT ![l] = "done"]
    <3>1. \A m \in Locks \ {l} : s[m] = state[m]
      BY <2>1
    <3>2. state' = s \/ \E n : s[n] = "done" /\ Push(s, n)
      BY <2>4 DEF MoveToParent
    <3>3. s \in [Locks -> LOCK_STATE]
      BY <2>1 DEF LOCK_STATE
    <3> HIDE DEF s
    <3> QED BY <3>1, <3>2, <3>3 DEF Push
  <2>5. CASE Quit \/ UNCHANGED vars
    BY <2>2, <2>5 DEF Quit, vars
  <2>6. CASE \E l \in Locks : \/ Lock(l) \/ Release(l) \/ Timeout(l)
                              \/ MoveToParent(l)
    BY <2>1, <2>3, <2>4, <2>6, StepOfRWLock
  <2> QED BY <2>5, <2>6 DEF Next
<1> QED BY <1>1, <1>2, Invariance, PTL DEF Spec, ImplementsRWLock, RW!Spec
=============================================================================
