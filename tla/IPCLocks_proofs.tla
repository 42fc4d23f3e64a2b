---------------------------- MODULE IPCLocks_proofs ----------------------------
(***************************************************************************)
(* For any number of workers, transactions and requests under way: locks   *)
(* that are granted across processes are what the NodeLocker of the master *)
(* granted.  The processes together use the NodeLocker as its              *)
(* specification says it is used, so all that is proved of it holds, and   *)
(* every request is at each moment at one of few stages, in which what its *)
(* peer believes, what the master noted, what the NodeLocker has and what  *)
(* is under way between them fit together.                                 *)
(***************************************************************************)
EXTENDS IPCLocks, NodeLock_proofs, FiniteSetTheorems

\* What is under way about a request.
IsFor(m, r) == "lock" \in DOMAIN m /\ m.lock = r
About(r) == {m \in net : IsFor(m, r)}

Crashed(r) == exiting[Owner(r)] = "crashed"
Granted == {"locked", "expired"}

\* The stages of a request, by the phase ph of its peer, the state st of its
\* NodeLock, what the master noted (inf), and the messages about it.
Unused(ph, st, M) ==
    ph = "idle" /\ st = "done" /\ M = {}
AskedFor(r, ph, st, inf, M) ==
    ph = "requested" /\ st = "done" /\ inf = "none" /\ M = {Ask("lock-request", r)}
Waiting(ph, st, inf, M) ==
    /\ st = "pending" /\ M = {}
    /\ \/ ph = "requested" /\ inf = "waiting"
       \/ ph = "moving" /\ inf = "granted"
Told(r, ph, st, inf, M) ==
    /\ ph \in {"requested", "moving"}
    /\ \/ st \in Granted /\ inf = "granted" /\ M = {Result("lock-result", r, TRUE)}
       \/ st = "done" /\ M = {Result("lock-result", r, FALSE)}
Holding(ph, st, inf, M) ==
    ph = "held" /\ st \in Granted /\ inf = "granted" /\ M = {}
Returning(r, ph, st, inf, M) ==
    /\ st \in Granted /\ inf = "granted"
    /\ \/ ph = "releasing" /\ M = {Ask("unlock-request", r)}
       \/ ph = "moving" /\ M = {Ask("move-lock-request", r)}
Returned(r, ph, st, inf, M) ==
    ph = "releasing" /\ st = "done" /\ inf = "none" /\ M = {Result("unlock-result", r, TRUE)}
\* A move has failed, and the lock that is gone is released all the same.
Stale(r, ph, st, M) ==
    /\ ph = "stale" /\ st = "done"
    /\ M \in {{Ask("unlock-request", r)}, {Result("unlock-result", r, FALSE)}, {}}
\* The master did not know the worker (any more) when it had an answer for it.
Unheard(ph, st, inf, M) ==
    /\ ph \in {"requested", "releasing", "moving"} /\ M = {}
    /\ st = "done" \/ (st \in Granted /\ inf = "granted")
\* What a worker that has died leaves behind.
Left(r, ph, st, inf, M) ==
    /\ ph = "idle"
    /\ \/ M = {Ask("lock-request", r)} /\ st = "done" /\ inf = "none"
       \/ /\ M \in {{Ask("unlock-request", r)}, {Ask("move-lock-request", r)}}
          /\ st \in Granted /\ inf = "granted"
       \/ M = {Ask("unlock-request", r)} /\ st = "done"
       \/ M = {} /\ \/ st = "done"
                    \/ st = "pending" /\ inf \in {"waiting", "granted"}
                    \/ st \in Granted /\ inf = "granted"

Story(r, ph, st, inf, M, dead) ==
    \/ dead /\ Remote(r) /\ Left(r, ph, st, inf, M)
    \/ /\ ~ dead
       /\ \/ Unused(ph, st, M)
          \/ Waiting(ph, st, inf, M)
          \/ Holding(ph, st, inf, M)
          \/ /\ Remote(r)
             /\ \/ AskedFor(r, ph, st, inf, M)
                \/ Told(r, ph, st, inf, M)
                \/ Returning(r, ph, st, inf, M)
                \/ Returned(r, ph, st, inf, M)
                \/ Stale(r, ph, st, M)
                \/ Unheard(ph, st, inf, M)

Moved(r) == [r EXCEPT !.priority = TRUE]

\* A request has at most one NodeLock, and is at one of these stages.
OneLock(r) == state[r] = "done" \/ state[Moved(r)] = "done"
AtStage(r) == Story(r, phase[r], state[LockOf(r)], info[r], About(r), Crashed(r))

\* Peers that have exited left nothing behind.
Tidy ==
    /\ quit = "no"
    /\ exiting[Master] # "crashed"
    /\ \A w \in Workers : exiting[w] = "gone" =>
          \A r \in Requests : Owner(r) = w => phase[r] \in {"idle", "stale"}
    /\ exiting[Master] = "gone" => \A r \in Requests : info[r] = "none"

IPCInv ==
    /\ IPCTypeOK
    /\ Tidy
    /\ \A r \in Requests : OneLock(r) /\ AtStage(r)

-----------------------------------------------------------------------------
\* Messages.

LEMMA MessageAbout ==
    ASSUME NEW t, NEW r, NEW q, NEW ok
    PROVE  /\ IsFor(Ask(t, r), q) <=> q = r
           /\ IsFor(Result(t, r, ok), q) <=> q = r
           /\ ~ IsFor(Greeting(t, r), q)
           /\ "ok" \notin DOMAIN Ask(t, r)
           /\ "ok" \in DOMAIN Result(t, r, ok)
           /\ "ok" \notin DOMAIN Greeting(t, r)
BY DEF IsFor, Ask, Result, Greeting

LEMMA MessagesDiffer ==
    ASSUME NEW r, NEW q, NEW t, NEW u, NEW ok, NEW no
    PROVE  /\ Ask(t, r) # Result(u, q, ok)
           /\ Ask(t, r) = Ask(u, q) => t = u /\ r = q
           /\ Result(t, r, ok) = Result(u, q, no) => t = u /\ r = q /\ ok = no
BY DEF Ask, Result

-----------------------------------------------------------------------------
\* Requests and their NodeLocks.

LEMMA LocksOfRequest ==
    ASSUME NEW r \in Requests
    PROVE  /\ r \in Locks /\ Moved(r) \in Locks /\ r # Moved(r)
           /\ RequestOf(r) = r /\ RequestOf(Moved(r)) = r
           /\ r.tid \in Tids /\ Moved(r).tid = r.tid /\ Moved(r).forWriting = r.forWriting
           /\ LockOf(r) \in {r, Moved(r)}
           /\ Owner(r) \in Peers /\ (Remote(r) <=> Owner(r) \in Workers)
<1>1. r \in Locks /\ ~ r.priority
  BY DEF Requests
<1>2. Moved(r) \in Locks /\ Moved(r).priority
  BY <1>1 DEF Locks, Moved
<1>3. RequestOf(r) = r /\ RequestOf(Moved(r)) = r
  BY <1>1 DEF Locks, Moved, RequestOf
<1>4. r.tid \in Tids /\ Moved(r).tid = r.tid /\ Moved(r).forWriting = r.forWriting
  BY <1>1 DEF Locks, Moved
<1>5. Owner(r) \in Peers /\ (Remote(r) <=> Owner(r) \in Workers)
  BY <1>4, PeersAssumption DEF Owner, Peers, Remote
<1> QED
  BY <1>1, <1>2, <1>3, <1>4, <1>5 DEF LockOf, Moved

LEMMA RequestOfLock ==
    ASSUME NEW l \in Locks
    PROVE  RequestOf(l) \in Requests /\ l \in {RequestOf(l), Moved(RequestOf(l))}
<1>1. RequestOf(l) \in Requests
  BY DEF RequestOf, Requests, Locks
<1>2. l.priority => l = Moved(RequestOf(l))
  BY DEF RequestOf, Moved, Locks
<1>3. ~ l.priority => l = RequestOf(l)
  BY DEF RequestOf, Locks
<1> QED
  BY <1>1, <1>2, <1>3 DEF Locks

\* A NodeLock in the queue is the one of its request.
LEMMA QueuedIsLockOf ==
    ASSUME NEW l \in Locks, state[l] # "done", OneLock(RequestOf(l))
    PROVE  LockOf(RequestOf(l)) = l
BY RequestOfLock DEF OneLock, LockOf, Moved

LEMMA GrantedNowMeans ==
    ASSUME NEW q \in Requests
    PROVE  q \in GrantedNow <=> \E l \in {q, Moved(q)} : state'[l] = "locked" /\ state[l] # "locked"
<1>1. ASSUME q \in GrantedNow
      PROVE  \E l \in {q, Moved(q)} : state'[l] = "locked" /\ state[l] # "locked"
  <2>1. PICK l \in Locks : state'[l] = "locked" /\ state[l] # "locked" /\ q = RequestOf(l)
    BY <1>1 DEF GrantedNow, InState
  <2> QED
    BY <2>1, RequestOfLock
<1>2. ASSUME NEW l \in {q, Moved(q)}, state'[l] = "locked", state[l] # "locked"
      PROVE  q \in GrantedNow
  <2>1. l \in Locks /\ RequestOf(l) = q
    BY LocksOfRequest
  <2> QED
    BY <1>2, <2>1 DEF GrantedNow, InState
<1> QED
  BY <1>1, <1>2

-----------------------------------------------------------------------------
\* What the steps of the NodeLocker do to the locks while it is not quitting.

\* Others of the locks are at most granted.
OnlyGrants(l) ==
    \A k \in Locks : k # l => state'[k] = state[k] \/ (state[k] = "pending" /\ state'[k] = "locked")

LEMMA QueueEffect ==
    ASSUME quit = "no", NEW s \in [Locks -> LOCK_STATE], ProcessLockQueue(s)
    PROVE  /\ quit' = "no"
           /\ \A k \in Locks : state'[k] = s[k] \/ (s[k] = "pending" /\ state'[k] = "locked")
BY DEF ProcessLockQueue, GrantPending, RejectPending, InState

LEMMA LockEffect ==
    ASSUME TypeOK, quit = "no", NEW l \in Locks, Lock(l)
    PROVE  /\ quit' = "no" /\ state[l] = "done" /\ state'[l] \in {"pending", "locked"}
           /\ \A k \in Locks : k # l => state'[k] = state[k]
BY DEF TypeOK, Lock, Push

LEMMA ReleaseEffect ==
    ASSUME TypeOK, quit = "no", NEW l \in Locks, Release(l)
    PROVE  quit' = "no" /\ state[l] \in Granted /\ state'[l] = "done" /\ OnlyGrants(l)
<1> DEFINE s == [state EXCEPT ![l] = "done"]
<1>1. s \in [Locks -> LOCK_STATE] /\ s[l] = "done" /\ \A k \in Locks : k # l => s[k] = state[k]
  BY DEF TypeOK, LOCK_STATE
<1>2. state[l] \in Granted /\ ProcessLockQueue(s)
  BY DEF Release, Granted
<1> HIDE DEF s
<1>3. /\ quit' = "no"
      /\ \A k \in Locks : state'[k] = s[k] \/ (s[k] = "pending" /\ state'[k] = "locked")
  BY <1>1, <1>2, QueueEffect
<1> QED
  BY <1>1, <1>2, <1>3 DEF OnlyGrants

LEMMA TimeoutEffect ==
    ASSUME TypeOK, quit = "no", NEW l \in Locks, Timeout(l)
    PROVE  quit' = "no" /\ state[l] = "locked" /\ state'[l] \in Granted /\ OnlyGrants(l)
<1>1. CASE timeoutCount[l] < MaxWarnings
  BY <1>1 DEF Timeout, Granted, OnlyGrants
<1>2. CASE ~ (timeoutCount[l] < MaxWarnings)
  <2> DEFINE s == [state EXCEPT ![l] = "expired"]
  <2>1. s \in [Locks -> LOCK_STATE] /\ s[l] = "expired" /\ \A k \in Locks : k # l => s[k] = state[k]
    BY DEF TypeOK, LOCK_STATE
  <2>2. state[l] = "locked" /\ ProcessLockQueue(s)
    BY <1>2 DEF Timeout
  <2> HIDE DEF s
  <2>3. /\ quit' = "no"
        /\ \A k \in Locks : state'[k] = s[k] \/ (s[k] = "pending" /\ state'[k] = "locked")
    BY <2>1, <2>2, QueueEffect
  <2> QED
    BY <2>1, <2>2, <2>3 DEF OnlyGrants, Granted
<1> QED
  BY <1>1, <1>2

LEMMA MovedTo ==
    ASSUME NEW l \in Locks, NEW id \in Ids
    PROVE  [l EXCEPT !.priority = TRUE, !.id = id] =
             [tid |-> l.tid, forWriting |-> l.forWriting, priority |-> TRUE, id |-> id]
<1> DEFINE n == [l EXCEPT !.priority = TRUE, !.id = id]
<1>1. n \in Locks
  BY DEF Locks
<1>2. n.tid = l.tid /\ n.forWriting = l.forWriting /\ (n.priority <=> TRUE) /\ n.id = id
  BY DEF Locks
<1> HIDE DEF n
<1>3. n = [tid |-> n.tid, forWriting |-> n.forWriting, priority |-> n.priority, id |-> n.id]
  BY <1>1 DEF Locks
<1>4. n.priority = TRUE
  BY <1>1, <1>2 DEF Locks
<1>5. n = [tid |-> l.tid, forWriting |-> l.forWriting, priority |-> TRUE, id |-> id]
  BY <1>2, <1>3, <1>4
<1> QED
  BY <1>5 DEF n

\* A lock that moves through the queue has to wait: what it clashed with
\* before is still granted.
LEMMA MoveEffect ==
    ASSUME TypeOK, quit = "no", NEW r \in Requests, OneLock(r), MoveLock(r)
    PROVE  /\ quit' = "no" /\ state[LockOf(r)] \in Granted
           /\ \/ state'[r] = "done" /\ state'[Moved(r)] = "done"
              \/ state'[r] = "done" /\ state'[Moved(r)] = "pending"
           /\ \A k \in Locks : k \notin {r, Moved(r)} => state'[k] = state[k]
<1> DEFINE l == LockOf(r)
           s == [state EXCEPT ![l] = "done"]
<1>1. /\ r \in Locks /\ Moved(r) \in Locks /\ r # Moved(r) /\ l \in {r, Moved(r)}
      /\ Moved(r).tid = r.tid /\ Moved(r).forWriting = r.forWriting
  BY LocksOfRequest
<1>2. /\ s \in [Locks -> LOCK_STATE] /\ s[r] = "done" /\ s[Moved(r)] = "done"
      /\ \A k \in Locks : k \notin {r, Moved(r)} => s[k] = state[k]
      /\ \A k \in Locks : k # l => s[k] = state[k]
  <2>1. state \in [Locks -> LOCK_STATE] /\ l \in Locks
    BY <1>1 DEF TypeOK
  <2>2. s[l] = "done" /\ \A k \in Locks : k # l => s[k] = state[k]
    BY <2>1
  <2>3. s \in [Locks -> LOCK_STATE]
    BY <2>1 DEF LOCK_STATE
  <2>4. state[r] # "done" => l = r /\ state[Moved(r)] = "done"
    BY DEF OneLock, LockOf
  <2>5. state[r] = "done" => l = Moved(r)
    BY DEF LockOf, Moved
  <2> HIDE DEF s, l
  <2> QED
    BY <1>1, <2>2, <2>3, <2>4, <2>5
<1>3. state[l] \in Granted /\ ~ AllowLock(state, l)
  BY DEF MoveLock, MoveToParent, Granted
<1>4. CASE state' = s /\ quit' = quit
  BY <1>2, <1>3, <1>4
<1>5. CASE \E id \in Ids : LET n == [l EXCEPT !.priority = TRUE, !.id = id]
                           IN  s[n] = "done" /\ Push(s, n)
  <2>1. PICK id \in Ids : /\ s[[l EXCEPT !.priority = TRUE, !.id = id]] = "done"
                          /\ Push(s, [l EXCEPT !.priority = TRUE, !.id = id])
    BY <1>5
  <2>2. [l EXCEPT !.priority = TRUE, !.id = id] = Moved(r)
    <3>1. r.id \in Ids /\ r = [tid |-> r.tid, forWriting |-> r.forWriting, priority |-> r.priority, id |-> r.id]
      BY <1>1 DEF Locks
    <3> DEFINE n == [l EXCEPT !.priority = TRUE, !.id = id]
    <3>2. /\ n \in Locks /\ n.priority /\ n.id = id
          /\ n = [tid |-> r.tid, forWriting |-> r.forWriting, priority |-> TRUE, id |-> id]
      <4>1. l \in Locks /\ l.tid = r.tid /\ l.forWriting = r.forWriting
        BY <1>1
      <4> HIDE DEF l
      <4>2. n = [tid |-> l.tid, forWriting |-> l.forWriting, priority |-> TRUE, id |-> id]
        BY <4>1, MovedTo
      <4> QED
        BY <3>1, <4>1, <4>2 DEF Locks
    <3>3. n \in {r, Moved(r)}
      <4>1. s[n] = "done" /\ state' = [s EXCEPT ![n] = IF AllowLock(s, n) THEN "locked" ELSE "pending"]
        BY <2>1 DEF Push
      <4> HIDE DEF n, s
      <4>2. state'[n] # "done"
        BY <1>2, <3>2, <4>1
      <4>3. CASE n \notin {r, Moved(r)}
        <5>1. state[n] = "done" /\ RequestOf(n) # r
          BY <1>2, <3>2, <4>1, <4>3, RequestOfLock
        <5> QED
          BY <3>2, <4>2, <5>1 DEF MoveLock
      <4> QED
        BY <4>3
    <3> QED
      BY <1>1, <3>1, <3>2, <3>3 DEF Moved, Requests
  <2>3. ~ AllowLock(s, Moved(r))
    <3>1. PICK m \in Locks : state[m] = "locked" /\ Clash(l, m)
      BY <1>3 DEF AllowLock, InState
    <3>2. m # l /\ Clash(Moved(r), m)
      BY <1>1, <3>1 DEF Clash
    <3> QED
      BY <1>2, <3>1, <3>2 DEF AllowLock, InState
  <2>4. state' = [s EXCEPT ![Moved(r)] = "pending"] /\ quit' = quit
    BY <2>1, <2>2, <2>3 DEF Push
  <2> HIDE DEF s, l
  <2> QED
    BY <1>1, <1>2, <1>3, <2>4 DEF l
<1> QED
  BY <1>4, <1>5 DEF MoveLock, MoveToParent

-----------------------------------------------------------------------------
\* The end of every handler of the master.

PHASES == {"idle", "requested", "held", "releasing", "moving", "stale"}
INFOS == {"none", "waiting", "granted"}
Messages ==
    [type : {"hello", "bye"}, from : Workers] \cup
    [type : {"lock-request", "unlock-request", "move-lock-request"}, lock : Requests] \cup
    [type : {"lock-result", "unlock-result"}, lock : Requests, ok : BOOLEAN]

\* What is sent about a request: to a peer that is known and lives.
Reaches(r) == Owner(r) \in peers /\ ~ Crashed(r)
Sent(r, M) == IF Reaches(r) THEN M ELSE {}

OnlyAbout(r, M) == \A m \in M : \E t, ok : m = Ask(t, r) \/ m = Result(t, r, ok)

\* What becomes of a request q when the master is done with r.
AfterMaster(q, r, ph, inf, handled, answers) ==
    /\ phase'[q] = IF q \in GrantedNow /\ ~ Remote(q) THEN "held"
                   ELSE IF q = r THEN ph ELSE phase[q]
    /\ info'[q] = IF q \in GrantedNow THEN "granted" ELSE IF q = r THEN inf ELSE info[q]
    /\ Crashed(q)' <=> Crashed(q)
    /\ About(q)' = (About(q) \ (IF q = r THEN handled ELSE {}))
                     \cup Sent(q, IF q = r THEN answers ELSE {})
                     \cup Sent(q, IF q \in GrantedNow /\ Remote(q)
                                  THEN {Result("lock-result", q, TRUE)} ELSE {})

LEMMA MasterDoneEffect ==
    ASSUME IPCInv, NEW r \in Requests, NEW ph, NEW inf, NEW handled, NEW answers,
           MasterDone(r, ph, inf, handled, answers),
           OnlyAbout(r, handled), OnlyAbout(r, answers),
           NEW q \in Requests
    PROVE  AfterMaster(q, r, ph, inf, handled, answers)
<1>1. /\ phase'[q] = IF q \in GrantedNow /\ ~ Remote(q) THEN "held"
                     ELSE IF q = r THEN ph ELSE phase[q]
      /\ info'[q] = IF q \in GrantedNow THEN "granted" ELSE IF q = r THEN inf ELSE info[q]
  BY DEF MasterDone
<1>2. Crashed(q)' <=> Crashed(q)
  <2>1. /\ exiting \in [Peers -> {"no", "waiting", "gone", "crashed"}] /\ Master \in Peers
        /\ Owner(q) \in Peers /\ exiting[Master] # "crashed"
    BY LocksOfRequest DEF IPCInv, IPCTypeOK, Tidy, Peers
  <2>2. exiting' = exiting \/ exiting' = [exiting EXCEPT ![Master] = "gone"]
    BY <2>1 DEF MasterDone
  <2> QED
    BY <2>1, <2>2 DEF Crashed, Owner
<1> DEFINE told == {Result("lock-result", g, TRUE) : g \in {x \in GrantedNow : Remote(x)}}
<1>3. net' = (net \ handled) \cup {m \in answers \cup told : Owner(m.lock) \in peers
                                                            /\ exiting[Owner(m.lock)] # "crashed"}
  BY DEF MasterDone, Replies
<1>4. ASSUME NEW m
      PROVE  m \in About(q)' <=> \/ m \in About(q) /\ ~ (q = r /\ m \in handled)
                                 \/ q = r /\ m \in answers /\ Reaches(q)
                                 \/ q \in GrantedNow /\ Remote(q) /\ Reaches(q) /\ m = Result("lock-result", q, TRUE)
  <2>1. m \in About(q)' <=> m \in net' /\ IsFor(m, q)
    BY DEF About, IsFor
  <2>2. m \in handled \cup answers => (IsFor(m, q) <=> q = r) /\ m.lock = r
    <3>1. \A t, ok : Ask(t, r).lock = r /\ Result(t, r, ok).lock = r
      BY DEF Ask, Result
    <3> QED
      BY <3>1, MessageAbout DEF OnlyAbout
  <2>3. m \in told /\ IsFor(m, q) <=> q \in GrantedNow /\ Remote(q) /\ m = Result("lock-result", q, TRUE)
    <3>1. ASSUME m \in told, IsFor(m, q)
          PROVE  q \in GrantedNow /\ Remote(q) /\ m = Result("lock-result", q, TRUE)
      <4>1. PICK g \in GrantedNow : Remote(g) /\ m = Result("lock-result", g, TRUE)
        BY <3>1
      <4>2. g = q
        BY <3>1, <4>1, MessageAbout
      <4> QED
        BY <4>1, <4>2
    <3>2. ASSUME q \in GrantedNow, Remote(q), m = Result("lock-result", q, TRUE)
          PROVE  m \in told /\ IsFor(m, q)
      BY <3>2, MessageAbout
    <3> QED
      BY <3>1, <3>2
  <2>4. Result("lock-result", q, TRUE).lock = q
    BY DEF Result
  <2> HIDE DEF told
  <2> QED
    BY <1>3, <2>1, <2>2, <2>3, <2>4 DEF About, Reaches, Crashed
<1>5. About(q)' = (About(q) \ (IF q = r THEN handled ELSE {}))
                    \cup Sent(q, IF q = r THEN answers ELSE {})
                    \cup Sent(q, IF q \in GrantedNow /\ Remote(q)
                                 THEN {Result("lock-result", q, TRUE)} ELSE {})
  <2>1. ASSUME NEW m
        PROVE  m \in About(q)' <=> \/ m \in About(q) \ (IF q = r THEN handled ELSE {})
                                   \/ m \in Sent(q, IF q = r THEN answers ELSE {})
                                   \/ m \in Sent(q, IF q \in GrantedNow /\ Remote(q)
                                                     THEN {Result("lock-result", q, TRUE)} ELSE {})
    BY <1>4 DEF Sent
  <2> QED
    BY <2>1
<1> QED
  BY <1>1, <1>2, <1>5 DEF AfterMaster

\* A request whose lock is at most granted goes from waiting to the next stage.
LEMMA OthersKeepStage ==
    ASSUME IPCInv, NEW r \in Requests, NEW ph, NEW inf, NEW handled, NEW answers,
           MasterDone(r, ph, inf, handled, answers),
           OnlyAbout(r, handled), OnlyAbout(r, answers),
           \A k \in Locks : k \notin {r, Moved(r)} =>
             state'[k] = state[k] \/ (state[k] = "pending" /\ state'[k] = "locked"),
           NEW q \in Requests, q # r
    PROVE  OneLock(q)' /\ AtStage(q)'
<1>1. /\ q \in Locks /\ Moved(q) \in Locks /\ q # Moved(q) /\ LockOf(q) \in {q, Moved(q)}
      /\ {q, Moved(q)} \intersect {r, Moved(r)} = {}
  BY LocksOfRequest
<1>2. \A k \in {q, Moved(q)} : state'[k] = state[k] \/ (state[k] = "pending" /\ state'[k] = "locked")
  BY <1>1
<1>3. OneLock(q)' /\ LockOf(q)' = LockOf(q)
  BY <1>1, <1>2 DEF IPCInv, OneLock, LockOf, Moved
<1> DEFINE st == state[LockOf(q)]
           nx == state'[LockOf(q)]
<1>4. nx = st \/ (st = "pending" /\ nx = "locked")
  BY <1>1, <1>2
<1>5. q \in GrantedNow <=> nx = "locked" /\ st # "locked"
  <2>1. \A k \in {q, Moved(q)} : k # LockOf(q) => state[k] = "done" /\ state'[k] = "done"
    BY <1>1, <1>2 DEF IPCInv, OneLock, LockOf, Moved
  <2> QED
    BY <1>1, <2>1, GrantedNowMeans
<1>6. /\ phase'[q] = IF q \in GrantedNow /\ ~ Remote(q) THEN "held" ELSE phase[q]
      /\ info'[q] = IF q \in GrantedNow THEN "granted" ELSE info[q]
      /\ Crashed(q)' <=> Crashed(q)
      /\ About(q)' = About(q) \cup Sent(q, IF q \in GrantedNow /\ Remote(q)
                                           THEN {Result("lock-result", q, TRUE)} ELSE {})
  <2>1. AfterMaster(q, r, ph, inf, handled, answers)
    BY MasterDoneEffect
  <2>2. Sent(q, {}) = {}
    BY DEF Sent
  <2> QED
    BY <2>1, <2>2 DEF AfterMaster
<1>7. AtStage(q) /\ (AtStage(q)' <=> Story(q, phase'[q], nx, info'[q], About(q)', Crashed(q)'))
  BY <1>3 DEF IPCInv, AtStage, Story, Left, Remote, Owner
<1> HIDE DEF st, nx
<1>8. CASE q \notin GrantedNow
  <2>1. nx = st
    BY <1>4, <1>5, <1>8
  <2>2. phase'[q] = phase[q] /\ info'[q] = info[q] /\ About(q)' = About(q)
    BY <1>6, <1>8 DEF Sent
  <2> QED
    BY <1>3, <1>6, <1>7, <2>1, <2>2 DEF AtStage, st, Story
<1>9. CASE q \in GrantedNow
  <2>1. st = "pending" /\ nx = "locked"
    BY <1>4, <1>5, <1>9
  <2>2. /\ Story(q, phase[q], "pending", info[q], About(q), Crashed(q))
        /\ About(q) = {} /\ phase[q] \in {"requested", "moving", "idle"}
        /\ (Crashed(q) => Remote(q) /\ phase[q] = "idle") /\ (~ Crashed(q) => phase[q] \in {"requested", "moving"})
    <3>1. Story(q, phase[q], "pending", info[q], About(q), Crashed(q))
      BY <1>7, <2>1 DEF AtStage, st
    <3> QED
      BY <3>1 DEF Story, Unused, AskedFor, Waiting, Told, Holding, Returning, Returned, Stale, Unheard, Left, Granted
  <2>3. CASE ~ Remote(q)
    BY <1>3, <1>6, <1>7, <1>9, <2>1, <2>2, <2>3 DEF Sent, Story, Holding, Granted
  <2>4. CASE Remote(q) /\ ~ Crashed(q)
    BY <1>3, <1>6, <1>7, <1>9, <2>1, <2>2, <2>4 DEF Sent, Story, Told, Unheard, Granted
  <2>5. CASE Remote(q) /\ Crashed(q)
    BY <1>3, <1>6, <1>7, <1>9, <2>1, <2>2, <2>5 DEF Sent, Reaches, Story, Left, Granted
  <2> QED
    BY <2>3, <2>4, <2>5
<1> QED
  BY <1>8, <1>9

LEMMA MasterKeepsInv ==
    ASSUME IPCInv, TypeOK', quit' = "no", NEW r \in Requests,
           NEW ph \in PHASES, NEW inf \in INFOS, NEW handled, NEW answers,
           MasterDone(r, ph, inf, handled, answers),
           OnlyAbout(r, handled), OnlyAbout(r, answers), answers \subseteq Messages,
           Remote(r) => ph = phase[r], exiting[Master] # "gone",
           \A k \in Locks : k \notin {r, Moved(r)} =>
             state'[k] = state[k] \/ (state[k] = "pending" /\ state'[k] = "locked"),
           OneLock(r)', AtStage(r)'
    PROVE  IPCInv'
<1>1. IPCTypeOK'
  <2>1. phase' \in [Requests -> PHASES] /\ info' \in [Requests -> INFOS]
    <3>1. phase \in [Requests -> PHASES] /\ info \in [Requests -> INFOS]
      BY DEF IPCInv, IPCTypeOK, PHASES, INFOS
    <3> QED
      BY <3>1 DEF MasterDone, PHASES, INFOS
  <2>2. net' \subseteq Messages
    <3>1. net \subseteq Messages
      BY DEF IPCInv, IPCTypeOK, Messages
    <3>2. \A g \in GrantedNow : Result("lock-result", g, TRUE) \in Messages
      <4>1. GrantedNow \subseteq Requests
        BY RequestOfLock DEF GrantedNow, InState
      <4> QED
        BY <4>1 DEF Result, Messages
    <3> DEFINE told == {Result("lock-result", q, TRUE) : q \in {g \in GrantedNow : Remote(g)}}
    <3>3. told \subseteq Messages
      BY <3>2
    <3>4. net' \subseteq net \cup answers \cup told
      BY DEF MasterDone, Replies
    <3> HIDE DEF told
    <3> QED
      BY <3>1, <3>3, <3>4
  <2>3. peers' = peers /\ exiting' \in [Peers -> {"no", "waiting", "gone", "crashed"}]
    <3>1. exiting \in [Peers -> {"no", "waiting", "gone", "crashed"}]
      BY DEF IPCInv, IPCTypeOK
    <3> QED
      BY <3>1 DEF MasterDone
  <2> QED
    BY <2>1, <2>2, <2>3 DEF IPCInv, IPCTypeOK, PHASES, INFOS, Messages
<1>2. Tidy'
  <2>1. exiting \in [Peers -> {"no", "waiting", "gone", "crashed"}] /\ Master \in Peers /\ Master \notin Workers
    BY PeersAssumption DEF IPCInv, IPCTypeOK, Peers
  <2>2. /\ \A w \in Workers : exiting'[w] = exiting[w]
        /\ exiting'[Master] # "crashed"
        /\ exiting'[Master] = "gone" => \A q \in Requests : info'[q] = "none"
    BY <2>1 DEF IPCInv, Tidy, MasterDone, Peers
  <2>3. ASSUME NEW w \in Workers, exiting'[w] = "gone", NEW q \in Requests, Owner(q) = w
        PROVE  phase'[q] \in {"idle", "stale"}
    <3>1. phase[q] \in {"idle", "stale"} /\ Remote(q)
      BY <2>1, <2>2, <2>3 DEF IPCInv, Tidy, Remote
    <3> QED
      BY <3>1 DEF MasterDone
  <2> QED
    BY <2>2, <2>3 DEF Tidy, Owner
<1>3. ASSUME NEW q \in Requests
      PROVE  OneLock(q)' /\ AtStage(q)'
  <2>1. CASE q = r
    BY <2>1
  <2>2. CASE q # r
    BY <2>2, OthersKeepStage
  <2> QED
    BY <2>1, <2>2
<1> QED
  BY <1>1, <1>2, <1>3 DEF IPCInv

\* What the NodeLocker did to the lock of the request itself, which was l.
IsNow(r, l, nx) ==
    /\ l \in {r, Moved(r)} /\ state'[l] = nx
    /\ \A k \in {r, Moved(r)} : k # l => state'[k] = "done"
    /\ nx = "done" => state'[r] = "done"

OwnAfter(r, was, nx, ph, inf, answers) ==
    /\ OneLock(r)' /\ state'[LockOf(r)'] = nx
    /\ r \in GrantedNow <=> nx = "locked" /\ was # "locked"
    /\ phase'[r] = IF r \in GrantedNow /\ ~ Remote(r) THEN "held" ELSE ph
    /\ info'[r] = IF r \in GrantedNow THEN "granted" ELSE inf
    /\ Crashed(r)' <=> Crashed(r)
    /\ About(r)' = Sent(r, answers) \cup Sent(r, IF r \in GrantedNow /\ Remote(r)
                                                THEN {Result("lock-result", r, TRUE)} ELSE {})
    /\ AtStage(r)' <=> Story(r, phase'[r], nx, info'[r], About(r)', Crashed(r)')

LEMMA OwnStage ==
    ASSUME IPCInv, NEW r \in Requests, NEW ph, NEW inf, NEW handled, NEW answers,
           MasterDone(r, ph, inf, handled, answers),
           OnlyAbout(r, handled), OnlyAbout(r, answers), handled = About(r),
           NEW l, NEW nx, IsNow(r, l, nx)
    PROVE  OwnAfter(r, state[l], nx, ph, inf, answers)
<1>1. r # Moved(r)
  BY LocksOfRequest
<1>2. OneLock(r)' /\ state'[LockOf(r)'] = nx
  BY <1>1 DEF OneLock, LockOf, Moved, IsNow
<1>3. r \in GrantedNow <=> nx = "locked" /\ state[l] # "locked"
  BY <1>1, GrantedNowMeans DEF IsNow
<1>4. /\ phase'[r] = IF r \in GrantedNow /\ ~ Remote(r) THEN "held" ELSE ph
      /\ info'[r] = IF r \in GrantedNow THEN "granted" ELSE inf
      /\ Crashed(r)' <=> Crashed(r)
      /\ About(r)' = Sent(r, answers) \cup Sent(r, IF r \in GrantedNow /\ Remote(r)
                                                  THEN {Result("lock-result", r, TRUE)} ELSE {})
  <2>1. AfterMaster(r, r, ph, inf, handled, answers)
    BY MasterDoneEffect
  <2> QED
    BY <2>1 DEF AfterMaster
<1>5. AtStage(r)' <=> Story(r, phase'[r], nx, info'[r], About(r)', Crashed(r)')
  BY <1>2 DEF AtStage, Story, Left, Remote, Owner
<1> QED
  BY <1>2, <1>3, <1>4, <1>5 DEF OwnAfter

-----------------------------------------------------------------------------
\* At which stage a request is, told by a message or by its phase.

LEMMA Stages ==
    ASSUME IPCInv, NEW r \in Requests
    PROVE  /\ Story(r, phase[r], state[LockOf(r)], info[r], About(r), Crashed(r))
           /\ ~ Remote(r) => ~ Crashed(r) /\ About(r) = {}
           /\ state[LockOf(r)] = "done" => state[r] = "done" /\ state[Moved(r)] = "done"
           /\ \A k \in {r, Moved(r)} : k # LockOf(r) => state[k] = "done"
<1>1. Story(r, phase[r], state[LockOf(r)], info[r], About(r), Crashed(r))
  BY DEF IPCInv, AtStage
<1>2. ~ Remote(r) => ~ Crashed(r)
  BY DEF IPCInv, Tidy, Remote, Crashed
<1>3. ~ Remote(r) => About(r) = {}
  BY <1>1 DEF Story, Unused, Waiting, Holding
<1>4. OneLock(r)
  BY DEF IPCInv
<1> QED
  BY <1>1, <1>2, <1>3, <1>4 DEF OneLock, LockOf, Moved

LEMMA StageOfAsk ==
    ASSUME IPCInv, NEW r \in Requests, NEW t, Ask(t, r) \in net
    PROVE  /\ Remote(r) /\ About(r) = {Ask(t, r)}
           /\ t = "lock-request" => /\ state[LockOf(r)] = "done" /\ info[r] = "none"
                                    /\ phase[r] = IF Crashed(r) THEN "idle" ELSE "requested"
           /\ t = "unlock-request" =>
                 \/ /\ state[LockOf(r)] \in Granted /\ info[r] = "granted"
                    /\ phase[r] = IF Crashed(r) THEN "idle" ELSE "releasing"
                 \/ /\ state[LockOf(r)] = "done"
                    /\ phase[r] = IF Crashed(r) THEN "idle" ELSE "stale"
           /\ t = "move-lock-request" => /\ state[LockOf(r)] \in Granted /\ info[r] = "granted"
                                         /\ phase[r] = IF Crashed(r) THEN "idle" ELSE "moving"
<1>1. Ask(t, r) \in About(r)
  BY MessageAbout DEF About
<1>2. Story(r, phase[r], state[LockOf(r)], info[r], About(r), Crashed(r))
  BY Stages
<1>3. About(r) # {} /\ \A u, ok : About(r) # {Result(u, r, ok)}
  <2>1. \A u, ok : Ask(t, r) # Result(u, r, ok)
    BY MessagesDiffer
  <2> QED
    BY <1>1, <2>1
<1>4. \A u : About(r) = {Ask(u, r)} => t = u
  <2>1. \A u : Ask(t, r) = Ask(u, r) => t = u
    BY MessagesDiffer
  <2> QED
    BY <1>1, <2>1
<1>5. CASE Crashed(r)
  <2>1. Remote(r) /\ Left(r, phase[r], state[LockOf(r)], info[r], About(r))
    BY <1>2, <1>5 DEF Story
  <2> QED
    BY <1>3, <1>4, <1>5, <2>1 DEF Left
<1>6. CASE ~ Crashed(r)
  <2>1. Remote(r) /\ \/ AskedFor(r, phase[r], state[LockOf(r)], info[r], About(r))
                     \/ Returning(r, phase[r], state[LockOf(r)], info[r], About(r))
                     \/ Stale(r, phase[r], state[LockOf(r)], About(r))
    BY <1>2, <1>3, <1>6 DEF Story, Unused, Waiting, Holding, Told, Returned, Unheard
  <2> QED
    BY <1>3, <1>4, <1>6, <2>1 DEF AskedFor, Returning, Stale
<1> QED
  BY <1>5, <1>6

LEMMA StageOfResult ==
    ASSUME IPCInv, NEW r \in Requests, NEW t, NEW ok, Result(t, r, ok) \in net
    PROVE  /\ Remote(r) /\ ~ Crashed(r) /\ About(r) = {Result(t, r, ok)}
           /\ \/ /\ t = "lock-result" /\ phase[r] \in {"requested", "moving"}
                 /\ \/ ok = TRUE /\ state[LockOf(r)] \in Granted /\ info[r] = "granted"
                    \/ ok = FALSE /\ state[LockOf(r)] = "done"
              \/ /\ t = "unlock-result" /\ ok = TRUE /\ phase[r] = "releasing"
                 /\ state[LockOf(r)] = "done" /\ info[r] = "none"
              \/ /\ t = "unlock-result" /\ ok = FALSE /\ phase[r] = "stale"
                 /\ state[LockOf(r)] = "done"
<1>1. Result(t, r, ok) \in About(r)
  BY MessageAbout DEF About
<1>2. Story(r, phase[r], state[LockOf(r)], info[r], About(r), Crashed(r))
  BY Stages
<1>3. About(r) # {} /\ \A u : About(r) # {Ask(u, r)}
  <2>1. \A u : Result(t, r, ok) # Ask(u, r)
    BY MessagesDiffer
  <2> QED
    BY <1>1, <2>1
<1>4. \A u, no : About(r) = {Result(u, r, no)} => t = u /\ ok = no
  <2>1. \A u, no : Result(t, r, ok) = Result(u, r, no) => t = u /\ ok = no
    BY MessagesDiffer
  <2> QED
    BY <1>1, <2>1
<1>5. ~ Crashed(r)
  BY <1>2, <1>3 DEF Story, Left
<1>6. Remote(r) /\ \/ Told(r, phase[r], state[LockOf(r)], info[r], About(r))
                   \/ Returned(r, phase[r], state[LockOf(r)], info[r], About(r))
                   \/ Stale(r, phase[r], state[LockOf(r)], About(r))
  BY <1>2, <1>3, <1>5 DEF Story, Unused, Waiting, Holding, AskedFor, Returning, Unheard
<1>7. About(r) = {Result(t, r, ok)}
  BY <1>1, <1>3, <1>6 DEF Told, Returned, Stale
<1> QED
  BY <1>3, <1>4, <1>5, <1>6, <1>7 DEF Told, Returned, Stale

LEMMA StageOfPhase ==
    ASSUME IPCInv, NEW r \in Requests
    PROVE  /\ phase[r] = "held" =>
                ~ Crashed(r) /\ state[LockOf(r)] \in Granted /\ info[r] = "granted" /\ About(r) = {}
           /\ phase[r] = "idle" /\ ~ Crashed(r) => state[LockOf(r)] = "done" /\ About(r) = {}
           /\ phase[r] = "stale" => state[LockOf(r)] = "done"
           /\ Crashed(r) => phase[r] = "idle" /\ Remote(r)
           /\ state[LockOf(r)] # "done" => info[r] # "none"
           /\ state[LockOf(r)] \in Granted => info[r] = "granted"
<1>1. Story(r, phase[r], state[LockOf(r)], info[r], About(r), Crashed(r))
  BY Stages
<1> QED
  BY <1>1 DEF Story, Unused, AskedFor, Waiting, Told, Holding, Returning, Returned, Stale, Unheard, Left, Granted

-----------------------------------------------------------------------------
\* The handlers of the master.

LEMMA Answers ==
    ASSUME NEW r \in Requests, NEW t \in {"lock-result", "unlock-result"}, NEW ok \in BOOLEAN
    PROVE  OnlyAbout(r, Answer(t, r, ok)) /\ Answer(t, r, ok) \subseteq Messages
<1>1. Result(t, r, ok) \in Messages
  BY DEF Result, Messages
<1> QED
  BY <1>1 DEF Answer, OnlyAbout

LEMMA NoAnswers ==
    ASSUME NEW r
    PROVE  OnlyAbout(r, {}) /\ {} \subseteq Messages /\ Sent(r, {}) = {}
BY DEF OnlyAbout, Sent

\* The phase that a request of a worker has while the master handles it.
At(r, ph) == IF Crashed(r) THEN "idle" ELSE ph

LEMMA MasterLockKeepsInv ==
    ASSUME IPCInv, TypeOK', NEW r \in Requests, NEW handled, MasterLock(r, handled),
           exiting[Master] # "gone", OnlyAbout(r, handled), handled = About(r),
           state[LockOf(r)] = "done", info[r] = "none",
           phase[r] = IF Remote(r) THEN At(r, "requested") ELSE "idle"
    PROVE  IPCInv'
<1>1. /\ quit = "no" /\ TypeOK /\ state[r] = "done" /\ state[Moved(r)] = "done"
      /\ phase[r] \in PHASES /\ info[r] \in INFOS /\ (~ Remote(r) => ~ Crashed(r) /\ About(r) = {})
      /\ r \in Locks /\ r # Moved(r) /\ Moved(r) \in Locks
  BY Stages, LocksOfRequest DEF IPCInv, IPCTypeOK, Tidy, PHASES, INFOS
<1>2. ASSUME NEW inf \in {"none", "waiting"}, LockerIdle,
             MasterDone(r, Local(r, "idle"), inf, handled, Answer("lock-result", r, FALSE))
      PROVE  IPCInv'
  <2> DEFINE ph == Local(r, "idle")
             answers == Answer("lock-result", r, FALSE)
  <2>1. /\ OnlyAbout(r, answers) /\ answers \subseteq Messages /\ quit' = "no" /\ state' = state
        /\ ph \in PHASES /\ inf \in INFOS /\ (Remote(r) => ph = phase[r])
    BY <1>1, <1>2, Answers DEF LockerIdle, Local, PHASES, INFOS
  <2> HIDE DEF ph, answers
  <2>2. OwnAfter(r, "done", "done", ph, inf, answers)
    <3>1. IsNow(r, r, "done") /\ state[r] = "done" /\ MasterDone(r, ph, inf, handled, answers)
      BY <1>1, <1>2, <2>1 DEF ph, answers, IsNow
    <3> QED
      BY <2>1, <3>1, OwnStage
  <2>3. AtStage(r)'
    BY <1>1, <2>2 DEF OwnAfter, Story, Unused, Told, Stale, Unheard, Left, Granted, Sent, Reaches, At, ph, answers, Answer, Local
  <2>4. MasterDone(r, ph, inf, handled, answers)
    BY <1>2 DEF ph, answers
  <2> QED
    BY <2>1, <2>2, <2>3, <2>4, MasterKeepsInv DEF OwnAfter
<1>3. CASE Lock(r) /\ MasterDone(r, Local(r, "requested"), "waiting", handled, {})
  <2> DEFINE ph == Local(r, "requested")
  <2>1. /\ quit' = "no" /\ state'[r] \in {"pending", "locked"}
        /\ \A k \in Locks : k # r => state'[k] = state[k]
    BY <1>1, <1>3, LockEffect
  <2>2. ph \in PHASES /\ "waiting" \in INFOS /\ (Remote(r) => ph = phase[r])
    BY <1>1 DEF Local, PHASES, INFOS
  <2>3. MasterDone(r, ph, "waiting", handled, {})
    BY <1>3
  <2> HIDE DEF ph
  <2>4. OwnAfter(r, "done", state'[r], ph, "waiting", {})
    <3>1. IsNow(r, r, state'[r]) /\ state[r] = "done"
      BY <1>1, <2>1 DEF IsNow
    <3> QED
      BY <2>3, <3>1, OwnStage, NoAnswers
  <2>5. AtStage(r)'
    <3>1. CASE state'[r] = "pending"
      BY <1>1, <2>4, <3>1 DEF OwnAfter, Story, Waiting, Left, Sent, At, ph, Local
    <3>2. CASE state'[r] = "locked"
      BY <1>1, <2>4, <3>2 DEF OwnAfter, Story, Holding, Told, Stale, Unheard, Left, Granted, Sent, Reaches, At, ph, Local
    <3> QED
      BY <2>1, <3>1, <3>2
  <2> QED
    BY <2>1, <2>2, <2>3, <2>4, <2>5, NoAnswers, MasterKeepsInv DEF OwnAfter
<1> QED
  BY <1>2, <1>3 DEF MasterLock

LEMMA MasterReleaseKeepsInv ==
    ASSUME IPCInv, TypeOK', NEW r \in Requests, NEW handled, MasterRelease(r, handled),
           exiting[Master] # "gone", OnlyAbout(r, handled), handled = About(r),
           \/ state[LockOf(r)] \in Granted /\ (Remote(r) => phase[r] = At(r, "releasing"))
           \/ Remote(r) /\ state[LockOf(r)] = "done" /\ phase[r] = At(r, "stale")
    PROVE  IPCInv'
<1> DEFINE l == LockOf(r)
           ph == Local(r, "idle")
<1>1. /\ quit = "no" /\ TypeOK /\ phase[r] \in PHASES /\ info[r] \in INFOS
      /\ \A k \in {r, Moved(r)} : k # l => state[k] = "done"
      /\ (~ Remote(r) => ~ Crashed(r) /\ About(r) = {})
      /\ r \in Locks /\ Moved(r) \in Locks /\ l \in {r, Moved(r)}
      /\ ph \in PHASES /\ "none" \in INFOS /\ (Remote(r) => ph = phase[r])
  BY Stages, LocksOfRequest DEF IPCInv, IPCTypeOK, Tidy, PHASES, INFOS, Local
<1>2. CASE /\ Release(l)
           /\ MasterDone(r, ph, "none", handled, Answer("unlock-result", r, TRUE))
  <2> DEFINE answers == Answer("unlock-result", r, TRUE)
  <2>1. quit' = "no" /\ state[l] \in Granted /\ state'[l] = "done" /\ OnlyGrants(l)
    BY <1>1, <1>2, ReleaseEffect
  <2>2. OnlyAbout(r, answers) /\ answers \subseteq Messages
    BY Answers
  <2>3. IsNow(r, l, "done")
    BY <1>1, <2>1 DEF IsNow, OnlyGrants
  <2>4. \A k \in Locks : k \notin {r, Moved(r)} =>
          state'[k] = state[k] \/ (state[k] = "pending" /\ state'[k] = "locked")
    BY <1>1, <2>1 DEF OnlyGrants
  <2>5. Remote(r) => phase[r] = At(r, "releasing")
    BY <2>1 DEF Granted
  <2>6. MasterDone(r, ph, "none", handled, answers)
    BY <1>2
  <2> HIDE DEF l, ph, answers
  <2>7. OwnAfter(r, state[l], "done", ph, "none", answers)
    BY <2>2, <2>3, <2>6, OwnStage
  <2>8. AtStage(r)'
    BY <1>1, <2>5, <2>7 DEF OwnAfter, Story, Unused, Returned, Unheard, Left, Granted, Sent, Reaches, At, ph, answers, Answer, Local
  <2> QED
    BY <1>1, <2>1, <2>2, <2>4, <2>6, <2>7, <2>8, MasterKeepsInv DEF OwnAfter
<1>3. CASE /\ state[l] = "done" /\ LockerIdle
           /\ MasterDone(r, ph, info[r], handled, Answer("unlock-result", r, FALSE))
  <2> DEFINE answers == Answer("unlock-result", r, FALSE)
             inf == info[r]
  <2>1. quit' = "no" /\ state' = state
    BY <1>1, <1>3 DEF LockerIdle
  <2>2. OnlyAbout(r, answers) /\ answers \subseteq Messages
    BY Answers
  <2>3. IsNow(r, r, "done") /\ state[r] = "done"
    BY <1>1, <1>3, <2>1, Stages DEF IsNow
  <2>4. Remote(r) /\ phase[r] = At(r, "stale")
    BY <1>3 DEF Granted
  <2>5. MasterDone(r, ph, inf, handled, answers) /\ inf \in INFOS
    BY <1>1, <1>3
  <2> HIDE DEF l, ph, answers, inf
  <2>6. OwnAfter(r, "done", "done", ph, inf, answers)
    BY <2>2, <2>3, <2>5, OwnStage
  <2>7. AtStage(r)'
    BY <1>1, <2>4, <2>6 DEF OwnAfter, Story, Stale, Left, Granted, Sent, Reaches, At, ph, answers, Answer, Local
  <2> QED
    BY <1>1, <2>1, <2>2, <2>5, <2>6, <2>7, MasterKeepsInv DEF OwnAfter
<1> QED
  BY <1>2, <1>3 DEF MasterRelease

LEMMA MasterMoveKeepsInv ==
    ASSUME IPCInv, TypeOK', NEW r \in Requests, NEW handled, MasterMove(r, handled),
           exiting[Master] # "gone", OnlyAbout(r, handled), handled = About(r),
           state[LockOf(r)] \in Granted, info[r] = "granted",
           Remote(r) => phase[r] = At(r, "moving")
    PROVE  IPCInv'
<1>1. /\ quit = "no" /\ TypeOK /\ phase[r] \in PHASES
      /\ \A k \in {r, Moved(r)} : k # LockOf(r) => state[k] = "done"
      /\ (~ Remote(r) => ~ Crashed(r) /\ About(r) = {})
      /\ r \in Locks /\ Moved(r) \in Locks /\ r # Moved(r) /\ LockOf(r) \in {r, Moved(r)}
      /\ RequestOf(r) = r /\ RequestOf(Moved(r)) = r /\ OneLock(r)
  BY Stages, LocksOfRequest DEF IPCInv, IPCTypeOK, Tidy, PHASES
<1>2. CASE /\ LockerIdle
           /\ MasterDone(r, Local(r, "held"), info[r], handled, Answer("lock-result", r, TRUE))
  <2> DEFINE l == LockOf(r)
             nx == state[l]
             ph == Local(r, "held")
             answers == Answer("lock-result", r, TRUE)
  <2>1. /\ OnlyAbout(r, answers) /\ answers \subseteq Messages /\ quit' = "no" /\ state' = state
        /\ ph \in PHASES /\ "granted" \in INFOS /\ (Remote(r) => ph = phase[r])
        /\ MasterDone(r, ph, "granted", handled, answers)
    BY <1>1, <1>2, Answers DEF LockerIdle, Local, PHASES, INFOS
  <2>2. IsNow(r, l, nx) /\ nx \in Granted
    BY <1>1, <2>1 DEF IsNow, Granted
  <2> HIDE DEF l, ph, answers, nx
  <2>3. OwnAfter(r, state[l], nx, ph, "granted", answers)
    BY <2>1, <2>2, OwnStage
  <2>4. r \notin GrantedNow
    BY <2>3 DEF OwnAfter, nx
  <2>5. AtStage(r)'
    BY <1>1, <2>2, <2>3, <2>4 DEF OwnAfter, Story, Holding, Told, Stale, Unheard, Left, Sent, Reaches, At, ph, answers, Answer, Local
  <2> QED
    BY <2>1, <2>3, <2>5, MasterKeepsInv DEF OwnAfter
<1>3. CASE /\ MoveLock(r)
           /\ IF \E l \in Queued(state') : RequestOf(l) = r
              THEN MasterDone(r, Local(r, "moving"), info[r], handled, {})
              ELSE MasterDone(r, Local(r, "idle"), info[r], handled, Answer("lock-result", r, FALSE))
  <2>1. /\ quit' = "no"
        /\ \/ state'[r] = "done" /\ state'[Moved(r)] = "done"
           \/ state'[r] = "done" /\ state'[Moved(r)] = "pending"
        /\ \A k \in Locks : k \notin {r, Moved(r)} => state'[k] = state[k]
    BY <1>1, <1>3, MoveEffect
  <2>2. (\E l \in Queued(state') : RequestOf(l) = r) <=> state'[Moved(r)] = "pending"
    <3>1. ASSUME NEW l \in Queued(state'), RequestOf(l) = r
          PROVE  state'[Moved(r)] = "pending"
      <4>1. l \in {r, Moved(r)} /\ state'[l] # "done"
        BY <3>1, RequestOfLock DEF Queued
      <4> QED
        BY <2>1, <4>1
    <3>2. state'[Moved(r)] = "pending" => Moved(r) \in Queued(state')
      BY <1>1 DEF Queued
    <3> QED
      BY <1>1, <3>1, <3>2
  <2>3. CASE state'[Moved(r)] = "pending"
    <3> DEFINE ph == Local(r, "moving")
    <3>1. /\ MasterDone(r, ph, "granted", handled, {})
          /\ ph \in PHASES /\ "granted" \in INFOS /\ (Remote(r) => ph = phase[r])
      BY <1>1, <1>3, <2>2, <2>3 DEF Local, PHASES, INFOS
    <3>2. IsNow(r, Moved(r), "pending")
      BY <2>1, <2>3 DEF IsNow
    <3> HIDE DEF ph
    <3>3. OwnAfter(r, state[Moved(r)], "pending", ph, "granted", {})
      BY <3>1, <3>2, OwnStage, NoAnswers
    <3>4. AtStage(r)'
      BY <1>1, <3>3 DEF OwnAfter, Story, Waiting, Left, Sent, At, ph, Local
    <3> QED
      BY <2>1, <3>1, <3>3, <3>4, NoAnswers, MasterKeepsInv DEF OwnAfter
  <2>4. CASE state'[Moved(r)] = "done"
    <3> DEFINE ph == Local(r, "idle")
               answers == Answer("lock-result", r, FALSE)
    <3>1. /\ MasterDone(r, ph, "granted", handled, answers)
          /\ ph \in PHASES /\ "granted" \in INFOS /\ (Remote(r) => ph = phase[r])
          /\ OnlyAbout(r, answers) /\ answers \subseteq Messages
      BY <1>1, <1>3, <2>2, <2>4, Answers DEF Local, PHASES, INFOS
    <3>2. IsNow(r, r, "done")
      BY <2>1, <2>4 DEF IsNow
    <3> HIDE DEF ph, answers
    <3>3. OwnAfter(r, state[r], "done", ph, "granted", answers)
      BY <3>1, <3>2, OwnStage
    <3>4. AtStage(r)'
      BY <1>1, <3>3 DEF OwnAfter, Story, Unused, Told, Stale, Unheard, Left, Granted, Sent, Reaches, At, ph, answers, Answer, Local
    <3> QED
      BY <2>1, <3>1, <3>3, <3>4, MasterKeepsInv DEF OwnAfter
  <2> QED
    BY <2>1, <2>3, <2>4
<1> QED
  BY <1>2, <1>3 DEF MasterMove

LEMMA TimerFiresKeepsInv ==
    ASSUME IPCInv, TypeOK', NEW l \in Locks, TimerFires(l)
    PROVE  IPCInv'
<1> DEFINE r == RequestOf(l)
<1>1. r \in Requests /\ l \in {r, Moved(r)}
  BY RequestOfLock
<1>2. /\ Timeout(l) /\ MasterDone(r, phase[r], info[r], {}, {}) /\ exiting[Master] # "gone"
  BY DEF TimerFires, Running
<1> HIDE DEF r
<1>3. /\ quit = "no" /\ TypeOK /\ phase[r] \in PHASES /\ info[r] \in INFOS
      /\ OneLock(r) /\ \A k \in {r, Moved(r)} : k # LockOf(r) => state[k] = "done"
  BY <1>1, Stages DEF IPCInv, IPCTypeOK, Tidy, PHASES, INFOS
<1>4. quit' = "no" /\ state[l] = "locked" /\ state'[l] \in Granted /\ OnlyGrants(l)
  BY <1>2, <1>3, TimeoutEffect
<1>5. LockOf(r) = l
  BY <1>3, <1>4, QueuedIsLockOf DEF r
<1> DEFINE nx == state'[l]
<1>6. IsNow(r, l, nx)
  BY <1>1, <1>3, <1>4, <1>5, LocksOfRequest DEF IsNow, OnlyGrants, Granted
<1>7. \A k \in Locks : k \notin {r, Moved(r)} =>
        state'[k] = state[k] \/ (state[k] = "pending" /\ state'[k] = "locked")
  BY <1>1, <1>4 DEF OnlyGrants
<1>8. AfterMaster(r, r, phase[r], info[r], {}, {})
  BY <1>1, <1>2, MasterDoneEffect, NoAnswers
<1>9. r \notin GrantedNow
  <2>1. \A k \in {r, Moved(r)} : k # l => state'[k] = "done"
    BY <1>6 DEF IsNow
  <2> QED
    BY <1>1, <1>4, <2>1, GrantedNowMeans
<1>10. phase'[r] = phase[r] /\ info'[r] = info[r] /\ (Crashed(r)' <=> Crashed(r)) /\ About(r)' = About(r)
  BY <1>8, <1>9 DEF AfterMaster, Sent
<1>11. OneLock(r)' /\ LockOf(r)' = l
  BY <1>1, <1>4, <1>6, LocksOfRequest DEF OneLock, LockOf, Moved, IsNow, Granted
<1>12. AtStage(r)'
  <2>1. Story(r, phase[r], "locked", info[r], About(r), Crashed(r))
    BY <1>1, <1>4, <1>5, Stages
  <2>2. Story(r, phase[r], nx, info[r], About(r), Crashed(r))
    BY <1>4, <2>1 DEF Story, Unused, AskedFor, Waiting, Told, Holding, Returning, Returned, Stale, Unheard, Left, Granted
  <2>3. AtStage(r)' <=> Story(r, phase'[r], nx, info'[r], About(r)', Crashed(r)')
    BY <1>11 DEF AtStage, Story, Left, Remote, Owner
  <2> QED
    BY <1>10, <2>2, <2>3 DEF Story
<1> QED
  BY <1>1, <1>2, <1>3, <1>4, <1>7, <1>11, <1>12, NoAnswers, MasterKeepsInv

LEMMA MasterLockedInv ==
    ASSUME IPCInv, TypeOK', NEW r \in Requests, MasterRequests(r) \/ HandleLockRequest(r)
    PROVE  IPCInv'
<1>1. CASE MasterRequests(r)
  <2>1. /\ ~ Remote(r) /\ exiting[Master] # "gone" /\ phase[r] = "idle" /\ info[r] = "none"
        /\ MasterLock(r, {})
    BY <1>1 DEF MasterRequests, Running, CanAsk
  <2>2. About(r) = {} /\ state[LockOf(r)] = "done"
    BY <2>1, Stages, StageOfPhase
  <2> QED
    BY <2>1, <2>2, NoAnswers, MasterLockKeepsInv
<1>2. CASE HandleLockRequest(r)
  <2> DEFINE handled == {Ask("lock-request", r)}
  <2>1. Ask("lock-request", r) \in net /\ exiting[Master] # "gone" /\ MasterLock(r, handled)
    BY <1>2 DEF HandleLockRequest, MasterGets, Running
  <2>2. /\ Remote(r) /\ About(r) = handled /\ state[LockOf(r)] = "done" /\ info[r] = "none"
        /\ phase[r] = At(r, "requested")
    BY <2>1, StageOfAsk DEF At
  <2>3. OnlyAbout(r, handled)
    BY DEF OnlyAbout
  <2> HIDE DEF handled
  <2> QED
    BY <2>1, <2>2, <2>3, MasterLockKeepsInv
<1> QED
  BY <1>1, <1>2

LEMMA MasterReleasedInv ==
    ASSUME IPCInv, TypeOK', NEW r \in Requests, MasterReleases(r) \/ HandleUnlockRequest(r)
    PROVE  IPCInv'
<1>1. CASE MasterReleases(r)
  <2>1. ~ Remote(r) /\ phase[r] = "held" /\ MasterRelease(r, {})
    BY <1>1 DEF MasterReleases
  <2>2. About(r) = {} /\ info[r] = "granted" /\ state[LockOf(r)] \in Granted
    BY <2>1, StageOfPhase
  <2>3. exiting[Master] # "gone"
    BY <2>2 DEF IPCInv, Tidy
  <2> QED
    BY <2>1, <2>2, <2>3, NoAnswers, MasterReleaseKeepsInv
<1>2. CASE HandleUnlockRequest(r)
  <2> DEFINE handled == {Ask("unlock-request", r)}
  <2>1. Ask("unlock-request", r) \in net /\ exiting[Master] # "gone" /\ MasterRelease(r, handled)
    BY <1>2 DEF HandleUnlockRequest, MasterGets, Running
  <2>2. /\ Remote(r) /\ About(r) = handled
        /\ \/ state[LockOf(r)] \in Granted /\ phase[r] = At(r, "releasing")
           \/ state[LockOf(r)] = "done" /\ phase[r] = At(r, "stale")
    BY <2>1, StageOfAsk DEF At
  <2>3. OnlyAbout(r, handled)
    BY DEF OnlyAbout
  <2> HIDE DEF handled
  <2> QED
    BY <2>1, <2>2, <2>3, MasterReleaseKeepsInv
<1> QED
  BY <1>1, <1>2

LEMMA MasterMovedInv ==
    ASSUME IPCInv, TypeOK', NEW r \in Requests, MasterMoves(r) \/ HandleMoveLockRequest(r)
    PROVE  IPCInv'
<1>1. CASE MasterMoves(r)
  <2>1. ~ Remote(r) /\ phase[r] = "held" /\ MasterMove(r, {})
    BY <1>1 DEF MasterMoves
  <2>2. About(r) = {} /\ state[LockOf(r)] \in Granted /\ info[r] = "granted"
    BY <2>1, StageOfPhase
  <2>3. exiting[Master] # "gone"
    BY <2>2 DEF IPCInv, Tidy
  <2> QED
    BY <2>1, <2>2, <2>3, NoAnswers, MasterMoveKeepsInv
<1>2. CASE HandleMoveLockRequest(r)
  <2> DEFINE handled == {Ask("move-lock-request", r)}
  <2>1. Ask("move-lock-request", r) \in net /\ exiting[Master] # "gone" /\ MasterMove(r, handled)
    BY <1>2 DEF HandleMoveLockRequest, MasterGets, Running
  <2>2. /\ Remote(r) /\ About(r) = handled /\ phase[r] = At(r, "moving")
        /\ state[LockOf(r)] \in Granted /\ info[r] = "granted"
    BY <2>1, StageOfAsk DEF At
  <2>3. OnlyAbout(r, handled)
    BY DEF OnlyAbout
  <2> HIDE DEF handled
  <2> QED
    BY <2>1, <2>2, <2>3, MasterMoveKeepsInv
<1> QED
  BY <1>1, <1>2

-----------------------------------------------------------------------------
\* The steps of the other peers leave the NodeLocker and `_locks` of the
\* master alone.

Quiet == LockerIdle /\ info' = info

LEMMA QuietStep ==
    ASSUME IPCInv, Quiet, NEW q \in Requests
    PROVE  /\ OneLock(q)'
           /\ AtStage(q)' <=> Story(q, phase'[q], state[LockOf(q)], info[q], About(q)', Crashed(q)')
           /\ phase'[q] = phase[q] /\ About(q)' = About(q) /\ (Crashed(q)' <=> Crashed(q)) => AtStage(q)'
<1>1. OneLock(q)'
  BY DEF IPCInv, OneLock, Quiet, LockerIdle, Moved
<1>2. LockOf(q)' = LockOf(q) /\ state'[LockOf(q)'] = state[LockOf(q)]
  BY DEF LockOf, Quiet, LockerIdle
<1>3. AtStage(q)' <=> Story(q, phase'[q], state[LockOf(q)], info[q], About(q)', Crashed(q)')
  BY <1>2 DEF AtStage, Story, Left, Remote, Owner, Quiet
<1>4. ASSUME phase'[q] = phase[q], About(q)' = About(q), Crashed(q)' <=> Crashed(q)
      PROVE  AtStage(q)'
  <2>1. Story(q, phase[q], state[LockOf(q)], info[q], About(q), Crashed(q))
    BY Stages
  <2> QED
    BY <1>3, <1>4, <2>1 DEF Story
<1> QED
  BY <1>1, <1>3, <1>4

\* The types and the tidiness after such a step.
LEMMA QuietInv ==
    ASSUME IPCInv, Quiet,
           phase' \in [Requests -> PHASES], net' \subseteq Messages, peers' \subseteq Workers,
           exiting' \in [Peers -> {"no", "waiting", "gone", "crashed"}],
           exiting'[Master] # "crashed",
           \A w \in Workers : exiting'[w] = "gone" =>
              \A r \in Requests : Owner(r) = w => phase'[r] \in {"idle", "stale"},
           exiting'[Master] = "gone" => \A r \in Requests : info[r] = "none",
           \A r \in Requests : AtStage(r)'
    PROVE  IPCInv'
<1>1. IPCTypeOK'
  BY DEF IPCInv, IPCTypeOK, TypeOK, Quiet, LockerIdle, PHASES, Messages
<1>2. Tidy'
  BY DEF IPCInv, Tidy, Quiet, LockerIdle, Owner
<1>3. \A r \in Requests : OneLock(r)'
  BY QuietStep
<1> QED
  BY <1>1, <1>2, <1>3 DEF IPCInv

LEMMA Types ==
    ASSUME IPCInv
    PROVE  /\ phase \in [Requests -> PHASES] /\ net \subseteq Messages /\ peers \subseteq Workers
           /\ exiting \in [Peers -> {"no", "waiting", "gone", "crashed"}]
           /\ exiting[Master] # "crashed" /\ Master \in Peers /\ Master \notin Workers
           /\ Peers = Workers \cup {Master}
           /\ \A w \in Workers : exiting[w] = "gone" =>
                 \A r \in Requests : Owner(r) = w => phase[r] \in {"idle", "stale"}
           /\ exiting[Master] = "gone" => \A r \in Requests : info[r] = "none"
BY PeersAssumption DEF IPCInv, IPCTypeOK, Tidy, PHASES, Messages, Peers

LEMMA WorkerAsksInv ==
    ASSUME IPCInv, NEW r \in Requests,
           WorkerRequests(r) \/ WorkerReleases(r) \/ WorkerMoves(r)
    PROVE  IPCInv'
<1>1. PICK from, to, type :
          /\ WorkerAsks(r, from, to, type)
          /\ \/ from = "idle" /\ to = "requested" /\ type = "lock-request" /\ info[r] = "none"
             \/ from = "held" /\ to = "releasing" /\ type = "unlock-request"
             \/ from = "held" /\ to = "moving" /\ type = "move-lock-request"
  BY DEF WorkerRequests, WorkerReleases, WorkerMoves, CanAsk
<1>2. /\ Remote(r) /\ ~ Crashed(r) /\ exiting[Owner(r)] # "gone"
      /\ phase[r] = from /\ phase' = [phase EXCEPT ![r] = to]
      /\ net' = net \cup {Ask(type, r)} /\ Quiet /\ peers' = peers /\ exiting' = exiting
  BY <1>1 DEF WorkerAsks, Running, Crashed, Quiet
<1>3. \A q \in Requests : About(q)' = (IF q = r THEN About(q) \cup {Ask(type, r)} ELSE About(q))
                          /\ (Crashed(q)' <=> Crashed(q))
  <2>1. \A q : IsFor(Ask(type, r), q) <=> q = r
    BY MessageAbout
  <2> QED
    BY <1>2, <2>1 DEF About, IsFor, Crashed, Owner
<1>4. phase' \in [Requests -> PHASES] /\ net' \subseteq Messages
  <2>1. Ask(type, r) \in Messages
    BY <1>1 DEF Ask, Messages
  <2>2. to \in PHASES
    BY <1>1 DEF PHASES
  <2> QED
    BY <1>2, <2>1, <2>2, Types
<1>5. AtStage(r)'
  <2>1. About(r) = {}
    BY <1>1, <1>2, StageOfPhase
  <2>2. About(r)' = {Ask(type, r)} /\ ~ Crashed(r)' /\ phase'[r] = to
    BY <1>2, <1>3, <2>1, Types
  <2>3. Story(r, to, state[LockOf(r)], info[r], {Ask(type, r)}, FALSE)
    <3>1. CASE from = "idle"
      BY <1>1, <1>2, <3>1, StageOfPhase DEF Story, AskedFor
    <3>2. CASE from = "held"
      BY <1>1, <1>2, <3>2, StageOfPhase DEF Story, Returning
    <3> QED
      BY <1>1, <3>1, <3>2
  <2> QED
    BY <1>2, <2>2, <2>3, QuietStep DEF Story
<1>6. \A q \in Requests : AtStage(q)'
  BY <1>2, <1>3, <1>5, QuietStep, Types
<1>7. ASSUME NEW w \in Workers, exiting'[w] = "gone", NEW q \in Requests, Owner(q) = w
      PROVE  phase'[q] \in {"idle", "stale"}
  BY <1>2, <1>7, Types
<1> QED
  BY <1>2, <1>4, <1>6, <1>7, QuietInv, Types

\* A worker that gets an answer, and may exit with its last lock gone.
LEMMA WorkerGetsInv ==
    ASSUME IPCInv, NEW r \in Requests,
           \/ WorkerGetsLock(r) \/ WorkerGetsNoLock(r) \/ WorkerGetsNoMove(r)
           \/ WorkerGetsUnlocked(r) \/ WorkerGetsNotUnlocked(r)
    PROVE  IPCInv'
<1>1. PICK t, ok, ph, sends :
          /\ WorkerGets(Result(t, r, ok), ph, sends)
          /\ \/ t = "lock-result" /\ ok = TRUE /\ ph = "held" /\ sends = {}
             \/ t = "lock-result" /\ ok = FALSE /\ ph = "idle" /\ sends = {}
             \/ t = "lock-result" /\ ok = FALSE /\ ph = "stale" /\ sends = {Ask("unlock-request", r)}
             \/ t = "unlock-result" /\ ok = TRUE /\ ph = "idle" /\ sends = {}
             \/ /\ t = "unlock-result" /\ ok = FALSE /\ sends = {}
                /\ ph = IF phase[r] = "stale" THEN "idle" ELSE phase[r]
  BY DEF WorkerGetsLock, WorkerGetsNoLock, WorkerGetsNoMove, WorkerGetsUnlocked, WorkerGetsNotUnlocked
<1> DEFINE m == Result(t, r, ok)
           w == Owner(r)
           exits == exiting[w] = "waiting" /\ ph \in {"idle", "stale"} /\ LocksOf(w) = {r}
<1>2. /\ m \in net /\ phase' = [phase EXCEPT ![r] = ph]
      /\ net' = (net \ {m}) \cup sends \cup (IF exits THEN {Greeting("bye", w)} ELSE {})
      /\ exiting' = IF exits THEN [exiting EXCEPT ![w] = "gone"] ELSE exiting
      /\ Quiet /\ peers' = peers /\ exiting[w] # "gone"
  <2>1. m.lock = r
    BY DEF Result
  <2> QED
    BY <1>1, <2>1 DEF WorkerGets, Quiet, Running
<1>3. /\ Remote(r) /\ ~ Crashed(r) /\ About(r) = {m} /\ w \in Workers /\ w # Master
      /\ \/ /\ ph = "held" /\ sends = {}
            /\ state[LockOf(r)] \in Granted /\ info[r] = "granted"
         \/ ph = "idle" /\ sends = {} /\ state[LockOf(r)] = "done"
         \/ ph = "stale" /\ sends = {Ask("unlock-request", r)} /\ state[LockOf(r)] = "done"
  BY <1>1, <1>2, StageOfResult, LocksOfRequest DEF Remote
<1> HIDE DEF m, w, exits
<1>4. ASSUME NEW q \in Requests
      PROVE  /\ About(q)' = (IF q = r THEN sends ELSE About(q))
             /\ Crashed(q)' <=> Crashed(q)
             /\ phase'[q] = IF q = r THEN ph ELSE phase[q]
  <2>1. IsFor(m, q) <=> q = r
    BY MessageAbout DEF m
  <2>2. ~ IsFor(Greeting("bye", w), q)
    BY MessageAbout
  <2>3. \A n \in sends : IsFor(n, q) <=> q = r
    BY <1>3, MessageAbout
  <2>5. About(q)' = (IF q = r THEN (About(q) \ {m}) \cup sends ELSE About(q))
    BY <1>2, <2>1, <2>2, <2>3 DEF About, IsFor
  <2>4. Crashed(q)' <=> Crashed(q)
    BY <1>2, <1>3, Types, LocksOfRequest DEF Crashed, Owner, w
  <2> QED
    BY <1>2, <1>3, <2>4, <2>5, Types
<1>5. phase' \in [Requests -> PHASES] /\ net' \subseteq Messages
  <2>1. Greeting("bye", w) \in Messages
    BY <1>3 DEF Greeting, Messages
  <2>2. ph \in PHASES
    BY <1>3 DEF PHASES
  <2>3. sends \subseteq Messages
    BY <1>3 DEF Ask, Messages
  <2> QED
    BY <1>2, <2>1, <2>2, <2>3, Types
<1>6. AtStage(r)'
  <2>1. Story(r, ph, state[LockOf(r)], info[r], sends, FALSE)
    BY <1>3 DEF Story, Unused, Holding, Stale
  <2> QED
    BY <1>2, <1>3, <1>4, <2>1, QuietStep DEF Story
<1>7. \A q \in Requests : AtStage(q)'
  BY <1>2, <1>4, <1>6, QuietStep
<1>8. ASSUME NEW v \in Workers, exiting'[v] = "gone", NEW q \in Requests, Owner(q) = v
      PROVE  phase'[q] \in {"idle", "stale"}
  <2>1. CASE exiting[v] = "gone"
    <3>1. v # w
      BY <1>2, <2>1
    <3> QED
      BY <1>4, <1>8, <2>1, <3>1, Types DEF w
  <2>2. CASE exiting[v] # "gone"
    <3>1. v = w /\ exits
      BY <1>2, <1>3, <1>8, <2>2, Types
    <3>2. LocksOf(w) = {r} /\ ph \in {"idle", "stale"}
      BY <3>1 DEF exits
    <3>3. q # r => phase[q] \in {"idle", "stale"}
      BY <1>3, <1>8, <3>1, <3>2 DEF LocksOf
    <3> QED
      BY <1>4, <3>2, <3>3
  <2> QED
    BY <2>1, <2>2
<1>9. /\ exiting' \in [Peers -> {"no", "waiting", "gone", "crashed"}]
      /\ exiting'[Master] = exiting[Master]
  BY <1>2, <1>3, Types
<1> QED
  BY <1>2, <1>5, <1>7, <1>8, <1>9, QuietInv, Types

LEMMA GreetInv ==
    ASSUME IPCInv, NEW w \in Workers, HandleHello(w) \/ HandleBye(w) \/ ClusterExit(w)
    PROVE  IPCInv'
<1>1. /\ Quiet /\ phase' = phase /\ exiting' = exiting
      /\ \E type : net' = net \ {Greeting(type, w)} \/ net' = net
      /\ peers' \in {peers, peers \cup {w}, peers \ {w}}
  BY DEF HandleHello, HandleBye, ClusterExit, Quiet
<1>2. ASSUME NEW q \in Requests
      PROVE  AtStage(q)'
  <2>1. \A type : ~ IsFor(Greeting(type, w), q)
    BY MessageAbout
  <2>2. About(q)' = About(q)
    BY <1>1, <2>1 DEF About, IsFor
  <2> QED
    BY <1>1, <2>2, QuietStep DEF Crashed, Owner
<1> QED
  BY <1>1, <1>2, QuietInv, Types

LEMMA ExitInv ==
    ASSUME IPCInv, NEW p \in Peers, Exit(p)
    PROVE  IPCInv'
<1>1. /\ Quiet /\ phase' = phase /\ peers' = peers /\ exiting[p] = "no"
      /\ exiting' = [exiting EXCEPT ![p] = IF LocksOf(p) = {} THEN "gone" ELSE "waiting"]
      /\ net' = IF p \in Workers /\ LocksOf(p) = {} THEN net \cup {Greeting("bye", p)} ELSE net
  BY DEF Exit, Quiet
<1>2. ASSUME NEW q \in Requests
      PROVE  AtStage(q)'
  <2>1. ~ IsFor(Greeting("bye", p), q)
    BY MessageAbout
  <2>2. About(q)' = About(q)
    BY <1>1, <2>1 DEF About, IsFor
  <2>3. Crashed(q)' <=> Crashed(q)
    BY <1>1, Types, LocksOfRequest DEF Crashed, Owner
  <2> QED
    BY <1>1, <2>2, <2>3, QuietStep
<1>3. /\ \A w \in Workers : exiting'[w] = "gone" =>
            \A r \in Requests : Owner(r) = w => phase'[r] \in {"idle", "stale"}
      /\ exiting'[Master] = "gone" => \A r \in Requests : info[r] = "none"
  BY <1>1, Types DEF LocksOf
<1>4. net' \subseteq Messages
  <2>1. p \in Workers => Greeting("bye", p) \in Messages
    BY DEF Greeting, Messages
  <2> QED
    BY <1>1, <2>1, Types
<1>5. exiting' \in [Peers -> {"no", "waiting", "gone", "crashed"}] /\ exiting'[Master] # "crashed"
  BY <1>1, Types
<1> QED
  BY <1>1, <1>2, <1>3, <1>4, <1>5, QuietInv, Types

\* What a worker that dies leaves of a request: what it had asked for.
LEMMA CrashInv ==
    ASSUME IPCInv, NEW w \in Workers, Crash(w)
    PROVE  IPCInv'
<1>1. /\ Quiet /\ peers' = peers /\ exiting[w] \in {"no", "waiting"}
      /\ exiting' = [exiting EXCEPT ![w] = "crashed"]
      /\ phase' = [r \in Requests |-> IF Owner(r) = w THEN "idle" ELSE phase[r]]
      /\ net' = {m \in net : ~ ("ok" \in DOMAIN m /\ Owner(m.lock) = w)}
  BY DEF Crash, Quiet
<1>2. ASSUME NEW q \in Requests
      PROVE  AtStage(q)'
  <2>1. ASSUME NEW m, IsFor(m, q)
        PROVE  m \in About(q)' <=> m \in About(q) /\ ~ ("ok" \in DOMAIN m /\ Owner(q) = w)
    BY <1>1, <2>1 DEF About, IsFor
  <2>2. CASE Owner(q) # w
    <3>1. About(q)' = About(q)
      BY <2>1, <2>2 DEF About, IsFor
    <3>2. phase'[q] = phase[q] /\ (Crashed(q)' <=> Crashed(q))
      BY <1>1, <2>2, Types, LocksOfRequest DEF Crashed, Owner
    <3> QED
      BY <1>1, <3>1, <3>2, QuietStep
  <2>3. CASE Owner(q) = w
    <3>1. Remote(q) /\ ~ Crashed(q) /\ Crashed(q)' /\ phase'[q] = "idle"
      BY <1>1, <2>3, Types, LocksOfRequest DEF Crashed, Owner, Remote
    <3>2. About(q)' = {m \in About(q) : "ok" \notin DOMAIN m}
      BY <2>1, <2>3 DEF About, IsFor
    <3>3. /\ \A t : "ok" \notin DOMAIN Ask(t, q)
          /\ \A t, ok : "ok" \in DOMAIN Result(t, q, ok)
      BY MessageAbout
    <3>4. /\ \A t : About(q) = {Ask(t, q)} => About(q)' = {Ask(t, q)}
          /\ \A t, ok : About(q) = {Result(t, q, ok)} => About(q)' = {}
          /\ About(q) = {} => About(q)' = {}
      BY <3>2, <3>3
    <3>5. Left(q, "idle", state[LockOf(q)], info[q], About(q)')
      <4>1. Story(q, phase[q], state[LockOf(q)], info[q], About(q), FALSE)
        BY <3>1, Stages DEF Story
      <4> QED
        BY <3>4, <4>1 DEF Story, Unused, AskedFor, Waiting, Told, Holding, Returning, Returned, Stale, Unheard, Left
    <3> QED
      BY <1>1, <3>1, <3>5, QuietStep DEF Story
  <2> QED
    BY <2>2, <2>3
<1>3. phase' \in [Requests -> PHASES]
  BY <1>1, Types DEF PHASES
<1>4. /\ exiting' \in [Peers -> {"no", "waiting", "gone", "crashed"}]
      /\ exiting'[Master] = exiting[Master]
  BY <1>1, Types
<1>5. ASSUME NEW v \in Workers, exiting'[v] = "gone", NEW r \in Requests, Owner(r) = v
      PROVE  phase'[r] \in {"idle", "stale"}
  BY <1>1, <1>5, Types
<1> QED
  BY <1>1, <1>2, <1>3, <1>4, <1>5, QuietInv, Types

-----------------------------------------------------------------------------
\* Every request is at one of the stages at each moment.

LEMMA InitIPC == IPCInit => IPCInv
<1> SUFFICES ASSUME IPCInit
             PROVE  IPCInv
  OBVIOUS
<1>1. /\ Init /\ TypeOK /\ quit = "no"
      /\ phase = [r \in Requests |-> "idle"] /\ info = [r \in Requests |-> "none"]
      /\ net = {Greeting("hello", w) : w \in Workers}
      /\ peers = {} /\ exiting = [p \in Peers |-> "no"]
  BY InitIInv DEF IPCInit, IInv, Init
<1>2. IPCTypeOK
  <2>1. \A w \in Workers : Greeting("hello", w) \in Messages
    BY DEF Greeting, Messages
  <2> QED
    BY <1>1, <2>1 DEF IPCTypeOK, Messages
<1>3. Tidy
  BY <1>1 DEF Tidy, Peers
<1>4. ASSUME NEW r \in Requests
      PROVE  OneLock(r) /\ AtStage(r)
  <2>1. state[r] = "done" /\ state[Moved(r)] = "done" /\ state[LockOf(r)] = "done"
    BY <1>1, LocksOfRequest DEF Init
  <2>2. About(r) = {}
    <3>1. \A w : ~ IsFor(Greeting("hello", w), r)
      BY MessageAbout
    <3> QED
      BY <1>1, <3>1 DEF About
  <2>3. phase[r] = "idle" /\ ~ Crashed(r)
    BY <1>1, LocksOfRequest DEF Crashed
  <2> QED
    BY <2>1, <2>2, <2>3 DEF OneLock, AtStage, Story, Unused
<1> QED
  BY <1>2, <1>3, <1>4 DEF IPCInv

LEMMA NextIPC == IPCInv /\ TypeOK' /\ [IPCNext]_ipcVars => IPCInv'
<1> SUFFICES ASSUME IPCInv, TypeOK', [IPCNext]_ipcVars
             PROVE  IPCInv'
  OBVIOUS
<1>1. CASE UNCHANGED ipcVars
  <2>1. /\ Quiet /\ phase' = phase /\ net' = net /\ peers' = peers /\ exiting' = exiting
    BY <1>1 DEF ipcVars, Quiet, LockerIdle
  <2>2. ASSUME NEW q \in Requests
        PROVE  AtStage(q)'
    BY <2>1, QuietStep DEF About, IsFor, Crashed, Owner
  <2> QED
    BY <2>1, <2>2, QuietInv, Types
<1>2. ASSUME NEW r \in Requests, Transaction(r)
      PROVE  IPCInv'
  BY <1>2, MasterLockedInv, MasterReleasedInv, MasterMovedInv, WorkerAsksInv DEF Transaction
<1>3. ASSUME NEW r \in Requests, Handle(r)
      PROVE  IPCInv'
  BY <1>3, MasterLockedInv, MasterReleasedInv, MasterMovedInv, WorkerGetsInv DEF Handle
<1>4. ASSUME NEW l \in Locks, TimerFires(l)
      PROVE  IPCInv'
  BY <1>4, TimerFiresKeepsInv
<1>5. ASSUME NEW w \in Workers, Greet(w) \/ Crash(w) \/ ClusterExit(w)
      PROVE  IPCInv'
  BY <1>5, GreetInv, CrashInv DEF Greet
<1>6. ASSUME NEW p \in Peers, Exit(p)
      PROVE  IPCInv'
  BY <1>6, ExitInv
<1> QED
  BY <1>1, <1>2, <1>3, <1>4, <1>5, <1>6 DEF IPCNext

-----------------------------------------------------------------------------
\* The processes use the NodeLocker of the master as its specification says.

LEMMA StepOfLocker == [IPCNext]_ipcVars => [Next]_vars
<1> SUFFICES ASSUME [IPCNext]_ipcVars
             PROVE  [Next]_vars
  OBVIOUS
<1>1. LockerIdle => UNCHANGED vars
  BY DEF LockerIdle, vars
<1>2. UNCHANGED ipcVars => UNCHANGED vars
  BY DEF ipcVars, vars
<1>3. ASSUME NEW r \in Requests, NEW handled,
             MasterLock(r, handled) \/ MasterRelease(r, handled) \/ MasterMove(r, handled)
      PROVE  [Next]_vars
  <2>1. r \in Locks /\ LockOf(r) \in Locks
    BY LocksOfRequest
  <2>2. LockerIdle \/ Lock(r) \/ Release(LockOf(r)) \/ MoveToParent(LockOf(r))
    BY <1>3 DEF MasterLock, MasterRelease, MasterMove, MoveLock
  <2> QED
    BY <1>1, <2>1, <2>2 DEF Next
<1>4. ASSUME NEW r \in Requests, Transaction(r)
      PROVE  [Next]_vars
  <2>1. \/ \E handled : MasterLock(r, handled) \/ MasterRelease(r, handled) \/ MasterMove(r, handled)
        \/ LockerIdle
    BY <1>4 DEF Transaction, MasterRequests, MasterReleases, MasterMoves,
                WorkerRequests, WorkerReleases, WorkerMoves, WorkerAsks
  <2> QED
    BY <1>1, <1>3, <2>1
<1>5. ASSUME NEW r \in Requests, Handle(r)
      PROVE  [Next]_vars
  <2>1. \/ \E handled : MasterLock(r, handled) \/ MasterRelease(r, handled) \/ MasterMove(r, handled)
        \/ LockerIdle
    BY <1>5 DEF Handle, HandleLockRequest, HandleUnlockRequest, HandleMoveLockRequest,
                WorkerGetsLock, WorkerGetsNoLock, WorkerGetsNoMove,
                WorkerGetsUnlocked, WorkerGetsNotUnlocked, WorkerGets
  <2> QED
    BY <1>1, <1>3, <2>1
<1>6. ASSUME NEW l \in Locks, TimerFires(l)
      PROVE  [Next]_vars
  BY <1>6 DEF TimerFires, Next
<1>7. ASSUME NEW w \in Workers, Greet(w) \/ Crash(w) \/ ClusterExit(w)
      PROVE  [Next]_vars
  BY <1>1, <1>7 DEF Greet, HandleHello, HandleBye, Crash, ClusterExit
<1>8. ASSUME NEW p \in Peers, Exit(p)
      PROVE  [Next]_vars
  BY <1>1, <1>8 DEF Exit
<1> QED
  BY <1>2, <1>4, <1>5, <1>6, <1>7, <1>8 DEF IPCNext

\* Whatever the processes do, and whichever of them die, the NodeLocker of
\* the master is locked, released and moved within its specification: so all
\* that is proved of a NodeLocker holds of the one that a cluster shares.
THEOREM ClusterUsesLocker == IPCSpec => Spec
<1>1. IPCInit => Init
  BY DEF IPCInit
<1> QED
  BY <1>1, StepOfLocker, PTL DEF IPCSpec, Spec

\* The locks that the processes of a cluster get from the master are those
\* of one readers-writer lock.
THEOREM ClusterIsRWLock == IPCSpec => ImplementsRWLock
BY ClusterUsesLocker, Refinement

\* At every moment each request of each peer is at one of the stages.
THEOREM ClusterInvariance == IPCSpec => []IPCInv
<1>1. IPCSpec => []TypeOK
  BY ClusterUsesLocker, TypeCorrect
<1> QED
  BY <1>1, InitIPC, NextIPC, PTL DEF IPCSpec

\* Every variable of the peers, and every message, keeps its type.
THEOREM ClusterTypeCorrect == IPCSpec => []IPCTypeOK
<1>1. IPCInv => IPCTypeOK
  BY DEF IPCInv
<1> QED
  BY <1>1, ClusterInvariance, PTL

\* Two peers never both believe that they hold locks that clash, unless one
\* of the locks has expired meanwhile: for any number of processes, and any
\* messages under way (HandleLockRequest to WorkerGetsLock, `lock` and
\* `release` of the peers).
THEOREM ClusterExclusive == IPCSpec => []ExclusiveAcrossPeers
<1>1. IPCInv /\ Exclusive => ExclusiveAcrossPeers
  <2> SUFFICES ASSUME IPCInv, Exclusive, NEW r \in Requests, NEW q \in Requests,
                      phase[r] = "held", phase[q] = "held", Clash(r, q),
                      state[LockOf(r)] # "expired", state[LockOf(q)] # "expired"
               PROVE  FALSE
    BY DEF ExclusiveAcrossPeers
  <2>1. state[LockOf(r)] = "locked" /\ state[LockOf(q)] = "locked"
    BY StageOfPhase DEF Granted
  <2>2. LockOf(r) \in InState(state, "locked") /\ LockOf(q) \in InState(state, "locked")
    BY <2>1, LocksOfRequest DEF InState
  <2>3. Clash(LockOf(r), LockOf(q))
    BY LocksOfRequest DEF Clash
  <2> QED
    BY <2>2, <2>3 DEF Exclusive
<1>2. IPCSpec => []Exclusive
  BY ClusterUsesLocker, MutualExclusion
<1> QED
  BY <1>1, <1>2, ClusterInvariance, PTL

\* A worker that gets a result waits for it, and for one of that type, and
\* no second one is under way: `unlock-result` never settles a move, nor
\* does an answer come to a request that was already answered.
THEOREM ClusterResultsAwaited == IPCSpec => []ResultsAwaited
<1>1. IPCInv => ResultsAwaited
  <2> SUFFICES ASSUME IPCInv, NEW r \in Requests
               PROVE  LET results == {m \in net : "ok" \in DOMAIN m /\ m.lock = r}
                      IN  /\ Cardinality(results) <= 1
                          /\ \A m \in results :
                                IF m.type = "unlock-result"
                                THEN phase[r] = IF m.ok THEN "releasing" ELSE "stale"
                                ELSE phase[r] \in {"requested", "moving"}
    BY DEF ResultsAwaited
  <2> DEFINE results == {m \in net : "ok" \in DOMAIN m /\ m.lock = r}
  <2>1. ASSUME NEW m \in results
        PROVE  /\ m \in About(r) /\ About(r) = {m}
               /\ IF m.type = "unlock-result"
                  THEN phase[r] = IF m.ok THEN "releasing" ELSE "stale"
                  ELSE phase[r] \in {"requested", "moving"}
    <3>1. m \in Messages /\ m \in net /\ "ok" \in DOMAIN m /\ m.lock = r
      BY Types
    <3>2. m = Result(m.type, r, m.ok) /\ "lock" \in DOMAIN m
      BY <3>1 DEF Messages, Result
    <3>3. m \in About(r)
      BY <3>1, <3>2 DEF About, IsFor
    <3> DEFINE t == m.type
               ok == m.ok
    <3>4. Result(t, r, ok) \in net
      BY <3>1, <3>2
    <3> HIDE DEF t, ok
    <3>5. /\ About(r) = {Result(t, r, ok)}
          /\ \/ t = "lock-result" /\ phase[r] \in {"requested", "moving"}
             \/ t = "unlock-result" /\ ok = TRUE /\ phase[r] = "releasing"
             \/ t = "unlock-result" /\ ok = FALSE /\ phase[r] = "stale"
      <4>1. /\ Remote(r) /\ ~ Crashed(r) /\ About(r) = {Result(t, r, ok)}
            /\ \/ /\ t = "lock-result" /\ phase[r] \in {"requested", "moving"}
                  /\ \/ ok = TRUE /\ state[LockOf(r)] \in Granted /\ info[r] = "granted"
                     \/ ok = FALSE /\ state[LockOf(r)] = "done"
               \/ /\ t = "unlock-result" /\ ok = TRUE /\ phase[r] = "releasing"
                  /\ state[LockOf(r)] = "done" /\ info[r] = "none"
               \/ /\ t = "unlock-result" /\ ok = FALSE /\ phase[r] = "stale"
                  /\ state[LockOf(r)] = "done"
        BY <3>4, StageOfResult, Zenon
      <4> QED
        BY <4>1
    <3>6. IF t = "unlock-result" THEN phase[r] = IF ok THEN "releasing" ELSE "stale"
          ELSE phase[r] \in {"requested", "moving"}
      BY <3>5
    <3> QED
      BY <3>2, <3>3, <3>5, <3>6 DEF t, ok
  <2>2. results = {} \/ \E m : results = {m}
    <3>1. \A m \in results : results = {m}
      <4>1. \A m, n \in results : m = n
        BY <2>1
      <4> QED
        BY <4>1
    <3> QED
      BY <3>1
  <2>3. Cardinality(results) <= 1
    <3>1. Cardinality({}) = 0
      BY FS_EmptySet
    <3>2. \A m : Cardinality({m}) = 1
      BY FS_Singleton
    <3> HIDE DEF results
    <3>3. CASE results = {}
      BY <3>1, <3>3
    <3>4. CASE \E m : results = {m}
      <4>1. PICK m : results = {m}
        BY <3>4
      <4>2. Cardinality(results) = 1
        BY <3>2, <4>1
      <4> QED
        BY <4>2
    <3> QED
      BY <2>2, <3>3, <3>4
  <2> QED
    BY <2>1, <2>3
<1> QED
  BY <1>1, ClusterInvariance, PTL

\* Every lock in the NodeLocker is noted by the master, and awaited, held or
\* on its way back at a peer that lives, or was the lock of one that died.
THEOREM ClusterHasNoOrphans == IPCSpec => []NoOrphanLock
<1>1. IPCInv => NoOrphanLock
  <2> SUFFICES ASSUME IPCInv, NEW l \in Locks, state[l] # "done"
               PROVE  /\ info[RequestOf(l)] # "none"
                      /\ phase[RequestOf(l)] # "idle" \/ exiting[Owner(RequestOf(l))] = "crashed"
    BY DEF NoOrphanLock, Queued
  <2> DEFINE r == RequestOf(l)
  <2>1. r \in Requests
    BY RequestOfLock
  <2>2. OneLock(r)
    BY <2>1 DEF IPCInv
  <2>3. LockOf(r) = l
    BY <2>2, QueuedIsLockOf
  <2> HIDE DEF r
  <2>4. info[r] # "none" /\ (phase[r] # "idle" \/ Crashed(r))
    BY <2>1, <2>3, StageOfPhase
  <2> QED
    BY <2>4 DEF r, Crashed
<1> QED
  BY <1>1, ClusterInvariance, PTL

\* A peer exits only when nothing of it is left in the NodeLocker, and the
\* master only when no peer holds a lock.
THEOREM ClusterExitsClean == IPCSpec => []GoneIsClean
<1>1. IPCInv => GoneIsClean
  <2> SUFFICES ASSUME IPCInv
               PROVE  GoneIsClean
    OBVIOUS
  <2>1. ASSUME NEW l \in Locks, state[l] # "done", exiting[Owner(RequestOf(l))] = "gone"
        PROVE  FALSE
    <3> DEFINE r == RequestOf(l)
    <3>1. r \in Requests
      BY RequestOfLock
    <3>2. OneLock(r)
      BY <3>1 DEF IPCInv
    <3>3. LockOf(r) = l
      BY <2>1, <3>2, QueuedIsLockOf
    <3> HIDE DEF r
    <3>4. /\ info[r] # "none" /\ Owner(r) \in Peers
          /\ phase[r] \notin {"idle", "stale"} \/ Crashed(r)
      BY <2>1, <3>1, <3>3, StageOfPhase, LocksOfRequest
    <3>5. exiting[Owner(r)] = "gone" /\ ~ Crashed(r)
      BY <2>1 DEF r, Crashed
    <3> QED
      BY <3>1, <3>4, <3>5, Types
  <2>2. ASSUME exiting[Master] = "gone", NEW r \in Requests
        PROVE  phase[r] # "held"
    BY <2>2, StageOfPhase, Types
  <2> QED
    BY <2>1, <2>2 DEF GoneIsClean, Queued
<1> QED
  BY <1>1, ClusterInvariance, PTL
===============================================================================
