------------------------------ MODULE IPCLocks ------------------------------
(***************************************************************************)
(* Locking across the processes of a node cluster (src/ipc/ipc.ts and      *)
(* src/ipc/index.ts).  The master process has the NodeLocker that counts;  *)
(* its own transactions call it directly, those of the workers through     *)
(* messages.  Every peer keeps a list `_locks` of the locks it asked for   *)
(* (the master: also of those it was asked for), and exits only when that  *)
(* list is empty.                                                          *)
(*                                                                         *)
(* A lock request is known by the NodeLock without priority that it makes; *)
(* the number of that lock tells the requests of a transaction apart: it   *)
(* may hold one write lock while it asks for the next (`_updateNode`).     *)
(* What the code does in one go, up to the next message or timer, is one   *)
(* action: the locks that a step of the NodeLocker grants are answered in  *)
(* that step.                                                              *)
(*                                                                         *)
(* Messages are a set: more orders of delivery than the channels of a      *)
(* cluster have, except that a `hello` is the first message of a worker.   *)
(* Not modelled: subscriptions, events, notifications and custom requests. *)
(***************************************************************************)
EXTENDS NodeLock

CONSTANTS
    Master,         \* the peer that is master
    Workers,        \* the other peers
    PeerOf,         \* the peer that a transaction runs on
    MaxInFlight,    \* bound: requests that anybody is busy with at once
    MaxLeaving      \* bound: peers that exit or crash

ASSUME PeersAssumption ==
    /\ MaxInFlight \in Nat /\ MaxLeaving \in Nat
    /\ Master \notin Workers
    /\ PeerOf \in [Tids -> Workers \cup {Master}]

VARIABLES
    phase,      \* what the peer of a lock request is doing with it
    info,       \* `_locks` of the master: "granted" is lockInfo.granted
    net,        \* messages under way
    peers,      \* `peers` of the master
    exiting     \* `_exiting`, and whether a peer has exited or crashed

ipcVars == <<state, ahead, timeoutCount, quit, phase, info, net, peers, exiting>>

Peers == Workers \cup {Master}

Requests == {l \in Locks : ~ l.priority}

RequestOf(l) == [l EXCEPT !.priority = FALSE]
Owner(r) == PeerOf[r.tid]
Remote(r) == Owner(r) # Master

\* A request can be made: no peer is busy with the last one like it.
CanAsk(r) ==
    /\ phase[r] = "idle" /\ info[r] = "none"
    /\ Cardinality({q \in Requests : phase[q] # "idle" \/ info[q] # "none"})
          < MaxInFlight

\* The NodeLock of a request: another one after a move through the queue.
LockOf(r) == IF state[r] # "done" THEN r ELSE [r EXCEPT !.priority = TRUE]

\* Mutant of LocksOf: a worker counts only the locks it was granted.
LocksOfGranted(p) ==
    IF p = Master THEN {r \in Requests : info[r] # "none"}
    ELSE {r \in Requests : Owner(r) = p /\ phase[r] \in {"held", "releasing", "moving"}}

\* `_locks` of a peer, and those in it that were granted.
LocksOf(p) == IF p = Master THEN {r \in Requests : info[r] # "none"}
              ELSE {r \in Requests : Owner(r) = p /\ phase[r] \notin {"idle", "stale"}}
GrantedOf(p) == IF p = Master THEN {r \in Requests : info[r] = "granted"}
                ELSE {r \in LocksOf(p) : phase[r] # "requested"}

CanLeave == Cardinality({p \in Peers : exiting[p] # "no"}) < MaxLeaving

Running(p) == exiting[p] \in {"no", "waiting"}

Greeting(type, w) == [type |-> type, from |-> w]
Ask(type, r) == [type |-> type, lock |-> r]
Result(type, r, ok) == [type |-> type, lock |-> r, ok |-> ok]

LockerIdle == UNCHANGED <<state, ahead, timeoutCount, quit>>

-----------------------------------------------------------------------------

\* `lock`, on an exiting peer: only for a transaction it has granted a lock.
Approved(p, r) ==
    exiting[p] = "no" \/ \E g \in GrantedOf(p) : g.tid = r.tid

\* The locks that this step of the NodeLocker grants.
GrantedNow == {RequestOf(l) : l \in InState(state', "locked") \
                                    InState(state, "locked")}

\* What the master sends, but only to peers it knows (`sendMessage`), and
\* nothing reaches a process that has died.
Replies(M) ==
    {m \in M : Owner(m.lock) \in peers /\ exiting[Owner(m.lock)] # "crashed"}

\* The end of every handler of the master: message m was handled, request r
\* is left in the phase and with the lockInfo given, and all the requests
\* that the NodeLocker granted are told so.
MasterDone(r, ph, inf, handled, answers) ==
    /\ phase' = [q \in Requests |->
                    IF q \in GrantedNow /\ ~ Remote(q) THEN "held"
                    ELSE IF q = r THEN ph ELSE phase[q]]
    /\ info' = [q \in Requests |->
                    IF q \in GrantedNow THEN "granted"
                    ELSE IF q = r THEN inf ELSE info[q]]
    /\ net' = (net \ handled) \cup
              Replies(answers \cup {Result("lock-result", q, TRUE) :
                                        q \in {g \in GrantedNow : Remote(g)}})
    /\ exiting' = [exiting EXCEPT ![Master] =
                    IF @ = "waiting" /\ \A q \in Requests : info'[q] = "none"
                    THEN "gone" ELSE @]
    /\ UNCHANGED peers

\* The phase of a request of the master itself; those of a worker change
\* only when it gets the answer.
Local(r, ph) == IF Remote(r) THEN phase[r] ELSE ph

Answer(type, r, ok) == IF Remote(r) THEN {Result(type, r, ok)} ELSE {}

\* `lock` of the master, for itself or for a worker.  When the NodeLocker
\* throws, because a lock of the transaction has expired, what was pushed to
\* `_locks` stays there.
MasterLock(r, handled) ==
    \/ /\ ~ Approved(Master, r)
       /\ LockerIdle
       /\ MasterDone(r, Local(r, "idle"), info[r], handled,
                     Answer("lock-result", r, FALSE))
    \/ /\ Approved(Master, r)
       /\ \E m \in OfTid(state, r.tid) : state[m] = "expired"
       /\ LockerIdle
       /\ MasterDone(r, Local(r, "idle"), "waiting", handled,
                     Answer("lock-result", r, FALSE))
    \/ /\ Approved(Master, r)
       /\ Lock(r)
       /\ MasterDone(r, Local(r, "requested"), "waiting", handled, {})

\* Mutant of MasterRelease: a lock that is gone is answered like one that
\* was released.
MasterReleaseIgnoresError(r, handled) ==
    /\ \/ Release(LockOf(r))
       \/ state[LockOf(r)] = "done" /\ LockerIdle
    /\ MasterDone(r, Local(r, "idle"), "none", handled,
                  Answer("unlock-result", r, TRUE))

\* `release` of the lock that the master made for a request.  NodeLocker
\* throws when that lock is gone, and it stays in `_locks`.
MasterRelease(r, handled) ==
    \/ /\ Release(LockOf(r))
       /\ MasterDone(r, Local(r, "idle"), "none", handled,
                     Answer("unlock-result", r, TRUE))
    \/ /\ state[LockOf(r)] = "done"
       /\ LockerIdle
       /\ MasterDone(r, Local(r, "idle"), info[r], handled,
                     Answer("unlock-result", r, FALSE))

\* The number of the lock that comes in the place of that of a request is
\* the number of that request.
MoveLock(r) ==
    /\ MoveToParent(LockOf(r))
    /\ \A l \in Locks : RequestOf(l) # r => state'[l] = state[l]

\* Mutants of MasterMove: a lock that could not be moved is answered like one
\* that was, and a lock that moves through the queue leaves `_locks` in the
\* meantime.
MasterMoveIgnoresError(r, handled) ==
    /\ MoveLock(r)
    /\ MasterDone(r, Local(r, "held"), info[r], handled,
                  IF \E l \in Queued(state') : RequestOf(l) = r THEN {}
                  ELSE Answer("lock-result", r, TRUE))
MasterMoveForgets(r, handled) ==
    /\ MoveLock(r)
    /\ MasterDone(r, Local(r, "moving"), "none", handled, {})

\* `moveToParent` of it: in place, through the queue, or not at all, in
\* which case the NodeLock is gone but not what is in `_locks`.  (That the
\* master releases such a lock of its own afterwards, in the `finally` of
\* the writer, throws and changes nothing.)
MasterMove(r, handled) ==
    \/ /\ AllowLock(state, LockOf(r))
       /\ LockerIdle
       /\ MasterDone(r, Local(r, "held"), info[r], handled,
                     Answer("lock-result", r, TRUE))
    \/ /\ MoveLock(r)
       /\ IF \E l \in Queued(state') : RequestOf(l) = r
          THEN MasterDone(r, Local(r, "moving"), info[r], handled, {})
          ELSE MasterDone(r, Local(r, "idle"), info[r], handled,
                          Answer("lock-result", r, FALSE))

-----------------------------------------------------------------------------
(* The transactions of the master. *)

MasterRequests(r) ==
    /\ ~ Remote(r) /\ Running(Master)
    /\ CanAsk(r)
    /\ Approved(Master, r)
    /\ MasterLock(r, {})

MasterReleases(r) ==
    /\ ~ Remote(r) /\ phase[r] = "held"
    /\ MasterRelease(r, {})

MasterMoves(r) ==
    /\ ~ Remote(r) /\ phase[r] = "held"
    /\ MasterMove(r, {})

TimerFires(l) ==
    /\ Running(Master)
    /\ Timeout(l)
    /\ MasterDone(RequestOf(l), phase[RequestOf(l)], info[RequestOf(l)], {}, {})

-----------------------------------------------------------------------------
(* The transactions of a worker: each call sends a message to the master.  *)

WorkerAsks(r, from, to, type) ==
    /\ Remote(r) /\ Running(Owner(r))
    /\ phase[r] = from
    /\ phase' = [phase EXCEPT ![r] = to]
    /\ net' = net \cup {Ask(type, r)}
    /\ LockerIdle
    /\ UNCHANGED <<info, peers, exiting>>

WorkerRequests(r) ==
    /\ CanAsk(r)
    /\ Approved(Owner(r), r)
    /\ WorkerAsks(r, "idle", "requested", "lock-request")

WorkerReleases(r) == WorkerAsks(r, "held", "releasing", "unlock-request")

WorkerMoves(r) == WorkerAsks(r, "held", "moving", "move-lock-request")

\* A result comes in: when it leaves the worker without locks (`removeLock`)
\* and the worker is exiting, then it exits.
WorkerGets(m, ph, sends) ==
    LET w == Owner(m.lock)
        exits == /\ exiting[w] = "waiting"
                 /\ ph \in {"idle", "stale"}
                 /\ LocksOf(w) = {m.lock}
    IN  /\ m \in net
        /\ Running(w)
        /\ phase' = [phase EXCEPT ![m.lock] = ph]
        /\ net' = (net \ {m}) \cup sends \cup
                  (IF exits THEN {Greeting("bye", w)} ELSE {})
        /\ exiting' = IF exits THEN [exiting EXCEPT ![w] = "gone"] ELSE exiting
        /\ LockerIdle
        /\ UNCHANGED <<info, peers>>

WorkerGetsLock(r) == WorkerGets(Result("lock-result", r, TRUE), "held", {})

WorkerGetsNoLock(r) ==
    /\ phase[r] = "requested"
    /\ WorkerGets(Result("lock-result", r, FALSE), "idle", {})

\* A move has failed: the worker removes its lock, and then its writer
\* releases that lock in its `finally` all the same.
WorkerGetsNoMove(r) ==
    /\ phase[r] # "requested"
    /\ WorkerGets(Result("lock-result", r, FALSE), "stale",
                  {Ask("unlock-request", r)})

WorkerGetsUnlocked(r) ==
    WorkerGets(Result("unlock-result", r, TRUE), "idle", {})

\* A release is rejected: `removeLock` is not reached.
WorkerGetsNotUnlocked(r) ==
    WorkerGets(Result("unlock-result", r, FALSE),
               IF phase[r] = "stale" THEN "idle" ELSE phase[r], {})

-----------------------------------------------------------------------------
(* The messages that the master handles. *)

MasterGets(m, w) ==
    /\ m \in net
    /\ Running(Master)
    /\ m.type = "hello" \/ Greeting("hello", w) \notin net

HandleLockRequest(r) ==
    /\ MasterGets(Ask("lock-request", r), Owner(r))
    /\ MasterLock(r, {Ask("lock-request", r)})

HandleUnlockRequest(r) ==
    /\ MasterGets(Ask("unlock-request", r), Owner(r))
    /\ MasterRelease(r, {Ask("unlock-request", r)})

HandleMoveLockRequest(r) ==
    /\ MasterGets(Ask("move-lock-request", r), Owner(r))
    /\ MasterMove(r, {Ask("move-lock-request", r)})

\* `addPeer` and `removePeer` do nothing on a peer that is exiting.
HandleHello(w) ==
    /\ MasterGets(Greeting("hello", w), w)
    /\ peers' = IF exiting[Master] = "no" THEN peers \cup {w} ELSE peers
    /\ net' = net \ {Greeting("hello", w)}
    /\ LockerIdle
    /\ UNCHANGED <<phase, info, exiting>>

HandleBye(w) ==
    /\ MasterGets(Greeting("bye", w), w)
    /\ peers' = IF exiting[Master] = "no" THEN peers \ {w} ELSE peers
    /\ net' = net \ {Greeting("bye", w)}
    /\ LockerIdle
    /\ UNCHANGED <<phase, info, exiting>>

-----------------------------------------------------------------------------
(* Peers that exit, and workers that die. *)

\* `exit`: at once when there are no locks, else when they are cleared.
Exit(p) ==
    /\ exiting[p] = "no" /\ CanLeave
    /\ exiting' = [exiting EXCEPT ![p] =
                      IF LocksOf(p) = {} THEN "gone" ELSE "waiting"]
    /\ net' = IF p \in Workers /\ LocksOf(p) = {}
              THEN net \cup {Greeting("bye", p)} ELSE net
    /\ LockerIdle
    /\ UNCHANGED <<phase, info, peers>>

\* A worker dies with its locks; what it sent may still arrive.
Crash(w) ==
    /\ exiting[w] = "waiting" \/ (exiting[w] = "no" /\ CanLeave)
    /\ exiting' = [exiting EXCEPT ![w] = "crashed"]
    /\ phase' = [r \in Requests |-> IF Owner(r) = w THEN "idle" ELSE phase[r]]
    /\ net' = {m \in net : ~ ("ok" \in DOMAIN m /\ Owner(m.lock) = w)}
    /\ LockerIdle
    /\ UNCHANGED <<info, peers>>

\* The master is told (cluster event 'exit').  Its locks are left alone.
ClusterExit(w) ==
    /\ exiting[w] = "crashed"
    /\ exiting[Master] = "no"
    /\ w \in peers
    /\ peers' = peers \ {w}
    /\ LockerIdle
    /\ UNCHANGED <<phase, info, net, exiting>>

-----------------------------------------------------------------------------

IPCInit ==
    /\ Init
    /\ phase = [r \in Requests |-> "idle"]
    /\ info = [r \in Requests |-> "none"]
    /\ net = {Greeting("hello", w) : w \in Workers}
    /\ peers = {}
    /\ exiting = [p \in Peers |-> "no"]

Transaction(r) ==
    \/ MasterRequests(r) \/ MasterReleases(r) \/ MasterMoves(r)
    \/ WorkerRequests(r) \/ WorkerReleases(r) \/ WorkerMoves(r)

Handle(r) ==
    \/ HandleLockRequest(r) \/ HandleUnlockRequest(r) \/ HandleMoveLockRequest(r)
    \/ WorkerGetsLock(r) \/ WorkerGetsNoLock(r) \/ WorkerGetsNoMove(r)
    \/ WorkerGetsUnlocked(r) \/ WorkerGetsNotUnlocked(r)

Greet(w) == HandleHello(w) \/ HandleBye(w)

IPCNext ==
    \/ \E r \in Requests : Transaction(r) \/ Handle(r)
    \/ \E l \in Locks : TimerFires(l)
    \/ \E w \in Workers : Greet(w) \/ Crash(w) \/ ClusterExit(w)
    \/ \E p \in Peers : Exit(p)

IPCSpec == IPCInit /\ [][IPCNext]_ipcVars

\* Messages arrive and are handled, and timers fire.
IPCFairSpec ==
    /\ IPCSpec
    /\ \A r \in Requests : WF_ipcVars(Handle(r))
    /\ \A w \in Workers : WF_ipcVars(Greet(w))
    /\ \A l \in Locks : WF_ipcVars(TimerFires(l))

-----------------------------------------------------------------------------

\* Every variable keeps its type.
IPCTypeOK ==
    /\ TypeOK
    /\ phase \in [Requests -> {"idle", "requested", "held", "releasing", "moving",
                               "stale"}]
    /\ info \in [Requests -> {"none", "waiting", "granted"}]
    /\ net \subseteq
           [type : {"hello", "bye"}, from : Workers] \cup
           [type : {"lock-request", "unlock-request", "move-lock-request"},
            lock : Requests] \cup
           [type : {"lock-result", "unlock-result"}, lock : Requests,
            ok : BOOLEAN]
    /\ peers \subseteq Workers
    /\ exiting \in [Peers -> {"no", "waiting", "gone", "crashed"}]

\* Of two peers that believe they hold locks that clash, one has a lock that
\* expired in the meantime: belief lags behind the NodeLocker in no other
\* way, whatever is under way between the processes.
ExclusiveAcrossPeers ==
    \A r, q \in Requests :
        phase[r] = "held" /\ phase[q] = "held" /\ Clash(r, q) =>
            state[LockOf(r)] = "expired" \/ state[LockOf(q)] = "expired"

\* A result that is under way is awaited: the worker has not been answered
\* yet and waits for an answer of that type ("The request must be known to
\* us!").  A release fails only of a lock that a failed move has given up, so
\* no worker keeps a lock in its `_locks` because it could not release it.
ResultsAwaited ==
    \A r \in Requests :
        LET results == {m \in net : "ok" \in DOMAIN m /\ m.lock = r}
        IN  /\ Cardinality(results) <= 1
            /\ \A m \in results :
                  IF m.type = "unlock-result"
                  THEN phase[r] = IF m.ok THEN "releasing" ELSE "stale"
                  ELSE phase[r] \in {"requested", "moving"}

\* Every lock in the NodeLocker is in `_locks` of the master, and is one
\* that a peer waits for or holds, unless that peer has died: nothing that
\* was granted is forgotten.
NoOrphanLock ==
    \A l \in Queued(state) :
        LET r == RequestOf(l)
        IN  /\ info[r] # "none"
            /\ phase[r] # "idle" \/ exiting[Owner(r)] = "crashed"

\* A peer that has exited has left nothing in the NodeLocker, and the master
\* exits only when nobody holds a lock any more.
GoneIsClean ==
    /\ \A l \in Queued(state) : exiting[Owner(RequestOf(l))] # "gone"
    /\ exiting[Master] = "gone" => \A r \in Requests : phase[r] # "held"

\* While the master stays, every lock that a peer asks for or moves is
\* settled once no new ones are asked for, whoever dies or forgets to
\* release: the timers of the master see to it.
AskAnew(r) == \/ MasterRequests(r) \/ MasterMoves(r)
              \/ WorkerRequests(r) \/ WorkerMoves(r)

RequestsAnswered ==
    [](exiting[Master] = "no") /\ <>[][\A r \in Requests : ~ AskAnew(r)]_ipcVars =>
        \A r \in Requests :
            [](phase[r] \in {"requested", "moving"} =>
                    <>(phase[r] \notin {"requested", "moving"}))
=============================================================================
