----------------------------- MODULE MCIPCLocks -----------------------------
(***************************************************************************)
(* IPCLocks with a master and two workers, one transaction on each.        *)
(***************************************************************************)
EXTENDS IPCLocks, TLC

CONSTANTS m, a, b, tm, ta, tb, i

MCPeerOf == [t \in Tids |-> IF t = tm THEN m ELSE IF t = ta THEN a ELSE b]

\* The two workers may change places, with their transactions.
Symmetry ==
    {p \in Permutations({a, b, ta, tb}) : {p[a], p[b]} = {a, b} /\ (p[a] = b <=> p[ta] = tb)}
=============================================================================
