------------------------------- MODULE RWLock -------------------------------
(***************************************************************************)
(* What locking promises to its callers, whatever the implementation: at   *)
(* any time either any number of transactions hold read access, or one     *)
(* transaction holds write access (and possibly read access as well).      *)
(*                                                                         *)
(* A hold is a pair of a transaction and a mode; a transaction may hold    *)
(* both modes.  One step takes away at most one hold, and may at the same  *)
(* time hand out new ones: that is what releasing a lock does to a queue   *)
(* of waiting requests.                                                    *)
(***************************************************************************)
EXTENDS FiniteSets

CONSTANT Tids        \* the transactions

VARIABLE holds       \* the holds that are handed out

Modes == {"read", "write"}
Holds == Tids \X Modes

\* Two holds clash when they are of different transactions and one writes.
Clash(g, h) == g[1] # h[1] /\ (g[2] = "write" \/ h[2] = "write")

Compatible(H) == \A g, h \in H : ~ Clash(g, h)

-----------------------------------------------------------------------------

Init == holds = {}

\* New holds are handed out, next to the ones there are.
Grant ==
    \E G \in SUBSET Holds :
        /\ holds' = holds \cup G
        /\ Compatible(holds')

\* One hold ends, which may make room for others.
Return(h) ==
    \E G \in SUBSET Holds :
        /\ holds' = (holds \ {h}) \cup G
        /\ Compatible(holds')

Next == Grant \/ \E h \in holds : Return(h)

Spec == Init /\ [][Next]_holds
=============================================================================
