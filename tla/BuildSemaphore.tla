--------------------------- MODULE BuildSemaphore ---------------------------
(***************************************************************************)
(* What the build lock and the build pool promise together: one build of a *)
(* repository at a time, and never more builds than slots among the        *)
(* processes that run with that many slots or fewer.                       *)
(***************************************************************************)
EXTENDS Naturals, FiniteSets, Absent

CONSTANTS GateProcs, Repos, SlotCounts

VARIABLE building  \* [repo, slots] of the build a process runs, or None

\* The builds of processes that run with at least one and at most n slots.
Within(n) == {p \in GateProcs :
                building[p] # None /\ building[p].slots \in 1..n}

Begin(p, r, n) ==
    /\ building[p] = None
    /\ \A q \in GateProcs : building[q] # None => building[q].repo # r
    /\ building' = [building EXCEPT ![p] = [repo |-> r, slots |-> n]]
    /\ \A k \in SlotCounts \ {0} : Cardinality(Within(k)') =< k

End(p) ==
    /\ building[p] # None
    /\ building' = [building EXCEPT ![p] = None]

SemaphoreInit == building = [p \in GateProcs |-> None]

SemaphoreNext ==
    \E p \in GateProcs :
        \/ \E r \in Repos, n \in SlotCounts : Begin(p, r, n)
        \/ End(p)

SemaphoreSpec == SemaphoreInit /\ [][SemaphoreNext]_building
=============================================================================
