--------------------------- MODULE MCHarvestApply ---------------------------
(* Values of the constants of HarvestApply for TLC. *)
EXTENDS HarvestApply

CONSTANTS e1, e2, e3, n1, n2

\* The proposals have one title, but for e2.
TwoTitles == [e \in Props |-> IF e = e2 THEN n2 ELSE n1]
=============================================================================
