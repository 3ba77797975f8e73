---------------------------- MODULE GraphRegister ----------------------------
(***************************************************************************)
(* What publication promises about the graph of one repository: a register *)
(* that holds a generation.  A new generation replaces an older one at     *)
(* once; nothing else changes the register, except that a swap left        *)
(* half-way, by a kill or by a rename back that failed, may cost the       *)
(* generation it was replacing.                                            *)
(***************************************************************************)
EXTENDS Naturals

VARIABLES live,   \* the generation a reader can reach or recover, 0 for none
          torn    \* the last swap was left half-way

vars == <<live, torn>>

Init == live = 0 /\ torn = FALSE

Publish == live' \in Nat /\ live' > live /\ torn' = FALSE

Tear == live' = live /\ torn' = TRUE

Lose == torn /\ live' = 0 /\ torn' = torn

Next == Publish \/ Tear \/ Lose

Spec == Init /\ [][Next]_vars
=============================================================================
