---- MODULE MCSessionDoc ----
(* Instances of SessionDoc for TLC. *)
EXTENDS SessionDoc, TLC

Symmetry == Permutations(Procs)
====
