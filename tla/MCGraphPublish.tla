---- MODULE MCGraphPublish ----
(* Instances of GraphPublish for TLC. *)
EXTENDS GraphPublish, TLC

Symmetry == Permutations(Builders)
====
