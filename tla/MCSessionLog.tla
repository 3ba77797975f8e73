---- MODULE MCSessionLog ----
(* Instances of SessionLog for TLC. *)
EXTENDS SessionLog, TLC

CONSTANTS p1, p2, e0, e1, e2

\* Every host ends its sessions; codex refreshes its own at each stop.
HookLoads ==
    (Vendors \X {"finalize"}) \cup ((Vendors \cap {"codex"}) \X {"refresh"})

Symmetry == Permutations(Procs) \cup Permutations(Spans \ Quiet)
====
