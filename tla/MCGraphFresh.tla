---- MODULE MCGraphFresh ----
(* Instances of GraphFresh for TLC. *)
EXTENDS GraphFresh

AllJobs == {RefreshJob, RefreshProbeJob, RefreshForceJob, BuildJob}
MixedJobs == {RefreshProbeJob, BuildJob}
====
