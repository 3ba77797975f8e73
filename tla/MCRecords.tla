------------------------------ MODULE MCRecords ------------------------------
(***************************************************************************)
(* An instance for TLC of the six components that keep records of          *)
(* sessions: the index and its links (SessionIndex), the inbox of the      *)
(* telemetry (Inbox), harvest proposals (HarvestApply) and who is asked    *)
(* for them (HarvestQueue), the queue of distillation (Distill) and the    *)
(* retention sweep (Retention).  Each has its own files and tables, or its *)
(* own view of them, so a behaviour is a behaviour of one of them, and the *)
(* others rest: part says which one moves.                                 *)
(***************************************************************************)
EXTENDS SessionIndex, Inbox, MCHarvestApply, HarvestQueue, Distill, Retention, TLC

CONSTANTS p1, p2, i1, i2, i3, k1, k2, u1, u2, ta, tb, s1, s2, x1

VARIABLE part
recordsVars == <<part, indexVars, inboxVars, applyVars, queueVars, distillVars, sweepVars>>

TwoTraces == [s \in Spans |-> IF s \in {k1, u1} THEN ta ELSE tb]
TheSession == [e \in Proposals |-> x1]

\* The processes are alike, and so are the chats.
Alike == Permutations({p1, p2}) \cup Permutations(Chats)

RecordsInit ==
    /\ part \in {"index", "inbox", "apply", "queue", "distill", "sweep"}
    /\ IndexInit /\ InboxInit /\ ApplyInit /\ QueueInit /\ DistillInit /\ SweepInit
    /\ part # "index" => index = None
    /\ part # "apply" => target = None

RecordsNext ==
    /\ UNCHANGED part
    /\ \/ /\ part = "index" /\ IndexNext
          /\ UNCHANGED <<inboxVars, applyVars, queueVars, distillVars, sweepVars>>
       \/ /\ part = "inbox" /\ InboxNext
          /\ UNCHANGED <<indexVars, applyVars, queueVars, distillVars, sweepVars>>
       \/ /\ part = "apply" /\ ApplyNext
          /\ UNCHANGED <<indexVars, inboxVars, queueVars, distillVars, sweepVars>>
       \/ /\ part = "queue" /\ QueueNext
          /\ UNCHANGED <<indexVars, inboxVars, applyVars, distillVars, sweepVars>>
       \/ /\ part = "distill" /\ DistillNext
          /\ UNCHANGED <<indexVars, inboxVars, applyVars, queueVars, sweepVars>>
       \/ /\ part = "sweep" /\ SweepNext
          /\ UNCHANGED <<indexVars, inboxVars, applyVars, queueVars, distillVars>>

RecordsSpec == RecordsInit /\ [][RecordsNext]_recordsVars

\* The state of each of the six is of its type.
RecordsTypeOK ==
    /\ IndexTypeOK /\ InboxTypeOK /\ ApplyTypeOK
    /\ QueueTypeOK /\ DistillTypeOK /\ SweepTypeOK
=============================================================================
