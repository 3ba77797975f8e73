----------------------------- MODULE GraphFresh -----------------------------
(***************************************************************************)
(* Freshness of the graph of one repository: what a graph read, so graph   *)
(* refresh and the watcher of so dev decide from the fingerprint sidecar,  *)
(* and when a build stamps it (internal/graph/engine/freshness.go,         *)
(* index_all.go, internal/graph/watch/watch.go, cmd/so/managed.go,         *)
(* graph_cmd.go).  Publication is one step here; GraphPublish opens it up. *)
(*                                                                         *)
(* The working tree is one file: a content, which a digest identifies, and *)
(* a stamp that stands for its size and mtime.                             *)
(***************************************************************************)
EXTENDS Naturals

CONSTANTS Contents,    \* contents of the working tree
          Readers,     \* processes that run so graph query and the other reads
          Refreshers,  \* processes that run so graph refresh, build or init
          Watchers,    \* the poller of so dev
          Jobs,        \* what a refresher may ask for
          HashMode,    \* SUPEROPEN_REFRESH=hash
          KeepStamp,   \* an editor may change a file and keep its size and mtime
          MaxEdits, MaxFails,   \* bounds on edits and on failed builds
          None

Procs == Readers \cup Refreshers \cup Watchers

\* probe: FromProbe; force: skip the unchanged test; block: wait for the build
\* lock (not Incremental); again: the caller stamps after a finished build.
Job == [probe : BOOLEAN, force : BOOLEAN, block : BOOLEAN, again : BOOLEAN]
ReadJob  == [probe |-> TRUE, force |-> FALSE, block |-> FALSE, again |-> FALSE]
WatchJob == [probe |-> TRUE, force |-> FALSE, block |-> FALSE, again |-> TRUE]
RefreshJob      == [WatchJob EXCEPT !.probe = FALSE]
RefreshProbeJob == WatchJob
RefreshForceJob == [RefreshJob EXCEPT !.force = TRUE, !.block = TRUE]
BuildJob        == [RefreshJob EXCEPT !.block = TRUE, !.again = FALSE]

ASSUME FreshAssumption ==
    /\ HashMode \in BOOLEAN /\ KeepStamp \in BOOLEAN
    /\ MaxEdits \in Nat /\ MaxFails \in Nat
    /\ None \notin Contents \cup Readers \cup Refreshers \cup Watchers
    /\ Contents # {}
    /\ Jobs \subseteq Job

VARIABLES
    tree,    \* the working tree: [c |-> content, t |-> stamp]
    edits,   \* edits so far
    fails,   \* failed builds so far
    graph,   \* content the published graph was built from
    fp,      \* fingerprint.json: a tree as WriteFingerprint found it
    lock,    \* holder of the build lock
    pc, job, \* step and request of each process
    snap,    \* content the process parsed
    seen,    \* content of the graph that the process planned against
    res,     \* status of its last build
    flag,    \* the answer starts with the stale header
    during,  \* history: contents of the tree since the read began
    quiet,   \* history: no edit, no other publication and no stamp of its own
             \* that failed since the job began
    raced    \* history: the tree changed between a plan or parse and its stamp

vars == <<tree, edits, fails, graph, fp, lock, pc, job, snap, seen, res, flag,
          during, quiet, raced>>
pvars == <<job, snap, seen, res, flag>>

Tree == [c : Contents, t : 0..MaxEdits]
Planning == {"plandb", "plantree", "parse"}
Stamping == {"publish", "install", "stamp", "ret"}
Committed == {"plantree"} \cup Stamping
Steps == {"idle", "probe", "wait", "reprobe", "answer"} \cup Planning \cup Stamping
Results == {"none", "ok", "unchanged", "busy", "error", "noprobe"}

Init ==
    /\ tree \in [c : Contents, t : {0}]
    /\ edits = 0
    /\ fails = 0
    /\ graph = None
    /\ fp = None
    /\ lock = None
    /\ pc = [p \in Procs |-> "idle"]
    /\ job = [p \in Procs |-> ReadJob]
    /\ snap = [p \in Procs |-> None]
    /\ seen = [p \in Procs |-> None]
    /\ res = [p \in Procs |-> "none"]
    /\ flag = [p \in Procs |-> FALSE]
    /\ during = [p \in Procs |-> {}]
    /\ quiet = [p \in Procs |-> FALSE]
    /\ raced = FALSE

Goto(p, step) == pc' = [pc EXCEPT ![p] = step] /\ UNCHANGED <<during, quiet>>

\* A process ends: its local state is gone.
End(p) ==
    /\ pc' = [pc EXCEPT ![p] = "idle"]
    /\ job' = [job EXCEPT ![p] = ReadJob]
    /\ snap' = [snap EXCEPT ![p] = None]
    /\ seen' = [seen EXCEPT ![p] = None]
    /\ res' = [res EXCEPT ![p] = "none"]
    /\ flag' = [flag EXCEPT ![p] = FALSE]
    /\ during' = [during EXCEPT ![p] = {}]
    /\ quiet' = [quiet EXCEPT ![p] = FALSE]

-----------------------------------------------------------------------------
(* The fingerprint sidecar. *)

\* PlanIncremental and PlanIncrementalFromProbe: the content that is compared
\* with file_hashes.  The probe trusts the digest of a file whose stamp matches.
PlannedContent(probe) ==
    IF probe /\ ~HashMode /\ fp # None /\ fp.t = tree.t THEN fp.c ELSE tree.c

\* ProbeDirty.
DirtyNever == FALSE
Dirty ==
    IF fp = None THEN TRUE
    ELSE IF HashMode THEN graph = None \/ PlannedContent(TRUE) # graph
    ELSE fp.t # tree.t

\* WriteFingerprint records the tree as it is now.
WriteFingerprint == fp' = tree

\* Callers ignore its error.  The listing fails, or os.WriteFile does after it
\* truncated the sidecar, which loadFingerprint then does not accept.
WriteFails == fails < MaxFails /\ fails' = fails + 1 /\ fp' \in {fp, None}

-----------------------------------------------------------------------------
(* The working tree. *)

Edit(c, newStamp) ==
    /\ edits < MaxEdits
    /\ c # tree.c
    /\ newStamp \/ KeepStamp
    /\ edits' = edits + 1
    /\ tree' = [c |-> c, t |-> IF newStamp THEN edits + 1 ELSE tree.t]
    /\ during' = [p \in Procs |->
                    IF p \in Readers /\ pc[p] # "idle" THEN during[p] \cup {c} ELSE {}]
    /\ quiet' = [p \in Procs |-> FALSE]
    /\ raced' = (raced \/ \E p \in Procs : pc[p] \in Committed)
    /\ UNCHANGED <<fails, graph, fp, lock, pc, pvars>>

-----------------------------------------------------------------------------
(* IndexAllDevelopment. *)

Start(p, j, step) ==
    /\ pc[p] = "idle"
    /\ job' = [job EXCEPT ![p] = j]
    /\ during' = [during EXCEPT ![p] = IF p \in Readers THEN {tree.c} ELSE {}]
    /\ quiet' = [quiet EXCEPT ![p] = p \in Refreshers]
    /\ pc' = [pc EXCEPT ![p] = step]
    /\ UNCHANGED <<tree, edits, fails, graph, fp, lock, snap, seen, res, flag, raced>>

\* tryUnchangedBuild reads file_hashes, then the tree; --force and a missing
\* database skip it, and a plan that fails counts as a change.
PlanDb(p) ==
    /\ pc[p] = "plandb"
    /\ \E found \in {None, graph} :
        /\ job[p].force => found = None
        /\ seen' = [seen EXCEPT ![p] = found]
    /\ Goto(p, "plantree")
    /\ UNCHANGED <<tree, edits, fails, graph, fp, lock, job, snap, res, flag, raced>>

UnchangedBlindly(p) == seen[p] # None
Unchanged(p) == seen[p] # None /\ PlannedContent(job[p].probe) = seen[p]

\* A new git revision of the same content rebuilds too, except from a probe.
PlanTree(p) ==
    /\ pc[p] = "plantree"
    /\ \/ /\ Unchanged(p)
          /\ res' = [res EXCEPT ![p] = "unchanged"]
          /\ Goto(p, "stamp")
       \/ /\ ~Unchanged(p) \/ ~job[p].probe
          /\ Goto(p, "parse")
          /\ UNCHANGED res
    /\ UNCHANGED <<tree, edits, fails, graph, fp, lock, job, snap, seen, flag, raced>>

Parse(p) ==
    /\ pc[p] = "parse"
    /\ snap' = [snap EXCEPT ![p] = tree.c]
    /\ Goto(p, "publish")
    /\ UNCHANGED <<tree, edits, fails, graph, fp, lock, job, seen, res, flag, raced>>

TakeLock(p) ==
    /\ pc[p] = "publish"
    /\ lock = None
    /\ lock' = p
    /\ Goto(p, "install")
    /\ UNCHANGED <<tree, edits, fails, graph, fp, pvars, raced>>

\* refresh_in_progress, or pool_full while other repositories build.
Busy(p) ==
    /\ pc[p] = "publish"
    /\ ~job[p].block
    /\ res' = [res EXCEPT ![p] = "busy"]
    /\ Goto(p, "ret")
    /\ UNCHANGED <<tree, edits, fails, graph, fp, lock, job, snap, seen, flag, raced>>

Install(p) ==
    /\ pc[p] = "install"
    /\ graph' = snap[p]
    /\ lock' = None
    /\ res' = [res EXCEPT ![p] = "ok"]
    /\ quiet' = [q \in Procs |-> q = p /\ quiet[p]]
    /\ pc' = [pc EXCEPT ![p] = "stamp"]
    /\ UNCHANGED <<tree, edits, fails, fp, job, snap, seen, flag, during, raced>>

\* The deferred unlock of publish, or the kernel's when the process dies.
UnlockNever(p) == UNCHANGED lock
Unlock(p) == lock' = IF lock = p THEN None ELSE lock

\* Parsing or the build fails, or the count of a published graph does, or the
\* 12 s budget of a read cancels it.
Fail(p) ==
    /\ pc[p] \in {"parse", "install"} \/ (pc[p] = "stamp" /\ res[p] = "ok")
    /\ fails < MaxFails
    /\ fails' = fails + 1
    /\ Unlock(p)
    /\ res' = [res EXCEPT ![p] = "error"]
    /\ Goto(p, "ret")
    /\ UNCHANGED <<tree, edits, graph, fp, job, snap, seen, flag, raced>>

StampNothing == UNCHANGED fp
StampBuild == WriteFingerprint

Stamp(p) ==
    /\ pc[p] = "stamp"
    /\ StampBuild
    /\ Goto(p, "ret")
    /\ UNCHANGED <<tree, edits, fails, graph, lock, pvars, raced>>

StampFails(p) ==
    /\ pc[p] = "stamp"
    /\ WriteFails
    /\ pc' = [pc EXCEPT ![p] = "ret"]
    /\ quiet' = [quiet EXCEPT ![p] = FALSE]
    /\ UNCHANGED <<tree, edits, graph, lock, pvars, during, raced>>

-----------------------------------------------------------------------------
(* The callers. *)

\* runGraphRefresh stamps again after a finished build and skips a busy one;
\* the watcher's tick stamps after every call that returned no error.
StampsAlways(p) == job[p].again
StampsAgain(p) ==
    /\ job[p].again
    /\ \/ res[p] \in {"ok", "unchanged"}
       \/ p \in Watchers /\ res[p] = "busy"

Return(p) ==
    /\ pc[p] = "ret"
    /\ p \notin Readers
    /\ IF StampsAgain(p) THEN WriteFingerprint ELSE UNCHANGED fp
    /\ End(p)
    /\ UNCHANGED <<tree, edits, fails, graph, lock, raced>>

ReturnUnstamped(p) ==
    /\ pc[p] = "ret"
    /\ p \notin Readers
    /\ StampsAgain(p)
    /\ WriteFails
    /\ End(p)
    /\ UNCHANGED <<tree, edits, graph, lock, raced>>

\* A process is killed, in the middle of a write of the sidecar as well.
Stamps(p) == pc[p] = "stamp" \/ (pc[p] = "ret" /\ StampsAgain(p))
Kill(p) ==
    /\ pc[p] # "idle"
    /\ fails < MaxFails
    /\ fails' = fails + 1
    /\ fp' = fp \/ (Stamps(p) /\ fp' = None)
    /\ Unlock(p)
    /\ End(p)
    /\ UNCHANGED <<tree, edits, graph, raced>>

\* watch.tick: nothing to do while the probe is clean or fails, or a build is
\* running.
Tick(p) ==
    /\ Dirty
    /\ lock = None
    /\ Start(p, WatchJob, "plandb")

\* The read goes on at another step.
Continue(p, step) == Goto(p, step) /\ UNCHANGED pvars

\* refreshGraphForRead: retry a busy build, give up on its deadline; an error
\* ends the read unless it is the budget that ran out.
ReadReturn(p) ==
    /\ pc[p] = "ret"
    /\ p \in Readers
    /\ \/ res[p] \in {"ok", "unchanged"} /\ Continue(p, "reprobe")
       \/ res[p] = "busy" /\ Continue(p, "wait")
       \/ res[p] = "error" /\ Continue(p, "reprobe")
       \/ res[p] = "error" /\ End(p)
    /\ UNCHANGED <<tree, edits, fails, graph, fp, lock, raced>>

\* WaitUntilFresh, then another OpBuild; a probe that fails is not fresh.
Wait(p) ==
    /\ pc[p] = "wait"
    /\ Continue(p, "plandb") \/ (~Dirty /\ Continue(p, "reprobe"))
    /\ UNCHANGED <<tree, edits, fails, graph, fp, lock, raced>>

\* The end of the read budget (the read goes on) or of the wait for a slot
\* (it fails).
GiveUpNever(p) == FALSE /\ UNCHANGED vars
GiveUp(p) ==
    /\ pc[p] = "wait"
    /\ Continue(p, "reprobe") \/ End(p)
    /\ UNCHANGED <<tree, edits, fails, graph, fp, lock, raced>>

\* ensureFreshGraph before the refresh.  A probe that fails is taken for a clean
\* one: the read goes on with the graph as it is and no header.
Probe(p) ==
    /\ pc[p] = "probe"
    /\ flag' = [flag EXCEPT ![p] = FALSE]
    /\ Goto(p, IF Dirty THEN "plandb" ELSE "answer")
    /\ UNCHANGED <<tree, edits, fails, graph, fp, lock, job, snap, seen, res, raced>>

ProbeFails(p) ==
    /\ pc[p] = "probe"
    /\ flag' = [flag EXCEPT ![p] = FALSE]
    /\ res' = [res EXCEPT ![p] = "noprobe"]
    /\ Goto(p, "answer")
    /\ UNCHANGED <<tree, edits, fails, graph, fp, lock, job, snap, seen, raced>>

\* ensureFreshGraph after the refresh: here a probe that fails sets the header.
Reprobe(p) ==
    /\ pc[p] = "reprobe"
    /\ \E failed \in BOOLEAN : flag' = [flag EXCEPT ![p] = failed \/ Dirty]
    /\ Goto(p, "answer")
    /\ UNCHANGED <<tree, edits, fails, graph, fp, lock, job, snap, seen, res, raced>>

\* The read opens the database and prints the header, if any, and the rows.
Answer(p) ==
    /\ pc[p] = "answer"
    /\ End(p)
    /\ UNCHANGED <<tree, edits, fails, graph, fp, lock, raced>>

BuildStep(p) ==
    \/ PlanDb(p)
    \/ PlanTree(p)
    \/ Parse(p)
    \/ TakeLock(p)
    \/ Busy(p)
    \/ Install(p)
    \/ Fail(p)
    \/ Stamp(p)
    \/ StampFails(p)

ReadStep(p) ==
    \/ Probe(p)
    \/ ProbeFails(p)
    \/ ReadReturn(p)
    \/ Wait(p)
    \/ GiveUp(p)
    \/ Reprobe(p)
    \/ Answer(p)

Next ==
    \/ \E c \in Contents, newStamp \in BOOLEAN : Edit(c, newStamp)
    \/ \E p \in Readers : Start(p, ReadJob, "probe") \/ ReadStep(p)
    \/ \E p \in Refreshers : \E j \in Jobs : Start(p, j, "plandb")
    \/ \E p \in Watchers : Tick(p)
    \/ \E p \in Refreshers \cup Watchers : Return(p) \/ ReturnUnstamped(p)
    \/ \E p \in Procs : BuildStep(p) \/ Kill(p)

Spec == Init /\ [][Next]_vars

\* A process that runs keeps running, the watcher's ticker keeps firing and
\* finds the lock and a slot free at some tick if it keeps trying, and a
\* deadline that a read keeps waiting for passes.  Nobody is obliged to edit,
\* to read or to refresh.
Fairness ==
    /\ \A p \in Procs : WF_vars(BuildStep(p))
    /\ \A p \in Readers : WF_vars(ReadStep(p)) /\ SF_vars(GiveUp(p))
    /\ \A p \in Refreshers \cup Watchers : WF_vars(Return(p))
    /\ \A p \in Watchers : WF_vars(Tick(p)) /\ SF_vars(TakeLock(p))

FairSpec == Spec /\ Fairness

-----------------------------------------------------------------------------
(* Properties. *)

\* Every variable keeps its type, and the build lock is held only by a process
\* between its acquisition and the end of its build.
TypeOK ==
    /\ tree \in Tree
    /\ edits \in 0..MaxEdits /\ fails \in 0..MaxFails
    /\ graph \in Contents \cup {None}
    /\ fp \in Tree \cup {None}
    /\ lock \in {None} \cup {p \in Procs : pc[p] = "install"}
    /\ pc \in [Procs -> Steps] /\ job \in [Procs -> Job]
    /\ snap \in [Procs -> Contents \cup {None}]
    /\ seen \in [Procs -> Contents \cup {None}]
    /\ res \in [Procs -> Results]
    /\ flag \in [Procs -> BOOLEAN]
    /\ during \in [Procs -> SUBSET Contents]
    /\ quiet \in [Procs -> BOOLEAN] /\ raced \in BOOLEAN

\* While no edit ever fell between the moment a process read the tree and the
\* moment it stamped the fingerprint, a clean probe means the published graph
\* is the graph of the tree: the sidecar is sound up to that one race.
CleanIsFresh == (~raced /\ ~Dirty) => graph = tree.c

\* A refresh, build or init that reports ok or unchanged, with no edit and no
\* other publication while it ran and its own stamps written, leaves the graph
\* and the fingerprint equal to the tree, whatever lies the sidecar told before;
\* or no sidecar, where another process failed in its write after truncating it.
RefreshHeals ==
    [][\A p \in Refreshers :
        Return(p) /\ res[p] \in {"ok", "unchanged"} /\ quiet[p] =>
            graph = tree.c /\ fp' \in {tree, None}]_vars

\* docs/graph.md: "If the index is still behind, the answer starts with [!]
\* graph stale".  While no edit ever fell inside a build, a read without that
\* header is answered from a content the tree had at some moment of the read,
\* unless its first probe failed: the doc does not say that such a read prints
\* an old graph without the header.
FreshOrFlagged ==
    [][\A p \in Readers :
        Answer(p) /\ graph # None /\ ~raced /\ res[p] # "noprobe" =>
            flag[p] \/ graph \in during[p]]_vars

\* Every read ends, with an answer or an error: retries, a busy lock or a full
\* pool do not keep it (managed.go: the read budget and the slot deadline).
ReadsEnd == \A p \in Readers : pc[p] # "idle" ~> pc[p] = "idle"

\* With SUPEROPEN_REFRESH=hash, the watcher alone brings the graph up to date
\* for good once edits stop, also after edits that keep size and mtime.
WatcherConverges == <>[](graph = tree.c)
=============================================================================
