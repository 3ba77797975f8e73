-------------------------- MODULE GraphFresh_proofs --------------------------
(***************************************************************************)
(* Proofs about GraphFresh, for any number of processes, edits and         *)
(* failures: the inductive invariant follows a job from its plan to its    *)
(* stamp, with the contents that it may have seen on the way.              *)
(***************************************************************************)
EXTENDS GraphFresh, TLAPS

\* What the sidecar means, for the modes in which a stamp that matches vouches
\* for the content.
Exact == HashMode \/ ~KeepStamp
Trusted == HashMode \/ (Watchers = {} /\ ~KeepStamp)

\* Every edit gives the tree a stamp of its own.
StampInv ==
    ~HashMode /\ ~KeepStamp =>
        /\ tree.t = edits
        /\ fp # None => fp.t <= tree.t /\ (fp.t = tree.t => fp = tree)

\* A job that nothing disturbed, step by step.
QuietInv == Exact => \A p \in Refreshers : quiet[p] =>
    /\ pc[p] = "plantree" => seen[p] \in {None, graph}
    /\ pc[p] \in {"publish", "install"} => snap[p] = tree.c
    /\ pc[p] = "stamp" => graph = tree.c
    /\ pc[p] = "ret" /\ res[p] \in {"ok", "unchanged"} =>
        graph = tree.c /\ fp \in {tree, None}

\* A job whose inputs no edit changed, whatever other jobs published.
RaceInv == Exact /\ ~raced => \A p \in Procs :
    /\ pc[p] = "plantree" => seen[p] \in {None, graph} \/ graph = tree.c
    /\ pc[p] \in {"publish", "install"} => snap[p] = tree.c
    /\ pc[p] = "stamp" => graph = tree.c
    /\ pc[p] = "ret" /\ res[p] \in {"ok", "unchanged"} => graph = tree.c

\* A clean probe is truthful.
CleanInv == Trusted => CleanIsFresh

\* A read knows the contents of the tree since it began.
FreshInv == Trusted => \A p \in Readers :
    /\ pc[p] # "idle" => tree.c \in during[p]
    /\ ~raced /\ pc[p] = "answer" /\ res[p] # "noprobe" /\ ~flag[p] /\ graph # None =>
        graph \in during[p]

\* The jobs of a read and of the watcher are jobs.
LEMMA JobTypes == ReadJob \in Job /\ WatchJob \in Job
  BY DEF Job, ReadJob, WatchJob

\* The probe answers yes or no.
LEMMA DirtyType == Dirty \in BOOLEAN
  BY DEF Dirty

\* The initial states are typed.
LEMMA InitTyping == Init => TypeOK
<1> SUFFICES ASSUME Init PROVE TypeOK
  OBVIOUS
<1>1. tree \in Tree
  <2>1. tree \in [c : Contents, t : {0}]
    BY DEF Init
  <2>2. 0 \in 0..MaxEdits
    BY FreshAssumption
  <2>3. QED
    BY <2>1, <2>2 DEF Tree
<1>2. edits \in 0..MaxEdits /\ fails \in 0..MaxFails
  BY FreshAssumption DEF Init
<1>3. pc \in [Procs -> Steps] /\ res \in [Procs -> Results]
  BY DEF Init, Steps, Results
<1>4. job \in [Procs -> Job]
  BY JobTypes DEF Init
<1>5. QED
  BY <1>1, <1>2, <1>3, <1>4 DEF Init, TypeOK

\* Every step keeps the types.
LEMMA NextTyping ==
  TypeOK /\ [Next]_vars => TypeOK'
<1> SUFFICES ASSUME TypeOK, [Next]_vars PROVE TypeOK'
  OBVIOUS
<1>1. ASSUME NEW c \in Contents, NEW newStamp \in BOOLEAN, Edit(c, newStamp)
      PROVE  TypeOK'
  <2>1. tree' \in Tree
    BY FreshAssumption, <1>1 DEF Edit, TypeOK, Tree
  <2>2. edits' \in 0..MaxEdits
    BY FreshAssumption, <1>1 DEF Edit, TypeOK
  <2>3. during' \in [Procs -> SUBSET Contents]
    BY <1>1 DEF Edit, TypeOK
  <2>4. QED
    BY <1>1, <2>1, <2>2, <2>3 DEF Edit, TypeOK, pvars
<1>2. ASSUME NEW p \in Procs, p \in Readers, Start(p, ReadJob, "probe")
      PROVE  TypeOK'
  BY FreshAssumption, JobTypes, <1>2 DEF Start, TypeOK, Steps, Planning, Stamping,
     Results, Tree
<1>3. ASSUME NEW p \in Procs, p \in Refreshers, NEW j \in Jobs, Start(p, j, "plandb")
      PROVE  TypeOK'
  BY FreshAssumption, JobTypes, <1>3 DEF Start, TypeOK, Steps, Planning, Stamping,
     Results, Tree
<1>4. ASSUME NEW p \in Procs, p \in Watchers, Tick(p) PROVE TypeOK'
  BY FreshAssumption, JobTypes, <1>4 DEF Tick, Start, TypeOK, Steps, Planning,
     Stamping, Results, Tree
<1>5. ASSUME NEW p \in Procs, p \in Refreshers \cup Watchers, Return(p)
      PROVE  TypeOK'
  BY FreshAssumption, JobTypes, <1>5 DEF Return, End, StampsAgain, WriteFingerprint,
     TypeOK, Steps, Planning, Stamping, Results, Tree
<1>6. ASSUME NEW p \in Procs, PlanDb(p) PROVE TypeOK'
  BY FreshAssumption, JobTypes, <1>6 DEF PlanDb, Goto, TypeOK, Steps, Planning,
     Stamping, Results, Tree
<1>7. ASSUME NEW p \in Procs, PlanTree(p) PROVE TypeOK'
  BY FreshAssumption, JobTypes, <1>7 DEF PlanTree, Goto, TypeOK, Steps, Planning,
     Stamping, Results, Tree
<1>8. ASSUME NEW p \in Procs, Parse(p) PROVE TypeOK'
  BY FreshAssumption, JobTypes, <1>8 DEF Parse, Goto, TypeOK, Steps, Planning,
     Stamping, Results, Tree
<1>9. ASSUME NEW p \in Procs, TakeLock(p) PROVE TypeOK'
  BY FreshAssumption, JobTypes, <1>9 DEF TakeLock, Goto, pvars, TypeOK, Steps,
     Planning, Stamping, Results, Tree
<1>10. ASSUME NEW p \in Procs, Busy(p) PROVE TypeOK'
  BY FreshAssumption, JobTypes, <1>10 DEF Busy, Goto, TypeOK, Steps, Planning,
     Stamping, Results, Tree
<1>11. ASSUME NEW p \in Procs, Install(p) PROVE TypeOK'
  BY FreshAssumption, JobTypes, <1>11 DEF Install, TypeOK, Steps, Planning,
     Stamping, Results, Tree
<1>12. ASSUME NEW p \in Procs, Fail(p) PROVE TypeOK'
  BY FreshAssumption, JobTypes, <1>12 DEF Fail, Goto, Unlock, TypeOK, Steps,
     Planning, Stamping, Results, Tree
<1>13. ASSUME NEW p \in Procs, Stamp(p) PROVE TypeOK'
  BY FreshAssumption, JobTypes, <1>13 DEF Stamp, StampBuild, WriteFingerprint, Goto,
     pvars, TypeOK, Steps, Planning, Stamping, Results, Tree
<1>14. ASSUME NEW p \in Procs, Kill(p) PROVE TypeOK'
  BY FreshAssumption, JobTypes, <1>14 DEF Kill, Stamps, End, Unlock, TypeOK, Steps,
     Planning, Stamping, Results, Tree
<1>15. ASSUME NEW p \in Procs, p \in Readers, Probe(p) PROVE TypeOK'
  BY FreshAssumption, JobTypes, <1>15 DEF Probe, Goto, TypeOK, Steps, Planning,
     Stamping, Results, Tree
<1>16. ASSUME NEW p \in Procs, p \in Readers, ReadReturn(p) PROVE TypeOK'
  <2>1. CASE End(p)
    BY JobTypes, <1>16, <2>1 DEF ReadReturn, End, TypeOK, Steps, Planning, Stamping,
       Results, Tree
  <2>2. ASSUME NEW step \in Steps, step # "install", Continue(p, step) PROVE TypeOK'
    BY <1>16, <2>2 DEF ReadReturn, Continue, Goto, pvars, TypeOK
  <2>3. QED
    BY <1>16, <2>1, <2>2 DEF ReadReturn, Steps
<1>17. ASSUME NEW p \in Procs, p \in Readers, Wait(p) PROVE TypeOK'
  BY FreshAssumption, JobTypes, <1>17 DEF Wait, Continue, Goto, pvars, TypeOK,
     Steps, Planning, Stamping, Results, Tree
<1>18. ASSUME NEW p \in Procs, p \in Readers, GiveUp(p) PROVE TypeOK'
  <2>1. CASE End(p)
    BY JobTypes, <1>18, <2>1 DEF GiveUp, End, TypeOK, Steps, Planning, Stamping,
       Results, Tree
  <2>2. ASSUME NEW step \in Steps, step # "install", Continue(p, step) PROVE TypeOK'
    BY <1>18, <2>2 DEF GiveUp, Continue, Goto, pvars, TypeOK
  <2>3. QED
    BY <1>18, <2>1, <2>2 DEF GiveUp, Steps
<1>19. ASSUME NEW p \in Procs, p \in Readers, Reprobe(p) PROVE TypeOK'
  BY DirtyType, <1>19 DEF Reprobe, Goto, TypeOK, Steps, Planning, Stamping, Results,
     Tree
<1>20. ASSUME NEW p \in Procs, p \in Readers, Answer(p) PROVE TypeOK'
  BY FreshAssumption, JobTypes, <1>20 DEF Answer, End, TypeOK, Steps, Planning,
     Stamping, Results, Tree
<1>21. ASSUME NEW p \in Procs, StampFails(p) PROVE TypeOK'
  BY FreshAssumption, <1>21 DEF StampFails, WriteFails, pvars, TypeOK, Steps,
     Planning, Stamping, Results, Tree
<1>22. ASSUME NEW p \in Procs, p \in Refreshers \cup Watchers, ReturnUnstamped(p)
      PROVE  TypeOK'
  BY FreshAssumption, JobTypes, <1>22 DEF ReturnUnstamped, WriteFails, End, TypeOK, Steps,
     Planning, Stamping, Results, Tree
<1>23. ASSUME NEW p \in Procs, p \in Readers, ProbeFails(p) PROVE TypeOK'
  BY FreshAssumption, <1>23 DEF ProbeFails, Goto, TypeOK, Steps,
     Planning, Stamping, Results, Tree
<1>24. CASE UNCHANGED vars
  BY FreshAssumption, JobTypes, <1>24 DEF vars, pvars, TypeOK, Steps, Planning,
     Stamping, Results, Tree
<1>25. QED
  BY <1>1, <1>2, <1>3, <1>4, <1>5, <1>6, <1>7, <1>8, <1>9, <1>10, <1>11, <1>12,
     <1>13, <1>14, <1>15, <1>16, <1>17, <1>18, <1>19, <1>20, <1>21, <1>22, <1>23,
     <1>24 DEF Next,
     BuildStep, ReadStep, Procs

\* A plan compares the content of the tree itself, whether it reads the files
\* or trusts the digests of the sidecar.
LEMMA PlannedIsTree ==
  TypeOK /\ StampInv /\ Exact => \A probe \in BOOLEAN : PlannedContent(probe) = tree.c
  BY DEF PlannedContent, TypeOK, Tree, StampInv, Exact

\* A build that finds nothing to do found the tree in file_hashes.
LEMMA UnchangedIsFresh ==
  ASSUME TypeOK, StampInv, Exact, NEW p \in Procs, Unchanged(p)
  PROVE  seen[p] # None /\ seen[p] = tree.c
<1>1. job[p].probe \in BOOLEAN
  BY DEF TypeOK, Job
<1>2. QED
  BY <1>1, PlannedIsTree DEF Unchanged

\* In hash mode a clean probe has compared the contents.
LEMMA DirtyHash == HashMode /\ ~Dirty => graph = tree.c
  BY DEF Dirty, PlannedContent

\* In stamp mode a clean probe has compared the stamps.
LEMMA DirtyStamp == ~HashMode => (Dirty <=> fp = None \/ fp.t # tree.t)
  BY DEF Dirty

\* Only an edit changes the tree, and the sidecar becomes the tree or unreadable.
LEMMA SidecarStep ==
  [Next]_vars => \/ \E c \in Contents, newStamp \in BOOLEAN : Edit(c, newStamp)
                 \/ UNCHANGED <<tree, edits>> /\ fp' \in {fp, tree, None}
  BY DEF Next, BuildStep, ReadStep, vars, pvars, Start, Tick, Return, End,
     StampsAgain, WriteFingerprint, WriteFails,
     ReturnUnstamped, StampFails, ProbeFails, Stamps, PlanDb, Goto, PlanTree, Parse, TakeLock, Busy,
     Install, Fail, Unlock, Stamp, StampBuild, Kill, Probe, ReadReturn, Continue,
     Wait, GiveUp, Reprobe, Answer

\* Every step keeps what a stamp vouches for.
LEMMA NextStamp == TypeOK /\ StampInv /\ [Next]_vars => StampInv'
<1> SUFFICES ASSUME TypeOK, StampInv, [Next]_vars PROVE StampInv'
  OBVIOUS
<1>1. CASE \E c \in Contents, newStamp \in BOOLEAN : Edit(c, newStamp)
  BY <1>1, FreshAssumption DEF Edit, StampInv, TypeOK, Tree
<1>2. CASE UNCHANGED <<tree, edits>> /\ fp' \in {fp, tree, None}
  BY <1>2, FreshAssumption DEF StampInv, TypeOK, Tree
<1>3. QED
  BY <1>1, <1>2, SidecarStep

\* Every step keeps an undisturbed job on its tree.
LEMMA NextQuiet ==
  TypeOK /\ StampInv /\ QuietInv /\ [Next]_vars => QuietInv'
<1> SUFFICES ASSUME TypeOK, StampInv, QuietInv, [Next]_vars PROVE QuietInv'
  OBVIOUS
<1>1. ASSUME NEW c \in Contents, NEW newStamp \in BOOLEAN, Edit(c, newStamp)
      PROVE  QuietInv'
  BY <1>1 DEF Edit, QuietInv, Procs
<1>2. ASSUME NEW p \in Procs, p \in Readers, Start(p, ReadJob, "probe")
      PROVE  QuietInv'
  BY FreshAssumption, <1>2 DEF Start, TypeOK, QuietInv, Exact
<1>3. ASSUME NEW p \in Procs, p \in Refreshers, NEW j \in Jobs, Start(p, j, "plandb")
      PROVE  QuietInv'
  BY FreshAssumption, <1>3 DEF Start, TypeOK, QuietInv, Exact
<1>4. ASSUME NEW p \in Procs, p \in Watchers, Tick(p) PROVE QuietInv'
  BY FreshAssumption, <1>4 DEF Tick, Start, TypeOK, QuietInv, Exact
<1>5. ASSUME NEW p \in Procs, p \in Refreshers \cup Watchers, Return(p)
      PROVE  QuietInv'
  BY FreshAssumption, <1>5 DEF Return, End, StampsAgain, WriteFingerprint, TypeOK,
     QuietInv, Exact
<1>6. ASSUME NEW p \in Procs, PlanDb(p) PROVE QuietInv'
  BY FreshAssumption, <1>6 DEF PlanDb, Goto, TypeOK, QuietInv, Exact
<1>7. ASSUME NEW p \in Procs, PlanTree(p) PROVE QuietInv'
  <2>1. ASSUME Unchanged(p), Exact PROVE seen[p] # None /\ seen[p] = tree.c
    BY <2>1, UnchangedIsFresh
  <2>2. CASE Unchanged(p) /\ res' = [res EXCEPT ![p] = "unchanged"] /\ Goto(p, "stamp")
    BY <1>7, <2>1, <2>2 DEF PlanTree, Goto, TypeOK, QuietInv, Procs
  <2>3. CASE Goto(p, "parse") /\ UNCHANGED res
    BY <1>7, <2>3 DEF PlanTree, Goto, TypeOK, QuietInv, Procs
  <2>4. QED
    BY <1>7, <2>2, <2>3 DEF PlanTree
<1>8. ASSUME NEW p \in Procs, Parse(p) PROVE QuietInv'
  BY FreshAssumption, <1>8 DEF Parse, Goto, TypeOK, QuietInv, Exact
<1>9. ASSUME NEW p \in Procs, TakeLock(p) PROVE QuietInv'
  BY FreshAssumption, <1>9 DEF TakeLock, Goto, pvars, TypeOK, QuietInv, Exact
<1>10. ASSUME NEW p \in Procs, Busy(p) PROVE QuietInv'
  BY FreshAssumption, <1>10 DEF Busy, Goto, TypeOK, QuietInv, Exact
<1>11. ASSUME NEW p \in Procs, Install(p) PROVE QuietInv'
  <2>1. SUFFICES ASSUME Exact, NEW q \in Refreshers, quiet[q]'
                  PROVE  q = p /\ graph' = tree.c /\ pc'[p] = "stamp" /\ tree' = tree
    BY <2>1 DEF QuietInv
  <2>2. q = p /\ quiet[p]
    BY <1>11, <2>1 DEF Install, Procs
  <2>3. QED
    BY <1>11, <2>1, <2>2 DEF Install, TypeOK, QuietInv
<1>12. ASSUME NEW p \in Procs, Fail(p) PROVE QuietInv'
  BY FreshAssumption, <1>12 DEF Fail, Goto, Unlock, TypeOK, QuietInv, Exact
<1>13. ASSUME NEW p \in Procs, Stamp(p) PROVE QuietInv'
  BY FreshAssumption, <1>13 DEF Stamp, StampBuild, WriteFingerprint, Goto, pvars,
     TypeOK, QuietInv, Exact
<1>14. ASSUME NEW p \in Procs, Kill(p) PROVE QuietInv'
  BY FreshAssumption, <1>14 DEF Kill, Stamps, End, Unlock, TypeOK, QuietInv, Exact
<1>15. ASSUME NEW p \in Procs, p \in Readers, Probe(p) PROVE QuietInv'
  BY FreshAssumption, <1>15 DEF Probe, Goto, TypeOK, QuietInv, Exact
<1>16. ASSUME NEW p \in Procs, p \in Readers, ReadReturn(p) PROVE QuietInv'
  <2>1. CASE End(p)
    BY <1>16, <2>1 DEF ReadReturn, End, TypeOK, QuietInv, Exact
  <2>2. ASSUME NEW step \in {"reprobe", "wait"}, Continue(p, step) PROVE QuietInv'
    BY <1>16, <2>2 DEF ReadReturn, Continue, Goto, pvars, TypeOK, QuietInv, Exact
  <2>3. QED
    BY <1>16, <2>1, <2>2 DEF ReadReturn
<1>17. ASSUME NEW p \in Procs, p \in Readers, Wait(p) PROVE QuietInv'
  <2>1. ASSUME NEW step \in {"reprobe", "plandb"}, Continue(p, step) PROVE QuietInv'
    BY <1>17, <2>1 DEF Wait, Continue, Goto, pvars, TypeOK, QuietInv, Exact
  <2>2. QED
    BY <1>17, <2>1 DEF Wait
<1>18. ASSUME NEW p \in Procs, p \in Readers, GiveUp(p) PROVE QuietInv'
  <2>1. CASE End(p)
    BY <1>18, <2>1 DEF GiveUp, End, TypeOK, QuietInv, Exact
  <2>2. ASSUME NEW step \in {"reprobe", "wait"}, Continue(p, step) PROVE QuietInv'
    BY <1>18, <2>2 DEF GiveUp, Continue, Goto, pvars, TypeOK, QuietInv, Exact
  <2>3. QED
    BY <1>18, <2>1, <2>2 DEF GiveUp
<1>19. ASSUME NEW p \in Procs, p \in Readers, Reprobe(p) PROVE QuietInv'
  BY FreshAssumption, <1>19 DEF Reprobe, Goto, TypeOK, QuietInv, Exact
<1>20. ASSUME NEW p \in Procs, p \in Readers, Answer(p) PROVE QuietInv'
  BY FreshAssumption, <1>20 DEF Answer, End, TypeOK, QuietInv, Exact
<1>21. ASSUME NEW p \in Procs, StampFails(p) PROVE QuietInv'
  BY FreshAssumption, <1>21 DEF StampFails, WriteFails, pvars, TypeOK, QuietInv,
     Exact, Procs
<1>22. ASSUME NEW p \in Procs, p \in Refreshers \cup Watchers, ReturnUnstamped(p)
      PROVE  QuietInv'
  BY FreshAssumption, JobTypes, <1>22 DEF ReturnUnstamped, WriteFails, End, TypeOK, QuietInv,
     Exact, Procs
<1>23. ASSUME NEW p \in Procs, p \in Readers, ProbeFails(p) PROVE QuietInv'
  BY FreshAssumption, <1>23 DEF ProbeFails, Goto, TypeOK, QuietInv,
     Exact, Procs
<1>24. CASE UNCHANGED vars
  BY FreshAssumption, <1>24 DEF vars, pvars, TypeOK, QuietInv, Exact
<1>25. QED
  BY <1>1, <1>2, <1>3, <1>4, <1>5, <1>6, <1>7, <1>8, <1>9, <1>10, <1>11, <1>12,
     <1>13, <1>14, <1>15, <1>16, <1>17, <1>18, <1>19, <1>20, <1>21, <1>22, <1>23,
     <1>24 DEF Next,
     BuildStep, ReadStep, Procs

\* Every step keeps a job on its tree until an edit races a build.
LEMMA NextRace ==
  TypeOK /\ StampInv /\ RaceInv /\ [Next]_vars => RaceInv'
<1> SUFFICES ASSUME TypeOK, StampInv, RaceInv, [Next]_vars PROVE RaceInv'
  OBVIOUS
<1>1. ASSUME NEW c \in Contents, NEW newStamp \in BOOLEAN, Edit(c, newStamp)
      PROVE  RaceInv'
  BY FreshAssumption, <1>1 DEF Edit, TypeOK, RaceInv, Exact, Committed, Stamping
<1>2. ASSUME NEW p \in Procs, p \in Readers, Start(p, ReadJob, "probe")
      PROVE  RaceInv'
  BY FreshAssumption, <1>2 DEF Start, TypeOK, RaceInv, Exact, Committed, Stamping
<1>3. ASSUME NEW p \in Procs, p \in Refreshers, NEW j \in Jobs, Start(p, j, "plandb")
      PROVE  RaceInv'
  BY FreshAssumption, <1>3 DEF Start, TypeOK, RaceInv, Exact, Committed, Stamping
<1>4. ASSUME NEW p \in Procs, p \in Watchers, Tick(p) PROVE RaceInv'
  BY FreshAssumption, <1>4 DEF Tick, Start, TypeOK, RaceInv, Exact, Committed,
     Stamping
<1>5. ASSUME NEW p \in Procs, p \in Refreshers \cup Watchers, Return(p)
      PROVE  RaceInv'
  BY FreshAssumption, <1>5 DEF Return, End, StampsAgain, WriteFingerprint, TypeOK,
     RaceInv, Exact, Committed, Stamping
<1>6. ASSUME NEW p \in Procs, PlanDb(p) PROVE RaceInv'
  BY FreshAssumption, <1>6 DEF PlanDb, Goto, TypeOK, RaceInv, Exact, Committed,
     Stamping
<1>7. ASSUME NEW p \in Procs, PlanTree(p) PROVE RaceInv'
  <2>1. ASSUME Unchanged(p), Exact PROVE seen[p] # None /\ seen[p] = tree.c
    BY <2>1, UnchangedIsFresh
  <2>2. QED
    BY FreshAssumption, <1>7, <2>1 DEF PlanTree, Goto, TypeOK, RaceInv
<1>8. ASSUME NEW p \in Procs, Parse(p) PROVE RaceInv'
  BY FreshAssumption, <1>8 DEF Parse, Goto, TypeOK, RaceInv, Exact, Committed,
     Stamping
<1>9. ASSUME NEW p \in Procs, TakeLock(p) PROVE RaceInv'
  BY FreshAssumption, <1>9 DEF TakeLock, Goto, pvars, TypeOK, RaceInv, Exact,
     Committed, Stamping
<1>10. ASSUME NEW p \in Procs, Busy(p) PROVE RaceInv'
  BY FreshAssumption, <1>10 DEF Busy, Goto, TypeOK, RaceInv, Exact, Committed,
     Stamping
<1>11. ASSUME NEW p \in Procs, Install(p) PROVE RaceInv'
  BY FreshAssumption, <1>11 DEF Install, TypeOK, RaceInv, Exact, Committed, Stamping
<1>12. ASSUME NEW p \in Procs, Fail(p) PROVE RaceInv'
  BY FreshAssumption, <1>12 DEF Fail, Goto, Unlock, TypeOK, RaceInv, Exact,
     Committed, Stamping
<1>13. ASSUME NEW p \in Procs, Stamp(p) PROVE RaceInv'
  BY FreshAssumption, <1>13 DEF Stamp, StampBuild, WriteFingerprint, Goto, pvars,
     TypeOK, RaceInv, Exact, Committed, Stamping
<1>14. ASSUME NEW p \in Procs, Kill(p) PROVE RaceInv'
  BY FreshAssumption, <1>14 DEF Kill, Stamps, End, Unlock, TypeOK, RaceInv, Exact,
     Committed, Stamping
<1>15. ASSUME NEW p \in Procs, p \in Readers, Probe(p) PROVE RaceInv'
  BY FreshAssumption, <1>15 DEF Probe, Goto, TypeOK, RaceInv, Exact, Committed,
     Stamping
<1>16. ASSUME NEW p \in Procs, p \in Readers, ReadReturn(p) PROVE RaceInv'
  <2>1. CASE End(p)
    BY <1>16, <2>1 DEF ReadReturn, End, TypeOK, RaceInv
  <2>2. ASSUME NEW step \in {"reprobe", "wait"}, Continue(p, step) PROVE RaceInv'
    BY <1>16, <2>2 DEF ReadReturn, Continue, Goto, pvars, TypeOK, RaceInv
  <2>3. QED
    BY <1>16, <2>1, <2>2 DEF ReadReturn
<1>17. ASSUME NEW p \in Procs, p \in Readers, Wait(p) PROVE RaceInv'
  BY FreshAssumption, <1>17 DEF Wait, Continue, Goto, pvars, TypeOK, RaceInv, Exact,
     Committed, Stamping
<1>18. ASSUME NEW p \in Procs, p \in Readers, GiveUp(p) PROVE RaceInv'
  <2>1. CASE End(p)
    BY <1>18, <2>1 DEF GiveUp, End, TypeOK, RaceInv
  <2>2. ASSUME NEW step \in {"reprobe", "wait"}, Continue(p, step) PROVE RaceInv'
    BY <1>18, <2>2 DEF GiveUp, Continue, Goto, pvars, TypeOK, RaceInv
  <2>3. QED
    BY <1>18, <2>1, <2>2 DEF GiveUp
<1>19. ASSUME NEW p \in Procs, p \in Readers, Reprobe(p) PROVE RaceInv'
  BY FreshAssumption, <1>19 DEF Reprobe, Goto, TypeOK, RaceInv, Exact, Committed,
     Stamping
<1>20. ASSUME NEW p \in Procs, p \in Readers, Answer(p) PROVE RaceInv'
  BY FreshAssumption, <1>20 DEF Answer, End, TypeOK, RaceInv, Exact, Committed,
     Stamping
<1>21. ASSUME NEW p \in Procs, StampFails(p) PROVE RaceInv'
  BY FreshAssumption, <1>21 DEF StampFails, WriteFails, pvars, TypeOK, RaceInv,
     Exact
<1>22. ASSUME NEW p \in Procs, p \in Refreshers \cup Watchers, ReturnUnstamped(p)
      PROVE  RaceInv'
  BY FreshAssumption, JobTypes, <1>22 DEF ReturnUnstamped, WriteFails, End, TypeOK, RaceInv,
     Exact
<1>23. ASSUME NEW p \in Procs, p \in Readers, ProbeFails(p) PROVE RaceInv'
  BY FreshAssumption, <1>23 DEF ProbeFails, Goto, TypeOK, RaceInv,
     Exact
<1>24. CASE UNCHANGED vars
  BY FreshAssumption, <1>24 DEF vars, pvars, TypeOK, RaceInv, Exact, Committed,
     Stamping
<1>25. QED
  BY <1>1, <1>2, <1>3, <1>4, <1>5, <1>6, <1>7, <1>8, <1>9, <1>10, <1>11, <1>12,
     <1>13, <1>14, <1>15, <1>16, <1>17, <1>18, <1>19, <1>20, <1>21, <1>22, <1>23,
     <1>24 DEF Next,
     BuildStep, ReadStep, Procs

\* The steps that a clean probe depends on.
LEMMA TreeGraphStep ==
  [Next]_vars => \/ \E c \in Contents, newStamp \in BOOLEAN : Edit(c, newStamp)
                 \/ \E p \in Procs : Install(p) \/ Stamp(p)
                 \/ \E p \in Refreshers \cup Watchers : Return(p)
                 \/ UNCHANGED <<tree, graph, raced>> /\ fp' \in {fp, None}
  BY DEF Next, BuildStep, ReadStep, vars, pvars, Start, Tick, End, PlanDb, Goto,
     PlanTree, Parse, TakeLock, Busy, Fail, Unlock, Kill, Stamps, StampFails, WriteFails,
     ReturnUnstamped, Probe, ProbeFails, ReadReturn, Continue, Wait, GiveUp, Reprobe, Answer

\* Every step keeps a clean probe truthful: an edit makes it dirty, and a stamp
\* or a publication finds the graph equal to the tree by RaceInv.
LEMMA NextClean == TypeOK /\ StampInv /\ RaceInv /\ CleanInv /\ [Next]_vars => CleanInv'
<1> SUFFICES ASSUME TypeOK, StampInv, RaceInv, CleanInv, [Next]_vars,
                    Trusted, ~raced', ~Dirty'
             PROVE  graph' = tree.c'
  BY DEF CleanInv, CleanIsFresh, Trusted
<1>1. CASE HashMode
  BY <1>1 DEF Dirty, PlannedContent
<1>2. CASE ~HashMode
  <2> USE <1>2, FreshAssumption
  <2>1. fp' # None /\ fp'.t = tree'.t
    BY DEF Dirty
  <2>2. Exact /\ Watchers = {}
    BY DEF Exact, Trusted
  <2>3. ASSUME NEW c \in Contents, NEW newStamp \in BOOLEAN, Edit(c, newStamp) PROVE FALSE
    BY <2>1, <2>3 DEF Edit, TypeOK, Tree, StampInv, Trusted
  <2>4. ASSUME NEW p \in Procs, Install(p) PROVE graph' = tree'.c
    BY <2>2, <2>4 DEF Install, RaceInv
  <2>5. ASSUME NEW p \in Procs, Stamp(p) PROVE graph' = tree'.c
    BY <2>2, <2>5 DEF Stamp, RaceInv
  <2>6. ASSUME NEW p \in Refreshers \cup Watchers, Return(p) PROVE graph' = tree'.c
    <3>1. CASE StampsAgain(p)
      BY <2>2, <2>6, <3>1 DEF Return, StampsAgain, RaceInv, Procs
    <3>2. CASE ~StampsAgain(p)
      BY <2>1, <2>2, <2>6, <3>2, DirtyStamp DEF Return, CleanInv, CleanIsFresh
    <3>3. QED
      BY <3>1, <3>2
  <2>7. CASE UNCHANGED <<tree, graph, raced>> /\ fp' \in {fp, None}
    BY <2>1, <2>7, DirtyStamp DEF CleanInv, CleanIsFresh
  <2>8. QED
    BY <2>3, <2>4, <2>5, <2>6, <2>7, TreeGraphStep
<1>3. QED
  BY <1>1, <1>2

\* Every step keeps the answer of a read within what the tree was during it.
LEMMA NextFresh ==
  TypeOK /\ RaceInv /\ CleanInv /\ FreshInv /\ [Next]_vars => FreshInv'
<1> SUFFICES ASSUME TypeOK, RaceInv, CleanInv, FreshInv, [Next]_vars PROVE FreshInv'
  OBVIOUS
<1>1. ASSUME NEW c \in Contents, NEW newStamp \in BOOLEAN, Edit(c, newStamp)
      PROVE  FreshInv'
  <2>1. tree'.c = c /\ graph' = graph /\ pc' = pc /\ flag' = flag /\ res' = res
    BY <1>1 DEF Edit, pvars
  <2>2. \A q \in Readers : pc[q] # "idle" => during'[q] = during[q] \cup {c}
    BY <1>1 DEF Edit, Procs
  <2>3. raced' = FALSE => ~raced
    BY <1>1 DEF Edit, TypeOK
  <2>4. QED
    BY <2>1, <2>2, <2>3 DEF FreshInv, TypeOK
<1>2. ASSUME NEW p \in Procs, p \in Readers, Start(p, ReadJob, "probe")
      PROVE  FreshInv'
  BY FreshAssumption, <1>2 DEF Start, TypeOK, FreshInv, Procs
<1>3. ASSUME NEW p \in Procs, p \in Refreshers, NEW j \in Jobs, Start(p, j, "plandb")
      PROVE  FreshInv'
  BY FreshAssumption, <1>3 DEF Start, TypeOK, FreshInv, Procs
<1>4. ASSUME NEW p \in Procs, p \in Watchers, Tick(p) PROVE FreshInv'
  BY FreshAssumption, <1>4 DEF Tick, Start, TypeOK, FreshInv, Procs
<1>5. ASSUME NEW p \in Procs, p \in Refreshers \cup Watchers, Return(p)
      PROVE  FreshInv'
  BY FreshAssumption, <1>5 DEF Return, End, StampsAgain, WriteFingerprint, TypeOK,
     FreshInv, Procs
<1>6. ASSUME NEW p \in Procs, PlanDb(p) PROVE FreshInv'
  BY FreshAssumption, <1>6 DEF PlanDb, Goto, TypeOK, FreshInv, Procs
<1>7. ASSUME NEW p \in Procs, PlanTree(p) PROVE FreshInv'
  BY <1>7 DEF PlanTree, Goto, TypeOK, FreshInv, Procs
<1>8. ASSUME NEW p \in Procs, Parse(p) PROVE FreshInv'
  BY FreshAssumption, <1>8 DEF Parse, Goto, TypeOK, FreshInv, Procs
<1>9. ASSUME NEW p \in Procs, TakeLock(p) PROVE FreshInv'
  BY FreshAssumption, <1>9 DEF TakeLock, Goto, pvars, TypeOK, FreshInv, Procs
<1>10. ASSUME NEW p \in Procs, Busy(p) PROVE FreshInv'
  BY FreshAssumption, <1>10 DEF Busy, Goto, TypeOK, FreshInv, Procs
<1>11. ASSUME NEW p \in Procs, Install(p) PROVE FreshInv'
  BY <1>11 DEF Install, RaceInv, Exact, Trusted, TypeOK, FreshInv, Procs
<1>12. ASSUME NEW p \in Procs, Fail(p) PROVE FreshInv'
  BY FreshAssumption, <1>12 DEF Fail, Goto, Unlock, TypeOK, FreshInv, Procs
<1>13. ASSUME NEW p \in Procs, Stamp(p) PROVE FreshInv'
  BY FreshAssumption, <1>13 DEF Stamp, StampBuild, WriteFingerprint, Goto, pvars,
     TypeOK, FreshInv, Procs
<1>14. ASSUME NEW p \in Procs, Kill(p) PROVE FreshInv'
  BY FreshAssumption, <1>14 DEF Kill, Stamps, End, Unlock, TypeOK, FreshInv, Procs
<1>15. ASSUME NEW p \in Procs, p \in Readers, Probe(p) PROVE FreshInv'
  BY FreshAssumption, <1>15 DEF Probe, Goto, TypeOK, FreshInv, Procs, CleanInv,
     CleanIsFresh, Trusted
<1>16. ASSUME NEW p \in Procs, p \in Readers, ReadReturn(p) PROVE FreshInv'
  <2>1. CASE End(p)
    BY <1>16, <2>1 DEF ReadReturn, End, TypeOK, FreshInv, Procs
  <2>2. ASSUME NEW step \in {"reprobe", "wait"}, Continue(p, step) PROVE FreshInv'
    BY <1>16, <2>2 DEF ReadReturn, Continue, Goto, pvars, TypeOK, FreshInv, Procs
  <2>3. QED
    BY <1>16, <2>1, <2>2 DEF ReadReturn
<1>17. ASSUME NEW p \in Procs, p \in Readers, Wait(p) PROVE FreshInv'
  BY FreshAssumption, <1>17 DEF Wait, Continue, Goto, pvars, TypeOK, FreshInv, Procs
<1>18. ASSUME NEW p \in Procs, p \in Readers, GiveUp(p) PROVE FreshInv'
  <2>1. CASE End(p)
    BY <1>18, <2>1 DEF GiveUp, End, TypeOK, FreshInv, Procs
  <2>2. ASSUME NEW step \in {"reprobe", "wait"}, Continue(p, step) PROVE FreshInv'
    BY <1>18, <2>2 DEF GiveUp, Continue, Goto, pvars, TypeOK, FreshInv, Procs
  <2>3. QED
    BY <1>18, <2>1, <2>2 DEF GiveUp
<1>19. ASSUME NEW p \in Procs, p \in Readers, Reprobe(p) PROVE FreshInv'
  BY FreshAssumption, <1>19 DEF Reprobe, Goto, TypeOK, FreshInv, Procs, CleanInv,
     CleanIsFresh, Trusted
<1>20. ASSUME NEW p \in Procs, p \in Readers, Answer(p) PROVE FreshInv'
  BY FreshAssumption, <1>20 DEF Answer, End, TypeOK, FreshInv, Procs
<1>21. ASSUME NEW p \in Procs, StampFails(p) PROVE FreshInv'
  BY FreshAssumption, <1>21 DEF StampFails, WriteFails, pvars, TypeOK, FreshInv,
     Procs
<1>22. ASSUME NEW p \in Procs, p \in Refreshers \cup Watchers, ReturnUnstamped(p)
      PROVE  FreshInv'
  BY FreshAssumption, JobTypes, <1>22 DEF ReturnUnstamped, WriteFails, End, TypeOK, FreshInv,
     Procs
<1>23. ASSUME NEW p \in Procs, p \in Readers, ProbeFails(p) PROVE FreshInv'
  BY FreshAssumption, <1>23 DEF ProbeFails, Goto, TypeOK, FreshInv,
     Procs
<1>24. CASE UNCHANGED vars
  BY FreshAssumption, <1>24 DEF vars, pvars, TypeOK, FreshInv, Procs
<1>25. QED
  BY <1>1, <1>2, <1>3, <1>4, <1>5, <1>6, <1>7, <1>8, <1>9, <1>10, <1>11, <1>12,
     <1>13, <1>14, <1>15, <1>16, <1>17, <1>18, <1>19, <1>20, <1>21, <1>22, <1>23,
     <1>24 DEF Next,
     BuildStep, ReadStep, Procs

\* The inductive invariant.
IInv == TypeOK /\ StampInv /\ QuietInv /\ RaceInv /\ CleanInv /\ FreshInv

\* The initial states satisfy the inductive invariant.
LEMMA InitInv == Init => IInv
<1> SUFFICES ASSUME Init PROVE IInv
  OBVIOUS
<1>1. TypeOK
  BY InitTyping
<1>2. StampInv /\ QuietInv /\ RaceInv /\ FreshInv
  BY DEF Init, StampInv, QuietInv, RaceInv, FreshInv, Procs
<1>3. CleanInv
  BY DEF Init, CleanInv, CleanIsFresh, Dirty
<1>4. QED
  BY <1>1, <1>2, <1>3 DEF IInv

\* Every step keeps the inductive invariant.
LEMMA NextInv == IInv /\ [Next]_vars => IInv'
  BY NextTyping, NextStamp, NextQuiet, NextRace, NextClean, NextFresh DEF IInv

\* The inductive invariant holds in every reachable state.
THEOREM Invariance == Spec => []IInv
  BY InitInv, NextInv, PTL DEF Spec

\* TypeOK holds in every reachable state: variables keep their types and the
\* build lock is held only by a process that is installing a graph.
THEOREM Typing == Spec => []TypeOK
<1>1. IInv => TypeOK
  BY DEF IInv
<1>2. QED
  BY <1>1, Invariance, PTL

\* CleanIsFresh, for any number of processes, edits and failures: with hash
\* mode, or with no watcher and editors that renew size or mtime, a clean probe
\* means that the graph is the graph of the tree until an edit races a build.
THEOREM CleanFresh ==
  ASSUME Trusted
  PROVE  Spec => []CleanIsFresh
<1>1. IInv => CleanIsFresh
  BY DEF IInv, CleanInv
<1>2. QED
  BY <1>1, Invariance, PTL

\* RefreshHeals, with or without a watcher: an undisturbed refresh, build or init
\* that reports ok or unchanged leaves the graph and the sidecar equal to the tree.
THEOREM Heals ==
  ASSUME Exact
  PROVE  Spec => RefreshHeals
<1> DEFINE Healed == \A p \in Refreshers :
                       Return(p) /\ res[p] \in {"ok", "unchanged"} /\ quiet[p] =>
                         graph = tree.c /\ fp' \in {tree, None}
<1>1. IInv => Healed
  BY DEF IInv, QuietInv, Return, WriteFingerprint
<1>2. IInv /\ [Next]_vars => [Healed]_vars
  BY <1>1
<1>3. QED
  BY <1>2, Invariance, PTL DEF Spec, RefreshHeals

\* FreshOrFlagged: under the assumptions of CleanFresh a read without the stale
\* header, whose first probe did not fail, is answered from a content that the tree had during the read.
THEOREM Fresh ==
  ASSUME Trusted
  PROVE  Spec => FreshOrFlagged
<1> DEFINE Flagged == \A p \in Readers :
                        Answer(p) /\ graph # None /\ ~raced /\ res[p] # "noprobe" =>
                          flag[p] \/ graph \in during[p]
<1>1. IInv => Flagged
  BY DEF IInv, FreshInv, Answer
<1>2. IInv /\ [Next]_vars => [Flagged]_vars
  BY <1>1
<1>3. QED
  BY <1>2, Invariance, PTL DEF Spec, FreshOrFlagged

==============================================================================
