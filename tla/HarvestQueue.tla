----------------------------- MODULE HarvestQueue -----------------------------
(***************************************************************************)
(* Who is asked for harvest proposals, and how often                       *)
(* (internal/harvest/generate.go, the run rows of store.go): a finished    *)
(* session leaves a pending row; a headless run of the vendor's own CLI or *)
(* the next live agent resolves it.  Each SQL statement is one step.  One  *)
(* lock per repository, tried and never waited for, covers the headless    *)
(* run, but not the checks before it.                                      *)
(*                                                                         *)
(* What becomes of a proposal is HarvestApply.                             *)
(***************************************************************************)
EXTENDS Integers, FiniteSets, Absent

CONSTANTS Harvesters,  \* processes: finalizers, so harvest scan, live agents
          Finished,    \* finished sessions
          MaxFails,    \* MaxProviderFails
          MaxStarts,   \* bound: finalizers, scans and live answers
          QueueKills   \* bound: processes killed, or ended by a statement that fails

ASSUME QueueAssumption == MaxFails \in Nat \ {0} /\ None \notin Harvesters \cup Finished

VARIABLES
    qpc,       \* the step each process is at
    about,     \* its session
    resumed,   \* it evaluates a session that was opened again
    asked,     \* the row it is about to write, one of Rows
    runs,      \* rows of harvest_runs: how many of each kind a session has
    opens,     \* open proposals of the session
    lock,      \* holder of harvest.lock
    fails,     \* history: calls of the provider since the session was resolved
    behind,    \* processes past their first check when the session was resolved
    asksAgain, \* history: sessions for which one of them, or someone between the two
               \* statements of the resolve, wrote a pending row
    reopened,  \* history: sessions that were evaluated as resumed
    starts, queueKills

queueFrame == <<qpc, about, resumed, asked>>
queueHist == <<fails, behind, asksAgain, reopened>>
queueVars == <<queueFrame, runs, opens, lock, queueHist, starts, queueKills>>

\* Pending rows without a provider, pending rows with it, and resolved ones.
Rows == {"waiting", "failing", "proposed", "skipped"}
QueueSteps == {"idle", "attempt", "queue", "check", "lock", "ready", "run", "ask",
               "resolve", "record", "propose", "close", "closed"}
Pending(s) == runs[s]["waiting"] + runs[s]["failing"]

QueueInit ==
    /\ qpc = [p \in Harvesters |-> "idle"]
    /\ about = [p \in Harvesters |-> None]
    /\ resumed = [p \in Harvesters |-> FALSE]
    /\ asked = [p \in Harvesters |-> None]
    /\ runs = [s \in Finished |-> [r \in Rows |-> 0]]
    /\ opens = [s \in Finished |-> 0]
    /\ lock = None
    /\ fails = [s \in Finished |-> 0]
    /\ behind = {} /\ asksAgain = {} /\ reopened = {}
    /\ starts = 0 /\ queueKills = 0

QueueGoto(p, step) == qpc' = [qpc EXCEPT ![p] = step]
Finish(p) ==
    /\ QueueGoto(p, "idle")
    /\ about' = [about EXCEPT ![p] = None]
    /\ resumed' = [resumed EXCEPT ![p] = FALSE]
    /\ asked' = [asked EXCEPT ![p] = None]
    /\ lock' = IF lock = p THEN None ELSE lock
Stay == UNCHANGED <<about, resumed, asked>>
\* The deferred unlock runs after the last statement, which the step includes.
GoAsk(p, row) ==
    /\ asked' = [asked EXCEPT ![p] = row]
    /\ QueueGoto(p, "ask")
    /\ UNCHANGED <<about, resumed>>
GoResolve(p, row) ==
    /\ asked' = [asked EXCEPT ![p] = row]
    /\ QueueGoto(p, "resolve")
    /\ UNCHANGED <<about, resumed>>

\* InsertRun.
Insert(s, row) == runs' = [runs EXCEPT ![s][row] = @ + 1]

\* The others that are past their first check of the session.
Passed(p, s) ==
    {q \in Harvesters \ {p} : about[q] = s /\ qpc[q] \notin {"idle", "attempt", "check"}}

\* ResolvePending: the UPDATE turns every pending row into row ...
Resolve(p, s, row) ==
    /\ runs' = [runs EXCEPT ![s] =
          [r \in Rows |-> CASE r \in {"waiting", "failing"} -> 0
                            [] r = row -> @[r] + Pending(s)
                            [] OTHER -> @[r]]]
    /\ fails' = [fails EXCEPT ![s] = 0]
    /\ behind' = IF Pending(s) > 0 THEN (behind \ {p}) \cup Passed(p, s) ELSE behind

\* ... and if there was none, one row is inserted by a second statement.
Record(p, s, row) ==
    /\ Insert(s, row)
    /\ behind' = (behind \ {p}) \cup Passed(p, s)
    /\ asksAgain' = IF row = "proposed" /\ Pending(s) > 0 THEN asksAgain \cup {s}
                                                           ELSE asksAgain

-----------------------------------------------------------------------------
(* maybeGenerate, from finalize. *)

Finalize(p) ==
    /\ qpc[p] = "idle"
    /\ starts < MaxStarts
    /\ starts' = starts + 1
    /\ \E s \in Finished, again \in BOOLEAN :
          /\ about' = [about EXCEPT ![p] = s]
          /\ resumed' = [resumed EXCEPT ![p] = again]
          /\ reopened' = IF again THEN reopened \cup {s} ELSE reopened
    /\ QueueGoto(p, "attempt")
    /\ UNCHANGED <<asked, runs, opens, lock, fails, behind, asksAgain, queueKills>>

\* Mutant: a session that was queued or harvested before is queued again.
CheckAttemptNot(p) ==
    /\ qpc[p] = "attempt"
    /\ \/ QueueGoto(p, "queue") /\ Stay /\ UNCHANGED <<lock, behind>>
       \/ resumed[p] /\ QueueGoto(p, "check") /\ Stay /\ UNCHANGED <<lock, behind>>
    /\ UNCHANGED <<runs, opens, fails, asksAgain, reopened, starts, queueKills>>

\* HasAttempt ends it, unless the session was resumed.  A vendor without a
\* one-shot CLI, or without credentials, is queued; so is the detached scan
\* of the others; a resumed session is evaluated at once.
CheckAttempt(p) ==
    /\ qpc[p] = "attempt"
    /\ \/ /\ ~resumed[p] /\ \E r \in Rows : runs[about[p]][r] > 0
          /\ Finish(p)
          /\ behind' = behind \ {p}
       \/ /\ resumed[p] \/ \A r \in Rows : runs[about[p]][r] = 0
          /\ \/ QueueGoto(p, "queue")
             \/ resumed[p] /\ QueueGoto(p, "check")
          /\ Stay /\ UNCHANGED <<lock, behind>>
    /\ UNCHANGED <<runs, opens, fails, asksAgain, reopened, starts, queueKills>>

\* InsertRun(pending), under the same flag as the rows of generate.
WritePending(p, row) ==
    /\ Insert(about[p], row)
    /\ asksAgain' = IF p \in behind THEN asksAgain \cup {about[p]} ELSE asksAgain
    /\ behind' = behind \ {p}
    /\ Finish(p)

QueueRun(p) ==
    /\ qpc[p] = "queue"
    /\ WritePending(p, "waiting")
    /\ UNCHANGED <<opens, fails, reopened, starts, queueKills>>

-----------------------------------------------------------------------------
(* generate, from so harvest scan or a resumed finalize. *)

Scan(p) ==
    /\ qpc[p] = "idle"
    /\ starts < MaxStarts
    /\ starts' = starts + 1
    /\ \E s \in Finished : about' = [about EXCEPT ![p] = s]
    /\ QueueGoto(p, "check")
    /\ UNCHANGED <<resumed, asked, runs, opens, lock, queueHist, queueKills>>

\* Harvested already: the pending rows are closed as skipped.  So they are
\* when the session has no activity.
CheckHarvested(p) ==
    /\ qpc[p] = "check"
    /\ \/ GoResolve(p, "skipped")
       \/ /\ resumed[p] \/ (runs[about[p]]["proposed"] = 0 /\ opens[about[p]] = 0)
          /\ QueueGoto(p, "lock")
          /\ Stay
    /\ UNCHANGED <<runs, opens, lock, queueHist, starts, queueKills>>

\* TryLock: busy leaves a row without a provider.
TryHarvestLock(p) ==
    /\ qpc[p] = "lock"
    /\ IF lock = None
       THEN lock' = p /\ QueueGoto(p, "ready") /\ Stay
       ELSE GoAsk(p, "waiting") /\ UNCHANGED lock
    /\ UNCHANGED <<runs, opens, queueHist, starts, queueKills>>

\* No credentials; too many failures; no prompt; or the provider is run.
CheckProvider(p) ==
    /\ qpc[p] = "ready"
    /\ \/ GoAsk(p, "waiting") /\ UNCHANGED fails
       \/ GoAsk(p, "failing") /\ UNCHANGED fails
       \/ /\ runs[about[p]]["failing"] < MaxFails
          /\ fails' = [fails EXCEPT ![about[p]] = @ + 1]
          /\ QueueGoto(p, "run")
          /\ Stay
    /\ UNCHANGED <<runs, opens, lock, behind, asksAgain, reopened, starts, queueKills>>

\* Mutant: a failed run is recorded without its provider.
EndRunAnonymous(p) ==
    /\ qpc[p] = "run"
    /\ IF ~resumed[p] /\ opens[about[p]] > 0
       THEN GoResolve(p, "proposed")
       ELSE \/ GoAsk(p, "waiting")
            \/ GoResolve(p, "skipped")
            \/ QueueGoto(p, "propose") /\ Stay
    /\ UNCHANGED <<runs, opens, lock, queueHist, starts, queueKills>>

\* The run is over.  What the live agent proposed meanwhile wins; an error or
\* an answer that does not parse is a failure; an empty answer is a skip.
EndRun(p) ==
    /\ qpc[p] = "run"
    /\ IF ~resumed[p] /\ opens[about[p]] > 0
       THEN GoResolve(p, "proposed")
       ELSE \/ GoAsk(p, "failing")
            \/ GoResolve(p, "skipped")
            \/ QueueGoto(p, "propose") /\ Stay
    /\ UNCHANGED <<runs, opens, lock, queueHist, starts, queueKills>>

\* Propose inserts the proposal, and then resolves; or it refuses the input.
\* The resolve of generate itself comes last.
InsertOpen(p) ==
    /\ qpc[p] = "propose"
    /\ \/ GoAsk(p, "failing") /\ UNCHANGED opens
       \/ /\ opens' = [opens EXCEPT ![about[p]] = @ + 1]
          /\ QueueGoto(p, "close")
          /\ Stay
    /\ UNCHANGED <<runs, lock, queueHist, starts, queueKills>>
ResolveProposed(p) ==
    /\ qpc[p] = "close"
    /\ Resolve(p, about[p], "proposed")
    /\ IF Pending(about[p]) > 0
       THEN GoResolve(p, "proposed")
       ELSE QueueGoto(p, "closed") /\ Stay
    /\ UNCHANGED <<opens, lock, asksAgain, reopened, starts, queueKills>>
RecordProposed(p) ==
    /\ qpc[p] = "closed"
    /\ Record(p, about[p], "proposed")
    /\ GoResolve(p, "proposed")
    /\ UNCHANGED <<opens, lock, fails, reopened, starts, queueKills>>

\* An error of either statement is ignored.
ResolveFails(p) ==
    /\ qpc[p] \in {"close", "closed"}
    /\ GoResolve(p, "proposed")
    /\ UNCHANGED <<runs, opens, lock, queueHist, starts, queueKills>>

\* The last statement: a pending row, or the resolve; then the unlock.
AskAgain(p) ==
    /\ qpc[p] = "ask"
    /\ WritePending(p, asked[p])
    /\ UNCHANGED <<opens, fails, reopened, starts, queueKills>>

ResolveRun(p) ==
    /\ qpc[p] = "resolve"
    /\ Resolve(p, about[p], asked[p])
    /\ IF Pending(about[p]) > 0
       THEN Finish(p)
       ELSE QueueGoto(p, "record") /\ Stay /\ UNCHANGED lock
    /\ UNCHANGED <<opens, asksAgain, reopened, starts, queueKills>>
RecordRun(p) ==
    /\ qpc[p] = "record"
    /\ Record(p, about[p], asked[p])
    /\ Finish(p)
    /\ UNCHANGED <<opens, fails, reopened, starts, queueKills>>

-----------------------------------------------------------------------------
(* The live agent and the user. *)

\* so harvest skip, and so harvest propose, which inserts first.
LiveAnswer(p) ==
    /\ qpc[p] = "idle"
    /\ starts < MaxStarts
    /\ starts' = starts + 1
    /\ \E s \in Finished :
          /\ about' = [about EXCEPT ![p] = s]
          /\ \/ asked' = [asked EXCEPT ![p] = "skipped"] /\ UNCHANGED opens
             \/ /\ asked' = [asked EXCEPT ![p] = "proposed"]
                /\ opens' = [opens EXCEPT ![s] = @ + 1]
    /\ QueueGoto(p, "resolve")
    /\ UNCHANGED <<resumed, runs, lock, queueHist, queueKills>>

\* Apply, decline: a proposal is open no more.
CloseOpen ==
    /\ \E s \in Finished : opens[s] > 0 /\ opens' = [opens EXCEPT ![s] = @ - 1]
    /\ UNCHANGED <<queueFrame, runs, lock, queueHist, starts, queueKills>>

\* Or its last statement fails, which ends it as well: the errors are ignored.
KillHarvester(p) ==
    /\ qpc[p] # "idle"
    /\ queueKills < QueueKills
    /\ queueKills' = queueKills + 1
    /\ behind' = behind \ {p}
    /\ Finish(p)
    /\ UNCHANGED <<runs, opens, fails, asksAgain, reopened, starts>>

QueueNext ==
    \/ \E p \in Harvesters :
          \/ Finalize(p) \/ CheckAttempt(p) \/ QueueRun(p) \/ Scan(p)
          \/ CheckHarvested(p) \/ TryHarvestLock(p) \/ CheckProvider(p) \/ EndRun(p)
          \/ InsertOpen(p) \/ ResolveProposed(p) \/ RecordProposed(p) \/ ResolveFails(p)
          \/ AskAgain(p) \/ ResolveRun(p) \/ RecordRun(p) \/ LiveAnswer(p) \/ KillHarvester(p)
    \/ CloseOpen

QueueSpec == QueueInit /\ [][QueueNext]_queueVars

-----------------------------------------------------------------------------
(* Properties. *)

QueueTypeOK ==
    /\ qpc \in [Harvesters -> QueueSteps]
    /\ about \in [Harvesters -> Finished \cup {None}]
    /\ resumed \in [Harvesters -> BOOLEAN]
    /\ asked \in [Harvesters -> Rows \cup {None}]
    /\ runs \in [Finished -> [Rows -> Nat]]
    /\ opens \in [Finished -> Nat]
    /\ lock \in Harvesters \cup {None}
    /\ fails \in [Finished -> Nat]
    /\ behind \subseteq Harvesters
    /\ asksAgain \subseteq Finished /\ reopened \subseteq Finished

\* The user's CLI is not run over and over for a session that it fails on:
\* between two resolves at most MaxFails runs are started, and one more for
\* each that was killed, or lost its row, before its failure was on record.
CallsBounded == \A s \in Finished : fails[s] =< MaxFails + queueKills

\* Nobody is asked again about a session that has its proposals: it has no
\* pending row, unless it was resumed, or the row was written by a process
\* that had passed its check before (generate does not check again under the
\* lock, and does not check at all before it writes "busy"), or came between
\* the UPDATE of the resolve, which found no row, and its INSERT.
NotAskedAgain ==
    \A s \in Finished \ (asksAgain \cup reopened) :
        runs[s]["proposed"] > 0 => Pending(s) = 0
=============================================================================
