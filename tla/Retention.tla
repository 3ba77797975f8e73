------------------------------ MODULE Retention ------------------------------
(***************************************************************************)
(* The retention sweep (internal/retention/sweep.go, session/retain.go,    *)
(* session/empty.go, harvest/store.go, memory/retain.go).  It deletes the  *)
(* sessions without activity for a week, then what the harvest tables and  *)
(* the diary hold of exactly these sessions, and what is older than a week *)
(* by itself.  It runs after every finalize, so two may run at once, beside *)
(* hooks, harvesters and the user.                                         *)
(*                                                                         *)
(* Rows a sweep never selects (teachings, pins, rows with a horizon) are   *)
(* left out; so are the files of index.json (SessionIndex).                *)
(***************************************************************************)
EXTENDS Integers, FiniteSets, Absent

CONSTANTS Sweepers,   \* processes that sweep
          Kept,       \* sessions
          Proposals,  \* ids of proposals
          SessionOf,  \* the session of a proposal
          MaxSweeps,  \* bound: sweeps
          MaxEvents,  \* bound: activity, rows written, proposals closed, stops
          MaxWeeks,   \* bound: weeks that pass
          Stops       \* bound: sweeps that fail or are killed

ASSUME RetentionAssumption ==
    /\ None \notin Kept \cup Proposals \cup Sweepers
    /\ None \notin {"old", "young", "open", "closed", "deleted", "pending", "done"}
    /\ SessionOf \in [Proposals -> Kept]

VARIABLES
    rpc,      \* the step each sweep is at
    seen,     \* sessions it has listed and not looked at yet
    doomed,   \* the session it deletes
    gone,     \* SessionsDeleted
    picked,   \* proposals it has selected
    dir,      \* the directory of a session: None, "old" or "young"
    row,      \* sessions that index.json lists
    review,   \* a proposal: None, "open", "closed" or "deleted"; ids are not reused
    diff,     \* proposals that have a .diff file
    writing,  \* proposals whose row is there and whose .diff file is not written yet
    run,      \* the harvest run of a session: None, "pending" or "done"
    moment,   \* the diary rows of a session are there
    ageing,   \* proposals, runs and diary rows that are older than a week
    cut,      \* history: sessions whose sweep stopped after it deleted them
    tardy,     \* history: sessions with a row written or closed once a sweep had them
    slipped,  \* history: proposals deleted by a sweep that had not selected them,
              \* or that stopped before it removed their files
    wasted,   \* history: sessions deleted although active since they were looked at last
    sweeps, happened, weeks, stops

sweepFrame == <<rpc, seen, doomed, gone, picked>>
sweepRows == <<dir, row, review, diff, writing, run, moment, ageing>>
sweepHist == <<cut, tardy, slipped, wasted>>
sweepBounds == <<sweeps, happened, weeks, stops>>
sweepVars == <<sweepFrame, sweepRows, sweepHist, sweepBounds>>

\* What ages: <<"proposal", e>>, <<"run", s>>, <<"moment", s>>.
Ages == ({"proposal"} \X Proposals) \cup ({"run", "moment"} \X Kept)
SweepSteps == {"idle", "list", "stat", "delete", "index", "pick", "purge", "diffs", "runs",
               "oldPick", "oldPurge", "oldDiffs", "oldRuns", "memory", "oldMemory"}

SweepInit ==
    /\ rpc = [p \in Sweepers |-> "idle"]
    /\ seen = [p \in Sweepers |-> {}]
    /\ doomed = [p \in Sweepers |-> None]
    /\ gone = [p \in Sweepers |-> {}]
    /\ picked = [p \in Sweepers |-> {}]
    /\ dir = [s \in Kept |-> "young"]
    /\ row = Kept
    /\ review = [e \in Proposals |-> None]
    /\ diff = {} /\ writing = {}
    /\ run = [s \in Kept |-> None]
    /\ moment = {} /\ ageing = {}
    /\ cut = {} /\ tardy = {} /\ slipped = {} /\ wasted = {}
    /\ sweeps = 0 /\ happened = 0 /\ weeks = 0 /\ stops = 0

SweepGoto(p, step) == rpc' = [rpc EXCEPT ![p] = step]
EndSweep(p) ==
    /\ SweepGoto(p, "idle")
    /\ seen' = [seen EXCEPT ![p] = {}]
    /\ doomed' = [doomed EXCEPT ![p] = None]
    /\ gone' = [gone EXCEPT ![p] = {}]
    /\ picked' = [picked EXCEPT ![p] = {}]

-----------------------------------------------------------------------------
(* Sessions: DeleteOlderThan.                                               *)

\* Retention of sessions may be switched off: then only the diary is swept.
StartSweep(p) ==
    /\ rpc[p] = "idle"
    /\ sweeps < MaxSweeps
    /\ sweeps' = sweeps + 1
    /\ rpc' \in {[rpc EXCEPT ![p] = "list"], [rpc EXCEPT ![p] = "memory"]}
    /\ UNCHANGED <<seen, doomed, gone, picked, sweepRows, sweepHist, happened, weeks, stops>>

\* List merges the rows of the index with the session documents.
ListSessions(p) ==
    /\ rpc[p] = "list"
    /\ seen' = [seen EXCEPT ![p] = row \cup {s \in Kept : dir[s] # None}]
    /\ SweepGoto(p, "stat")
    /\ UNCHANGED <<doomed, gone, picked, sweepRows, sweepHist, sweepBounds>>

\* Mutant: the times of the listed row count, not those of the files.
LookAtStale(p) ==
    /\ rpc[p] = "stat"
    /\ \/ /\ seen[p] = {}
          /\ SweepGoto(p, "pick")
          /\ UNCHANGED <<seen, doomed>>
       \/ \E s \in seen[p] :
             /\ seen' = [seen EXCEPT ![p] = @ \ {s}]
             /\ doomed' = [doomed EXCEPT ![p] = s]
             /\ SweepGoto(p, "delete")
    /\ UNCHANGED <<gone, picked, sweepRows, sweepHist, sweepBounds>>

\* The next listed session.  A missing directory has no times of its own, and
\* those of its row are old.
LookAt(p) ==
    /\ rpc[p] = "stat"
    /\ \/ /\ seen[p] = {}
          /\ SweepGoto(p, "pick")
          /\ UNCHANGED <<seen, doomed>>
       \/ \E s \in seen[p] :
             /\ seen' = [seen EXCEPT ![p] = @ \ {s}]
             /\ IF dir[s] = "young"
                THEN UNCHANGED <<rpc, doomed>>
                ELSE /\ doomed' = [doomed EXCEPT ![p] = s]
                     /\ SweepGoto(p, "delete")
    /\ UNCHANGED <<gone, picked, sweepRows, sweepHist, sweepBounds>>

\* RemoveAll.  Whether the session has been active meanwhile is not looked at.
RemoveDir(p) ==
    /\ rpc[p] = "delete"
    /\ dir' = [dir EXCEPT ![doomed[p]] = None]
    /\ wasted' = IF dir[doomed[p]] = "young" /\ doomed[p] \notin tardy
                 THEN wasted \cup {doomed[p]} ELSE wasted
    /\ SweepGoto(p, "index")
    /\ UNCHANGED <<seen, doomed, gone, picked, row, review, diff, writing, run, moment, ageing,
                   cut, tardy, slipped, sweepBounds>>

\* The row leaves the index.
RemoveRow(p) ==
    /\ rpc[p] = "index"
    /\ row' = row \ {doomed[p]}
    /\ gone' = [gone EXCEPT ![p] = @ \cup {doomed[p]}]
    /\ doomed' = [doomed EXCEPT ![p] = None]
    /\ SweepGoto(p, "stat")
    /\ UNCHANGED <<seen, picked, dir, review, diff, writing, run, moment, ageing, sweepHist,
                   sweepBounds>>

-----------------------------------------------------------------------------
(* Harvest: DeleteClosedForSessions, then DeleteExpired.                    *)

Closed(p) == {e \in Proposals : review[e] = "closed" /\ SessionOf[e] \in gone[p]}
Old(kind, rows) == {x \in rows : <<kind, x>> \in ageing}
ClosedOld == Old("proposal", {e \in Proposals : review[e] = "closed"})

\* The ids are selected ...
Pick(p, set, next) ==
    /\ picked' = [picked EXCEPT ![p] = set]
    /\ SweepGoto(p, next)
    /\ UNCHANGED <<seen, doomed, gone, sweepRows, sweepHist, sweepBounds>>

\* ... a second statement deletes what the condition holds for now ...
Purge(p, set, next) ==
    /\ review' = [e \in Proposals |-> IF e \in set THEN "deleted" ELSE review[e]]
    /\ ageing' = ageing \ ({"proposal"} \X set)
    /\ slipped' = slipped \cup (set \ picked[p])
    /\ SweepGoto(p, next)
    /\ UNCHANGED <<seen, doomed, gone, picked, dir, row, diff, writing, run, moment, cut, tardy,
                   wasted, sweepBounds>>

\* ... and the files of the selected ones are removed.
RemoveDiffs(p, next) ==
    /\ diff' = diff \ picked[p]
    /\ picked' = [picked EXCEPT ![p] = {}]
    /\ SweepGoto(p, next)
    /\ UNCHANGED <<seen, doomed, gone, dir, row, review, writing, run, moment, ageing, sweepHist,
                   sweepBounds>>

DropRuns(p, set, next) ==
    /\ run' = [s \in Kept |-> IF s \in set /\ run[s] = "done" THEN None ELSE run[s]]
    /\ ageing' = ageing \ ({"run"} \X {s \in set : run[s] = "done"})
    /\ SweepGoto(p, next)
    /\ UNCHANGED <<seen, doomed, gone, picked, dir, row, review, diff, writing, moment, sweepHist,
                   sweepBounds>>

\* Mutant: the rows of the deleted sessions are left to their age.
PurgeClosedNot(p) == rpc[p] = "purge" /\ Purge(p, {}, "diffs")

PickClosed(p) == rpc[p] = "pick" /\ Pick(p, Closed(p), "purge")
PurgeClosed(p) == rpc[p] = "purge" /\ Purge(p, Closed(p), "diffs")
RemoveClosedDiffs(p) == rpc[p] = "diffs" /\ RemoveDiffs(p, "runs")
DropSessionRuns(p) == rpc[p] = "runs" /\ DropRuns(p, gone[p], "oldPick")
PickOld(p) == rpc[p] = "oldPick" /\ Pick(p, ClosedOld, "oldPurge")
PurgeOld(p) == rpc[p] = "oldPurge" /\ Purge(p, ClosedOld, "oldDiffs")
RemoveOldDiffs(p) == rpc[p] = "oldDiffs" /\ RemoveDiffs(p, "oldRuns")
DropOldRuns(p) == rpc[p] = "oldRuns" /\ DropRuns(p, Old("run", Kept), "memory")

-----------------------------------------------------------------------------
(* The diary: DeleteUnprotectedForSessions, then DeleteExpired.             *)

DropMoments(p, set) ==
    /\ moment' = moment \ set
    /\ ageing' = ageing \ ({"moment"} \X set)
    /\ UNCHANGED <<dir, row, review, diff, writing, run, sweepHist, sweepBounds>>

DropSessionMoments(p) ==
    /\ rpc[p] = "memory"
    /\ DropMoments(p, gone[p])
    /\ SweepGoto(p, "oldMemory")
    /\ UNCHANGED <<seen, doomed, gone, picked>>

\* Unless retention of the diary is switched off.
DropOldMoments(p) ==
    /\ rpc[p] = "oldMemory"
    /\ DropMoments(p, Old("moment", Kept)) \/ DropMoments(p, {})
    /\ EndSweep(p)

-----------------------------------------------------------------------------
(* What happens beside a sweep.                                             *)

\* A session that has no directory, or that a sweep is about to delete or has
\* deleted, but not what else there is of it.
Leaving(s) == dir[s] = None \/ \E p \in Sweepers : s = doomed[p] \/ s \in gone[p]
Tardy(s) == tardy' = IF Leaving(s) THEN tardy \cup {s} ELSE tardy
Event == happened < MaxEvents /\ happened' = happened + 1

\* A hook stores a span and writes the document and its row.
Active(s) ==
    /\ Event
    /\ dir' = [dir EXCEPT ![s] = "young"]
    /\ row' = row \cup {s}
    /\ Tardy(s)
    /\ UNCHANGED <<sweepFrame, review, diff, writing, run, moment, ageing, cut, slipped, wasted,
                   sweeps, weeks, stops>>

\* Propose inserts a row, open, or closed when the target holds the diff
\* (noop); apply and decline close it.
ProposalEvent(e) ==
    /\ Event
    /\ \/ /\ review[e] = None
          /\ review' \in {[review EXCEPT ![e] = st] : st \in {"open", "closed"}}
          /\ writing' = writing \cup {e}
       \/ /\ review[e] = "open"
          /\ review' = [review EXCEPT ![e] = "closed"]
          /\ UNCHANGED writing
    /\ Tardy(SessionOf[e])
    /\ UNCHANGED <<sweepFrame, dir, row, diff, run, moment, ageing, cut, slipped, wasted, sweeps,
                   weeks, stops>>

\* InsertProposal writes the file once the row is there.
WriteDiff(e) ==
    /\ e \in writing
    /\ writing' = writing \ {e}
    /\ diff' = diff \cup {e}
    /\ slipped' = IF review[e] = "deleted" THEN slipped \cup {e} ELSE slipped
    /\ UNCHANGED <<sweepFrame, dir, row, review, run, moment, ageing, cut, tardy, wasted,
                   sweepBounds>>

\* A run is recorded as pending or done; a diary row is captured.
RowEvent(s) ==
    /\ Event
    /\ \/ /\ run' \in {[run EXCEPT ![s] = "pending"], [run EXCEPT ![s] = "done"]}
          /\ ageing' = ageing \ {<<"run", s>>}
          /\ UNCHANGED moment
       \/ /\ moment' = moment \cup {s}
          /\ ageing' = ageing \ {<<"moment", s>>}
          /\ UNCHANGED run
    /\ Tardy(s)
    /\ UNCHANGED <<sweepFrame, dir, row, review, diff, writing, cut, slipped, wasted, sweeps, weeks,
                   stops>>

PassWeek ==
    /\ weeks < MaxWeeks
    /\ weeks' = weeks + 1
    /\ dir' = [s \in Kept |-> IF dir[s] = None THEN None ELSE "old"]
    /\ ageing' = ({"proposal"} \X {e \in Proposals : review[e] \in {"open", "closed"}})
                 \cup ({"run"} \X {s \in Kept : run[s] # None}) \cup ({"moment"} \X moment)
    /\ UNCHANGED <<sweepFrame, row, review, diff, writing, run, moment, sweepHist, sweeps, happened, stops>>

\* A statement, a read or a write fails, or the process is killed: the sweep is
\* over.  Before the row is gone from the index a later sweep finds the session
\* again, unless it was the index itself that could not be read.
StopSweep(p) ==
    /\ rpc[p] # "idle"
    /\ Event /\ stops < Stops
    /\ stops' = stops + 1
    /\ cut' = cut \cup gone[p]
    /\ slipped' = slipped \cup picked[p]
    /\ EndSweep(p)
    /\ UNCHANGED <<sweepRows, tardy, wasted, sweeps, weeks>>

FailDelete(p) ==
    /\ rpc[p] = "index"
    /\ Event /\ stops < Stops
    /\ stops' = stops + 1
    /\ row' = row \ {doomed[p]}
    /\ cut' = cut \cup gone[p] \cup {doomed[p]}
    /\ EndSweep(p)
    /\ UNCHANGED <<dir, review, diff, writing, run, moment, ageing, tardy, slipped, wasted, sweeps,
                   weeks>>

\* The harvest tables cannot be opened: the sweep goes on with the diary.
SkipHarvest(p) ==
    /\ rpc[p] = "pick"
    /\ Event /\ stops < Stops
    /\ stops' = stops + 1
    /\ cut' = cut \cup gone[p]
    /\ SweepGoto(p, "memory")
    /\ UNCHANGED <<seen, doomed, gone, picked, sweepRows, tardy, slipped, wasted, sweeps, weeks>>

SweepNext ==
    \/ \E p \in Sweepers :
          \/ StartSweep(p) \/ ListSessions(p) \/ LookAt(p) \/ RemoveDir(p) \/ RemoveRow(p)
          \/ PickClosed(p) \/ PurgeClosed(p) \/ RemoveClosedDiffs(p) \/ DropSessionRuns(p)
          \/ PickOld(p) \/ PurgeOld(p) \/ RemoveOldDiffs(p) \/ DropOldRuns(p)
          \/ DropSessionMoments(p) \/ DropOldMoments(p) \/ StopSweep(p) \/ FailDelete(p)
          \/ SkipHarvest(p)
    \/ \E s \in Kept : Active(s) \/ RowEvent(s)
    \/ \E e \in Proposals : ProposalEvent(e) \/ WriteDiff(e)
    \/ PassWeek

SweepSpec == SweepInit /\ [][SweepNext]_sweepVars

-----------------------------------------------------------------------------
(* Properties. *)

SweepTypeOK ==
    /\ rpc \in [Sweepers -> SweepSteps]
    /\ seen \in [Sweepers -> SUBSET Kept] /\ gone \in [Sweepers -> SUBSET Kept]
    /\ doomed \in [Sweepers -> Kept \cup {None}]
    /\ picked \in [Sweepers -> SUBSET Proposals]
    /\ dir \in [Kept -> {None, "old", "young"}]
    /\ row \subseteq Kept /\ moment \subseteq Kept
    /\ review \in [Proposals -> {None, "open", "closed", "deleted"}]
    /\ diff \subseteq Proposals /\ writing \subseteq Proposals
    /\ run \in [Kept -> {None, "pending", "done"}]
    /\ ageing \subseteq Ages
    /\ cut \cup tardy \cup wasted \subseteq Kept /\ slipped \subseteq Proposals

\* The .diff files are those of the proposals: an open proposal has its file
\* once it is written, and a deleted one has none, except where it was closed
\* between the two statements of a sweep, a sweep stopped after the second, or
\* the row was deleted before the file was written.
DiffsMatch ==
    /\ \A e \in Proposals \ writing : review[e] = "open" => e \in diff
    /\ \A e \in diff \ slipped :
          review[e] = "deleted" => \E p \in Sweepers : e \in picked[p]

\* What is left of a session goes with it: once a session is gone from the disk
\* and the index, and no sweep is at it, there is no closed proposal, no
\* resolved run and no diary row of it, unless its sweep stopped half-way or a
\* row of it was written or closed after a sweep had taken it; and the
\* files are those of the proposals.
NothingLeftBehind ==
    /\ DiffsMatch
    /\ \A s \in Kept \ (row \cup cut \cup tardy) :
           (dir[s] = None /\ \A p \in Sweepers : s # doomed[p] /\ s \notin gone[p]) =>
               /\ \A e \in Proposals : SessionOf[e] = s => review[e] # "closed"
               /\ run[s] # "done"
               /\ s \notin moment

\* A session that was active within the week is not deleted, unless it became
\* active while the sweep was at this very session.
ActiveKept == wasted = {}
=============================================================================
