----------------------------- MODULE SessionDoc -----------------------------
(***************************************************************************)
(* The document .so/sessions/<id>/session.json of one session, and the     *)
(* processes that write it: telemetry hooks (UpsertActiveFromSpans),       *)
(* sessions finalize, sessions refresh, the repair that sessions list does *)
(* and the captures that set a summary (internal/session/store.go,         *)
(* internal/memory/capture.go, cmd/so/sessions_cmd.go).                    *)
(*                                                                         *)
(* Every write goes through writeDocument: a lock directory made by mkdir, *)
(* a read of the whole document, a change, and a rewrite that truncates    *)
(* the file first.  Reads take no lock.                                    *)
(***************************************************************************)
EXTENDS Naturals

CONSTANTS Procs,        \* processes, each with a role of its own at each start
          Loads,        \* the commands that materialize: finalize, refresh
          MaxTime,      \* bound: spans and ends of the session, on one clock
          MaxCrashes,   \* bound: processes killed, and calls that fail inside a write
          Dead,         \* who made a lock directory and died
          None

ASSUME DocAssumption ==
    /\ MaxTime \in Nat /\ MaxCrashes \in Nat
    /\ Loads \subseteq {"finalize", "refresh"}
    /\ None \notin Procs \cup Nat
    /\ Dead \notin Procs \cup {None}

VARIABLES
    clock,    \* time of the last span or end
    log,      \* times of the spans in events.jsonl
    doc,      \* session.json: NoDoc, Torn or a document
    lock,     \* who made the lock directory
    claim,    \* holder of the finalize flock
    role,     \* what each process runs
    pc,       \* step of each process
    spans,    \* a hook's new span; the spans a materializer loaded
    put,      \* the change that a process is about to make
    copy,     \* the document that it read under the lock
    crashes,  \* processes killed and calls that failed so far
    best,     \* history: the footprint materialized last
    late,     \* history: spans stored after an end they precede
    stolen,   \* history: a lock directory was removed under a live holder
    lost,     \* history: a write was cut off after truncating, or a read failed before one
    alone,   \* history: nobody else ran since this finalize loaded
    mixed    \* history: a refresh overlapped a finalize or another refresh

vars == <<clock, log, doc, lock, claim, role, pc, spans, put, copy, crashes,
          best, late, stolen, lost, alone, mixed>>
ghosts == <<best, late, stolen, lost, alone, mixed>>

Times == 1..MaxTime
Maybe(S) == S \cup {None}
Document == [status : {"none", "active", "ended"}, end : Maybe(Times), foot : SUBSET Times]
Blank == [status |-> "none", end |-> None, foot |-> {}]
NoDoc == [Blank EXCEPT !.status = "absent"]
Torn == [Blank EXCEPT !.status = "torn"]

\* What Get returns: no document, or an unreadable one, is an error.
Readable == doc.status \notin {"absent", "torn"}
Get == IF Readable THEN doc ELSE Blank

\* keep: the change sets the metadata and leaves the footprint alone.
Change == [status : {"none", "active", "ended"}, end : Maybe(Times),
           foot : SUBSET Times, keep : BOOLEAN]
Nothing == [status |-> "none", end |-> None, foot |-> {}, keep |-> TRUE]
Meta(status, end) == [Nothing EXCEPT !.status = status, !.end = end]

Holding == {"read", "truncate", "write", "unlock"}
Roles == {"none", "hook", "finalize", "refresh", "repair", "capture"}
Materializer(p) == role[p] \in {"finalize", "refresh"}
Writing == {"lock", "steal"} \cup Holding
\* The writeDocument of Start, of MaterializeFromSpans, of UpdateMeta, of
\* BuildReplayFromSpans, and of the UpdateMeta of a capture.
Calls == {"start", "ended", "update", "replay", "summary"}
Steps == {<<s, "no">> : s \in {"idle", "store", "upsert", "claim", "check", "repair", "materialize", "done"}}
            \cup (Writing \X Calls)

Init ==
    /\ clock = 0
    /\ log = {}
    /\ doc = NoDoc
    /\ lock = None
    /\ claim = None
    /\ role = [p \in Procs |-> "none"]
    /\ pc = [p \in Procs |-> <<"idle", "no">>]
    /\ spans = [p \in Procs |-> {}]
    /\ put = [p \in Procs |-> Nothing]
    /\ copy = [p \in Procs |-> Blank]
    /\ crashes = 0
    /\ best = {}
    /\ late = {}
    /\ stolen = FALSE
    /\ lost = FALSE
    /\ alone = [p \in Procs |-> FALSE]
    /\ mixed = FALSE

At(p, step) == pc[p] = <<step, "no">>
Goto(p, step) == pc' = [pc EXCEPT ![p] = <<step, "no">>]
In(p, step) == pc[p][1] = step
Move(p, step) == pc' = [pc EXCEPT ![p] = <<step, pc[p][2]>>]

\* A process starts: whoever runs is not alone any more.
Enter(p, r) ==
    /\ role' = [role EXCEPT ![p] = r]
    /\ alone' = [q \in Procs |->
                    q = p /\ r = "finalize" /\ \A o \in Procs \ {p} : At(o, "idle")]
    /\ mixed' = (mixed \/ \E o \in Procs \ {p} :
                    /\ {r, role[o]} \subseteq {"finalize", "refresh"}
                    /\ "refresh" \in {r, role[o]})

\* A process ends: its local state is gone and its flock with it.
LeaveClaimed(p) ==
    /\ Goto(p, "idle")
    /\ role' = [role EXCEPT ![p] = "none"]
    /\ spans' = [spans EXCEPT ![p] = {}]
    /\ put' = [put EXCEPT ![p] = Nothing]
    /\ copy' = [copy EXCEPT ![p] = Blank]
    /\ UNCHANGED claim

Leave(p) ==
    /\ Goto(p, "idle")
    /\ role' = [role EXCEPT ![p] = "none"]
    /\ spans' = [spans EXCEPT ![p] = {}]
    /\ put' = [put EXCEPT ![p] = Nothing]
    /\ copy' = [copy EXCEPT ![p] = Blank]
    /\ claim' = IF claim = p THEN None ELSE claim

\* writeDocument(id, change) begins.
Write(p, call, change) ==
    /\ put' = [put EXCEPT ![p] = change]
    /\ pc' = [pc EXCEPT ![p] = <<"lock", call>>]

-----------------------------------------------------------------------------
(* writeDocument. *)

LockFree == lock = None

Mkdir(p) ==
    /\ In(p, "lock")
    /\ LockFree
    /\ lock' = p
    /\ Move(p, "read")
    /\ UNCHANGED <<clock, log, role, doc, claim, spans, put, copy, crashes, ghosts>>

\* The directory is older than 30 seconds: its maker died without removing it.
SeesStale(p) ==
    /\ In(p, "lock")
    /\ lock = Dead
    /\ Move(p, "steal")
    /\ UNCHANGED <<clock, log, role, doc, lock, claim, spans, put, copy, crashes, ghosts>>

\* RemoveAll takes whatever directory is there by now.
Steal(p) ==
    /\ In(p, "steal")
    /\ stolen' = (stolen \/ lock \in Procs)
    /\ lock' = None
    /\ Move(p, "lock")
    /\ UNCHANGED <<clock, log, role, doc, claim, spans, put, copy, crashes, best, late, lost, alone, mixed>>

\* "session is busy" after two seconds: the caller of Start ignores it, and
\* the others return it.
TimesOut(p) ==
    /\ In(p, "lock")
    /\ lock # None
    /\ IF pc[p][2] = "start" /\ Materializer(p)
       THEN Goto(p, "materialize") /\ UNCHANGED <<role, spans, put, copy, claim>>
       ELSE Leave(p)
    /\ UNCHANGED <<clock, log, doc, lock, crashes, ghosts>>

Read(p) ==
    /\ In(p, "read")
    /\ copy' = [copy EXCEPT ![p] = Get]
    /\ Move(p, "truncate")
    /\ UNCHANGED <<clock, log, role, doc, lock, claim, spans, put, crashes, ghosts>>

Truncate(p) ==
    /\ In(p, "truncate")
    /\ doc' = Torn
    /\ Move(p, "write")
    /\ UNCHANGED <<clock, log, role, lock, claim, spans, put, copy, crashes, ghosts>>

\* The replay is added to the document as it was read; any other change brings
\* its metadata with it.
NewMeta(p) == IF pc[p][2] = "replay" THEN copy[p] ELSE put[p]
ChangedForgetting(p) ==
    [status |-> NewMeta(p).status, end |-> NewMeta(p).end, foot |-> put[p].foot]
Changed(p) ==
    [status |-> NewMeta(p).status, end |-> NewMeta(p).end,
     foot |-> IF put[p].keep THEN copy[p].foot ELSE put[p].foot]

WriteOut(p) ==
    /\ In(p, "write")
    /\ doc' = Changed(p)
    /\ best' = IF put[p].keep THEN best ELSE put[p].foot
    /\ Move(p, "unlock")
    /\ UNCHANGED <<clock, log, role, lock, claim, spans, put, copy, crashes, late, stolen, lost, alone, mixed>>

\* A call to the file system fails.  A document that could not be read counts as
\* an empty one; if it cannot be written the call returns, and whoever goes on
\* after a TimesOut goes on here too.
ReadFails(p) ==
    /\ In(p, "read")
    /\ crashes < MaxCrashes
    /\ crashes' = crashes + 1
    /\ lost' = TRUE
    /\ Move(p, "truncate")
    /\ UNCHANGED <<clock, log, role, doc, lock, claim, spans, put, copy, best, late, stolen, alone, mixed>>

WriteFails(p) ==
    /\ In(p, "truncate") \/ In(p, "write")
    /\ crashes < MaxCrashes
    /\ crashes' = crashes + 1
    /\ lost' = (lost \/ In(p, "write"))
    /\ lock' = None
    /\ IF pc[p][2] = "start" /\ Materializer(p)
       THEN /\ Goto(p, "materialize")
            /\ copy' = [copy EXCEPT ![p] = Blank]
            /\ UNCHANGED <<role, spans, put, claim>>
       ELSE Leave(p)
    /\ UNCHANGED <<clock, log, doc, best, late, stolen, alone, mixed>>

\* The deferred RemoveAll, and the call returns.
Unlock(p) ==
    /\ In(p, "unlock")
    /\ lock' = None
    /\ copy' = [copy EXCEPT ![p] = Blank]
    /\ \/ pc[p][2] = "start" /\ Materializer(p)
          /\ Goto(p, "materialize")
          /\ UNCHANGED put
       \/ pc[p][2] = "start" /\ ~Materializer(p)
          /\ Goto(p, "done")
          /\ UNCHANGED put
       \/ pc[p][2] = "ended"
          /\ Write(p, "update", IF role[p] = "finalize" THEN Meta("ended", put[p].end)
                                                       ELSE Meta("active", None))
       \/ pc[p][2] = "update"
          /\ Write(p, "replay", Nothing)
       \/ pc[p][2] \in {"replay", "summary"}
          /\ Goto(p, "done")
          /\ UNCHANGED put
    /\ UNCHANGED <<clock, log, role, doc, claim, spans, crashes, ghosts>>

-----------------------------------------------------------------------------
(* Hooks: a span ends, is appended to events.jsonl, and the row refreshed. *)

SpanEnds(h) ==
    /\ At(h, "idle")
    /\ clock < MaxTime
    /\ clock' = clock + 1
    /\ spans' = [spans EXCEPT ![h] = {clock + 1}]
    /\ Goto(h, "store")
    /\ Enter(h, "hook")
    /\ UNCHANGED <<log, doc, lock, claim, put, copy, crashes, best, late, stolen, lost>>

\* A span is late when some end of the session, written or about to be, is
\* newer than it.
Store(h) ==
    /\ At(h, "store")
    /\ log' = log \cup spans[h]
    /\ late' = late \cup
          {t \in spans[h] : \E e \in {doc.end} \cup {put[p].end : p \in Procs}
                                     \cup {copy[p].end : p \in Procs} :
                                e # None /\ e > t}
    /\ Goto(h, "upsert")
    /\ UNCHANGED <<clock, doc, lock, claim, role, spans, put, copy, crashes, best, stolen, lost, alone, mixed>>

\* An ended session is left alone; any other gets Start.
Upsert(h) ==
    /\ At(h, "upsert")
    /\ IF Get.status = "ended" THEN Leave(h)
       ELSE /\ Write(h, "start", Meta("active", Get.end))
            /\ UNCHANGED <<role, spans, copy, claim>>
    /\ UNCHANGED <<clock, log, doc, lock, crashes, ghosts>>

-----------------------------------------------------------------------------
(* sessions list: a link found late stamps the parent through Start. *)

Repair(p) ==
    /\ At(p, "idle")
    /\ Readable
    /\ Write(p, "start", Meta("active", Get.end))
    /\ Enter(p, "repair")
    /\ UNCHANGED <<clock, log, doc, lock, claim, spans, copy, crashes, best, late, stolen, lost>>

-----------------------------------------------------------------------------
(* A capture of kind session: writeSessionSummary reads the metadata with no *)
(* lock, sets the summary in it, and UpdateMeta writes all of it back.       *)

Capture(p) ==
    /\ At(p, "idle")
    /\ Readable
    /\ Write(p, "summary", Meta(Get.status, Get.end))
    /\ Enter(p, "capture")
    /\ UNCHANGED <<clock, log, doc, lock, claim, spans, copy, crashes, best, late, stolen, lost>>

-----------------------------------------------------------------------------
(* sessions finalize and sessions refresh. *)

Load(p, r) ==
    /\ At(p, "idle")
    /\ log # {}
    /\ spans' = [spans EXCEPT ![p] = log]
    /\ IF r = "finalize" THEN Goto(p, "claim") /\ UNCHANGED put
                         ELSE Write(p, "start", Meta("active", None))
    /\ Enter(p, r)
    /\ UNCHANGED <<clock, log, doc, lock, claim, copy, crashes, best, late, stolen, lost>>

Claim(p) ==
    /\ At(p, "claim")
    /\ claim = None
    /\ claim' = p
    /\ Goto(p, "check")
    /\ UNCHANGED <<clock, log, role, doc, lock, spans, put, copy, crashes, ghosts>>

ClaimBusy(p) ==
    /\ At(p, "claim")
    /\ claim # None
    /\ Leave(p)
    /\ UNCHANGED <<clock, log, doc, lock, crashes, ghosts>>

\* Nothing newer than the end: the session is finalized already.
FinalizedAnyway(p) == Get.status = "ended"
Finalized(p) ==
    /\ Get.status = "ended"
    /\ Get.end # None
    /\ \A t \in spans[p] : t <= Get.end

Skip(p) ==
    /\ At(p, "check")
    /\ Finalized(p)
    /\ Leave(p)
    /\ UNCHANGED <<clock, log, doc, lock, crashes, ghosts>>

Check(p) ==
    /\ At(p, "check")
    /\ ~Finalized(p)
    /\ Write(p, "start", Meta("active", None))
    /\ UNCHANGED <<clock, log, role, doc, lock, claim, spans, copy, crashes, ghosts>>

\* The footprint comes from the loaded spans, or from the log when it has more.
Footprint(p) == IF log \subseteq spans[p] THEN spans[p] ELSE log

Materialize(p) ==
    /\ At(p, "materialize")
    /\ clock < MaxTime
    /\ clock' = clock + 1
    /\ Write(p, "ended", [status |-> "ended", end |-> clock + 1,
                          foot |-> Footprint(p), keep |-> FALSE])
    /\ UNCHANGED <<log, role, doc, lock, claim, spans, copy, crashes, ghosts>>

\* The rest (checkpoint, ingest, distill) does not write the document.
Finish(p) ==
    /\ At(p, "done")
    /\ Leave(p)
    /\ UNCHANGED <<clock, log, doc, lock, crashes, ghosts>>

\* A kill leaves the lock directory behind.
Crash(p) ==
    /\ ~At(p, "idle")
    /\ crashes < MaxCrashes
    /\ crashes' = crashes + 1
    /\ Leave(p)
    /\ lock' = IF lock = p THEN Dead ELSE lock
    /\ lost' = (lost \/ In(p, "write"))
    /\ UNCHANGED <<clock, log, doc, best, late, stolen, alone, mixed>>

-----------------------------------------------------------------------------
WriteStep(p) ==
    \/ Mkdir(p)
    \/ SeesStale(p)
    \/ Steal(p)
    \/ TimesOut(p)
    \/ Read(p)
    \/ Truncate(p)
    \/ ReadFails(p)
    \/ WriteFails(p)
    \/ WriteOut(p)
    \/ Unlock(p)

Next ==
    \/ \E p \in Procs : WriteStep(p) \/ Finish(p) \/ Crash(p)
    \/ \E p \in Procs : SpanEnds(p) \/ Store(p) \/ Upsert(p)
    \/ \E p \in Procs : Repair(p) \/ Capture(p)
    \/ \E p \in Procs : \E r \in Loads : Load(p, r)
    \/ \E p \in Procs : Materialize(p)
    \/ \E p \in Procs : Claim(p) \/ ClaimBusy(p) \/ Skip(p) \/ Check(p)

Spec == Init /\ [][Next]_vars

-----------------------------------------------------------------------------
(* Properties. *)

\* Every variable keeps its type, and the finalize flock is held by a
\* finalizer that is past its claim: no return path leaves it held.
TypeOK ==
    /\ clock \in 0..MaxTime /\ log \subseteq Times
    /\ doc \in Document \cup {NoDoc, Torn}
    /\ lock \in Maybe(Procs) \cup {Dead}
    /\ claim \in {None} \cup {p \in Procs : role[p] = "finalize" /\ ~At(p, "claim")}
    /\ role \in [Procs -> Roles] /\ pc \in [Procs -> Steps]
    /\ spans \in [Procs -> SUBSET Times]
    /\ put \in [Procs -> Change]
    /\ copy \in [Procs -> Document]
    /\ crashes \in 0..MaxCrashes
    /\ best \subseteq Times /\ late \subseteq Times
    /\ stolen \in BOOLEAN /\ lost \in BOOLEAN /\ mixed \in BOOLEAN
    /\ alone \in [Procs -> BOOLEAN]

\* While no lock directory was removed under a live holder, and no write was cut
\* off halfway or began with a failed read, the document keeps the footprint
\* materialized last: Start, UpdateMeta, BuildReplayFromSpans, captures and hooks
\* rewrite the whole file and lose nothing of it.
FootprintKept == (~stolen /\ ~lost /\ Readable) => doc.foot = best

\* A finalize that ran alone, whether it materialized or found the session
\* finalized already, leaves it ended with every stored span in its footprint,
\* but for the spans stored after an end they precede: whatever ran before it,
\* captures with an old copy included.  A refresh takes no claim, and one that
\* overlaps a finalize may put its older footprint under the end that the
\* finalize then writes, hence ~mixed.
FinalizeCovers ==
    [][\A p \in Procs :
        (Finish(p) \/ Skip(p)) /\ alone[p] /\ ~stolen /\ ~lost /\ ~mixed =>
            doc.status = "ended" /\ log \ late \subseteq doc.foot]_vars

\* UpsertActiveFromSpans: "Does not overwrite ended sessions."
EndedKept ==
    [][\A h \in Procs : WriteOut(h) /\ role[h] = "hook" => copy[h].status # "ended"]_vars
=============================================================================
