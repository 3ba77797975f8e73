----------------------------- MODULE SessionLog -----------------------------
(***************************************************************************)
(* The event log .so/sessions/<id>/events.jsonl of one session: hooks      *)
(* append spans to it (trace.LocalJSONL.Write), sessions finalize and      *)
(* sessions refresh read it, fill in usage (UpdateUsage) and rewrite it    *)
(* (MaterializeFromSpans).  The mutex of LocalJSONL is inside a process;   *)
(* between processes there is only the claim that finalize takes.          *)
(*                                                                         *)
(* A log is a file: a rename or a remove moves the name, and a process     *)
(* goes on with the file that it opened.                                   *)
(***************************************************************************)
EXTENDS Integers, FiniteSets, FiniteSetsExt

CONSTANTS Procs,      \* processes, each with a role of its own at each start
          Spans,      \* spans of the session
          Quiet,      \* those that are identity only: no activity
          Vendors,    \* hosts the session may be of
          Loads,      \* who rewrites: pairs of a host and finalize or refresh
          MaxFiles,   \* bound: log files ever created
          MaxCrashes, \* bound: processes killed
          None

ASSUME LogAssumption ==
    /\ MaxFiles \in Nat /\ MaxCrashes \in Nat
    /\ IsFiniteSet(Spans) /\ Quiet \subseteq Spans
    /\ Vendors \subseteq {"codex", "copilot-cli", "other"} /\ Vendors # {}
    /\ Loads \subseteq Vendors \X {"finalize", "refresh"}
    /\ None \notin Procs \cup Spans \cup (1..MaxFiles)

Files == 1..MaxFiles
Lines == [Spans -> Nat]   \* a file: how often it holds each span
NoLines == [e \in Spans |-> 0]
Count(lines) == MapThenSumSet(LAMBDA e : lines[e], Spans)
Holds(lines) == {e \in Spans : lines[e] > 0}

VARIABLES
    vendor,   \* the host, stamped on every span
    name,     \* the file named events.jsonl
    file,     \* contents by file
    next,     \* next file to create
    claim,    \* holder of the finalize flock
    role, pc, \* what each process runs, and its step
    span,     \* the span a hook stores
    loaded,   \* the spans a rewriter has read
    left,     \* the lines it has still to write
    open,     \* the file a process has open
    stored,   \* history: spans that some hook has started to store
    safe,     \* history: spans with activity appended to the named file while no
              \* rewrite was under way and it held all that anybody had loaded
    crashes   \* processes killed so far

vars == <<vendor, name, file, next, claim, role, pc, span, loaded, left, open,
          stored, safe, crashes>>

Roles == {"none", "hook", "finalize", "refresh"}
Rewriting == {"rename", "remove", "ensure", "reopen", "encode", "delete"}
Loaded == {"claim", "check", "usage", "count"} \cup Rewriting
Steps == {"idle", "open", "append"} \cup Loaded

Init ==
    /\ vendor \in Vendors
    /\ name = None
    /\ file = [i \in Files |-> NoLines]
    /\ next = 1
    /\ claim = None
    /\ role = [p \in Procs |-> "none"]
    /\ pc = [p \in Procs |-> "idle"]
    /\ span = [p \in Procs |-> None]
    /\ loaded = [p \in Procs |-> NoLines]
    /\ left = [p \in Procs |-> NoLines]
    /\ open = [p \in Procs |-> None]
    /\ stored = {}
    /\ safe = {}
    /\ crashes = 0

Goto(p, step) == pc' = [pc EXCEPT ![p] = step]

ReleasesNever(p) == FALSE
Releases(p) == claim = p

\* A process ends: its local state is gone and its flock with it.
Leave(p) ==
    /\ Goto(p, "idle")
    /\ role' = [role EXCEPT ![p] = "none"]
    /\ span' = [span EXCEPT ![p] = None]
    /\ loaded' = [loaded EXCEPT ![p] = NoLines]
    /\ left' = [left EXCEPT ![p] = NoLines]
    /\ open' = [open EXCEPT ![p] = None]
    /\ claim' = IF Releases(p) THEN None ELSE claim

\* EnsureJSONL: a log that is missing is created with its manifest.
Ensure ==
    IF name # None THEN UNCHANGED <<name, next>>
    ELSE /\ next <= MaxFiles
         /\ name' = next
         /\ next' = next + 1

RewriteUnderWay == \E p \in Procs : pc[p] \in Rewriting
LogHolds(lines) == name # None /\ \A e \in Spans : lines[e] <= file[name][e]
NobodyAhead == \A p \in Procs : pc[p] \in Loaded => LogHolds(loaded[p])

\* Two rewrites at once: nothing is safe any more.
Begin(p) ==
    safe' = IF \E q \in Procs \ {p} : pc[q] \in Rewriting THEN {} ELSE safe

-----------------------------------------------------------------------------
(* Hooks: LocalJSONL.Write. *)

\* The log is created when it is missing, then opened.
Record(p, e) ==
    /\ pc[p] = "idle"
    /\ e \notin stored
    /\ stored' = stored \cup {e}
    /\ span' = [span EXCEPT ![p] = e]
    /\ role' = [role EXCEPT ![p] = "hook"]
    /\ Ensure
    /\ Goto(p, "open")
    /\ UNCHANGED <<vendor, file, claim, loaded, left, open, safe, crashes>>

\* Without O_CREATE: a log removed meanwhile makes Write fail.
Open(p) ==
    /\ pc[p] = "open"
    /\ IF name = None THEN Leave(p)
       ELSE /\ open' = [open EXCEPT ![p] = name]
            /\ Goto(p, "append")
            /\ UNCHANGED <<claim, role, span, loaded, left>>
    /\ UNCHANGED <<vendor, name, file, next, stored, safe, crashes>>

Append(p) ==
    /\ pc[p] = "append"
    /\ file' = [file EXCEPT ![open[p]][span[p]] = @ + 1]
    /\ safe' = IF open[p] = name /\ ~RewriteUnderWay /\ NobodyAhead
               THEN safe \cup ({span[p]} \ Quiet) ELSE safe
    /\ Leave(p)
    /\ UNCHANGED <<vendor, name, next, stored, crashes>>

-----------------------------------------------------------------------------
(* sessions finalize and sessions refresh. *)

\* SpansHaveActivity decides: without any, finalize deletes the session and
\* refresh does nothing.
Load(p, r) ==
    /\ pc[p] = "idle"
    /\ <<vendor, r>> \in Loads
    /\ name # None
    /\ Count(file[name]) > 0
    /\ loaded' = [loaded EXCEPT ![p] = file[name]]
    /\ left' = [left EXCEPT ![p] = file[name]]
    /\ role' = [role EXCEPT ![p] = r]
    /\ IF Holds(file[name]) \subseteq Quiet
       THEN r = "finalize" /\ Goto(p, "delete") /\ Begin(p)
       ELSE /\ Goto(p, IF r = "finalize" THEN "claim" ELSE "check")
            /\ UNCHANGED safe
    /\ UNCHANGED <<vendor, name, file, next, claim, span, open, stored, crashes>>

\* Store.Delete: the directory goes, claimed by somebody or not.
Delete(p) ==
    /\ pc[p] = "delete"
    /\ name' = None
    /\ Leave(p)
    /\ UNCHANGED <<vendor, file, next, stored, safe, crashes>>

\* A codex session is read again under the claim.
Claim(p) ==
    /\ pc[p] = "claim"
    /\ claim = None
    /\ IF vendor = "codex"
       THEN /\ name # None /\ Count(file[name]) > 0
            /\ loaded' = [loaded EXCEPT ![p] = file[name]]
            /\ left' = [left EXCEPT ![p] = file[name]]
       ELSE UNCHANGED <<loaded, left>>
    /\ claim' = p
    /\ Goto(p, "check")
    /\ UNCHANGED <<vendor, name, file, next, role, span, open, stored, safe, crashes>>

\* Busy (codex polls for two minutes first), or a codex log that is gone.
ClaimFails(p) ==
    /\ pc[p] = "claim"
    /\ \/ claim # None
       \/ vendor = "codex" /\ (IF name = None THEN TRUE ELSE Count(file[name]) = 0)
    /\ Leave(p)
    /\ UNCHANGED <<vendor, name, file, next, stored, safe, crashes>>

\* The session has ended and none of the spans is later than that.
NothingLater(p) ==
    /\ pc[p] = "check"
    /\ role[p] = "finalize"
    /\ Leave(p)
    /\ UNCHANGED <<vendor, name, file, next, stored, safe, crashes>>

\* Usage is filled in for codex turns, and for copilot when it ends.
Proceed(p, usage) ==
    /\ pc[p] = "check"
    /\ usage => vendor = "codex" \/ (vendor = "copilot-cli" /\ role[p] = "finalize")
    /\ Goto(p, IF usage THEN "usage" ELSE "count")
    /\ UNCHANGED <<vendor, name, file, next, claim, role, span, loaded, left, open, stored,
                   safe, crashes>>

\* UpdateUsage copies the log line by line into a new file.
Scan(p) ==
    /\ pc[p] = "usage"
    /\ IF name = None
       THEN Goto(p, "count") /\ UNCHANGED <<file, next, open, safe>>
       ELSE /\ next <= MaxFiles
            /\ file' = [file EXCEPT ![next] = file[name]]
            /\ open' = [open EXCEPT ![p] = next]
            /\ next' = next + 1
            /\ Goto(p, "rename")
            /\ Begin(p)
    /\ UNCHANGED <<vendor, name, claim, role, span, loaded, left, stored, crashes>>

Rename(p) ==
    /\ pc[p] = "rename"
    /\ name' = open[p]
    /\ open' = [open EXCEPT ![p] = None]
    /\ Goto(p, "count")
    /\ UNCHANGED <<vendor, file, next, claim, role, span, loaded, left, stored, safe,
                   crashes>>

\* countJSONLEvents: the log is rewritten unless it has grown since it was read.
GrownNever(p) == FALSE
Grown(p) == name # None /\ Count(file[name]) > Count(loaded[p])

Keep(p) ==
    /\ pc[p] = "count"
    /\ Grown(p)
    /\ Leave(p)
    /\ UNCHANGED <<vendor, name, file, next, stored, safe, crashes>>

Rewrite(p) ==
    /\ pc[p] = "count"
    /\ ~Grown(p)
    /\ Goto(p, "remove")
    /\ Begin(p)
    /\ UNCHANGED <<vendor, name, file, next, claim, role, span, loaded, left, open, stored,
                   crashes>>

Remove(p) ==
    /\ pc[p] = "remove"
    /\ name' = None
    /\ Goto(p, "ensure")
    /\ UNCHANGED <<vendor, file, next, claim, role, span, loaded, left, open, stored, safe, crashes>>

Recreate(p) ==
    /\ pc[p] = "ensure"
    /\ Ensure
    /\ Goto(p, "reopen")
    /\ UNCHANGED <<vendor, file, claim, role, span, loaded, left, open, stored, safe,
                   crashes>>

\* Without O_CREATE again: the log may have been removed by another rewriter.
Reopen(p) ==
    /\ pc[p] = "reopen"
    /\ IF name = None THEN Leave(p)
       ELSE /\ open' = [open EXCEPT ![p] = name]
            /\ Goto(p, "encode")
            /\ UNCHANGED <<claim, role, span, loaded, left>>
    /\ UNCHANGED <<vendor, name, file, next, stored, safe, crashes>>

Encode(p, e) ==
    /\ pc[p] = "encode"
    /\ left[p][e] > 0
    /\ file' = [file EXCEPT ![open[p]][e] = @ + 1]
    /\ left' = [left EXCEPT ![p][e] = @ - 1]
    /\ UNCHANGED <<vendor, name, next, claim, role, pc, span, loaded, open, stored, safe, crashes>>

Written(p) == left[p] = NoLines

Finish(p) ==
    /\ pc[p] = "encode"
    /\ Written(p)
    /\ Leave(p)
    /\ UNCHANGED <<vendor, name, file, next, stored, safe, crashes>>

\* A kill in the middle of a rewrite leaves what is there.
Crash(p) ==
    /\ pc[p] # "idle"
    /\ crashes < MaxCrashes
    /\ crashes' = crashes + 1
    /\ safe' = IF pc[p] \in {"ensure", "reopen", "encode"} THEN {} ELSE safe
    /\ Leave(p)
    /\ UNCHANGED <<vendor, name, file, next, stored>>

-----------------------------------------------------------------------------
Next ==
    \/ \E p \in Procs :
        \/ \E e \in Spans : Record(p, e)
        \/ Open(p)
        \/ Append(p)
        \/ \E r \in {"finalize", "refresh"} : Load(p, r)
        \/ Delete(p)
        \/ Claim(p)
        \/ ClaimFails(p)
        \/ NothingLater(p)
        \/ \E usage \in BOOLEAN : Proceed(p, usage)
        \/ Scan(p)
        \/ Rename(p)
        \/ Keep(p)
        \/ Rewrite(p)
        \/ Remove(p)
        \/ Recreate(p)
        \/ Reopen(p)
        \/ \E e \in Spans : Encode(p, e)
        \/ Finish(p)
        \/ Crash(p)

Spec == Init /\ [][Next]_vars

-----------------------------------------------------------------------------
(* Properties. *)

\* Every variable keeps its type, and the claim is held by a finalizer that is
\* past it: no return path leaves it held.
TypeOK ==
    /\ vendor \in Vendors
    /\ name \in Files \cup {None}
    /\ file \in [Files -> Lines]
    /\ next \in 1..(MaxFiles + 1)
    /\ claim \in {None} \cup {p \in Procs : role[p] = "finalize" /\ pc[p] # "claim"}
    /\ role \in [Procs -> Roles] /\ pc \in [Procs -> Steps]
    /\ span \in [Procs -> Spans \cup {None}]
    /\ loaded \in [Procs -> Lines] /\ left \in [Procs -> Lines]
    /\ open \in [Procs -> Files \cup {None}]
    /\ stored \subseteq Spans /\ safe \subseteq stored
    /\ crashes \in 0..MaxCrashes

\* A span with activity that a hook appended while no rewrite was under way, to a
\* log that held all that finalizers and refreshers had read by then, is in the log
\* whenever no rewrite is under way, until a rewriter dies halfway or two overlap.
SafeSpansKept ==
    ~RewriteUnderWay => safe = {} \/ (name # None /\ safe \subseteq Holds(file[name]))

\* docs/sessions.md: "Finalize never replaces a longer event log with a shorter
\* one."
NeverShorter ==
    [][\A p \in Procs :
        Remove(p) /\ role[p] = "finalize" /\ name # None =>
            Count(file[name]) <= Count(loaded[p])]_vars
=============================================================================
