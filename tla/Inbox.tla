-------------------------------- MODULE Inbox --------------------------------
(***************************************************************************)
(* The telemetry inbox (internal/session/trace/store.go): a span whose     *)
(* session is not known yet is appended to inbox.jsonl, and the next span  *)
(* of its trace that has a session moves it into that session's events.    *)
(* The mutex of LocalJSONL is per process; the processes are hooks.        *)
(***************************************************************************)
EXTENDS Integers, FiniteSets, Absent

CONSTANTS Emitters,   \* hook processes
          Spans,      \* spans, each written once
          Known,      \* the spans that come with their session
          Traces,     \* trace ids
          TraceOf,    \* the trace of each span
          InboxKills  \* bound: processes killed

ASSUME InboxAssumption ==
    /\ Known \subseteq Spans
    /\ TraceOf \in [Spans -> Traces]
    /\ None \notin Spans \cup {"inbox", "tmp", "gone"}
    /\ \A s \in SUBSET Spans : s # None
    /\ InboxKills \in Nat

VARIABLES
    npc,      \* the step each process is at
    span,     \* the span it writes
    into,     \* the name its open file has: None, "inbox", "tmp" or "gone"
    move,     \* spans it has read from the inbox and moves
    remain,   \* spans it has read from the inbox and puts back
    inbox,    \* spans in inbox.jsonl, None when there is no such file
    spool,    \* spans in inbox.jsonl.tmp, None when there is no such file
    events,   \* how often each span is in the events of its session
    unsent,   \* spans no process has begun to write
    stored,   \* history: spans whose append has returned
    due,      \* history: spans a process with their trace has read from the inbox
    raced,    \* history: an append, or a second resolver, met a resolver
    inboxKills

inboxVars == <<npc, span, into, move, remain, inbox, spool, events, unsent, stored,
               due, raced, inboxKills>>
inboxFiles == <<inbox, spool, events>>
inboxHist == <<stored, due, raced>>

Resolving == {"move", "replace", "spool", "openTmp", "refill", "rename"}
InboxSteps == {"idle", "ensure", "open", "append", "events", "read"} \cup Resolving

InboxInit ==
    /\ npc = [p \in Emitters |-> "idle"]
    /\ span = [p \in Emitters |-> None]
    /\ into = [p \in Emitters |-> None]
    /\ move = [p \in Emitters |-> {}]
    /\ remain = [p \in Emitters |-> {}]
    /\ inbox = None
    /\ spool = None
    /\ events = [s \in Spans |-> 0]
    /\ unsent = Spans
    /\ stored = {} /\ due = {} /\ raced = FALSE
    /\ inboxKills = 0

InboxGoto(p, step) == npc' = [npc EXCEPT ![p] = step]
Stop(p) ==
    /\ InboxGoto(p, "idle")
    /\ span' = [span EXCEPT ![p] = None]
    /\ move' = [move EXCEPT ![p] = {}]
    /\ remain' = [remain EXCEPT ![p] = {}]

Added(s) == [t \in Spans |-> IF t \in s THEN events[t] + 1 ELSE events[t]]

-----------------------------------------------------------------------------
(* Write. *)

Write(p) ==
    /\ npc[p] = "idle"
    /\ \E s \in unsent :
          /\ span' = [span EXCEPT ![p] = s]
          /\ unsent' = unsent \ {s}
          /\ InboxGoto(p, IF s \in Known THEN "events" ELSE "ensure")
    /\ UNCHANGED <<into, move, remain, inboxFiles, inboxHist, inboxKills>>

\* EnsureJSONL makes the file; the append opens it without O_CREATE and fails
\* where it has gone meanwhile: the span is not stored.
EnsureInbox(p) ==
    /\ npc[p] = "ensure"
    /\ inbox' = IF inbox = None THEN {} ELSE inbox
    /\ InboxGoto(p, "open")
    /\ UNCHANGED <<span, into, move, remain, spool, events, unsent, inboxHist, inboxKills>>

OpenInbox(p) ==
    /\ npc[p] = "open"
    /\ IF inbox = None
       THEN Stop(p) /\ UNCHANGED into
       ELSE /\ into' = [into EXCEPT ![p] = "inbox"]
            /\ InboxGoto(p, "append")
            /\ UNCHANGED <<span, move, remain>>
    /\ UNCHANGED <<inboxFiles, unsent, inboxHist, inboxKills>>

\* The line goes into the file that was opened, whatever name it has now.
AppendInbox(p) ==
    /\ npc[p] = "append"
    /\ inbox' = IF into[p] = "inbox" THEN inbox \cup {span[p]} ELSE inbox
    /\ raced' = \/ raced
                \/ into[p] = "gone"
                \/ \E q \in Emitters : npc[q] \in Resolving
    /\ stored' = stored \cup {span[p]}
    /\ into' = [into EXCEPT ![p] = None]
    /\ Stop(p)
    /\ UNCHANGED <<spool, events, unsent, due, inboxKills>>

\* A span with a session goes into its events; resolveInbox comes next.
AppendEvents(p) ==
    /\ npc[p] = "events"
    /\ events' = Added({span[p]})
    /\ stored' = stored \cup {span[p]}
    /\ InboxGoto(p, "read")
    /\ UNCHANGED <<span, into, move, remain, inbox, spool, unsent, due, raced, inboxKills>>

-----------------------------------------------------------------------------
(* resolveInbox. *)

ReadInbox(p) ==
    /\ npc[p] = "read"
    /\ IF inbox = None
       THEN Stop(p) /\ UNCHANGED <<due, raced>>
       ELSE LET mine == {s \in inbox : TraceOf[s] = TraceOf[span[p]]} IN
            /\ move' = [move EXCEPT ![p] = mine]
            /\ remain' = [remain EXCEPT ![p] = inbox \ mine]
            /\ due' = due \cup mine
            /\ raced' = (raced \/ \E q \in Emitters : npc[q] \in Resolving)
            /\ InboxGoto(p, "move")
            /\ UNCHANGED span
    /\ UNCHANGED <<into, inboxFiles, unsent, stored, inboxKills>>

\* Mutant: the moved spans are not appended.
MoveSpansNot(p) ==
    /\ npc[p] = "move"
    /\ InboxGoto(p, "replace")
    /\ UNCHANGED <<span, into, move, remain, inboxFiles, unsent, inboxHist, inboxKills>>

MoveSpans(p) ==
    /\ npc[p] = "move"
    /\ events' = Added(move[p])
    /\ InboxGoto(p, "replace")
    /\ UNCHANGED <<span, into, move, remain, inbox, spool, unsent, inboxHist, inboxKills>>

\* Whoever has the inbox open keeps a file without a name.
Orphaned == [q \in Emitters |-> IF into[q] = "inbox" THEN "gone" ELSE into[q]]

\* Mutant: the inbox is left as it is when everything in it was moved.
RemoveInboxNot(p) ==
    /\ npc[p] = "replace"
    /\ remain[p] = {}
    /\ Stop(p)
    /\ UNCHANGED <<into, inboxFiles, unsent, inboxHist, inboxKills>>

\* Nothing remains: the inbox is removed.
RemoveInbox(p) ==
    /\ npc[p] = "replace"
    /\ remain[p] = {}
    /\ inbox' = None
    /\ into' = Orphaned
    /\ Stop(p)
    /\ UNCHANGED <<spool, events, unsent, inboxHist, inboxKills>>

\* Else a new one is made under the one name inbox.jsonl.tmp, removed first, ...
RemoveSpool(p) ==
    /\ npc[p] = "replace"
    /\ remain[p] # {}
    /\ spool' = None
    /\ into' = [q \in Emitters |-> IF into[q] = "tmp" THEN "gone" ELSE into[q]]
    /\ InboxGoto(p, "spool")
    /\ UNCHANGED <<span, move, remain, inbox, events, unsent, inboxHist, inboxKills>>

EnsureSpool(p) ==
    /\ npc[p] = "spool"
    /\ spool' = IF spool = None THEN {} ELSE spool
    /\ InboxGoto(p, "openTmp")
    /\ UNCHANGED <<span, into, move, remain, inbox, events, unsent, inboxHist, inboxKills>>

OpenSpool(p) ==
    /\ npc[p] = "openTmp"
    /\ IF spool = None
       THEN Stop(p) /\ UNCHANGED into
       ELSE /\ into' = [into EXCEPT ![p] = "tmp"]
            /\ InboxGoto(p, "refill")
            /\ UNCHANGED <<span, move, remain>>
    /\ UNCHANGED <<inboxFiles, unsent, inboxHist, inboxKills>>

Refill(p) ==
    /\ npc[p] = "refill"
    /\ spool' = IF into[p] = "tmp" THEN spool \cup remain[p] ELSE spool
    /\ inbox' = IF into[p] = "inbox" THEN inbox \cup remain[p] ELSE inbox
    /\ into' = [into EXCEPT ![p] = None]
    /\ InboxGoto(p, "rename")
    /\ UNCHANGED <<span, move, remain, events, unsent, inboxHist, inboxKills>>

\* ... and renamed, unless another resolver has done so.
RenameSpool(p) ==
    /\ npc[p] = "rename"
    /\ IF spool = None
       THEN UNCHANGED <<inbox, spool, into>>
       ELSE /\ inbox' = spool
            /\ spool' = None
            /\ into' = [q \in Emitters |-> IF into[q] = "tmp" THEN "inbox"
                                           ELSE Orphaned[q]]
    /\ Stop(p)
    /\ UNCHANGED <<events, unsent, inboxHist, inboxKills>>

KillEmitter(p) ==
    /\ npc[p] # "idle"
    /\ inboxKills < InboxKills
    /\ inboxKills' = inboxKills + 1
    /\ into' = [into EXCEPT ![p] = None]
    /\ Stop(p)
    /\ UNCHANGED <<inboxFiles, unsent, inboxHist>>

InboxNext ==
    \E p \in Emitters :
        \/ Write(p) \/ EnsureInbox(p) \/ OpenInbox(p) \/ AppendInbox(p)
        \/ AppendEvents(p) \/ ReadInbox(p) \/ MoveSpans(p) \/ RemoveInbox(p)
        \/ RemoveSpool(p) \/ EnsureSpool(p) \/ OpenSpool(p) \/ Refill(p) \/ RenameSpool(p)
        \/ KillEmitter(p)

InboxSpec == InboxInit /\ [][InboxNext]_inboxVars

-----------------------------------------------------------------------------
(* Properties. *)

InboxTypeOK ==
    /\ npc \in [Emitters -> InboxSteps]
    /\ span \in [Emitters -> Spans \cup {None}]
    /\ into \in [Emitters -> {None, "inbox", "tmp", "gone"}]
    /\ move \in [Emitters -> SUBSET Spans] /\ remain \in [Emitters -> SUBSET Spans]
    /\ inbox = None \/ inbox \subseteq Spans
    /\ spool = None \/ spool \subseteq Spans
    /\ events \in [Spans -> Nat]
    /\ unsent \subseteq Spans /\ stored \subseteq Spans /\ due \subseteq Spans
    /\ raced \in BOOLEAN
    /\ inboxKills \in 0..InboxKills

\* A span whose write returned is never lost: whatever step of resolveInbox
\* has been reached or a kill cut short, it is in the inbox or in the events.
\* The exception is a span appended while a resolver holds what it has read
\* (or two such resolvers), which nothing in the code excludes.
InboxKeeps ==
    raced \/ \A s \in stored : events[s] > 0 \/ (inbox # None /\ s \in inbox)

\* Without races and kills a span that a resolver of its trace has read is in
\* the events once and not in the inbox any more when everybody is done.
MovedOnce ==
    (~raced /\ inboxKills = 0 /\ \A p \in Emitters : npc[p] = "idle") =>
        /\ \A s \in Spans : events[s] =< 1
        /\ \A s \in due : events[s] = 1 /\ (inbox # None => s \notin inbox)
=============================================================================
