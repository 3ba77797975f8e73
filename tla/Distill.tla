------------------------------- MODULE Distill -------------------------------
(***************************************************************************)
(* The queue of memory distillation (internal/memory/distill.go and the    *)
(* lists of store.go and horizon.go).  memory_meta holds two lists of      *)
(* session ids, pending_distill and distilled_sessions, and a count of     *)
(* failures per session.  Every update of them reads a row and writes it   *)
(* back in a second statement.  Only the run of the provider is under      *)
(* distill.lock.                                                           *)
(*                                                                         *)
(* A branch of the code ends in a fixed list of updates; a process works   *)
(* them off one by one (todo), each as a read and a write.                 *)
(***************************************************************************)
EXTENDS Integers, Sequences, FiniteSets, Absent

CONSTANTS Distillers,     \* finalizers, so memory distill, live agents
          Chats,          \* sessions that have ended
          MaxDistillFails,\* maxProviderFails
          MaxDistills,    \* bound: operations started, and faults
          DistillKills    \* bound: faults, i.e. processes killed and statements failed

ASSUME DistillAssumption ==
    MaxDistillFails \in Nat \ {0} /\ None \notin Distillers \cup Chats

VARIABLES
    dpc,       \* the step each process is at
    chat,      \* its session
    after,     \* where it goes on when its list is done
    role,      \* a finalizer of a session that ended or was resumed, or another
    todo,      \* updates it has still to make
    copy,      \* what it read of the row it is about to write, or None
    pending,   \* pending_distill
    distilled, \* distilled_sessions
    failed,    \* distill_fail_<id>
    dlock,     \* holder of distill.lock
    queued,    \* history: sessions MaybeDistill put in pending
    called,    \* history: calls of the provider since the count was reset
    outdated,  \* processes whose copy is of a row that was written since
    lostUpdate,\* history: a process wrote from such a copy
    unmarked,  \* processes that did not mark the session which they take out
    dropped,   \* history: sessions so taken out, and not put in again
    doubled,   \* history: sessions two processes worked on at once
    mixed,     \* history: those that one of them had found resumed
    requeued,  \* history: sessions queued by a pause
    dstarts, dkills

distillFrame == <<dpc, chat, after, role, todo, copy>>
distillMeta == <<pending, distilled, failed>>
distillHist == <<queued, called, outdated, lostUpdate, unmarked, dropped, doubled, mixed, requeued>>
distillCounts == <<dstarts, dkills>>
distillVars == <<distillFrame, distillMeta, dlock, distillHist, distillCounts>>

DistillSteps == {"idle", "begin", "claim", "check", "lock", "ready", "run", "do"}
MarkPending == <<"pending", "add">>
ClearPending == <<"pending", "remove">>
MarkDistilled == <<"distilled", "add">>
UnmarkDistilled == <<"distilled", "remove">>
BumpFail == <<"failed", "bump">>
ClearFail == <<"failed", "reset">>
Updates == {MarkPending, ClearPending, MarkDistilled, UnmarkDistilled, BumpFail, ClearFail}

DistillInit ==
    /\ dpc = [p \in Distillers |-> "idle"]
    /\ chat = [p \in Distillers |-> None]
    /\ after = [p \in Distillers |-> "idle"]
    /\ role = [p \in Distillers |-> "other"]
    /\ todo = [p \in Distillers |-> <<>>]
    /\ copy = [p \in Distillers |-> None]
    /\ pending = {} /\ distilled = {}
    /\ failed = [s \in Chats |-> 0]
    /\ dlock = None
    /\ unmarked = {} /\ dropped = {}
    /\ queued = {} /\ doubled = {} /\ mixed = {} /\ requeued = {} /\ outdated = {}
    /\ called = [s \in Chats |-> 0]
    /\ lostUpdate = FALSE
    /\ dstarts = 0 /\ dkills = 0

DistillGoto(p, step) == dpc' = [dpc EXCEPT ![p] = step]

\* The branch ends in these updates.
Work(p, list) ==
    /\ todo' = [todo EXCEPT ![p] = list]
    /\ DistillGoto(p, "do")

\* It returns and releases the lock if it has it.
Leave(p) ==
    /\ DistillGoto(p, "idle")
    /\ chat' = [chat EXCEPT ![p] = None]
    /\ after' = [after EXCEPT ![p] = "idle"]
    /\ role' = [role EXCEPT ![p] = "other"]
    /\ todo' = [todo EXCEPT ![p] = <<>>]
    /\ copy' = [copy EXCEPT ![p] = None]
    /\ dlock' = IF dlock = p THEN None ELSE dlock

BeginDistill(p, s) ==
    /\ dpc[p] = "idle"
    /\ dstarts < MaxDistills
    /\ dstarts' = dstarts + 1
    /\ chat' = [chat EXCEPT ![p] = s]
    /\ LET others == {q \in Distillers \ {p} : chat[q] = s} IN
          /\ doubled' = IF others # {} THEN doubled \cup {s} ELSE doubled
          /\ mixed' = IF \E q \in others : "resumed" \in {role[q], role'[p]}
                      THEN mixed \cup {s} ELSE mixed
    /\ UNCHANGED <<copy, distillMeta, dlock, called, outdated, lostUpdate, dropped, dkills>>

-----------------------------------------------------------------------------
(* finalize.  The finalize lock keeps two finalizers of a session apart.    *)

Finalizing(s) == \E q \in Distillers : chat[q] = s /\ role[q] # "other"

\* MaybeDistill.  Some finalizers distil themselves once it is queued.
EndChat(p, s) ==
    /\ ~Finalizing(s)
    /\ role' = [role EXCEPT ![p] = "ended"]
    /\ BeginDistill(p, s)
    /\ DistillGoto(p, "begin")
    /\ after' \in {after, [after EXCEPT ![p] = "check"]}
    /\ UNCHANGED <<todo, unmarked, queued, requeued>>

\* A codex session that was resumed may be distilled again.
ResumeChat(p, s) ==
    /\ ~Finalizing(s)
    /\ role' = [role EXCEPT ![p] = "resumed"]
    /\ BeginDistill(p, s)
    /\ Work(p, <<UnmarkDistilled, ClearPending>>)
    /\ after' = [after EXCEPT ![p] = "begin"]
    /\ queued' = queued \ {s}
    /\ UNCHANGED <<unmarked, requeued>>

\* Distilled already ...
ClaimDistilled(p) ==
    /\ dpc[p] = "begin"
    /\ IF chat[p] \in distilled
       THEN Leave(p)
       ELSE /\ DistillGoto(p, "claim")
            /\ UNCHANGED <<chat, after, role, todo, copy, dlock>>
    /\ UNCHANGED <<distillMeta, distillHist, distillCounts>>

\* ... or pending.  If not, it is queued: for the live agent, or for the
\* detached process, or this one, that distils it.
ClaimChat(p) ==
    /\ dpc[p] = "claim"
    /\ IF chat[p] \in pending
       THEN Leave(p)
       ELSE /\ Work(p, <<MarkPending>>)
            /\ UNCHANGED <<chat, after, role, copy, dlock>>
    /\ UNCHANGED <<distillMeta, distillHist, distillCounts>>

-----------------------------------------------------------------------------
(* distill.                                                                 *)

\* so memory distill <id>, --consolidate, or the detached process.
StartDistill(p, s) ==
    /\ UNCHANGED <<after, role, todo, unmarked, queued, requeued>>
    /\ BeginDistill(p, s)
    /\ DistillGoto(p, "check")

\* Paused, which comes first, so that a distilled session is queued again;
\* distilled already; nothing in the session; or on to the lock.
CheckDistilled(p) ==
    /\ dpc[p] = "check"
    /\ \/ Work(p, <<MarkPending>>) /\ requeued' = requeued \cup {chat[p]}
       \/ /\ IF chat[p] \in distilled
             THEN Work(p, <<ClearPending>>)
             ELSE \/ Work(p, <<MarkDistilled, ClearPending>>)
                  \/ DistillGoto(p, "lock") /\ UNCHANGED todo
          /\ UNCHANGED requeued
    /\ UNCHANGED <<chat, after, role, copy, distillMeta, dlock, queued, called,
                   outdated, lostUpdate, unmarked, dropped, doubled, mixed, distillCounts>>

\* Busy.
TryDistillLock(p) ==
    /\ dpc[p] = "lock"
    /\ IF dlock = None
       THEN dlock' = p /\ DistillGoto(p, "ready") /\ UNCHANGED todo
       ELSE Work(p, <<MarkPending>>) /\ UNCHANGED dlock
    /\ UNCHANGED <<chat, after, role, copy, distillMeta, distillHist, distillCounts>>

\* No credentials, too many failures, no prompt; or the provider is called.
CallProvider(p) ==
    /\ dpc[p] = "ready"
    /\ \/ Work(p, <<MarkPending>>) /\ UNCHANGED called
       \/ /\ failed[chat[p]] < MaxDistillFails
          /\ called' = [called EXCEPT ![chat[p]] = @ + 1]
          /\ DistillGoto(p, "run")
          /\ UNCHANGED todo
    /\ UNCHANGED <<chat, after, role, copy, distillMeta, dlock, queued, outdated, lostUpdate,
                   unmarked, dropped, doubled, mixed, requeued, distillCounts>>

\* Mutant: a failure is not counted.
EndCallUncounted(p) ==
    /\ dpc[p] = "run"
    /\ \/ Work(p, <<MarkPending>>)
       \/ Work(p, <<ClearFail, MarkDistilled, ClearPending>>)
    /\ UNCHANGED <<chat, after, role, copy, distillMeta, dlock, distillHist, distillCounts>>

\* Mutant: the session leaves the queue before it counts as distilled.
EndCallSwapped(p) ==
    /\ dpc[p] = "run"
    /\ \/ Work(p, <<BumpFail, MarkPending>>)
       \/ Work(p, <<ClearFail, ClearPending, MarkDistilled>>)
    /\ UNCHANGED <<chat, after, role, copy, distillMeta, dlock, distillHist, distillCounts>>

\* Mutant: a distilled session stays in the queue.
EndCallQueued(p) ==
    /\ dpc[p] = "run"
    /\ \/ Work(p, <<BumpFail, MarkPending>>)
       \/ Work(p, <<ClearFail, MarkDistilled>>)
    /\ UNCHANGED <<chat, after, role, copy, distillMeta, dlock, distillHist, distillCounts>>

\* The call fails, or its answer is applied, whatever it holds.
EndCall(p) ==
    /\ dpc[p] = "run"
    /\ \/ Work(p, <<BumpFail, MarkPending>>)
       \/ Work(p, <<ClearFail, MarkDistilled, ClearPending>>)
    /\ UNCHANGED <<chat, after, role, copy, distillMeta, dlock, distillHist, distillCounts>>

\* ApplyJSON: the live agent answers; nothing is checked and nothing locked.
ApplyLive(p, s) ==
    /\ UNCHANGED <<after, role, unmarked, queued, requeued>>
    /\ BeginDistill(p, s)
    /\ Work(p, <<MarkDistilled, ClearPending, ClearFail>>)

\* CaptureRoot: a summary that an agent (so memory capture) or a promoted
\* correction (Jev) stores takes the session out of the queue.
CaptureChat(p, s) ==
    /\ UNCHANGED <<after, role, queued, requeued>>
    /\ BeginDistill(p, s)
    /\ Work(p, <<ClearPending>>)
    /\ unmarked' = unmarked \cup {p}

-----------------------------------------------------------------------------
(* The updates.                                                             *)

Row(key, s) ==
    [ids |-> CASE key = "pending" -> pending [] key = "distilled" -> distilled [] OTHER -> {},
     fails |-> IF key = "failed" THEN failed[s] ELSE 0]

\* PendingDistill, DistilledSessions, DistillFailCount.
ReadRow(p) ==
    /\ dpc[p] = "do" /\ copy[p] = None
    /\ copy' = [copy EXCEPT ![p] = Row(Head(todo[p])[1], chat[p])]
    /\ UNCHANGED <<dpc, chat, after, role, todo, distillMeta, dlock, distillHist, distillCounts>>

Updated(row, op, s) ==
    [ids |-> CASE op = "add" -> row.ids \cup {s} [] op = "remove" -> row.ids \ {s}
               [] OTHER -> row.ids,
     fails |-> IF op = "bump" THEN row.fails + 1 ELSE 0]

\* On to the next; after the last one return, or go on with MaybeDistill or
\* with distill.
NextUpdate(p) ==
    IF Len(todo[p]) > 1
    THEN /\ todo' = [todo EXCEPT ![p] = Tail(@)]
         /\ copy' = [copy EXCEPT ![p] = None]
         /\ UNCHANGED <<dpc, chat, after, role, dlock>>
    ELSE IF after[p] = "idle"
    THEN Leave(p)
    ELSE /\ DistillGoto(p, after[p])
         /\ after' = [after EXCEPT ![p] = IF @ = "begin" THEN "check" ELSE "idle"]
         /\ todo' = [todo EXCEPT ![p] = <<>>]
         /\ copy' = [copy EXCEPT ![p] = None]
         /\ UNCHANGED <<chat, role, dlock>>
Leaves(p) == IF dpc'[p] = "idle" THEN {p} ELSE {}

\* setMeta.  Whoever has read the same row and not written it has an old copy.
WriteRow(p) ==
    /\ dpc[p] = "do" /\ copy[p] # None
    /\ LET up == Head(todo[p])
           s == chat[p]
           new == Updated(copy[p], up[2], s)
           Same(q) == /\ q # p /\ copy[q] # None
                      /\ Head(todo[q])[1] = up[1]
                      /\ up[1] = "failed" => chat[q] = s
       IN
       /\ pending' = IF up[1] = "pending" THEN new.ids ELSE pending
       /\ distilled' = IF up[1] = "distilled" THEN new.ids ELSE distilled
       /\ failed' = IF up[1] = "failed" THEN [failed EXCEPT ![s] = new.fails] ELSE failed
       /\ called' = IF up = ClearFail \/ (up = BumpFail /\ new.fails < failed[s])
                    THEN [called EXCEPT ![s] = 0] ELSE called
       /\ queued' = IF up = MarkPending THEN queued \cup {s} ELSE queued
       /\ dropped' = CASE up = ClearPending /\ p \in unmarked -> dropped \cup {s}
                       [] up \in {MarkPending, MarkDistilled} -> dropped \ {s}
                       [] OTHER -> dropped
       /\ outdated' = (outdated \cup {q \in Distillers : Same(q)}) \ {p}
       /\ lostUpdate' = (lostUpdate \/ (p \in outdated /\ up[1] # "failed"))
    /\ NextUpdate(p)
    /\ unmarked' = unmarked \ Leaves(p)
    /\ UNCHANGED <<doubled, mixed, requeued, distillCounts>>

-----------------------------------------------------------------------------
(* Faults.                                                                  *)

Fault ==
    /\ dkills < DistillKills /\ dstarts < MaxDistills
    /\ dkills' = dkills + 1
    /\ dstarts' = dstarts + 1

\* The errors of reads are ignored: a row that could not be read is taken as
\* empty.  Who writes it back so has the oldest copy that there is.
ReadFails(p) ==
    /\ Fault
    /\ \/ /\ \/ dpc[p] = "begin" /\ DistillGoto(p, "claim") /\ UNCHANGED todo
             \/ dpc[p] = "claim" /\ Work(p, <<MarkPending>>)
             \/ dpc[p] = "check" /\ DistillGoto(p, "lock") /\ UNCHANGED todo
          /\ UNCHANGED <<copy, called, outdated>>
       \/ /\ dpc[p] = "ready" /\ DistillGoto(p, "run")
          /\ called' = [called EXCEPT ![chat[p]] = @ + 1]
          /\ UNCHANGED <<todo, copy, outdated>>
       \/ /\ dpc[p] = "do" /\ copy[p] = None
          /\ copy' = [copy EXCEPT ![p] = [ids |-> {}, fails |-> 0]]
          /\ outdated' = outdated \cup {p}
          /\ UNCHANGED <<dpc, todo, called>>
    /\ UNCHANGED <<chat, after, role, distillMeta, dlock, queued, lostUpdate, unmarked,
                   dropped, doubled, mixed, requeued>>

\* So are the errors of writes: the next update follows.
WriteFails(p) ==
    /\ dpc[p] = "do" /\ copy[p] # None
    /\ Fault
    /\ NextUpdate(p)
    /\ unmarked' = (IF Head(todo[p]) = MarkDistilled THEN unmarked \cup {p} ELSE unmarked)
                      \ Leaves(p)
    /\ outdated' = outdated \ {p}
    /\ UNCHANGED <<distillMeta, queued, called, lostUpdate, dropped, doubled, mixed, requeued>>

KillDistiller(p) ==
    /\ dpc[p] # "idle"
    /\ Fault
    /\ outdated' = outdated \ {p}
    /\ unmarked' = unmarked \ {p}
    /\ Leave(p)
    /\ UNCHANGED <<distillMeta, queued, called, lostUpdate, dropped, doubled, mixed, requeued>>

DistillNext ==
    \E p \in Distillers :
        \/ \E s \in Chats : EndChat(p, s) \/ ResumeChat(p, s) \/ StartDistill(p, s)
                            \/ ApplyLive(p, s) \/ CaptureChat(p, s)
        \/ ClaimDistilled(p) \/ ClaimChat(p) \/ CheckDistilled(p)
        \/ TryDistillLock(p) \/ CallProvider(p)
        \/ EndCall(p) \/ ReadRow(p) \/ WriteRow(p)
        \/ ReadFails(p) \/ WriteFails(p) \/ KillDistiller(p)

DistillSpec == DistillInit /\ [][DistillNext]_distillVars

-----------------------------------------------------------------------------
(* Properties. *)

DistillTypeOK ==
    /\ dpc \in [Distillers -> DistillSteps]
    /\ chat \in [Distillers -> Chats \cup {None}]
    /\ after \in [Distillers -> {"idle", "begin", "check"}]
    /\ role \in [Distillers -> {"ended", "resumed", "other"}]
    /\ todo \in [Distillers -> Seq(Updates)]
    /\ pending \subseteq Chats /\ distilled \subseteq Chats
    /\ failed \in [Chats -> Nat] /\ called \in [Chats -> Nat]
    /\ dlock \in Distillers \cup {None}
    /\ queued \subseteq Chats /\ doubled \subseteq Chats /\ mixed \subseteq doubled /\ requeued \subseteq Chats
    /\ outdated \subseteq Distillers /\ unmarked \subseteq Distillers
    /\ dropped \subseteq Chats
    /\ lostUpdate \in BOOLEAN

\* No session is forgotten: what MaybeDistill or a distillation has put in the
\* queue is in the queue or distilled at every step, also when a process is
\* killed between two updates, so that a live agent is asked about it.  The
\* code does not keep it so when two updates of a row overlap or one writes
\* back what it could not read; when a capture takes the session out, or a
\* distillation that could not mark it (until it is put in again); and when a
\* process that takes a session out overlaps with the finalizer that makes it
\* new again because it was resumed.
NotForgotten ==
    ~lostUpdate => queued \ (mixed \cup dropped) \subseteq pending \cup distilled

\* Nobody is asked to distil what is distilled: when no process is at work, a
\* distilled session is not in the queue, unless an update was lost, two
\* processes worked on the session at once (distill does not look again under
\* the lock), one was killed or failed before it took the session out, or it
\* was queued by a pause, which does not ask whether it is distilled.
AskedOnce ==
    (~lostUpdate /\ dkills = 0 /\ \A p \in Distillers : dpc[p] = "idle") =>
        pending \cap distilled \subseteq doubled \cup requeued

\* The user's CLI is not called over and over for a session that it fails on:
\* between two resets of the count (a count that could not be read starts anew)
\* at most MaxDistillFails calls, and one for each process that was killed
\* before it could count, or that could not read or write the count.
DistillCallsBounded == \A s \in Chats : called[s] =< MaxDistillFails + dkills
=============================================================================
