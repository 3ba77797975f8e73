------------------------------ MODULE HookState ------------------------------
(***************************************************************************)
(* The session state file that the hook processes of one session share     *)
(* (internal/agent/sessionstate), with the edits Claude Code's hooks keep  *)
(* in it (internal/agent/hook/claudecode): PreToolUse stashes an edit,     *)
(* PostToolUse takes it and counts an accept, the next prompt (or the end  *)
(* of the session) drains what is left and counts rejects.                 *)
(*                                                                         *)
(* Load and Save are one step each: a Load reads one file, a Save renames  *)
(* one, both under the flock of the .lock file.  Nothing is held between   *)
(* the Load and the Save of one operation.                                 *)
(***************************************************************************)
EXTENDS Integers, Sequences, SequencesExt, FiniteSets, Absent

CONSTANTS Hooks,       \* hook processes of the session
          Edits,       \* tool-use ids of edits
          PendingCap,  \* pendingEditCap
          MaxHooks,    \* bound: hooks run
          HookKills    \* bound: hooks killed

\* A state file with at most PendingCap pending edits.
HookStates ==
    {s \in [pend : Seq(Edits), accepts : Nat, rejects : Nat] : Len(s.pend) =< PendingCap}

ASSUME HookAssumption == PendingCap \in Nat \ {0} /\ None \notin Edits /\ None \notin HookStates

VARIABLES
    hpc,       \* the step each hook is at
    hook,      \* its event
    edit,      \* its tool-use id
    view,      \* the state it has loaded
    todo,      \* drained edits it has still to count as rejected
    file,      \* the state file, None when there is none
    old,       \* the file was last touched more than seven days ago
    reaping,   \* GC has seen that it is old
    added,     \* history: edits whose PreToolUse has begun
    ended,     \* history: edits PostToolUse was run for, or that never get one
    dropped,   \* history: edits dropped at the cap
    accepted,  \* history: edits reported as accepted
    rejected,  \* history: edits reported as rejected
    stale,     \* hooks whose view was saved over since they loaded it
    lost,      \* history: a Save from a stale view, a kill, or GC of a fresh file
    hooks, hookKills

hookFrame == <<hpc, hook, edit, view, todo>>
hookHist == <<added, ended, dropped, accepted, rejected>>
hookCounts == <<hooks, hookKills>>
hookVars == <<hookFrame, file, old, reaping, hookHist, stale, lost, hookCounts>>

Events == {"PreToolUse", "PostToolUse", "UserPromptSubmit", "other"}
HookState0 == [pend |-> <<>>, accepts |-> 0, rejects |-> 0]
HookSteps == {"idle", "load", "save", "bump", "saveBump"}
Between == {"save", "saveBump"}   \* the steps between a Load and its Save

HookInit ==
    /\ hpc = [p \in Hooks |-> "idle"]
    /\ hook = [p \in Hooks |-> "other"]
    /\ edit = [p \in Hooks |-> None]
    /\ view = [p \in Hooks |-> None]
    /\ todo = [p \in Hooks |-> {}]
    /\ file = None
    /\ old = FALSE /\ reaping = FALSE
    /\ added = {} /\ ended = {} /\ dropped = {} /\ accepted = {} /\ rejected = {}
    /\ stale = {}
    /\ lost = FALSE
    /\ hooks = 0 /\ hookKills = 0

HookReturn(p) ==
    /\ hpc' = [hpc EXCEPT ![p] = "idle"]
    /\ hook' = [hook EXCEPT ![p] = "other"]
    /\ edit' = [edit EXCEPT ![p] = None]
    /\ view' = [view EXCEPT ![p] = None]
    /\ todo' = [todo EXCEPT ![p] = {}]
    /\ stale' = stale \ {p}

-----------------------------------------------------------------------------
(* The host runs a hook.  It waits for PreToolUse before the tool runs, and *)
(* for UserPromptSubmit before any tool; tools, and so their hooks, run in  *)
(* parallel; a prompt comes when no tool hook runs, and what was not done   *)
(* by then is not done later.                                               *)

RunHook(p) ==
    /\ hpc[p] = "idle"
    /\ hooks < MaxHooks
    /\ hooks' = hooks + 1
    /\ hpc' = [hpc EXCEPT ![p] = "load"]
    /\ \E ev \in Events, e \in Edits \cup {None} :
          /\ hook' = [hook EXCEPT ![p] = ev]
          /\ edit' = [edit EXCEPT ![p] = e]
          /\ ev # "other" => \A q \in Hooks : hook[q] # "UserPromptSubmit"
          /\ CASE ev = "PreToolUse" ->
                    /\ e \in Edits \ added
                    /\ added' = added \cup {e}
                    /\ UNCHANGED ended
               [] ev = "PostToolUse" ->
                    /\ e \in added \ ended
                    /\ \A q \in Hooks : ~(hook[q] = "PreToolUse" /\ edit[q] = e)
                    /\ ended' = ended \cup {e}
                    /\ UNCHANGED added
               [] ev = "UserPromptSubmit" ->
                    /\ e = None
                    /\ \A q \in Hooks : hpc[q] = "idle" \/ hook[q] = "other"
                    /\ ended' = added
                    /\ UNCHANGED added
               [] OTHER -> e = None /\ UNCHANGED <<added, ended>>
    /\ UNCHANGED <<view, todo, file, old, reaping, dropped, accepted, rejected,
                   stale, lost, hookKills>>

-----------------------------------------------------------------------------
(* Load and Save. *)

\* A missing file reads as the empty state; the file that is there is touched.
Load(p) ==
    /\ view' = [view EXCEPT ![p] = IF file = None THEN HookState0 ELSE file]
    /\ old' = FALSE
    /\ UNCHANGED <<file, reaping>>

\* Rename over the file.  Whoever is between Load and Save now has an old view.
Save(p, state) ==
    /\ file' = state
    /\ old' = FALSE
    /\ stale' = (stale \cup {q \in Hooks : hpc[q] \in Between}) \ {p}
    /\ lost' = (lost \/ p \in stale)
    /\ view' = [view EXCEPT ![p] = None]
    /\ UNCHANGED reaping

\* Mutant: the cap is tested with > instead of >=.
WithEditCap(pend, e) ==
    IF Len(pend) > PendingCap THEN Append(Tail(pend), e) ELSE Append(pend, e)

\* pend is in the order of At: the oldest is first and is dropped at the cap.
WithEdit(pend, e) ==
    IF Len(pend) >= PendingCap THEN Append(Tail(pend), e) ELSE Append(pend, e)

\* The entry of e is deleted.
Without(pend, e) == RemoveAt(pend, CHOOSE i \in DOMAIN pend : pend[i] = e)

\* The first Load of an operation; Take and Drain that find nothing save nothing.
LoadState(p) ==
    /\ hpc[p] = "load"
    /\ Load(p)
    /\ LET found == ToSet(view'[p].pend) IN
       CASE hook[p] = "PostToolUse" /\ edit[p] \notin found ->
              /\ accepted' = accepted \cup {edit[p]}
              /\ hpc' = [hpc EXCEPT ![p] = "bump"]
              /\ UNCHANGED <<hook, edit, todo>>
         [] hook[p] = "UserPromptSubmit" /\ found = {} ->
              /\ hpc' = [hpc EXCEPT ![p] = "idle"]
              /\ hook' = [hook EXCEPT ![p] = "other"]
              /\ UNCHANGED <<edit, todo, accepted>>
         [] OTHER ->
              /\ hpc' = [hpc EXCEPT ![p] = "save"]
              /\ UNCHANGED <<hook, edit, todo, accepted>>
    /\ stale' = stale \ {p}
    /\ UNCHANGED <<added, ended, dropped, rejected, lost, hookCounts>>

\* AddPendingEdit saves.
SaveAdd(p) ==
    /\ hpc[p] = "save" /\ hook[p] = "PreToolUse"
    /\ LET pend == WithEdit(view[p].pend, edit[p]) IN
          /\ Save(p, [view[p] EXCEPT !.pend = pend])
          /\ dropped' = dropped \cup (ToSet(view[p].pend) \ ToSet(pend))
    /\ hpc' = [hpc EXCEPT ![p] = "idle"]
    /\ hook' = [hook EXCEPT ![p] = "other"]
    /\ edit' = [edit EXCEPT ![p] = None]
    /\ UNCHANGED <<todo, added, ended, accepted, rejected, hookCounts>>

\* TakePendingEdit saves and the accept is reported.
SaveTake(p) ==
    /\ hpc[p] = "save" /\ hook[p] = "PostToolUse"
    /\ Save(p, [view[p] EXCEPT !.pend = Without(@, edit[p])])
    /\ accepted' = accepted \cup {edit[p]}
    /\ hpc' = [hpc EXCEPT ![p] = "bump"]
    /\ UNCHANGED <<hook, edit, todo, added, ended, dropped, rejected, hookCounts>>

\* Mutant: Drain leaves the edits in the file.
SaveDrainKept(p) ==
    /\ hpc[p] = "save" /\ hook[p] = "UserPromptSubmit"
    /\ Save(p, view[p])
    /\ todo' = [todo EXCEPT ![p] = ToSet(view[p].pend)]
    /\ hpc' = [hpc EXCEPT ![p] = "bump"]
    /\ UNCHANGED <<hook, edit, hookHist, hookCounts>>

\* DrainPendingEdits saves.
SaveDrain(p) ==
    /\ hpc[p] = "save" /\ hook[p] = "UserPromptSubmit"
    /\ Save(p, [view[p] EXCEPT !.pend = <<>>])
    /\ todo' = [todo EXCEPT ![p] = ToSet(view[p].pend)]
    /\ hpc' = [hpc EXCEPT ![p] = "bump"]
    /\ UNCHANGED <<hook, edit, hookHist, hookCounts>>

\* Any other operation: it changes fields this model leaves out.
SaveOther(p) ==
    /\ hpc[p] = "save" /\ hook[p] = "other"
    /\ Save(p, view[p])
    /\ hpc' = [hpc EXCEPT ![p] = "idle"]
    /\ UNCHANGED <<hook, edit, todo, hookHist, hookCounts>>

\* BumpCodeCounters loads: after the accept, or after the next reject is
\* reported, in the order of the map.
LoadBump(p) ==
    /\ hpc[p] = "bump"
    /\ Load(p)
    /\ \/ /\ hook[p] = "PostToolUse"
          /\ UNCHANGED <<todo, rejected>>
       \/ /\ hook[p] = "UserPromptSubmit"
          /\ \E e \in todo[p] :
                /\ todo' = [todo EXCEPT ![p] = @ \ {e}]
                /\ rejected' = rejected \cup {e}
    /\ stale' = stale \ {p}
    /\ hpc' = [hpc EXCEPT ![p] = "saveBump"]
    /\ UNCHANGED <<hook, edit, added, ended, dropped, accepted, lost, hookCounts>>

SaveBump(p) ==
    /\ hpc[p] = "saveBump"
    /\ Save(p, IF hook[p] = "PostToolUse"
               THEN [view[p] EXCEPT !.accepts = @ + 1]
               ELSE [view[p] EXCEPT !.rejects = @ + 1])
    /\ IF todo[p] # {}
       THEN hpc' = [hpc EXCEPT ![p] = "bump"] /\ UNCHANGED <<hook, edit>>
       ELSE /\ hpc' = [hpc EXCEPT ![p] = "idle"]
            /\ hook' = [hook EXCEPT ![p] = "other"]
            /\ edit' = [edit EXCEPT ![p] = None]
    /\ UNCHANGED <<todo, hookHist, hookCounts>>

-----------------------------------------------------------------------------
(* GC, in a sweep or beside every thousandth Load. *)

Week ==
    /\ file # None
    /\ \A p \in Hooks : hpc[p] = "idle"
    /\ old' = TRUE
    /\ UNCHANGED <<hookFrame, file, reaping, hookHist, stale, lost, hookCounts>>

GcStat ==
    /\ old
    /\ reaping' = TRUE
    /\ UNCHANGED <<hookFrame, file, old, hookHist, stale, lost, hookCounts>>

\* What is gone with an old file is not counted any more.
GcRemove ==
    /\ reaping
    /\ reaping' = FALSE
    /\ file' = None
    /\ old' = FALSE
    /\ IF old /\ \A p \in Hooks : hpc[p] = "idle"
       THEN /\ added' = {} /\ ended' = {} /\ dropped' = {}
            /\ accepted' = {} /\ rejected' = {}
            /\ UNCHANGED lost
       ELSE lost' = TRUE /\ UNCHANGED hookHist
    /\ UNCHANGED <<hookFrame, stale, hookCounts>>

KillHook(p) ==
    /\ hpc[p] # "idle"
    /\ hookKills < HookKills
    /\ hookKills' = hookKills + 1
    /\ lost' = TRUE
    /\ HookReturn(p)
    /\ UNCHANGED <<file, old, reaping, hookHist, hooks>>

HookNext ==
    \/ \E p \in Hooks :
          \/ RunHook(p) \/ LoadState(p) \/ SaveAdd(p) \/ SaveTake(p) \/ SaveDrain(p)
          \/ SaveOther(p) \/ LoadBump(p) \/ SaveBump(p) \/ KillHook(p)
    \/ Week \/ GcStat \/ GcRemove

HookSpec == HookInit /\ [][HookNext]_hookVars

-----------------------------------------------------------------------------
(* Properties. *)

\* The type of the state; no view and no file ever holds more pending edits
\* than the cap, however the hooks interleave (AddPendingEdit).
HookTypeOK ==
    /\ hpc \in [Hooks -> HookSteps]
    /\ hook \in [Hooks -> Events]
    /\ edit \in [Hooks -> Edits \cup {None}]
    /\ view \in [Hooks -> HookStates \cup {None}]
    /\ todo \in [Hooks -> SUBSET Edits]
    /\ file \in HookStates \cup {None}
    /\ old \in BOOLEAN /\ reaping \in BOOLEAN /\ lost \in BOOLEAN
    /\ added \in SUBSET Edits /\ ended \in SUBSET added /\ dropped \in SUBSET added
    /\ accepted \in SUBSET added /\ rejected \in SUBSET added
    /\ stale \in SUBSET Hooks

\* Each edit is decided once and counted once: when the hooks are done, and no
\* Save came from a view that another Save had overtaken (nobody was killed,
\* GC took nothing fresh), the counters of the file are the numbers of the
\* accepted and the rejected edits, no edit is both, and the undecided ones
\* are pending.  A stale Save is what the code does not exclude: the lock
\* covers Load and Save, not the pair.
HookCounts ==
    (~lost /\ \A p \in Hooks : hpc[p] = "idle") =>
        LET s == IF file = None THEN HookState0 ELSE file IN
        /\ s.accepts = Cardinality(accepted)
        /\ s.rejects = Cardinality(rejected)
        /\ accepted \cap rejected = {}
        /\ ToSet(s.pend) = added \ (accepted \cup rejected \cup dropped)
        /\ Len(s.pend) = Cardinality(ToSet(s.pend))
=============================================================================
