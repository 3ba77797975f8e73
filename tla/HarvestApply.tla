----------------------------- MODULE HarvestApply -----------------------------
(***************************************************************************)
(* Harvest proposals and the playbook file they change (internal/harvest/  *)
(* propose.go, apply.go): so harvest propose, apply and decline, run by    *)
(* agents, headless workers and the user, beside edits of the file.  Each  *)
(* SQL statement and each read of the file is one step; there is no        *)
(* transaction and no lock around an operation.                            *)
(***************************************************************************)
EXTENDS Integers, FiniteSets, Absent

CONSTANTS Callers,     \* processes
          Props,       \* proposals, each proposed once
          FileProps,   \* those with a diff for the target file
          CreateProps, \* those of kind create
          TextProps,   \* those with a memory text
          Titles,
          Title,       \* the title of each
          MaxEdits,    \* bound: edits of the file by others
          MaxApplies,  \* bound: operations begun after propose
          ApplyBreaks  \* bound: operations killed, or ended by a call that fails

ASSUME ApplyAssumption ==
    /\ CreateProps \subseteq FileProps /\ FileProps \subseteq Props
    /\ TextProps \subseteq Props /\ Props \ FileProps \subseteq TextProps
    /\ Title \in [Props -> Titles]
    /\ None \notin Callers \cup Props \cup [ver : 0..MaxEdits, has : SUBSET FileProps]
    /\ MaxEdits \in Nat \ {0}

VARIABLES
    apc,       \* the step each process is at
    prop,      \* its proposal
    live,      \* the content of the target that it has read
    status,    \* status of each row, "none" before the insert
    base,      \* base_hash: the content at the propose, None when missing
    target,    \* the file: None, or its version by others and the diffs in it
    memory,    \* proposals whose text is in memory
    overtaken, \* processes whose live is not the target any more
    clobber,   \* history: one of them wrote the target
    met,       \* history: proposals that two operations worked on at once
    late,      \* history: proposals declined when they were not open
    written,   \* history: what each diff was last written over, None before
    unseen,    \* history: those whose process had not seen that change of the file
    marked,    \* history: proposals that were marked as applied
    edits, applies, applyBreaks

applyFrame == <<apc, prop, live>>
applyHist == <<overtaken, clobber, met, late, written, unseen, marked>>
applyCounts == <<edits, applies, applyBreaks>>
applyVars == <<applyFrame, status, base, target, memory, applyHist, applyCounts>>

Statuses == {"none", "open", "applied", "declined", "noop", "stale"}
ApplySteps == {"idle", "propose", "insert", "apply", "capture", "read", "hash",
               "truncate", "fill", "mark", "decline"}
Content == [ver : 0..MaxEdits, has : SUBSET FileProps]
Truncated == [ver |-> 0, has |-> {}]

ApplyInit ==
    /\ apc = [p \in Callers |-> "idle"]
    /\ prop = [p \in Callers |-> None]
    /\ live = [p \in Callers |-> None]
    /\ status = [e \in Props |-> "none"]
    /\ base = [e \in Props |-> None]
    /\ target \in {None, [ver |-> 1, has |-> {}]}
    /\ memory = {}
    /\ overtaken = {} /\ clobber = FALSE /\ met = {} /\ late = {}
    /\ written = [e \in Props |-> None]
    /\ unseen = {} /\ marked = {}
    /\ edits = 1 /\ applies = 0 /\ applyBreaks = 0

ApplyGoto(p, step) == apc' = [apc EXCEPT ![p] = step]
Done(p) ==
    /\ ApplyGoto(p, "idle")
    /\ prop' = [prop EXCEPT ![p] = None]
    /\ live' = [live EXCEPT ![p] = None]
    /\ overtaken' = overtaken \ {p}

\* The target changes under everybody who has read it.
Changes(p) ==
    overtaken' = (overtaken \cup {q \in Callers : apc[q] \in {"insert", "hash", "truncate", "fill"}}) \ {p}

-----------------------------------------------------------------------------
(* Operations begin. *)

BeginPropose(p) ==
    /\ apc[p] = "idle"
    /\ \E e \in Props :
          /\ status[e] = "none"
          /\ \A q \in Callers : prop[q] # e
          /\ prop' = [prop EXCEPT ![p] = e]
    /\ ApplyGoto(p, "propose")
    /\ UNCHANGED <<live, status, base, target, memory, applyHist, applyCounts>>

BeginReview(p) ==
    /\ apc[p] = "idle"
    /\ applies < MaxApplies
    /\ applies' = applies + 1
    /\ \E e \in Props, step \in {"apply", "decline"} :
          /\ status[e] # "none"
          /\ prop' = [prop EXCEPT ![p] = e]
          /\ ApplyGoto(p, step)
          /\ met' = met \cup (IF \E q \in Callers : prop[q] = e THEN {e} ELSE {})
    /\ UNCHANGED <<live, status, base, target, memory, overtaken, clobber, late,
                   written, unseen, marked, edits, applyBreaks>>

-----------------------------------------------------------------------------
(* Propose. *)

\* FindOpenDup refuses; otherwise the target is read and the diff tried on it
\* (a diff that does not apply is refused too).
Propose(p) ==
    /\ apc[p] = "propose"
    /\ LET SameEntry(e) ==
                 /\ Title[e] = Title[prop[p]]
                 /\ e \in FileProps <=> prop[p] \in FileProps   \* one target
           dup == \E e \in Props : status[e] = "open" /\ SameEntry(e) IN
       \/ ~dup
          /\ live' = [live EXCEPT ![p] = target]
          /\ ApplyGoto(p, "insert")
          /\ UNCHANGED <<prop, overtaken>>
       \/ (dup \/ prop[p] \in FileProps) /\ Done(p)
    /\ UNCHANGED <<status, base, target, memory, clobber, met, late, written, unseen, marked,
                   applyCounts>>

\* A diff the target holds already is a noop.  The hash is that of the file as
\* it is now: HashFile reads it again.
InsertProposal(p) ==
    /\ apc[p] = "insert"
    /\ LET e == prop[p]
           holds == live[p] # None /\ e \in live[p].has IN
       /\ status' = [status EXCEPT ![e] = IF holds THEN "noop" ELSE "open"]
       /\ base' = [base EXCEPT ![e] = IF e \in FileProps /\ live[p] # None
                                      THEN target ELSE None]
    /\ Done(p)
    /\ UNCHANGED <<target, memory, clobber, met, late, written, unseen, marked, applyCounts>>

-----------------------------------------------------------------------------
(* Apply. *)

\* Mutant: a proposal without a memory text is captured as well.
CheckOpenCaptures(p) ==
    /\ apc[p] = "apply"
    /\ IF status[prop[p]] # "open"
       THEN Done(p)
       ELSE /\ ApplyGoto(p, "capture")
            /\ UNCHANGED <<prop, live, overtaken>>
    /\ UNCHANGED <<status, base, target, memory, clobber, met, late, written, unseen, marked,
                   applyCounts>>

CheckOpen(p) ==
    /\ apc[p] = "apply"
    /\ IF status[prop[p]] # "open"
       THEN Done(p)
       ELSE /\ ApplyGoto(p, IF prop[p] \in TextProps THEN "capture" ELSE "read")
            /\ UNCHANGED <<prop, live, overtaken>>
    /\ UNCHANGED <<status, base, target, memory, clobber, met, late, written, unseen, marked,
                   applyCounts>>

\* captureProposal comes before anything is known about the target; the same
\* text is one memory however often it is captured.  Capture may refuse it.
CaptureProposal(p) ==
    /\ apc[p] = "capture"
    /\ \/ Done(p) /\ UNCHANGED memory
       \/ /\ memory' = memory \cup {prop[p]}
          /\ ApplyGoto(p, IF prop[p] \in FileProps THEN "read" ELSE "mark")
          /\ UNCHANGED <<prop, live, overtaken>>
    /\ UNCHANGED <<status, base, target, clobber, met, late, written, unseen, marked, applyCounts>>

\* The file must be there, unless the proposal creates it.
ReadTarget(p) ==
    /\ apc[p] = "read"
    /\ IF target = None /\ prop[p] \notin CreateProps
       THEN Done(p)
       ELSE /\ live' = [live EXCEPT ![p] = target]
            /\ ApplyGoto(p, "hash")
            /\ UNCHANGED <<prop, overtaken>>
    /\ UNCHANGED <<status, base, target, memory, clobber, met, late, written, unseen, marked,
                   applyCounts>>

\* SetStatus, whose error is ignored.
Mark(p, word) == status' \in {status, [status EXCEPT ![prop[p]] = word]}

\* What was read holds the diff (noop), is refused (force is missing, the diff
\* does not apply, a protected region would change), or will be written.
CheckLive(p) ==
    IF live[p] # None /\ prop[p] \in live[p].has
    THEN Done(p) /\ Mark(p, "noop")
    ELSE \/ Done(p) /\ UNCHANGED status
         \/ /\ live' = [live EXCEPT ![p] = IF @ = None THEN Truncated ELSE @]
            /\ ApplyGoto(p, "truncate")
            /\ UNCHANGED <<prop, overtaken, status>>

\* Mutant: the hash is not compared.
CheckTargetAnyway(p) ==
    /\ apc[p] = "hash"
    /\ CheckLive(p)
    /\ UNCHANGED <<base, target, memory, clobber, met, late, written, unseen, marked, applyCounts>>

\* HashFile reads the file once more: it must be what it was at the propose.
\* A file that it cannot read has the empty hash, which differs too.
CheckTarget(p) ==
    /\ apc[p] = "hash"
    /\ LET hashed == live[p] # None /\ base[prop[p]] # None IN
       \/ hashed /\ Done(p) /\ Mark(p, "stale")
       \/ (hashed => base[prop[p]] = target) /\ CheckLive(p)
    /\ UNCHANGED <<base, target, memory, clobber, met, late, written, unseen, marked, applyCounts>>

\* os.WriteFile truncates the target and writes what was made of live.
TruncateTarget(p) ==
    /\ apc[p] = "truncate"
    /\ clobber' = (clobber \/ p \in overtaken)
    /\ written' = [written EXCEPT ![prop[p]] = target]
    /\ unseen' = IF p \in overtaken THEN unseen \cup {prop[p]} ELSE unseen \ {prop[p]}
    /\ target' = Truncated
    /\ Changes(p)
    /\ ApplyGoto(p, "fill")
    /\ UNCHANGED <<prop, live, status, base, memory, met, late, marked, applyCounts>>

FillTarget(p) ==
    /\ apc[p] = "fill"
    /\ clobber' = (clobber \/ p \in overtaken)
    /\ target' = [live[p] EXCEPT !.has = @ \cup {prop[p]}]
    /\ Changes(p)
    /\ ApplyGoto(p, "mark")
    /\ UNCHANGED <<prop, live, status, base, memory, met, late, written, unseen, marked, applyCounts>>

\* Mutant: the status is left open.
MarkAppliedNot(p) ==
    /\ apc[p] = "mark"
    /\ marked' = marked \cup {prop[p]}
    /\ Done(p)
    /\ UNCHANGED <<status, base, target, memory, clobber, met, late, written, unseen, applyCounts>>

MarkApplied(p) ==
    /\ apc[p] = "mark"
    /\ status' = [status EXCEPT ![prop[p]] = "applied"]
    /\ marked' = marked \cup {prop[p]}
    /\ Done(p)
    /\ UNCHANGED <<base, target, memory, clobber, met, late, written, unseen, applyCounts>>

-----------------------------------------------------------------------------

\* Decline does not look at the status.
Decline(p) ==
    /\ apc[p] = "decline"
    /\ late' = IF status[prop[p]] = "open" THEN late ELSE late \cup {prop[p]}
    /\ status' = [status EXCEPT ![prop[p]] = "declined"]
    /\ Done(p)
    /\ UNCHANGED <<base, target, memory, clobber, met, written, unseen, marked, applyCounts>>

\* Somebody edits the file, elsewhere than in the applied diffs.  Nobody removes it.
EditTarget ==
    /\ edits < MaxEdits
    /\ edits' = edits + 1
    /\ target' = [ver |-> edits + 1, has |-> IF target = None THEN {} ELSE target.has]
    /\ Changes(None)
    /\ UNCHANGED <<applyFrame, status, base, memory, clobber, met, late, written, unseen, marked,
                   applies, applyBreaks>>

\* The process is killed, or a call of it fails (a read, the write before or
\* after it has truncated the file, SetStatus): what was done stays.
BreakOff(p) ==
    /\ apc[p] # "idle"
    /\ applyBreaks < ApplyBreaks
    /\ applyBreaks' = applyBreaks + 1
    /\ Done(p)
    /\ UNCHANGED <<status, base, target, memory, clobber, met, late, written, unseen, marked, edits,
                   applies>>

ApplyNext ==
    \/ \E p \in Callers :
          \/ BeginPropose(p) \/ BeginReview(p) \/ Propose(p) \/ InsertProposal(p)
          \/ CheckOpen(p) \/ CaptureProposal(p) \/ ReadTarget(p) \/ CheckTarget(p)
          \/ TruncateTarget(p) \/ FillTarget(p) \/ MarkApplied(p) \/ Decline(p)
          \/ BreakOff(p)
    \/ EditTarget

ApplySpec == ApplyInit /\ [][ApplyNext]_applyVars

-----------------------------------------------------------------------------
(* Properties. *)

ApplyTypeOK ==
    /\ apc \in [Callers -> ApplySteps]
    /\ prop \in [Callers -> Props \cup {None}]
    /\ live \in [Callers -> Content \cup {None}]
    /\ status \in [Props -> Statuses]
    /\ base \in [Props -> Content \cup {None}]
    /\ target \in Content \cup {None}
    /\ memory \subseteq TextProps
    /\ overtaken \subseteq Callers /\ clobber \in BOOLEAN
    /\ met \subseteq Props /\ late \subseteq Props /\ unseen \subseteq Props
    /\ marked \subseteq Props
    /\ written \in [Props -> Content \cup {None}]

\* A diff is written over the text that it was proposed for (base_hash),
\* however much is edited, applied, declined and broken off in between by
\* whomever, unless the file changed after the apply itself had begun to read
\* it: from that read to the write nothing keeps others away (apply.go:44-101),
\* and what they wrote is lost.
AppliedToBase ==
    \A e \in Props \ unseen :
        base[e] # None /\ written[e] # None => written[e] = base[e]

\* The status tells what is in the file: unless an operation broke off, two
\* worked on one proposal, or a write came after another change that its
\* process had not seen, the file holds exactly the diffs whose status is
\* applied (or declined after the fact: Decline overwrites any status).
StatusTells ==
    (applyBreaks = 0 /\ ~clobber /\ \A p \in Callers : apc[p] = "idle") =>
        \A e \in FileProps \ met :
            (target # None /\ e \in target.has) <=>
                (status[e] = "applied" \/ (e \in late /\ e \in marked))

\* What the prompt says (generate.go:294): the memory text of a proposal is
\* stored only when the proposal is applied.
MemoryWhenApplied ==
    (\A p \in Callers : apc[p] = "idle") => memory \subseteq marked
=============================================================================
