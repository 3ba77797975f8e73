--------------------------- MODULE Harvest_proofs ---------------------------
(***************************************************************************)
(* Proofs about the two components of harvest, HarvestApply and            *)
(* HarvestQueue, for any number of processes, proposals, edits, sessions,  *)
(* tries and kills.                                                        *)
(***************************************************************************)
EXTENDS HarvestApply, HarvestQueue, TLAPS

-----------------------------------------------------------------------------
(* Part 1: HarvestApply.                                                    *)

-----------------------------------------------------------------------------
(* Types, and what they rest on: which proposals get to which step.         *)

Placed == \A p \in Callers :
    /\ apc[p] # "idle" => prop[p] \in Props
    /\ apc[p] = "capture" => prop[p] \in TextProps
    /\ apc[p] \in {"read", "hash", "truncate", "fill"} => prop[p] \in FileProps
    /\ apc[p] \in {"truncate", "fill"} => live[p] \in Content
    /\ apc[p] = "idle" => prop[p] = None

ApplyTyped == ApplyTypeOK /\ edits \in 1..MaxEdits /\ applyBreaks \in Nat /\ Placed

\* No operation has begun at first.
LEMMA InitApplyTyped == ApplyInit => ApplyTyped
<1> SUFFICES ASSUME ApplyInit PROVE ApplyTyped
  OBVIOUS
<1> USE ApplyAssumption DEF ApplyInit
<1>1. /\ apc \in [Callers -> ApplySteps]
      /\ prop \in [Callers -> Props \cup {None}]
      /\ live \in [Callers -> Content \cup {None}]
  BY DEF ApplySteps
<1>2. /\ status \in [Props -> Statuses]
      /\ base \in [Props -> Content \cup {None}]
      /\ written \in [Props -> Content \cup {None}]
  BY DEF Statuses
<1>3. target \in Content \cup {None} /\ edits \in 1..MaxEdits
  BY DEF Content
<1>4. ApplyTypeOK
  BY <1>1, <1>2, <1>3 DEF ApplyTypeOK
<1>5. QED
  BY <1>3, <1>4 DEF ApplyTyped, Placed

\* Every step of an operation or an edit keeps the types.
LEMMA NextApplyTyped == ApplyTyped /\ [ApplyNext]_applyVars => ApplyTyped'
<1> SUFFICES ASSUME ApplyTyped, [ApplyNext]_applyVars PROVE ApplyTyped'
  OBVIOUS
<1> USE ApplyAssumption DEF ApplyTyped, ApplyTypeOK, Placed, ApplySteps, Statuses, Content,
    Truncated, ApplyGoto, Done, Changes, applyFrame, applyHist, applyCounts
<1>1. ASSUME NEW p \in Callers, BeginPropose(p) PROVE ApplyTyped'
  BY <1>1 DEF BeginPropose
<1>2. ASSUME NEW p \in Callers, BeginReview(p) PROVE ApplyTyped'
  BY <1>2 DEF BeginReview
<1>3. ASSUME NEW p \in Callers, Propose(p) PROVE ApplyTyped'
  BY <1>3 DEF Propose
<1>4. ASSUME NEW p \in Callers, InsertProposal(p) PROVE ApplyTyped'
  BY <1>4 DEF InsertProposal
<1>5. ASSUME NEW p \in Callers, CheckOpen(p) PROVE ApplyTyped'
  BY <1>5 DEF CheckOpen
<1>6. ASSUME NEW p \in Callers, CaptureProposal(p) PROVE ApplyTyped'
  BY <1>6 DEF CaptureProposal
<1>7. ASSUME NEW p \in Callers, ReadTarget(p) PROVE ApplyTyped'
  BY <1>7 DEF ReadTarget
<1>7b. ASSUME NEW p \in Callers, CheckTarget(p) PROVE ApplyTyped'
  BY <1>7b DEF CheckTarget, CheckLive, Mark
<1>8. ASSUME NEW p \in Callers, TruncateTarget(p) PROVE ApplyTyped'
  BY <1>8 DEF TruncateTarget
<1>9. ASSUME NEW p \in Callers, FillTarget(p) PROVE ApplyTyped'
  BY <1>9 DEF FillTarget
<1>10. ASSUME NEW p \in Callers, MarkApplied(p) PROVE ApplyTyped'
  BY <1>10 DEF MarkApplied
<1>11. ASSUME NEW p \in Callers, Decline(p) PROVE ApplyTyped'
  BY <1>11 DEF Decline
<1>12. ASSUME NEW p \in Callers, BreakOff(p) PROVE ApplyTyped'
  BY <1>12 DEF BreakOff
<1>13. CASE EditTarget
  BY <1>13 DEF EditTarget
<1>14. CASE UNCHANGED applyVars
  BY <1>14 DEF applyVars
<1>15. QED
  BY <1>1, <1>2, <1>3, <1>4, <1>5, <1>6, <1>7, <1>7b, <1>8, <1>9, <1>10, <1>11, <1>12, <1>13,
     <1>14 DEF ApplyNext

\* Every variable of the proposals keeps its type.
THEOREM ApplyTyping == ApplySpec => []ApplyTypeOK
<1>1. ApplyTyped => ApplyTypeOK
  BY DEF ApplyTyped
<1>2. QED
  BY <1>1, InitApplyTyped, NextApplyTyped, PTL DEF ApplySpec

-----------------------------------------------------------------------------
(* Over the base.  A row that is not there yet has neither a base nor been  *)
(* written, and only its proposer works on it; a file that was there stays, *)
(* so what had none when it was read has no base either; and what a process *)
(* is about to overwrite is the base of its proposal, unless the file has   *)
(* changed since it was read.                                               *)

Proposing == {"propose", "insert"}

Fresh == \A e \in Props : status[e] = "none" =>
    /\ base[e] = None /\ written[e] = None
    /\ \A p \in Callers : prop[p] = e => apc[p] \in Proposing
OneProposer == \A p \in Callers : apc[p] \in Proposing =>
    /\ status[prop[p]] = "none"
    /\ \A q \in Callers : prop[q] = prop[p] => q = p
FileStays == target = None => \A e \in Props : base[e] = None
NoBase == \A p \in Callers : apc[p] = "hash" /\ live[p] = None => base[prop[p]] = None
OverBase == \A p \in Callers :
    apc[p] = "truncate" /\ p \notin overtaken /\ base[prop[p]] # None =>
        target = base[prop[p]]

BaseInv == AppliedToBase /\ Fresh /\ OneProposer /\ FileStays /\ NoBase /\ OverBase

\* There are no rows at first.
LEMMA InitBase == ApplyInit => BaseInv
  BY ApplyAssumption DEF ApplyInit, BaseInv, AppliedToBase, Fresh, OneProposer, FileStays, NoBase, OverBase, Proposing

\* No step lets a process that has seen the file overwrite anything but the base.
LEMMA NextBase == ApplyTyped /\ BaseInv /\ [ApplyNext]_applyVars => BaseInv'
<1> SUFFICES ASSUME ApplyTyped, BaseInv, [ApplyNext]_applyVars PROVE BaseInv'
  OBVIOUS
<1> USE ApplyAssumption DEF ApplyTyped, ApplyTypeOK, Placed, Content, Truncated, ApplyGoto, Done,
    Changes, applyFrame, applyHist, applyCounts, BaseInv, AppliedToBase, Fresh, OneProposer, FileStays,
    NoBase, OverBase, Proposing
<1>1. ASSUME NEW p \in Callers, BeginPropose(p) PROVE BaseInv'
  BY <1>1 DEF BeginPropose
<1>2. ASSUME NEW p \in Callers, BeginReview(p) PROVE BaseInv'
  BY <1>2 DEF BeginReview
<1>3. ASSUME NEW p \in Callers, Propose(p) PROVE BaseInv'
  BY <1>3 DEF Propose
<1>4. ASSUME NEW p \in Callers, InsertProposal(p) PROVE BaseInv'
  BY <1>4 DEF InsertProposal
<1>5. ASSUME NEW p \in Callers, CheckOpen(p) PROVE BaseInv'
  BY <1>5 DEF CheckOpen
<1>6. ASSUME NEW p \in Callers, CaptureProposal(p) PROVE BaseInv'
  BY <1>6 DEF CaptureProposal
<1>7. ASSUME NEW p \in Callers, ReadTarget(p) PROVE BaseInv'
  BY <1>7 DEF ReadTarget
<1>7b. ASSUME NEW p \in Callers, CheckTarget(p) PROVE BaseInv'
  BY <1>7b DEF CheckTarget, CheckLive, Mark
<1>8. ASSUME NEW p \in Callers, TruncateTarget(p) PROVE BaseInv'
  BY <1>8 DEF TruncateTarget
<1>9. ASSUME NEW p \in Callers, FillTarget(p) PROVE BaseInv'
  BY <1>9 DEF FillTarget
<1>10. ASSUME NEW p \in Callers, MarkApplied(p) PROVE BaseInv'
  BY <1>10 DEF MarkApplied
<1>11. ASSUME NEW p \in Callers, Decline(p) PROVE BaseInv'
  BY <1>11 DEF Decline
<1>12. ASSUME NEW p \in Callers, BreakOff(p) PROVE BaseInv'
  BY <1>12 DEF BreakOff
<1>13. CASE EditTarget
  BY <1>13 DEF EditTarget
<1>14. CASE UNCHANGED applyVars
  BY <1>14 DEF applyVars
<1>15. QED
  BY <1>1, <1>2, <1>3, <1>4, <1>5, <1>6, <1>7, <1>7b, <1>8, <1>9, <1>10, <1>11, <1>12, <1>13,
     <1>14 DEF ApplyNext

\* A diff is written over the text it was proposed for, whatever is edited, applied,
\* declined or broken off in between, unless the file changes between the read and the
\* write of the apply itself.
THEOREM DiffsHitTheirBase == ApplySpec => []AppliedToBase
<1>1. BaseInv => AppliedToBase
  BY DEF BaseInv
<1>2. QED
  BY <1>1, InitApplyTyped, NextApplyTyped, InitBase, NextBase, PTL DEF ApplySpec

-----------------------------------------------------------------------------
(* What the status tells.  A write whose process has not seen the present   *)
(* file will be a write over another's change.  Until there is one, the     *)
(* file is what it was before it was truncated, and a diff is in it from    *)
(* the write on, which the status says from the next step.                  *)

Doomed == clobber \/ \E p \in Callers : p \in overtaken /\ apc[p] \in {"truncate", "fill"}

\* The diffs in the file when the write under way is done.
Holds(e) ==
    IF \E p \in Callers : apc[p] = "fill"
    THEN \E p \in Callers : apc[p] = "fill" /\ e \in live[p].has
    ELSE target # None /\ e \in target.has

Applying == {"capture", "read", "hash", "truncate", "fill", "mark"}

Alone == \A p, q \in Callers :
    prop[p] = prop[q] /\ prop[p] # None /\ prop[p] \notin met => p = q
StillOpen == \A p \in Callers :
    apc[p] \in Applying /\ prop[p] \notin met => status[prop[p]] = "open"
Untouched == \A e \in Props : status[e] \in {"none", "open"} => e \notin late \cup marked
Marks == \A e \in Props \ met :
    /\ status[e] = "applied" => e \in marked
    /\ e \in marked => status[e] = "applied" \/ e \in late
Seen == \A p \in Callers : p \notin overtaken =>
    /\ apc[p] = "hash" => live[p] = target
    /\ apc[p] = "truncate" => live[p] = IF target = None THEN Truncated ELSE target
Emptied == (\E p \in Callers : apc[p] = "fill") => target = Truncated
OneWriter == \A p, q \in Callers : apc[p] = "fill" /\ apc[q] = "fill" => p = q
Told == \A e \in FileProps \ met :
    Holds(e) <=> \/ status[e] = "applied"
                 \/ e \in late /\ e \in marked
                 \/ \E p \in Callers : apc[p] = "mark" /\ prop[p] = e

Calm == Alone /\ StillOpen /\ Untouched /\ Marks
Faithful == Seen /\ Emptied /\ OneWriter /\ Told
ToldInv == applyBreaks = 0 => Calm /\ (~Doomed => Faithful)

\* Nothing is applied at first.
LEMMA InitTold == ApplyInit => ToldInv
  BY ApplyAssumption DEF ApplyInit, ToldInv, Calm, Alone, StillOpen, Untouched, Marks, Faithful,
     Seen, Emptied, OneWriter, Told, Holds, Applying

\* Every step keeps operations apart but for those that met.
LEMMA NextCalm == ApplyTyped /\ BaseInv /\ Calm /\ [ApplyNext]_applyVars => Calm'
<1> SUFFICES ASSUME ApplyTyped, BaseInv, Calm, [ApplyNext]_applyVars PROVE Calm'
  OBVIOUS
<1> USE ApplyAssumption DEF ApplyTyped, ApplyTypeOK, Placed, ApplyGoto, Done, Changes,
    applyFrame, applyHist, applyCounts, BaseInv, Fresh, OneProposer, Proposing, Calm, Alone,
    StillOpen, Untouched, Marks, Applying
<1>1. ASSUME NEW p \in Callers, BeginPropose(p) PROVE Calm'
  BY <1>1 DEF BeginPropose
<1>2. ASSUME NEW p \in Callers, BeginReview(p) PROVE Calm'
  BY <1>2 DEF BeginReview
<1>3. ASSUME NEW p \in Callers, Propose(p) PROVE Calm'
  BY <1>3 DEF Propose
<1>4. ASSUME NEW p \in Callers, InsertProposal(p) PROVE Calm'
  BY <1>4 DEF InsertProposal
<1>5. ASSUME NEW p \in Callers, CheckOpen(p) PROVE Calm'
  BY <1>5 DEF CheckOpen
<1>6. ASSUME NEW p \in Callers, CaptureProposal(p) PROVE Calm'
  BY <1>6 DEF CaptureProposal
<1>7. ASSUME NEW p \in Callers, ReadTarget(p) PROVE Calm'
  BY <1>7 DEF ReadTarget
<1>7b. ASSUME NEW p \in Callers, CheckTarget(p) PROVE Calm'
  BY <1>7b DEF CheckTarget, CheckLive, Mark
<1>8. ASSUME NEW p \in Callers, TruncateTarget(p) PROVE Calm'
  BY <1>8 DEF TruncateTarget
<1>9. ASSUME NEW p \in Callers, FillTarget(p) PROVE Calm'
  BY <1>9 DEF FillTarget
<1>10. ASSUME NEW p \in Callers, MarkApplied(p) PROVE Calm'
  BY <1>10 DEF MarkApplied
<1>11. ASSUME NEW p \in Callers, Decline(p) PROVE Calm'
  BY <1>11 DEF Decline
<1>12. ASSUME NEW p \in Callers, BreakOff(p) PROVE Calm'
  BY <1>12 DEF BreakOff
<1>13. CASE EditTarget
  BY <1>13 DEF EditTarget
<1>14. CASE UNCHANGED applyVars
  BY <1>14 DEF applyVars
<1>15. QED
  BY <1>1, <1>2, <1>3, <1>4, <1>5, <1>6, <1>7, <1>7b, <1>8, <1>9, <1>10, <1>11, <1>12, <1>13,
     <1>14 DEF ApplyNext

\* A write that is doomed stays so until it is done, unless its operation breaks off.
LEMMA NextDoomed == ApplyTyped /\ Doomed /\ [ApplyNext]_applyVars =>
                    Doomed' \/ \E p \in Callers : BreakOff(p)
<1> SUFFICES ASSUME ApplyTyped, Doomed, [ApplyNext]_applyVars
             PROVE  Doomed' \/ \E p \in Callers : BreakOff(p)
  OBVIOUS
<1> USE ApplyAssumption DEF ApplyTyped, ApplyTypeOK, Doomed, ApplyGoto, Done, Changes, applyFrame,
    applyHist, applyCounts
<1>1. ASSUME NEW p \in Callers, BeginPropose(p) PROVE Doomed' \/ \E q \in Callers : BreakOff(q)
  BY <1>1 DEF BeginPropose
<1>2. ASSUME NEW p \in Callers, BeginReview(p) PROVE Doomed' \/ \E q \in Callers : BreakOff(q)
  BY <1>2 DEF BeginReview
<1>3. ASSUME NEW p \in Callers, Propose(p) PROVE Doomed' \/ \E q \in Callers : BreakOff(q)
  BY <1>3 DEF Propose
<1>4. ASSUME NEW p \in Callers, InsertProposal(p) PROVE Doomed' \/ \E q \in Callers : BreakOff(q)
  BY <1>4 DEF InsertProposal
<1>5. ASSUME NEW p \in Callers, CheckOpen(p) PROVE Doomed' \/ \E q \in Callers : BreakOff(q)
  BY <1>5 DEF CheckOpen
<1>6. ASSUME NEW p \in Callers, CaptureProposal(p) PROVE Doomed' \/ \E q \in Callers : BreakOff(q)
  BY <1>6 DEF CaptureProposal
<1>7. ASSUME NEW p \in Callers, ReadTarget(p) PROVE Doomed' \/ \E q \in Callers : BreakOff(q)
  BY <1>7 DEF ReadTarget
<1>7b. ASSUME NEW p \in Callers, CheckTarget(p) PROVE Doomed' \/ \E q \in Callers : BreakOff(q)
  BY <1>7b DEF CheckTarget, CheckLive, Mark
<1>8. ASSUME NEW p \in Callers, TruncateTarget(p) PROVE Doomed' \/ \E q \in Callers : BreakOff(q)
  BY <1>8 DEF TruncateTarget
<1>9. ASSUME NEW p \in Callers, FillTarget(p) PROVE Doomed' \/ \E q \in Callers : BreakOff(q)
  BY <1>9 DEF FillTarget
<1>10. ASSUME NEW p \in Callers, MarkApplied(p) PROVE Doomed' \/ \E q \in Callers : BreakOff(q)
  BY <1>10 DEF MarkApplied
<1>11. ASSUME NEW p \in Callers, Decline(p) PROVE Doomed' \/ \E q \in Callers : BreakOff(q)
  BY <1>11 DEF Decline
<1>12. ASSUME NEW p \in Callers, BreakOff(p) PROVE Doomed' \/ \E q \in Callers : BreakOff(q)
  BY <1>12 DEF BreakOff
<1>13. CASE EditTarget
  BY <1>13 DEF EditTarget
<1>14. CASE UNCHANGED applyVars
  BY <1>14 DEF applyVars
<1>15. QED
  BY <1>1, <1>2, <1>3, <1>4, <1>5, <1>6, <1>7, <1>7b, <1>8, <1>9, <1>10, <1>11, <1>12, <1>13,
     <1>14 DEF ApplyNext

\* Every step but a break keeps the file and the status together.
LEMMA NextFaithful ==
    ApplyTyped /\ BaseInv /\ Calm /\ Faithful /\ ~Doomed /\ ~Doomed' /\ [ApplyNext]_applyVars
        => Faithful' \/ \E p \in Callers : BreakOff(p)
<1> SUFFICES ASSUME ApplyTyped, BaseInv, Calm, Faithful, ~Doomed, ~Doomed', [ApplyNext]_applyVars
             PROVE  Faithful' \/ \E p \in Callers : BreakOff(p)
  OBVIOUS
<1> USE ApplyAssumption DEF ApplyTyped, ApplyTypeOK, ApplyGoto, Done, Changes, applyFrame,
    applyHist, applyCounts, Faithful
<1>1. ASSUME NEW p \in Callers, BeginPropose(p) PROVE Faithful' \/ \E q \in Callers : BreakOff(q)
  BY <1>1 DEF BeginPropose, Placed, Content, Truncated, Calm, Alone, StillOpen, Untouched,
     Marks, Applying, Doomed, Seen, Emptied, OneWriter, Told, Holds
<1>2. ASSUME NEW p \in Callers, BeginReview(p) PROVE Faithful' \/ \E q \in Callers : BreakOff(q)
  BY <1>2 DEF BeginReview, Placed, Content, Truncated, Calm, Alone, StillOpen, Untouched,
     Marks, Applying, Doomed, Seen, Emptied, OneWriter, Told, Holds
<1>3. ASSUME NEW p \in Callers, Propose(p) PROVE Faithful' \/ \E q \in Callers : BreakOff(q)
  <2>1. /\ target' = target
        /\ \A q \in Callers \ {p} : /\ apc'[q] = apc[q] /\ live'[q] = live[q]
                                    /\ prop'[q] = prop[q]
                                    /\ q \in overtaken' <=> q \in overtaken
    BY <1>3 DEF Propose
  <2>2. /\ apc[p] # "fill" /\ apc'[p] # "fill"
        /\ apc'[p] = "hash" => live'[p] = target
        /\ apc'[p] = "truncate" /\ p \notin overtaken' =>
              live'[p] = IF target = None THEN Truncated ELSE target
    BY <1>3 DEF Propose
  <2>3. Seen' /\ Emptied' /\ OneWriter'
    BY <2>1, <2>2 DEF Seen, Emptied, OneWriter
  <2>4. \A e \in FileProps : Holds(e)' <=> Holds(e)
    BY <2>1, <2>2 DEF Holds
  <2>5. Told'
    BY <1>3, <2>1, <2>4 DEF Propose, Told, Placed, Calm, Alone, StillOpen, Untouched, Marks,
       Applying, Fresh, BaseInv, OneProposer, Proposing, Emptied, OneWriter, Holds, Truncated
  <2>6. QED
    BY <2>3, <2>5
<1>4. ASSUME NEW p \in Callers, InsertProposal(p) PROVE Faithful' \/ \E q \in Callers : BreakOff(q)
  <2>1. /\ target' = target
        /\ \A q \in Callers \ {p} : /\ apc'[q] = apc[q] /\ live'[q] = live[q]
                                    /\ prop'[q] = prop[q]
                                    /\ q \in overtaken' <=> q \in overtaken
    BY <1>4 DEF InsertProposal
  <2>2. /\ apc[p] # "fill" /\ apc'[p] # "fill"
        /\ apc'[p] = "hash" => live'[p] = target
        /\ apc'[p] = "truncate" /\ p \notin overtaken' =>
              live'[p] = IF target = None THEN Truncated ELSE target
    BY <1>4 DEF InsertProposal
  <2>3. Seen' /\ Emptied' /\ OneWriter'
    BY <2>1, <2>2 DEF Seen, Emptied, OneWriter
  <2>4. \A e \in FileProps : Holds(e)' <=> Holds(e)
    BY <2>1, <2>2 DEF Holds
  <2>5. Told'
    BY <1>4, <2>1, <2>4 DEF InsertProposal, Told, Placed, Calm, Alone, StillOpen, Untouched, Marks,
       Applying, Fresh, BaseInv, OneProposer, Proposing, Emptied, OneWriter, Holds, Truncated
  <2>6. QED
    BY <2>3, <2>5
<1>5. ASSUME NEW p \in Callers, CheckOpen(p) PROVE Faithful' \/ \E q \in Callers : BreakOff(q)
  <2>1. /\ target' = target
        /\ \A q \in Callers \ {p} : /\ apc'[q] = apc[q] /\ live'[q] = live[q]
                                    /\ prop'[q] = prop[q]
                                    /\ q \in overtaken' <=> q \in overtaken
    BY <1>5 DEF CheckOpen
  <2>2. /\ apc[p] # "fill" /\ apc'[p] # "fill"
        /\ apc'[p] = "hash" => live'[p] = target
        /\ apc'[p] = "truncate" /\ p \notin overtaken' =>
              live'[p] = IF target = None THEN Truncated ELSE target
    BY <1>5 DEF CheckOpen
  <2>3. Seen' /\ Emptied' /\ OneWriter'
    BY <2>1, <2>2 DEF Seen, Emptied, OneWriter
  <2>4. \A e \in FileProps : Holds(e)' <=> Holds(e)
    BY <2>1, <2>2 DEF Holds
  <2>5. Told'
    BY <1>5, <2>1, <2>4 DEF CheckOpen, Told, Placed, Calm, Alone, StillOpen, Untouched, Marks,
       Applying, Fresh, BaseInv, OneProposer, Proposing, Emptied, OneWriter, Holds, Truncated
  <2>6. QED
    BY <2>3, <2>5
<1>6. ASSUME NEW p \in Callers, CaptureProposal(p) PROVE Faithful' \/ \E q \in Callers : BreakOff(q)
  <2>1. /\ target' = target
        /\ \A q \in Callers \ {p} : /\ apc'[q] = apc[q] /\ live'[q] = live[q]
                                    /\ prop'[q] = prop[q]
                                    /\ q \in overtaken' <=> q \in overtaken
    BY <1>6 DEF CaptureProposal
  <2>2. /\ apc[p] # "fill" /\ apc'[p] # "fill"
        /\ apc'[p] = "hash" => live'[p] = target
        /\ apc'[p] = "truncate" /\ p \notin overtaken' =>
              live'[p] = IF target = None THEN Truncated ELSE target
    BY <1>6 DEF CaptureProposal
  <2>3. Seen' /\ Emptied' /\ OneWriter'
    BY <2>1, <2>2 DEF Seen, Emptied, OneWriter
  <2>4. \A e \in FileProps : Holds(e)' <=> Holds(e)
    BY <2>1, <2>2 DEF Holds
  <2>5. Told'
    BY <1>6, <2>1, <2>4 DEF CaptureProposal, Told, Placed, Calm, Alone, StillOpen, Untouched, Marks,
       Applying, Fresh, BaseInv, OneProposer, Proposing, Emptied, OneWriter, Holds, Truncated
  <2>6. QED
    BY <2>3, <2>5
<1>7. ASSUME NEW p \in Callers, ReadTarget(p) PROVE Faithful' \/ \E q \in Callers : BreakOff(q)
  <2>1. /\ target' = target
        /\ \A q \in Callers \ {p} : /\ apc'[q] = apc[q] /\ live'[q] = live[q]
                                    /\ prop'[q] = prop[q]
                                    /\ q \in overtaken' <=> q \in overtaken
    BY <1>7 DEF ReadTarget
  <2>2. /\ apc[p] # "fill" /\ apc'[p] # "fill"
        /\ apc'[p] = "hash" => live'[p] = target
        /\ apc'[p] = "truncate" /\ p \notin overtaken' =>
              live'[p] = IF target = None THEN Truncated ELSE target
    BY <1>7 DEF ReadTarget
  <2>3. Seen' /\ Emptied' /\ OneWriter'
    BY <2>1, <2>2 DEF Seen, Emptied, OneWriter
  <2>4. \A e \in FileProps : Holds(e)' <=> Holds(e)
    BY <2>1, <2>2 DEF Holds
  <2>5. Told'
    BY <1>7, <2>1, <2>4 DEF ReadTarget, Told, Placed, Calm, Alone, StillOpen, Untouched, Marks,
       Applying, Fresh, BaseInv, OneProposer, Proposing, Emptied, OneWriter, Holds, Truncated
  <2>6. QED
    BY <2>3, <2>5
<1>7b. ASSUME NEW p \in Callers, CheckTarget(p) PROVE Faithful' \/ \E q \in Callers : BreakOff(q)
  <2>1. /\ target' = target
        /\ \A q \in Callers \ {p} : /\ apc'[q] = apc[q] /\ live'[q] = live[q]
                                    /\ prop'[q] = prop[q]
                                    /\ q \in overtaken' <=> q \in overtaken
    BY <1>7b DEF CheckTarget, CheckLive, Mark
  <2>2. /\ apc[p] # "fill" /\ apc'[p] # "fill"
        /\ apc'[p] = "hash" => live'[p] = target
        /\ apc'[p] = "truncate" /\ p \notin overtaken' =>
              live'[p] = IF target = None THEN Truncated ELSE target
    BY <1>7b DEF CheckTarget, CheckLive, Mark, Seen
  <2>3. Seen' /\ Emptied' /\ OneWriter'
    BY <2>1, <2>2 DEF Seen, Emptied, OneWriter
  <2>4. \A e \in FileProps : Holds(e)' <=> Holds(e)
    BY <2>1, <2>2 DEF Holds
  <2>5. Told'
    BY <1>7b, <2>1, <2>4 DEF CheckTarget, CheckLive, Mark, Told, Placed, Calm, Alone, StillOpen,
       Untouched, Marks, Applying, Fresh, BaseInv, OneProposer, Proposing, Emptied, OneWriter, Holds, Truncated
  <2>6. QED
    BY <2>3, <2>5
<1>8. ASSUME NEW p \in Callers, TruncateTarget(p) PROVE Faithful' \/ \E q \in Callers : BreakOff(q)
  BY <1>8 DEF TruncateTarget, Placed, Content, Truncated, Calm, Alone, StillOpen, Untouched,
     Marks, Applying, Doomed, Seen, Emptied, OneWriter, Told, Holds
<1>9. ASSUME NEW p \in Callers, FillTarget(p) PROVE Faithful' \/ \E q \in Callers : BreakOff(q)
  BY <1>9 DEF FillTarget, Placed, Content, Truncated, Calm, Alone, StillOpen, Untouched,
     Marks, Applying, Doomed, Seen, Emptied, OneWriter, Told, Holds
<1>10. ASSUME NEW p \in Callers, MarkApplied(p) PROVE Faithful' \/ \E q \in Callers : BreakOff(q)
  <2>1. /\ target' = target
        /\ \A q \in Callers \ {p} : /\ apc'[q] = apc[q] /\ live'[q] = live[q]
                                    /\ prop'[q] = prop[q]
                                    /\ q \in overtaken' <=> q \in overtaken
    BY <1>10 DEF MarkApplied
  <2>2. /\ apc[p] # "fill" /\ apc'[p] # "fill"
        /\ apc'[p] = "hash" => live'[p] = target
        /\ apc'[p] = "truncate" /\ p \notin overtaken' =>
              live'[p] = IF target = None THEN Truncated ELSE target
    BY <1>10 DEF MarkApplied
  <2>3. Seen' /\ Emptied' /\ OneWriter'
    BY <2>1, <2>2 DEF Seen, Emptied, OneWriter
  <2>4. \A e \in FileProps : Holds(e)' <=> Holds(e)
    BY <2>1, <2>2 DEF Holds
  <2>5. Told'
    BY <1>10, <2>1, <2>4 DEF MarkApplied, Told, Placed, Calm, Alone, StillOpen, Untouched, Marks,
       Applying, Fresh, BaseInv, OneProposer, Proposing, Emptied, OneWriter, Holds, Truncated
  <2>6. QED
    BY <2>3, <2>5
<1>11. ASSUME NEW p \in Callers, Decline(p) PROVE Faithful' \/ \E q \in Callers : BreakOff(q)
  <2>1. /\ target' = target
        /\ \A q \in Callers \ {p} : /\ apc'[q] = apc[q] /\ live'[q] = live[q]
                                    /\ prop'[q] = prop[q]
                                    /\ q \in overtaken' <=> q \in overtaken
    BY <1>11 DEF Decline
  <2>2. /\ apc[p] # "fill" /\ apc'[p] # "fill"
        /\ apc'[p] = "hash" => live'[p] = target
        /\ apc'[p] = "truncate" /\ p \notin overtaken' =>
              live'[p] = IF target = None THEN Truncated ELSE target
    BY <1>11 DEF Decline
  <2>3. Seen' /\ Emptied' /\ OneWriter'
    BY <2>1, <2>2 DEF Seen, Emptied, OneWriter
  <2>4. \A e \in FileProps : Holds(e)' <=> Holds(e)
    BY <2>1, <2>2 DEF Holds
  <2>5. Told'
    BY <1>11, <2>1, <2>4 DEF Decline, Told, Placed, Calm, Alone, StillOpen, Untouched, Marks,
       Applying, Fresh, BaseInv, OneProposer, Proposing, Emptied, OneWriter, Holds, Truncated
  <2>6. QED
    BY <2>3, <2>5
<1>12. ASSUME NEW p \in Callers, BreakOff(p) PROVE Faithful' \/ \E q \in Callers : BreakOff(q)
  BY <1>12 DEF BreakOff
<1>13. CASE EditTarget
  BY <1>13 DEF EditTarget, Placed, Content, Truncated, Calm, Alone, StillOpen, Untouched,
     Marks, Applying, Doomed, Seen, Emptied, OneWriter, Told, Holds
<1>14. CASE UNCHANGED applyVars
  BY <1>14 DEF applyVars, Seen, Emptied, OneWriter, Told, Holds
<1>15. QED
  BY <1>1, <1>2, <1>3, <1>4, <1>5, <1>6, <1>7, <1>7b, <1>8, <1>9, <1>10, <1>11, <1>12, <1>13,
     <1>14 DEF ApplyNext

\* Without breaks so far, nothing has broken off before or now.
LEMMA NextBreaks ==
    applyBreaks \in Nat /\ applyBreaks' = 0 /\ [ApplyNext]_applyVars
        => applyBreaks = 0 /\ \A p \in Callers : ~BreakOff(p)
<1> SUFFICES ASSUME applyBreaks \in Nat, applyBreaks' = 0, [ApplyNext]_applyVars
             PROVE  applyBreaks = 0 /\ \A p \in Callers : ~BreakOff(p)
  OBVIOUS
<1>k. \A p \in Callers : ~BreakOff(p)
  BY DEF BreakOff
<1>u. applyBreaks' = applyBreaks
  <2> USE DEF applyCounts
  <2>1. ASSUME NEW p \in Callers, BeginPropose(p) PROVE applyBreaks' = applyBreaks
    BY <2>1 DEF BeginPropose
  <2>2. ASSUME NEW p \in Callers, BeginReview(p) PROVE applyBreaks' = applyBreaks
    BY <2>2 DEF BeginReview
  <2>3. ASSUME NEW p \in Callers, Propose(p) PROVE applyBreaks' = applyBreaks
    BY <2>3 DEF Propose
  <2>4. ASSUME NEW p \in Callers, InsertProposal(p) PROVE applyBreaks' = applyBreaks
    BY <2>4 DEF InsertProposal
  <2>5. ASSUME NEW p \in Callers, CheckOpen(p) PROVE applyBreaks' = applyBreaks
    BY <2>5 DEF CheckOpen
  <2>6. ASSUME NEW p \in Callers, CaptureProposal(p) PROVE applyBreaks' = applyBreaks
    BY <2>6 DEF CaptureProposal
  <2>7. ASSUME NEW p \in Callers, ReadTarget(p) PROVE applyBreaks' = applyBreaks
    BY <2>7 DEF ReadTarget
  <2>7b. ASSUME NEW p \in Callers, CheckTarget(p) PROVE applyBreaks' = applyBreaks
    BY <2>7b DEF CheckTarget, CheckLive, Mark
  <2>8. ASSUME NEW p \in Callers, TruncateTarget(p) PROVE applyBreaks' = applyBreaks
    BY <2>8 DEF TruncateTarget
  <2>9. ASSUME NEW p \in Callers, FillTarget(p) PROVE applyBreaks' = applyBreaks
    BY <2>9 DEF FillTarget
  <2>10. ASSUME NEW p \in Callers, MarkApplied(p) PROVE applyBreaks' = applyBreaks
    BY <2>10 DEF MarkApplied
  <2>11. ASSUME NEW p \in Callers, Decline(p) PROVE applyBreaks' = applyBreaks
    BY <2>11 DEF Decline
  <2>12. ASSUME NEW p \in Callers, BreakOff(p) PROVE applyBreaks' = applyBreaks
    BY <2>12, <1>k
  <2>13. CASE EditTarget
    BY <2>13 DEF EditTarget
  <2>14. CASE UNCHANGED applyVars
    BY <2>14 DEF applyVars
  <2>15. QED
    BY <2>1, <2>2, <2>3, <2>4, <2>5, <2>6, <2>7, <2>7b, <2>8, <2>9, <2>10, <2>11, <2>12, <2>13,
       <2>14 DEF ApplyNext
<1> QED
  BY <1>k, <1>u

\* The file and the status stay together until an operation breaks off.
LEMMA NextTold == ApplyTyped /\ BaseInv /\ ToldInv /\ [ApplyNext]_applyVars => ToldInv'
<1> SUFFICES ASSUME ApplyTyped, BaseInv, ToldInv, [ApplyNext]_applyVars, applyBreaks' = 0
             PROVE  Calm' /\ (~Doomed' => Faithful')
  BY DEF ToldInv
<1>1. applyBreaks = 0 /\ \A p \in Callers : ~BreakOff(p)
  BY NextBreaks DEF ApplyTyped
<1>2. Calm'
  BY <1>1, NextCalm DEF ToldInv
<1>3. ~Doomed' => Faithful'
  BY <1>1, NextDoomed, NextFaithful DEF ToldInv
<1>4. QED
  BY <1>2, <1>3

\* Without breaks and without a write over a change that its process has not seen, a
\* file holds exactly the diffs that the statuses say, when everybody is done.
THEOREM StatusTellsTheFile == ApplySpec => []StatusTells
<1>1. ToldInv => StatusTells
  <2> SUFFICES ASSUME ToldInv, applyBreaks = 0, ~clobber, \A p \in Callers : apc[p] = "idle"
               PROVE  \A e \in FileProps \ met :
                          (target # None /\ e \in target.has) <=>
                              (status[e] = "applied" \/ (e \in late /\ e \in marked))
    BY DEF StatusTells
  <2>1. ~Doomed
    BY DEF Doomed
  <2>2. Told
    BY <2>1 DEF ToldInv, Faithful
  <2>3. QED
    BY <2>2 DEF Told, Holds
<1>2. QED
  BY <1>1, InitApplyTyped, NextApplyTyped, InitBase, NextBase, InitTold, NextTold, PTL
     DEF ApplySpec

-----------------------------------------------------------------------------
(* Part 2: HarvestQueue.                                                    *)

-----------------------------------------------------------------------------
(* Types, the session of a process at work, and the row it is about to write. *)

AsksRow == \A p \in Harvesters :
    /\ qpc[p] = "ask" => asked[p] \in {"waiting", "failing"}
    /\ qpc[p] \in {"resolve", "record"} => asked[p] \in {"skipped", "proposed"}

QueueTyped ==
    /\ QueueTypeOK
    /\ queueKills \in Nat
    /\ AsksRow
    /\ \A p \in Harvesters : qpc[p] # "idle" => about[p] \in Finished

\* Nobody is at work at first.
LEMMA InitQueueTyped == QueueInit => QueueTyped
  BY DEF QueueInit, AsksRow, QueueTyped, QueueTypeOK, Rows, QueueSteps

\* A row more.
LEMMA InsertFacts ==
  ASSUME runs \in [Finished -> [Rows -> Nat]], NEW s \in Finished, NEW row \in Rows, Insert(s, row)
  PROVE  /\ runs' \in [Finished -> [Rows -> Nat]]
         /\ \A t \in Finished \ {s} : runs'[t] = runs[t]
         /\ \A r \in Rows \ {row} : runs'[s][r] = runs[s][r]
         /\ runs'[s][row] = runs[s][row] + 1
<1>1. runs' = [runs EXCEPT ![s] = [runs[s] EXCEPT ![row] = runs[s][row] + 1]]
  BY DEF Insert
<1>2. [runs[s] EXCEPT ![row] = runs[s][row] + 1] \in [Rows -> Nat]
  OBVIOUS
<1>3. QED
  BY <1>1, <1>2

\* The first statement of a resolve leaves no pending row of the session, and what was
\* counted is over; if there was one, the others that are past their check are behind.
LEMMA ResolveFacts ==
  ASSUME runs \in [Finished -> [Rows -> Nat]], fails \in [Finished -> Nat],
         behind \subseteq Harvesters, NEW p \in Harvesters, NEW s \in Finished,
         NEW row \in {"skipped", "proposed"}, Resolve(p, s, row)
  PROVE  /\ runs' \in [Finished -> [Rows -> Nat]]
         /\ \A t \in Finished \ {s} : runs'[t] = runs[t] /\ fails'[t] = fails[t]
         /\ runs'[s]["waiting"] = 0 /\ runs'[s]["failing"] = 0
         /\ fails' \in [Finished -> Nat] /\ fails'[s] = 0
         /\ behind' \subseteq Harvesters /\ behind \ {p} \subseteq behind'
         /\ Pending(s) \in Nat
         /\ Pending(s) = 0 => runs'[s]["proposed"] = runs[s]["proposed"] /\ behind' = behind
         /\ Pending(s) > 0 => \A q \in Harvesters \ {p} :
               about[q] = s /\ qpc[q] \notin {"idle", "attempt", "check"} => q \in behind'
<1> DEFINE new == [r \in Rows |-> CASE r \in {"waiting", "failing"} -> 0
                                    [] r = row -> runs[s][r] + Pending(s)
                                    [] OTHER -> runs[s][r]]
<1>1. Pending(s) \in Nat
  BY DEF Pending, Rows
<1>2. ASSUME NEW r \in Rows PROVE new[r] \in Nat
  <2>1. runs[s][r] \in Nat
    OBVIOUS
  <2>2. QED
    BY <1>1, <2>1
<1>3. new \in [Rows -> Nat] /\ new["waiting"] = 0 /\ new["failing"] = 0
  BY <1>2 DEF Rows
<1>4. Pending(s) = 0 => new["proposed"] = runs[s]["proposed"]
  <2>1. runs[s]["proposed"] \in Nat /\ "proposed" \in Rows
    BY DEF Rows
  <2>2. QED
    BY <2>1
<1>5. runs' = [runs EXCEPT ![s] = new]
  BY DEF Resolve
<1> HIDE DEF new
<1>6. /\ runs' \in [Finished -> [Rows -> Nat]] /\ runs'[s] = new
      /\ \A t \in Finished \ {s} : runs'[t] = runs[t]
  BY <1>3, <1>5
<1>7. /\ behind' \subseteq Harvesters /\ behind \ {p} \subseteq behind'
      /\ Pending(s) = 0 => behind' = behind
      /\ Pending(s) > 0 => \A q \in Harvesters \ {p} :
               about[q] = s /\ qpc[q] \notin {"idle", "attempt", "check"} => q \in behind'
  BY <1>1 DEF Resolve, Passed
<1>8. QED
  BY <1>1, <1>3, <1>4, <1>6, <1>7 DEF Resolve

\* The second statement adds a row; the others that are past their check are behind, and
\* a pending row that came between the two is on record.
LEMMA RecordFacts ==
  ASSUME runs \in [Finished -> [Rows -> Nat]], behind \subseteq Harvesters,
         asksAgain \subseteq Finished, NEW p \in Harvesters, NEW s \in Finished,
         NEW row \in {"skipped", "proposed"}, Record(p, s, row)
  PROVE  /\ runs' \in [Finished -> [Rows -> Nat]]
         /\ \A t \in Finished \ {s} : runs'[t] = runs[t]
         /\ runs'[s]["waiting"] = runs[s]["waiting"] /\ runs'[s]["failing"] = runs[s]["failing"]
         /\ row = "skipped" => runs'[s]["proposed"] = runs[s]["proposed"]
         /\ behind' \subseteq Harvesters /\ behind \ {p} \subseteq behind'
         /\ \A q \in Harvesters \ {p} :
               about[q] = s /\ qpc[q] \notin {"idle", "attempt", "check"} => q \in behind'
         /\ asksAgain \subseteq asksAgain' /\ asksAgain' \subseteq Finished
         /\ row = "proposed" /\ s \notin asksAgain' => Pending(s) = 0
<1>1. Insert(s, row) /\ row \in Rows
  BY DEF Record, Rows
<1>2. /\ runs' \in [Finished -> [Rows -> Nat]]
      /\ \A t \in Finished \ {s} : runs'[t] = runs[t]
      /\ \A r \in Rows \ {row} : runs'[s][r] = runs[s][r]
  BY <1>1, InsertFacts
<1>3. Pending(s) \in Nat
  BY DEF Pending, Rows
<1>4. /\ behind' \subseteq Harvesters /\ behind \ {p} \subseteq behind'
      /\ \A q \in Harvesters \ {p} :
               about[q] = s /\ qpc[q] \notin {"idle", "attempt", "check"} => q \in behind'
      /\ asksAgain \subseteq asksAgain' /\ asksAgain' \subseteq Finished
      /\ row = "proposed" /\ s \notin asksAgain' => Pending(s) = 0
  BY <1>3 DEF Record, Passed
<1>5. QED
  BY <1>2, <1>4 DEF Rows

\* Every step keeps the types and the sessions.
LEMMA NextQueueTyped == QueueTyped /\ [QueueNext]_queueVars => QueueTyped'
<1> SUFFICES ASSUME QueueTyped, [QueueNext]_queueVars PROVE QueueTyped'
  OBVIOUS
<1> USE QueueAssumption DEF QueueTyped, AsksRow, QueueTypeOK, QueueGoto, Stay, GoAsk, GoResolve, Finish,
    WritePending, Rows, QueueSteps, queueFrame, queueHist
<1>t. /\ runs \in [Finished -> [Rows -> Nat]] /\ fails \in [Finished -> Nat]
      /\ behind \subseteq Harvesters /\ asksAgain \subseteq Finished
  OBVIOUS
<1>1. ASSUME NEW p \in Harvesters, Finalize(p) PROVE QueueTyped'
  BY <1>1 DEF Finalize
<1>2. ASSUME NEW p \in Harvesters, CheckAttempt(p) PROVE QueueTyped'
  <2>1. CASE Finish(p) /\ behind' = behind \ {p}
    BY <1>2, <2>1 DEF CheckAttempt
  <2>2. CASE /\ UNCHANGED <<about, resumed, asked, lock, behind>>
             /\ qpc' \in {[qpc EXCEPT ![p] = "queue"], [qpc EXCEPT ![p] = "check"]}
    BY <1>2, <2>2 DEF CheckAttempt
  <2>3. QED
    BY <1>2, <2>1, <2>2 DEF CheckAttempt
<1>3. ASSUME NEW p \in Harvesters, QueueRun(p) PROVE QueueTyped'
  <2>1. about[p] \in Finished /\ "waiting" \in Rows
    BY <1>3 DEF QueueRun
  <2>2. Insert(about[p], "waiting")
    BY <1>3 DEF QueueRun, WritePending
  <2>3. QED
    BY <1>3, <2>1, <2>2, InsertFacts DEF QueueRun
<1>4. ASSUME NEW p \in Harvesters, Scan(p) PROVE QueueTyped'
  BY <1>4 DEF Scan
<1>5. ASSUME NEW p \in Harvesters, CheckHarvested(p) PROVE QueueTyped'
  BY <1>5 DEF CheckHarvested
<1>6. ASSUME NEW p \in Harvesters, TryHarvestLock(p) PROVE QueueTyped'
  BY <1>6 DEF TryHarvestLock
<1>7. ASSUME NEW p \in Harvesters, CheckProvider(p) PROVE QueueTyped'
  <2>1. CASE GoAsk(p, "waiting") /\ UNCHANGED fails
    BY <1>7, <2>1 DEF CheckProvider
  <2>2. CASE GoAsk(p, "failing") /\ UNCHANGED fails
    BY <1>7, <2>2 DEF CheckProvider
  <2>3. CASE /\ fails' = [fails EXCEPT ![about[p]] = @ + 1]
             /\ QueueGoto(p, "run") /\ Stay
    BY <1>7, <2>3 DEF CheckProvider
  <2>4. QED
    BY <1>7, <2>1, <2>2, <2>3 DEF CheckProvider
<1>8. ASSUME NEW p \in Harvesters, EndRun(p) PROVE QueueTyped'
  <2>1. CASE GoResolve(p, "proposed")
    BY <1>8, <2>1 DEF EndRun
  <2>2. CASE GoAsk(p, "failing")
    BY <1>8, <2>2 DEF EndRun
  <2>3. CASE GoResolve(p, "skipped")
    BY <1>8, <2>3 DEF EndRun
  <2>4. CASE QueueGoto(p, "propose") /\ Stay
    BY <1>8, <2>4 DEF EndRun
  <2>5. QED
    BY <1>8, <2>1, <2>2, <2>3, <2>4 DEF EndRun
<1>9. ASSUME NEW p \in Harvesters, InsertOpen(p) PROVE QueueTyped'
  <2>1. CASE GoAsk(p, "failing") /\ UNCHANGED opens
    BY <1>9, <2>1 DEF InsertOpen
  <2>2. CASE /\ opens' = [opens EXCEPT ![about[p]] = @ + 1]
             /\ QueueGoto(p, "close") /\ Stay
    BY <1>9, <2>2 DEF InsertOpen
  <2>3. QED
    BY <1>9, <2>1, <2>2 DEF InsertOpen
<1>10. ASSUME NEW p \in Harvesters, ResolveProposed(p) PROVE QueueTyped'
  <2>1. about[p] \in Finished /\ TRUE
    BY <1>10 DEF ResolveProposed
  <2>2. Resolve(p, about[p], "proposed")
    BY <1>10 DEF ResolveProposed
  <2>r. "proposed" \in {"skipped", "proposed"}
    OBVIOUS
  <2>3. /\ runs' \in [Finished -> [Rows -> Nat]]
        /\ \A t \in Finished \ {about[p]} : runs'[t] = runs[t] /\ fails'[t] = fails[t]
        /\ runs'[about[p]]["waiting"] = 0 /\ runs'[about[p]]["failing"] = 0
        /\ fails' \in [Finished -> Nat] /\ fails'[about[p]] = 0
        /\ behind' \subseteq Harvesters /\ behind \ {p} \subseteq behind'
        /\ Pending(about[p]) \in Nat
        /\ Pending(about[p]) = 0 =>
              runs'[about[p]]["proposed"] = runs[about[p]]["proposed"] /\ behind' = behind
        /\ Pending(about[p]) > 0 => \A q \in Harvesters \ {p} :
              about[q] = about[p] /\ qpc[q] \notin {"idle", "attempt", "check"} => q \in behind'
    BY ONLY <2>1, <2>2, <2>r, <1>t, p \in Harvesters, ResolveFacts
  <2>4. CASE GoResolve(p, "proposed")
    BY <1>10, <2>1, <2>3, <2>4 DEF ResolveProposed
  <2>5. CASE QueueGoto(p, "closed") /\ Stay
    BY <1>10, <2>1, <2>3, <2>5 DEF ResolveProposed
  <2>6. QED
    BY <1>10, <2>4, <2>5 DEF ResolveProposed
<1>11. ASSUME NEW p \in Harvesters, AskAgain(p) PROVE QueueTyped'
  <2>1. about[p] \in Finished /\ asked[p] \in {"waiting", "failing"}
    BY <1>11 DEF AskAgain
  <2>2. Insert(about[p], asked[p])
    BY <1>11 DEF AskAgain, WritePending
  <2>3. QED
    BY <1>11, <2>1, <2>2, InsertFacts DEF AskAgain
<1>12. ASSUME NEW p \in Harvesters, ResolveRun(p) PROVE QueueTyped'
  <2>1. about[p] \in Finished /\ asked[p] \in {"skipped", "proposed"}
    BY <1>12 DEF ResolveRun
  <2>2. Resolve(p, about[p], asked[p])
    BY <1>12 DEF ResolveRun
  <2>r. "proposed" \in {"skipped", "proposed"}
    OBVIOUS
  <2>3. /\ runs' \in [Finished -> [Rows -> Nat]]
        /\ \A t \in Finished \ {about[p]} : runs'[t] = runs[t] /\ fails'[t] = fails[t]
        /\ runs'[about[p]]["waiting"] = 0 /\ runs'[about[p]]["failing"] = 0
        /\ fails' \in [Finished -> Nat] /\ fails'[about[p]] = 0
        /\ behind' \subseteq Harvesters /\ behind \ {p} \subseteq behind'
        /\ Pending(about[p]) \in Nat
        /\ Pending(about[p]) = 0 =>
              runs'[about[p]]["proposed"] = runs[about[p]]["proposed"] /\ behind' = behind
        /\ Pending(about[p]) > 0 => \A q \in Harvesters \ {p} :
              about[q] = about[p] /\ qpc[q] \notin {"idle", "attempt", "check"} => q \in behind'
    BY ONLY <2>1, <2>2, <2>r, <1>t, p \in Harvesters, ResolveFacts
  <2>4. CASE Finish(p)
    BY <1>12, <2>1, <2>3, <2>4 DEF ResolveRun
  <2>5. CASE QueueGoto(p, "record") /\ Stay /\ UNCHANGED lock
    BY <1>12, <2>1, <2>3, <2>5 DEF ResolveRun
  <2>6. QED
    BY <1>12, <2>4, <2>5 DEF ResolveRun
<1>12b. ASSUME NEW p \in Harvesters, RecordProposed(p) PROVE QueueTyped'
  <2>1. about[p] \in Finished /\ "proposed" \in {"skipped", "proposed"}
    BY <1>12b DEF RecordProposed
  <2>2. Record(p, about[p], "proposed")
    BY <1>12b DEF RecordProposed
  <2>3. /\ runs' \in [Finished -> [Rows -> Nat]]
        /\ \A t \in Finished \ {about[p]} : runs'[t] = runs[t]
        /\ runs'[about[p]]["waiting"] = runs[about[p]]["waiting"]
        /\ runs'[about[p]]["failing"] = runs[about[p]]["failing"]
        /\ "proposed" = "skipped" => runs'[about[p]]["proposed"] = runs[about[p]]["proposed"]
        /\ behind' \subseteq Harvesters /\ behind \ {p} \subseteq behind'
        /\ \A q \in Harvesters \ {p} :
              about[q] = about[p] /\ qpc[q] \notin {"idle", "attempt", "check"} => q \in behind'
        /\ asksAgain \subseteq asksAgain' /\ asksAgain' \subseteq Finished
        /\ "proposed" = "proposed" /\ about[p] \notin asksAgain' => Pending(about[p]) = 0
    BY ONLY <2>1, <2>2, <1>t, p \in Harvesters, RecordFacts
  <2>4. QED
    BY <1>12b, <2>1, <2>3 DEF RecordProposed
<1>12c. ASSUME NEW p \in Harvesters, RecordRun(p) PROVE QueueTyped'
  <2>1. about[p] \in Finished /\ asked[p] \in {"skipped", "proposed"}
    BY <1>12c DEF RecordRun
  <2>2. Record(p, about[p], asked[p])
    BY <1>12c DEF RecordRun
  <2>3. /\ runs' \in [Finished -> [Rows -> Nat]]
        /\ \A t \in Finished \ {about[p]} : runs'[t] = runs[t]
        /\ runs'[about[p]]["waiting"] = runs[about[p]]["waiting"]
        /\ runs'[about[p]]["failing"] = runs[about[p]]["failing"]
        /\ asked[p] = "skipped" => runs'[about[p]]["proposed"] = runs[about[p]]["proposed"]
        /\ behind' \subseteq Harvesters /\ behind \ {p} \subseteq behind'
        /\ \A q \in Harvesters \ {p} :
              about[q] = about[p] /\ qpc[q] \notin {"idle", "attempt", "check"} => q \in behind'
        /\ asksAgain \subseteq asksAgain' /\ asksAgain' \subseteq Finished
        /\ asked[p] = "proposed" /\ about[p] \notin asksAgain' => Pending(about[p]) = 0
    BY ONLY <2>1, <2>2, <1>t, p \in Harvesters, RecordFacts
  <2>4. QED
    BY <1>12c, <2>1, <2>3 DEF RecordRun
<1>12d. ASSUME NEW p \in Harvesters, ResolveFails(p) PROVE QueueTyped'
  BY <1>12d DEF ResolveFails
<1>13. ASSUME NEW p \in Harvesters, LiveAnswer(p) PROVE QueueTyped'
  BY <1>13 DEF LiveAnswer
<1>14. ASSUME NEW p \in Harvesters, KillHarvester(p) PROVE QueueTyped'
  BY <1>14 DEF KillHarvester
<1>15. CASE CloseOpen
  BY <1>15 DEF CloseOpen
<1>16. CASE UNCHANGED queueVars
  BY <1>16 DEF queueVars
<1>17. QED
  BY <1>1, <1>2, <1>3, <1>4, <1>5, <1>6, <1>7, <1>8, <1>9, <1>10, <1>11, <1>12, <1>12b, <1>12c, <1>12d, <1>13,
     <1>14, <1>15, <1>16 DEF QueueNext

\* Every variable of the queue keeps its type.
THEOREM QueueTyping == QueueSpec => []QueueTypeOK
<1>1. QueueTyped => QueueTypeOK
  BY DEF QueueTyped
<1>2. QED
  BY <1>1, InitQueueTyped, NextQueueTyped, PTL DEF QueueSpec

-----------------------------------------------------------------------------
(* Who has the lock.                                                        *)

HasLock == \A p \in Harvesters : qpc[p] \in {"ready", "run", "propose", "close", "closed"} => lock = p

\* At first nobody is at work.
LEMMA InitHasLock == QueueInit => HasLock
  BY DEF QueueInit, HasLock

\* The run of the provider and what follows is under the lock.
LEMMA NextHasLock == QueueTyped /\ HasLock /\ [QueueNext]_queueVars => HasLock'
<1> SUFFICES ASSUME QueueTyped, HasLock, [QueueNext]_queueVars PROVE HasLock'
  OBVIOUS
<1> USE QueueAssumption DEF HasLock, QueueTyped, QueueTypeOK, QueueGoto, Stay, GoAsk, GoResolve, Finish,
    WritePending, queueFrame, queueHist
<1>1. ASSUME NEW p \in Harvesters, Finalize(p) PROVE HasLock'
  BY <1>1 DEF Finalize
<1>2. ASSUME NEW p \in Harvesters, CheckAttempt(p) PROVE HasLock'
  BY <1>2 DEF CheckAttempt
<1>3. ASSUME NEW p \in Harvesters, QueueRun(p) PROVE HasLock'
  BY <1>3 DEF QueueRun
<1>4. ASSUME NEW p \in Harvesters, Scan(p) PROVE HasLock'
  BY <1>4 DEF Scan
<1>5. ASSUME NEW p \in Harvesters, CheckHarvested(p) PROVE HasLock'
  BY <1>5 DEF CheckHarvested
<1>6. ASSUME NEW p \in Harvesters, TryHarvestLock(p) PROVE HasLock'
  BY <1>6 DEF TryHarvestLock
<1>7. ASSUME NEW p \in Harvesters, CheckProvider(p) PROVE HasLock'
  BY <1>7 DEF CheckProvider
<1>8. ASSUME NEW p \in Harvesters, EndRun(p) PROVE HasLock'
  BY <1>8 DEF EndRun
<1>9. ASSUME NEW p \in Harvesters, InsertOpen(p) PROVE HasLock'
  BY <1>9 DEF InsertOpen
<1>10. ASSUME NEW p \in Harvesters, ResolveProposed(p) PROVE HasLock'
  BY <1>10 DEF ResolveProposed
<1>11. ASSUME NEW p \in Harvesters, AskAgain(p) PROVE HasLock'
  BY <1>11 DEF AskAgain
<1>12. ASSUME NEW p \in Harvesters, ResolveRun(p) PROVE HasLock'
  BY <1>12 DEF ResolveRun
<1>12b. ASSUME NEW p \in Harvesters, RecordProposed(p) PROVE HasLock'
  BY <1>12b DEF RecordProposed
<1>12c. ASSUME NEW p \in Harvesters, RecordRun(p) PROVE HasLock'
  BY <1>12c DEF RecordRun
<1>12d. ASSUME NEW p \in Harvesters, ResolveFails(p) PROVE HasLock'
  BY <1>12d DEF ResolveFails
<1>13. ASSUME NEW p \in Harvesters, LiveAnswer(p) PROVE HasLock'
  BY <1>13 DEF LiveAnswer
<1>14. ASSUME NEW p \in Harvesters, KillHarvester(p) PROVE HasLock'
  BY <1>14 DEF KillHarvester
<1>15. CASE CloseOpen
  BY <1>15 DEF CloseOpen
<1>16. CASE UNCHANGED queueVars
  BY <1>16 DEF queueVars
<1>17. QED
  BY <1>1, <1>2, <1>3, <1>4, <1>5, <1>6, <1>7, <1>8, <1>9, <1>10, <1>11, <1>12, <1>12b, <1>12c, <1>12d, <1>13,
     <1>14, <1>15, <1>16 DEF QueueNext

-----------------------------------------------------------------------------
(* How often the provider is called: each call since the session was        *)
(* resolved has left a failing row, but for the one under way and those     *)
(* whose process was killed or lost its row.                                *)

UnderWay(s) == \E p \in Harvesters :
    /\ lock = p /\ about[p] = s
    /\ \/ qpc[p] \in {"run", "propose", "close", "resolve"}
       \/ qpc[p] = "ask" /\ asked[p] = "failing"
Recorded == \A s \in Finished :
    \/ fails[s] =< runs[s]["failing"] + queueKills
    \/ UnderWay(s) /\ fails[s] =< runs[s]["failing"] + queueKills + 1

\* There were no calls at first.
LEMMA InitRecorded == QueueInit => CallsBounded /\ Recorded
  BY QueueAssumption DEF QueueInit, CallsBounded, Recorded, Rows

\* A call is recorded, ends in a resolve, or is cut short by a kill.
LEMMA NextRecorded ==
  QueueTyped /\ HasLock /\ Recorded /\ [QueueNext]_queueVars => Recorded'
<1> SUFFICES ASSUME QueueTyped, HasLock, Recorded, [QueueNext]_queueVars PROVE Recorded'
  OBVIOUS
<1> USE QueueAssumption DEF Recorded, UnderWay, AsksRow, HasLock, QueueTyped, QueueTypeOK, QueueGoto, Stay,
    GoAsk, GoResolve, Finish, WritePending, Rows, queueFrame, queueHist
<1>t. /\ runs \in [Finished -> [Rows -> Nat]] /\ fails \in [Finished -> Nat]
      /\ behind \subseteq Harvesters /\ asksAgain \subseteq Finished
  OBVIOUS
<1>1. ASSUME NEW p \in Harvesters, Finalize(p) PROVE Recorded'
  BY <1>1 DEF Finalize
<1>2. ASSUME NEW p \in Harvesters, CheckAttempt(p) PROVE Recorded'
  BY <1>2 DEF CheckAttempt
<1>3. ASSUME NEW p \in Harvesters, QueueRun(p) PROVE Recorded'
  <2>1. about[p] \in Finished /\ "waiting" \in Rows
    BY <1>3 DEF QueueRun
  <2>2. Insert(about[p], "waiting")
    BY <1>3 DEF QueueRun, WritePending
  <2>3. QED
    BY <1>3, <2>1, <2>2, InsertFacts DEF QueueRun
<1>4. ASSUME NEW p \in Harvesters, Scan(p) PROVE Recorded'
  BY <1>4 DEF Scan
<1>5. ASSUME NEW p \in Harvesters, CheckHarvested(p) PROVE Recorded'
  BY <1>5 DEF CheckHarvested
<1>6. ASSUME NEW p \in Harvesters, TryHarvestLock(p) PROVE Recorded'
  BY <1>6 DEF TryHarvestLock
<1>7. ASSUME NEW p \in Harvesters, CheckProvider(p) PROVE Recorded'
  <2>1. qpc[p] = "ready" /\ lock = p /\ about[p] \in Finished
    BY <1>7 DEF CheckProvider
  <2>2. \A s \in Finished : fails[s] =< runs[s]["failing"] + queueKills \/ (UnderWay(s) /\ about[p] # s)
    BY <2>1
  <2>3. CASE GoAsk(p, "waiting") /\ UNCHANGED fails
    BY <1>7, <2>1, <2>2, <2>3 DEF CheckProvider
  <2>4. CASE GoAsk(p, "failing") /\ UNCHANGED fails
    BY <1>7, <2>1, <2>2, <2>4 DEF CheckProvider
  <2>5. CASE /\ fails' = [fails EXCEPT ![about[p]] = @ + 1]
             /\ QueueGoto(p, "run") /\ Stay
    BY <1>7, <2>1, <2>2, <2>5 DEF CheckProvider
  <2>6. QED
    BY <1>7, <2>3, <2>4, <2>5 DEF CheckProvider
<1>8. ASSUME NEW p \in Harvesters, EndRun(p) PROVE Recorded'
  BY <1>8 DEF EndRun
<1>9. ASSUME NEW p \in Harvesters, InsertOpen(p) PROVE Recorded'
  BY <1>9 DEF InsertOpen
<1>10. ASSUME NEW p \in Harvesters, ResolveProposed(p) PROVE Recorded'
  <2>1. about[p] \in Finished /\ TRUE
    BY <1>10 DEF ResolveProposed
  <2>2. Resolve(p, about[p], "proposed")
    BY <1>10 DEF ResolveProposed
  <2>r. "proposed" \in {"skipped", "proposed"}
    OBVIOUS
  <2>3. /\ runs' \in [Finished -> [Rows -> Nat]]
        /\ \A t \in Finished \ {about[p]} : runs'[t] = runs[t] /\ fails'[t] = fails[t]
        /\ runs'[about[p]]["waiting"] = 0 /\ runs'[about[p]]["failing"] = 0
        /\ fails' \in [Finished -> Nat] /\ fails'[about[p]] = 0
        /\ behind' \subseteq Harvesters /\ behind \ {p} \subseteq behind'
        /\ Pending(about[p]) \in Nat
        /\ Pending(about[p]) = 0 =>
              runs'[about[p]]["proposed"] = runs[about[p]]["proposed"] /\ behind' = behind
        /\ Pending(about[p]) > 0 => \A q \in Harvesters \ {p} :
              about[q] = about[p] /\ qpc[q] \notin {"idle", "attempt", "check"} => q \in behind'
    BY ONLY <2>1, <2>2, <2>r, <1>t, p \in Harvesters, ResolveFacts
  <2>4. QED
    BY <1>10, <2>1, <2>3 DEF ResolveProposed
<1>11. ASSUME NEW p \in Harvesters, AskAgain(p) PROVE Recorded'
  <2>1. about[p] \in Finished /\ asked[p] \in {"waiting", "failing"} /\ qpc[p] = "ask"
    BY <1>11 DEF AskAgain
  <2>2. Insert(about[p], asked[p])
    BY <1>11 DEF AskAgain, WritePending
  <2>3. /\ runs' \in [Finished -> [Rows -> Nat]]
        /\ \A t \in Finished \ {about[p]} : runs'[t] = runs[t]
        /\ runs'[about[p]]["failing"] =
             IF asked[p] = "failing" THEN runs[about[p]]["failing"] + 1 ELSE runs[about[p]]["failing"]
    BY <2>1, <2>2, InsertFacts
  <2>4. /\ fails' = fails /\ queueKills' = queueKills
        /\ lock' = (IF lock = p THEN None ELSE lock)
        /\ \A q \in Harvesters \ {p} : qpc'[q] = qpc[q] /\ about'[q] = about[q] /\ asked'[q] = asked[q]
    BY <1>11 DEF AskAgain
  <2>5. ASSUME NEW s \in Finished PROVE
            \/ fails'[s] =< runs'[s]["failing"] + queueKills'
            \/ UnderWay(s)' /\ fails'[s] =< runs'[s]["failing"] + queueKills' + 1
    <3>1. CASE fails[s] =< runs[s]["failing"] + queueKills
      BY <2>1, <2>3, <2>4, <3>1
    <3>2. CASE lock = p /\ UnderWay(s) /\ fails[s] =< runs[s]["failing"] + queueKills + 1
      <4>1. about[p] = s /\ asked[p] = "failing"
        BY <2>1, <3>2
      <4>2. QED
        BY <2>3, <2>4, <3>2, <4>1
    <3>3. CASE lock # p /\ UnderWay(s) /\ fails[s] =< runs[s]["failing"] + queueKills + 1
      <4>1. UnderWay(s)'
        BY <2>4, <3>3
      <4>2. runs'[s]["failing"] >= runs[s]["failing"] /\ runs'[s]["failing"] \in Nat
        BY <2>1, <2>3
      <4>3. QED
        BY <2>4, <3>3, <4>1, <4>2
    <3>4. QED
      BY <3>1, <3>2, <3>3
  <2>6. QED
    BY ONLY <2>5 DEF Recorded
<1>12. ASSUME NEW p \in Harvesters, ResolveRun(p) PROVE Recorded'
  <2>1. about[p] \in Finished /\ asked[p] \in {"skipped", "proposed"}
    BY <1>12 DEF ResolveRun
  <2>2. Resolve(p, about[p], asked[p])
    BY <1>12 DEF ResolveRun
  <2>r. "proposed" \in {"skipped", "proposed"}
    OBVIOUS
  <2>3. /\ runs' \in [Finished -> [Rows -> Nat]]
        /\ \A t \in Finished \ {about[p]} : runs'[t] = runs[t] /\ fails'[t] = fails[t]
        /\ runs'[about[p]]["waiting"] = 0 /\ runs'[about[p]]["failing"] = 0
        /\ fails' \in [Finished -> Nat] /\ fails'[about[p]] = 0
        /\ behind' \subseteq Harvesters /\ behind \ {p} \subseteq behind'
        /\ Pending(about[p]) \in Nat
        /\ Pending(about[p]) = 0 =>
              runs'[about[p]]["proposed"] = runs[about[p]]["proposed"] /\ behind' = behind
        /\ Pending(about[p]) > 0 => \A q \in Harvesters \ {p} :
              about[q] = about[p] /\ qpc[q] \notin {"idle", "attempt", "check"} => q \in behind'
    BY ONLY <2>1, <2>2, <2>r, <1>t, p \in Harvesters, ResolveFacts
  <2>4. QED
    BY <1>12, <2>1, <2>3 DEF ResolveRun
<1>12b. ASSUME NEW p \in Harvesters, RecordProposed(p) PROVE Recorded'
  <2>1. about[p] \in Finished /\ "proposed" \in {"skipped", "proposed"}
    BY <1>12b DEF RecordProposed
  <2>2. Record(p, about[p], "proposed")
    BY <1>12b DEF RecordProposed
  <2>3. /\ runs' \in [Finished -> [Rows -> Nat]]
        /\ \A t \in Finished \ {about[p]} : runs'[t] = runs[t]
        /\ runs'[about[p]]["waiting"] = runs[about[p]]["waiting"]
        /\ runs'[about[p]]["failing"] = runs[about[p]]["failing"]
        /\ "proposed" = "skipped" => runs'[about[p]]["proposed"] = runs[about[p]]["proposed"]
        /\ behind' \subseteq Harvesters /\ behind \ {p} \subseteq behind'
        /\ \A q \in Harvesters \ {p} :
              about[q] = about[p] /\ qpc[q] \notin {"idle", "attempt", "check"} => q \in behind'
        /\ asksAgain \subseteq asksAgain' /\ asksAgain' \subseteq Finished
        /\ "proposed" = "proposed" /\ about[p] \notin asksAgain' => Pending(about[p]) = 0
    BY ONLY <2>1, <2>2, <1>t, p \in Harvesters, RecordFacts
  <2>4. QED
    BY <1>12b, <2>1, <2>3 DEF RecordProposed
<1>12c. ASSUME NEW p \in Harvesters, RecordRun(p) PROVE Recorded'
  <2>1. about[p] \in Finished /\ asked[p] \in {"skipped", "proposed"}
    BY <1>12c DEF RecordRun
  <2>2. Record(p, about[p], asked[p])
    BY <1>12c DEF RecordRun
  <2>3. /\ runs' \in [Finished -> [Rows -> Nat]]
        /\ \A t \in Finished \ {about[p]} : runs'[t] = runs[t]
        /\ runs'[about[p]]["waiting"] = runs[about[p]]["waiting"]
        /\ runs'[about[p]]["failing"] = runs[about[p]]["failing"]
        /\ asked[p] = "skipped" => runs'[about[p]]["proposed"] = runs[about[p]]["proposed"]
        /\ behind' \subseteq Harvesters /\ behind \ {p} \subseteq behind'
        /\ \A q \in Harvesters \ {p} :
              about[q] = about[p] /\ qpc[q] \notin {"idle", "attempt", "check"} => q \in behind'
        /\ asksAgain \subseteq asksAgain' /\ asksAgain' \subseteq Finished
        /\ asked[p] = "proposed" /\ about[p] \notin asksAgain' => Pending(about[p]) = 0
    BY ONLY <2>1, <2>2, <1>t, p \in Harvesters, RecordFacts
  <2>4. QED
    BY <1>12c, <2>1, <2>3 DEF RecordRun
<1>12d. ASSUME NEW p \in Harvesters, ResolveFails(p) PROVE Recorded'
  BY <1>12d DEF ResolveFails
<1>13. ASSUME NEW p \in Harvesters, LiveAnswer(p) PROVE Recorded'
  BY <1>13 DEF LiveAnswer
<1>14. ASSUME NEW p \in Harvesters, KillHarvester(p) PROVE Recorded'
  BY <1>14 DEF KillHarvester
<1>15. CASE CloseOpen
  BY <1>15 DEF CloseOpen
<1>16. CASE UNCHANGED queueVars
  BY <1>16 DEF queueVars
<1>17. QED
  BY <1>1, <1>2, <1>3, <1>4, <1>5, <1>6, <1>7, <1>8, <1>9, <1>10, <1>11, <1>12, <1>12b, <1>12c, <1>12d, <1>13,
     <1>14, <1>15, <1>16 DEF QueueNext

\* The provider is called when fewer than MaxFails failures are on record.
LEMMA NextCallsBounded ==
  QueueTyped /\ HasLock /\ Recorded /\ CallsBounded /\ [QueueNext]_queueVars => CallsBounded'
<1> SUFFICES ASSUME QueueTyped, HasLock, Recorded, CallsBounded, [QueueNext]_queueVars
             PROVE  CallsBounded'
  OBVIOUS
<1> USE QueueAssumption DEF CallsBounded, AsksRow, QueueTyped, QueueTypeOK, GoAsk, GoResolve,
    WritePending, Rows, queueFrame, queueHist
<1>t. /\ runs \in [Finished -> [Rows -> Nat]] /\ fails \in [Finished -> Nat]
      /\ behind \subseteq Harvesters /\ asksAgain \subseteq Finished
  OBVIOUS
<1>1. ASSUME NEW p \in Harvesters, Finalize(p) PROVE CallsBounded'
  BY <1>1 DEF Finalize
<1>2. ASSUME NEW p \in Harvesters, CheckAttempt(p) PROVE CallsBounded'
  BY <1>2 DEF CheckAttempt
<1>3. ASSUME NEW p \in Harvesters, QueueRun(p) PROVE CallsBounded'
  <2>1. about[p] \in Finished /\ "waiting" \in Rows
    BY <1>3 DEF QueueRun
  <2>2. Insert(about[p], "waiting")
    BY <1>3 DEF QueueRun, WritePending
  <2>3. QED
    BY <1>3, <2>1, <2>2, InsertFacts DEF QueueRun
<1>4. ASSUME NEW p \in Harvesters, Scan(p) PROVE CallsBounded'
  BY <1>4 DEF Scan
<1>5. ASSUME NEW p \in Harvesters, CheckHarvested(p) PROVE CallsBounded'
  BY <1>5 DEF CheckHarvested
<1>6. ASSUME NEW p \in Harvesters, TryHarvestLock(p) PROVE CallsBounded'
  BY <1>6 DEF TryHarvestLock
<1>7. ASSUME NEW p \in Harvesters, CheckProvider(p) PROVE CallsBounded'
  <2>1. about[p] \in Finished /\ UNCHANGED <<queueKills, runs>> /\ lock = p /\ qpc[p] = "ready"
    BY <1>7 DEF CheckProvider, HasLock
  <2>2. CASE UNCHANGED fails
    BY <2>1, <2>2
  <2>3. CASE /\ runs[about[p]]["failing"] < MaxFails
             /\ fails' = [fails EXCEPT ![about[p]] = @ + 1]
    <3>1. ~UnderWay(about[p])
      BY <2>1 DEF UnderWay
    <3>2. fails[about[p]] =< runs[about[p]]["failing"] + queueKills
      BY <2>1, <3>1 DEF Recorded
    <3>3. fails'[about[p]] =< MaxFails + queueKills
      <4>1. fails[about[p]] \in Nat /\ runs[about[p]]["failing"] \in Nat
        BY <2>1
      <4>2. fails'[about[p]] = fails[about[p]] + 1
        BY <2>1, <2>3
      <4>3. QED
        BY <2>3, <3>2, <4>1, <4>2
    <3>4. \A s \in Finished \ {about[p]} : fails'[s] = fails[s]
      BY <2>3
    <3>5. QED
      BY <2>1, <3>3, <3>4
  <2>4. QED
    BY <1>7, <2>2, <2>3 DEF CheckProvider
<1>8. ASSUME NEW p \in Harvesters, EndRun(p) PROVE CallsBounded'
  BY <1>8 DEF EndRun
<1>9. ASSUME NEW p \in Harvesters, InsertOpen(p) PROVE CallsBounded'
  BY <1>9 DEF InsertOpen
<1>10. ASSUME NEW p \in Harvesters, ResolveProposed(p) PROVE CallsBounded'
  <2>1. about[p] \in Finished /\ TRUE
    BY <1>10 DEF ResolveProposed
  <2>2. Resolve(p, about[p], "proposed")
    BY <1>10 DEF ResolveProposed
  <2>r. "proposed" \in {"skipped", "proposed"}
    OBVIOUS
  <2>3. /\ runs' \in [Finished -> [Rows -> Nat]]
        /\ \A t \in Finished \ {about[p]} : runs'[t] = runs[t] /\ fails'[t] = fails[t]
        /\ runs'[about[p]]["waiting"] = 0 /\ runs'[about[p]]["failing"] = 0
        /\ fails' \in [Finished -> Nat] /\ fails'[about[p]] = 0
        /\ behind' \subseteq Harvesters /\ behind \ {p} \subseteq behind'
        /\ Pending(about[p]) \in Nat
        /\ Pending(about[p]) = 0 =>
              runs'[about[p]]["proposed"] = runs[about[p]]["proposed"] /\ behind' = behind
        /\ Pending(about[p]) > 0 => \A q \in Harvesters \ {p} :
              about[q] = about[p] /\ qpc[q] \notin {"idle", "attempt", "check"} => q \in behind'
    BY ONLY <2>1, <2>2, <2>r, <1>t, p \in Harvesters, ResolveFacts
  <2>4. QED
    BY <1>10, <2>1, <2>3 DEF ResolveProposed
<1>11. ASSUME NEW p \in Harvesters, AskAgain(p) PROVE CallsBounded'
  <2>1. about[p] \in Finished /\ asked[p] \in {"waiting", "failing"}
    BY <1>11 DEF AskAgain
  <2>2. Insert(about[p], asked[p])
    BY <1>11 DEF AskAgain, WritePending
  <2>3. QED
    BY <1>11, <2>1, <2>2, InsertFacts DEF AskAgain
<1>12. ASSUME NEW p \in Harvesters, ResolveRun(p) PROVE CallsBounded'
  <2>1. about[p] \in Finished /\ asked[p] \in {"skipped", "proposed"}
    BY <1>12 DEF ResolveRun
  <2>2. Resolve(p, about[p], asked[p])
    BY <1>12 DEF ResolveRun
  <2>r. "proposed" \in {"skipped", "proposed"}
    OBVIOUS
  <2>3. /\ runs' \in [Finished -> [Rows -> Nat]]
        /\ \A t \in Finished \ {about[p]} : runs'[t] = runs[t] /\ fails'[t] = fails[t]
        /\ runs'[about[p]]["waiting"] = 0 /\ runs'[about[p]]["failing"] = 0
        /\ fails' \in [Finished -> Nat] /\ fails'[about[p]] = 0
        /\ behind' \subseteq Harvesters /\ behind \ {p} \subseteq behind'
        /\ Pending(about[p]) \in Nat
        /\ Pending(about[p]) = 0 =>
              runs'[about[p]]["proposed"] = runs[about[p]]["proposed"] /\ behind' = behind
        /\ Pending(about[p]) > 0 => \A q \in Harvesters \ {p} :
              about[q] = about[p] /\ qpc[q] \notin {"idle", "attempt", "check"} => q \in behind'
    BY ONLY <2>1, <2>2, <2>r, <1>t, p \in Harvesters, ResolveFacts
  <2>4. QED
    BY <1>12, <2>1, <2>3 DEF ResolveRun
<1>12b. ASSUME NEW p \in Harvesters, RecordProposed(p) PROVE CallsBounded'
  <2>1. about[p] \in Finished /\ "proposed" \in {"skipped", "proposed"}
    BY <1>12b DEF RecordProposed
  <2>2. Record(p, about[p], "proposed")
    BY <1>12b DEF RecordProposed
  <2>3. /\ runs' \in [Finished -> [Rows -> Nat]]
        /\ \A t \in Finished \ {about[p]} : runs'[t] = runs[t]
        /\ runs'[about[p]]["waiting"] = runs[about[p]]["waiting"]
        /\ runs'[about[p]]["failing"] = runs[about[p]]["failing"]
        /\ "proposed" = "skipped" => runs'[about[p]]["proposed"] = runs[about[p]]["proposed"]
        /\ behind' \subseteq Harvesters /\ behind \ {p} \subseteq behind'
        /\ \A q \in Harvesters \ {p} :
              about[q] = about[p] /\ qpc[q] \notin {"idle", "attempt", "check"} => q \in behind'
        /\ asksAgain \subseteq asksAgain' /\ asksAgain' \subseteq Finished
        /\ "proposed" = "proposed" /\ about[p] \notin asksAgain' => Pending(about[p]) = 0
    BY ONLY <2>1, <2>2, <1>t, p \in Harvesters, RecordFacts
  <2>4. QED
    BY <1>12b, <2>1, <2>3 DEF RecordProposed
<1>12c. ASSUME NEW p \in Harvesters, RecordRun(p) PROVE CallsBounded'
  <2>1. about[p] \in Finished /\ asked[p] \in {"skipped", "proposed"}
    BY <1>12c DEF RecordRun
  <2>2. Record(p, about[p], asked[p])
    BY <1>12c DEF RecordRun
  <2>3. /\ runs' \in [Finished -> [Rows -> Nat]]
        /\ \A t \in Finished \ {about[p]} : runs'[t] = runs[t]
        /\ runs'[about[p]]["waiting"] = runs[about[p]]["waiting"]
        /\ runs'[about[p]]["failing"] = runs[about[p]]["failing"]
        /\ asked[p] = "skipped" => runs'[about[p]]["proposed"] = runs[about[p]]["proposed"]
        /\ behind' \subseteq Harvesters /\ behind \ {p} \subseteq behind'
        /\ \A q \in Harvesters \ {p} :
              about[q] = about[p] /\ qpc[q] \notin {"idle", "attempt", "check"} => q \in behind'
        /\ asksAgain \subseteq asksAgain' /\ asksAgain' \subseteq Finished
        /\ asked[p] = "proposed" /\ about[p] \notin asksAgain' => Pending(about[p]) = 0
    BY ONLY <2>1, <2>2, <1>t, p \in Harvesters, RecordFacts
  <2>4. QED
    BY <1>12c, <2>1, <2>3 DEF RecordRun
<1>12d. ASSUME NEW p \in Harvesters, ResolveFails(p) PROVE CallsBounded'
  BY <1>12d DEF ResolveFails
<1>13. ASSUME NEW p \in Harvesters, LiveAnswer(p) PROVE CallsBounded'
  BY <1>13 DEF LiveAnswer
<1>14. ASSUME NEW p \in Harvesters, KillHarvester(p) PROVE CallsBounded'
  BY <1>14 DEF KillHarvester
<1>15. CASE CloseOpen
  BY <1>15 DEF CloseOpen
<1>16. CASE UNCHANGED queueVars
  BY <1>16 DEF queueVars
<1>17. QED
  BY <1>1, <1>2, <1>3, <1>4, <1>5, <1>6, <1>7, <1>8, <1>9, <1>10, <1>11, <1>12, <1>12b, <1>12c, <1>12d, <1>13,
     <1>14, <1>15, <1>16 DEF QueueNext

\* Between two resolves of a session at most MaxFails calls of the provider are started,
\* and one more for each kill or lost row, for any number of finalizers, scans and live
\* answers.
THEOREM ProviderCallsBounded == QueueSpec => []CallsBounded
<1> DEFINE Inv == QueueTyped /\ HasLock /\ Recorded /\ CallsBounded
<1>1. QueueInit => Inv
  BY InitQueueTyped, InitHasLock, InitRecorded
<1>2. Inv /\ [QueueNext]_queueVars => Inv'
  BY NextQueueTyped, NextHasLock, NextRecorded, NextCallsBounded
<1>3. Inv => CallsBounded
  OBVIOUS
<1> HIDE DEF Inv
<1>4. QED
  BY <1>1, <1>2, <1>3, PTL DEF QueueSpec

-----------------------------------------------------------------------------
(* Who is asked again: from the first resolve with a proposal on, whoever   *)
(* is about to write a pending row had passed its check before.             *)

Reopens == \A p \in Harvesters :
    resumed[p] => qpc[p] # "idle" /\ about[p] \in reopened
Warned == \A s \in Finished \ (asksAgain \cup reopened) : runs[s]["proposed"] > 0 =>
    /\ Pending(s) = 0
    /\ \A p \in Harvesters :
          /\ about[p] = s
          /\ qpc[p] \in {"queue", "lock", "ready", "run", "propose", "ask"}
          => p \in behind

\* There are no rows at first.
LEMMA InitWarned == QueueInit => Reopens /\ Warned
  BY DEF QueueInit, Reopens, Warned, Rows, Pending

\* A resumed session is on record as such.
LEMMA NextReopens == QueueTyped /\ Reopens /\ [QueueNext]_queueVars => Reopens'
<1> SUFFICES ASSUME QueueTyped, Reopens, [QueueNext]_queueVars PROVE Reopens'
  OBVIOUS
<1> USE DEF Reopens, QueueTyped, QueueTypeOK, QueueGoto, Stay, GoAsk, GoResolve, Finish,
    WritePending, queueFrame, queueHist
<1>1. ASSUME NEW p \in Harvesters, Finalize(p) PROVE Reopens'
  BY <1>1 DEF Finalize
<1>2. ASSUME NEW p \in Harvesters, CheckAttempt(p) PROVE Reopens'
  BY <1>2 DEF CheckAttempt
<1>3. ASSUME NEW p \in Harvesters, QueueRun(p) PROVE Reopens'
  BY <1>3 DEF QueueRun
<1>4. ASSUME NEW p \in Harvesters, Scan(p) PROVE Reopens'
  BY <1>4 DEF Scan
<1>5. ASSUME NEW p \in Harvesters, CheckHarvested(p) PROVE Reopens'
  BY <1>5 DEF CheckHarvested
<1>6. ASSUME NEW p \in Harvesters, TryHarvestLock(p) PROVE Reopens'
  BY <1>6 DEF TryHarvestLock
<1>7. ASSUME NEW p \in Harvesters, CheckProvider(p) PROVE Reopens'
  BY <1>7 DEF CheckProvider
<1>8. ASSUME NEW p \in Harvesters, EndRun(p) PROVE Reopens'
  BY <1>8 DEF EndRun
<1>9. ASSUME NEW p \in Harvesters, InsertOpen(p) PROVE Reopens'
  BY <1>9 DEF InsertOpen
<1>10. ASSUME NEW p \in Harvesters, ResolveProposed(p) PROVE Reopens'
  BY <1>10 DEF ResolveProposed
<1>11. ASSUME NEW p \in Harvesters, AskAgain(p) PROVE Reopens'
  BY <1>11 DEF AskAgain
<1>12. ASSUME NEW p \in Harvesters, ResolveRun(p) PROVE Reopens'
  BY <1>12 DEF ResolveRun
<1>12b. ASSUME NEW p \in Harvesters, RecordProposed(p) PROVE Reopens'
  BY <1>12b DEF RecordProposed
<1>12c. ASSUME NEW p \in Harvesters, RecordRun(p) PROVE Reopens'
  BY <1>12c DEF RecordRun
<1>12d. ASSUME NEW p \in Harvesters, ResolveFails(p) PROVE Reopens'
  BY <1>12d DEF ResolveFails
<1>13. ASSUME NEW p \in Harvesters, LiveAnswer(p) PROVE Reopens'
  BY <1>13 DEF LiveAnswer
<1>14. ASSUME NEW p \in Harvesters, KillHarvester(p) PROVE Reopens'
  BY <1>14 DEF KillHarvester
<1>15. CASE CloseOpen
  BY <1>15 DEF CloseOpen
<1>16. CASE UNCHANGED queueVars
  BY <1>16 DEF queueVars
<1>17. QED
  BY <1>1, <1>2, <1>3, <1>4, <1>5, <1>6, <1>7, <1>8, <1>9, <1>10, <1>11, <1>12, <1>12b, <1>12c, <1>12d, <1>13,
     <1>14, <1>15, <1>16 DEF QueueNext

\* A check after the resolve finds the rows, and one before it is known as behind.
LEMMA NextWarned ==
  QueueTyped /\ Reopens /\ Warned /\ [QueueNext]_queueVars => Warned'
<1> SUFFICES ASSUME QueueTyped, Reopens, Warned, [QueueNext]_queueVars PROVE Warned'
  OBVIOUS
<1> USE QueueAssumption DEF Warned, AsksRow, Reopens, QueueTyped, QueueTypeOK, QueueGoto, Stay,
    GoAsk, GoResolve, Finish, Pending, Rows, queueFrame, queueHist
<1>t. /\ runs \in [Finished -> [Rows -> Nat]] /\ fails \in [Finished -> Nat]
      /\ behind \subseteq Harvesters /\ asksAgain \subseteq Finished
  OBVIOUS
<1>1. ASSUME NEW p \in Harvesters, Finalize(p) PROVE Warned'
  BY <1>1 DEF Finalize
<1>2. ASSUME NEW p \in Harvesters, CheckAttempt(p) PROVE Warned'
  BY <1>2 DEF CheckAttempt
<1>3. ASSUME NEW p \in Harvesters, QueueRun(p) PROVE Warned'
  <2>1. about[p] \in Finished /\ qpc[p] \in {"queue", "ask"}
    BY <1>3 DEF QueueRun
  <2>2. /\ asksAgain' = (IF p \in behind THEN asksAgain \cup {about[p]} ELSE asksAgain)
        /\ behind' = behind \ {p} /\ reopened' = reopened /\ qpc'[p] = "idle"
        /\ \A q \in Harvesters \ {p} : qpc'[q] = qpc[q] /\ about'[q] = about[q]
    BY <1>3 DEF QueueRun, WritePending
  <2>3. /\ \A t \in Finished \ {about[p]} : runs'[t] = runs[t]
        /\ runs'[about[p]]["proposed"] = runs[about[p]]["proposed"]
    <3>1. Insert(about[p], "waiting")
      BY <1>3 DEF QueueRun, WritePending
    <3>2. "waiting" \in {"waiting", "failing"}
      BY <1>3 DEF QueueRun
    <3>3. QED
      BY <2>1, <3>1, <3>2, InsertFacts
  <2>4. QED
    BY <2>1, <2>2, <2>3
<1>4. ASSUME NEW p \in Harvesters, Scan(p) PROVE Warned'
  BY <1>4 DEF Scan
<1>5. ASSUME NEW p \in Harvesters, CheckHarvested(p) PROVE Warned'
  BY <1>5 DEF CheckHarvested
<1>6. ASSUME NEW p \in Harvesters, TryHarvestLock(p) PROVE Warned'
  BY <1>6 DEF TryHarvestLock
<1>7. ASSUME NEW p \in Harvesters, CheckProvider(p) PROVE Warned'
  BY <1>7 DEF CheckProvider
<1>8. ASSUME NEW p \in Harvesters, EndRun(p) PROVE Warned'
  BY <1>8 DEF EndRun
<1>9. ASSUME NEW p \in Harvesters, InsertOpen(p) PROVE Warned'
  BY <1>9 DEF InsertOpen
<1>10. ASSUME NEW p \in Harvesters, ResolveProposed(p) PROVE Warned'
  <2>1. about[p] \in Finished /\ TRUE
    BY <1>10 DEF ResolveProposed
  <2>2. Resolve(p, about[p], "proposed")
    BY <1>10 DEF ResolveProposed
  <2>r. "proposed" \in {"skipped", "proposed"}
    OBVIOUS
  <2>3. /\ runs' \in [Finished -> [Rows -> Nat]]
        /\ \A t \in Finished \ {about[p]} : runs'[t] = runs[t] /\ fails'[t] = fails[t]
        /\ runs'[about[p]]["waiting"] = 0 /\ runs'[about[p]]["failing"] = 0
        /\ fails' \in [Finished -> Nat] /\ fails'[about[p]] = 0
        /\ behind' \subseteq Harvesters /\ behind \ {p} \subseteq behind'
        /\ Pending(about[p]) \in Nat
        /\ Pending(about[p]) = 0 =>
              runs'[about[p]]["proposed"] = runs[about[p]]["proposed"] /\ behind' = behind
        /\ Pending(about[p]) > 0 => \A q \in Harvesters \ {p} :
              about[q] = about[p] /\ qpc[q] \notin {"idle", "attempt", "check"} => q \in behind'
    BY ONLY <2>1, <2>2, <2>r, <1>t, p \in Harvesters, ResolveFacts
  <2>4. /\ UNCHANGED <<asksAgain, reopened>> /\ qpc'[p] \in {"idle", "resolve", "record", "closed"}
        /\ \A q \in Harvesters \ {p} : qpc'[q] = qpc[q] /\ about'[q] = about[q]
    BY <1>10 DEF ResolveProposed
  <2>5. SUFFICES ASSUME NEW s \in Finished \ (asksAgain \cup reopened), runs'[s]["proposed"] > 0
               PROVE  /\ Pending(s)' = 0
                      /\ \A q \in Harvesters :
                            /\ about'[q] = s
                            /\ qpc'[q] \in {"queue", "lock", "ready", "run", "propose", "ask"}
                            => q \in behind'
    BY ONLY <2>4, <2>5 DEF Warned
  <2>6. CASE s = about[p]
    <3>1. Pending(s)' = 0
      BY <2>3, <2>6
    <3>2. CASE Pending(s) = 0
      BY <2>3, <2>4, <2>5, <2>6, <3>1, <3>2
    <3>3. CASE Pending(s) > 0
      BY <2>3, <2>4, <2>6, <3>1, <3>3
    <3>4. QED
      BY <2>3, <2>6, <3>2, <3>3
  <2>7. CASE s # about[p]
    BY <2>3, <2>4, <2>5, <2>7
  <2>8. QED
    BY <2>6, <2>7
<1>11. ASSUME NEW p \in Harvesters, AskAgain(p) PROVE Warned'
  <2>1. about[p] \in Finished /\ qpc[p] \in {"queue", "ask"}
    BY <1>11 DEF AskAgain
  <2>2. /\ asksAgain' = (IF p \in behind THEN asksAgain \cup {about[p]} ELSE asksAgain)
        /\ behind' = behind \ {p} /\ reopened' = reopened /\ qpc'[p] = "idle"
        /\ \A q \in Harvesters \ {p} : qpc'[q] = qpc[q] /\ about'[q] = about[q]
    BY <1>11 DEF AskAgain, WritePending
  <2>3. /\ \A t \in Finished \ {about[p]} : runs'[t] = runs[t]
        /\ runs'[about[p]]["proposed"] = runs[about[p]]["proposed"]
    <3>1. Insert(about[p], asked[p])
      BY <1>11 DEF AskAgain, WritePending
    <3>2. asked[p] \in {"waiting", "failing"}
      BY <1>11 DEF AskAgain
    <3>3. QED
      BY <2>1, <3>1, <3>2, InsertFacts
  <2>4. QED
    BY <2>1, <2>2, <2>3
<1>12. ASSUME NEW p \in Harvesters, ResolveRun(p) PROVE Warned'
  <2>1. about[p] \in Finished /\ asked[p] \in {"skipped", "proposed"}
    BY <1>12 DEF ResolveRun
  <2>2. Resolve(p, about[p], asked[p])
    BY <1>12 DEF ResolveRun
  <2>r. "proposed" \in {"skipped", "proposed"}
    OBVIOUS
  <2>3. /\ runs' \in [Finished -> [Rows -> Nat]]
        /\ \A t \in Finished \ {about[p]} : runs'[t] = runs[t] /\ fails'[t] = fails[t]
        /\ runs'[about[p]]["waiting"] = 0 /\ runs'[about[p]]["failing"] = 0
        /\ fails' \in [Finished -> Nat] /\ fails'[about[p]] = 0
        /\ behind' \subseteq Harvesters /\ behind \ {p} \subseteq behind'
        /\ Pending(about[p]) \in Nat
        /\ Pending(about[p]) = 0 =>
              runs'[about[p]]["proposed"] = runs[about[p]]["proposed"] /\ behind' = behind
        /\ Pending(about[p]) > 0 => \A q \in Harvesters \ {p} :
              about[q] = about[p] /\ qpc[q] \notin {"idle", "attempt", "check"} => q \in behind'
    BY ONLY <2>1, <2>2, <2>r, <1>t, p \in Harvesters, ResolveFacts
  <2>4. /\ UNCHANGED <<asksAgain, reopened>> /\ qpc'[p] \in {"idle", "resolve", "record", "closed"}
        /\ \A q \in Harvesters \ {p} : qpc'[q] = qpc[q] /\ about'[q] = about[q]
    BY <1>12 DEF ResolveRun
  <2>5. SUFFICES ASSUME NEW s \in Finished \ (asksAgain \cup reopened), runs'[s]["proposed"] > 0
               PROVE  /\ Pending(s)' = 0
                      /\ \A q \in Harvesters :
                            /\ about'[q] = s
                            /\ qpc'[q] \in {"queue", "lock", "ready", "run", "propose", "ask"}
                            => q \in behind'
    BY ONLY <2>4, <2>5 DEF Warned
  <2>6. CASE s = about[p]
    <3>1. Pending(s)' = 0
      BY <2>3, <2>6
    <3>2. CASE Pending(s) = 0
      BY <2>3, <2>4, <2>5, <2>6, <3>1, <3>2
    <3>3. CASE Pending(s) > 0
      BY <2>3, <2>4, <2>6, <3>1, <3>3
    <3>4. QED
      BY <2>3, <2>6, <3>2, <3>3
  <2>7. CASE s # about[p]
    BY <2>3, <2>4, <2>5, <2>7
  <2>8. QED
    BY <2>6, <2>7
<1>12b. ASSUME NEW p \in Harvesters, RecordProposed(p) PROVE Warned'
  <2>1. about[p] \in Finished /\ "proposed" \in {"skipped", "proposed"}
    BY <1>12b DEF RecordProposed
  <2>2. Record(p, about[p], "proposed")
    BY <1>12b DEF RecordProposed
  <2>3. /\ runs' \in [Finished -> [Rows -> Nat]]
        /\ \A t \in Finished \ {about[p]} : runs'[t] = runs[t]
        /\ runs'[about[p]]["waiting"] = runs[about[p]]["waiting"]
        /\ runs'[about[p]]["failing"] = runs[about[p]]["failing"]
        /\ "proposed" = "skipped" => runs'[about[p]]["proposed"] = runs[about[p]]["proposed"]
        /\ behind' \subseteq Harvesters /\ behind \ {p} \subseteq behind'
        /\ \A q \in Harvesters \ {p} :
              about[q] = about[p] /\ qpc[q] \notin {"idle", "attempt", "check"} => q \in behind'
        /\ asksAgain \subseteq asksAgain' /\ asksAgain' \subseteq Finished
        /\ "proposed" = "proposed" /\ about[p] \notin asksAgain' => Pending(about[p]) = 0
    BY ONLY <2>1, <2>2, <1>t, p \in Harvesters, RecordFacts
  <2>4. /\ UNCHANGED reopened /\ qpc'[p] \in {"idle", "resolve"}
        /\ \A q \in Harvesters \ {p} : qpc'[q] = qpc[q] /\ about'[q] = about[q]
    BY <1>12b DEF RecordProposed
  <2>5. SUFFICES ASSUME NEW s \in Finished \ (asksAgain' \cup reopened), runs'[s]["proposed"] > 0
               PROVE  /\ Pending(s)' = 0
                      /\ \A q \in Harvesters :
                            /\ about'[q] = s
                            /\ qpc'[q] \in {"queue", "lock", "ready", "run", "propose", "ask"}
                            => q \in behind'
    BY ONLY <2>4, <2>5 DEF Warned
  <2>6. CASE s = about[p]
    <3>1. Pending(s)' = Pending(s)
      BY <2>3, <2>6
    <3>2. Pending(s) = 0
      <4>1. CASE "proposed" = "proposed"
        BY <2>3, <2>5, <2>6, <4>1
      <4>2. CASE "proposed" = "skipped"
        BY <2>3, <2>5, <2>6, <4>2
      <4>3. QED
        BY <2>1, <4>1, <4>2
    <3>3. QED
      BY <2>3, <2>4, <2>6, <3>1, <3>2
  <2>7. CASE s # about[p]
    BY <2>3, <2>4, <2>5, <2>7
  <2>8. QED
    BY <2>6, <2>7
<1>12c. ASSUME NEW p \in Harvesters, RecordRun(p) PROVE Warned'
  <2>1. about[p] \in Finished /\ asked[p] \in {"skipped", "proposed"}
    BY <1>12c DEF RecordRun
  <2>2. Record(p, about[p], asked[p])
    BY <1>12c DEF RecordRun
  <2>3. /\ runs' \in [Finished -> [Rows -> Nat]]
        /\ \A t \in Finished \ {about[p]} : runs'[t] = runs[t]
        /\ runs'[about[p]]["waiting"] = runs[about[p]]["waiting"]
        /\ runs'[about[p]]["failing"] = runs[about[p]]["failing"]
        /\ asked[p] = "skipped" => runs'[about[p]]["proposed"] = runs[about[p]]["proposed"]
        /\ behind' \subseteq Harvesters /\ behind \ {p} \subseteq behind'
        /\ \A q \in Harvesters \ {p} :
              about[q] = about[p] /\ qpc[q] \notin {"idle", "attempt", "check"} => q \in behind'
        /\ asksAgain \subseteq asksAgain' /\ asksAgain' \subseteq Finished
        /\ asked[p] = "proposed" /\ about[p] \notin asksAgain' => Pending(about[p]) = 0
    BY ONLY <2>1, <2>2, <1>t, p \in Harvesters, RecordFacts
  <2>4. /\ UNCHANGED reopened /\ qpc'[p] \in {"idle", "resolve"}
        /\ \A q \in Harvesters \ {p} : qpc'[q] = qpc[q] /\ about'[q] = about[q]
    BY <1>12c DEF RecordRun
  <2>5. SUFFICES ASSUME NEW s \in Finished \ (asksAgain' \cup reopened), runs'[s]["proposed"] > 0
               PROVE  /\ Pending(s)' = 0
                      /\ \A q \in Harvesters :
                            /\ about'[q] = s
                            /\ qpc'[q] \in {"queue", "lock", "ready", "run", "propose", "ask"}
                            => q \in behind'
    BY ONLY <2>4, <2>5 DEF Warned
  <2>6. CASE s = about[p]
    <3>1. Pending(s)' = Pending(s)
      BY <2>3, <2>6
    <3>2. Pending(s) = 0
      <4>1. CASE asked[p] = "proposed"
        BY <2>3, <2>5, <2>6, <4>1
      <4>2. CASE asked[p] = "skipped"
        BY <2>3, <2>5, <2>6, <4>2
      <4>3. QED
        BY <2>1, <4>1, <4>2
    <3>3. QED
      BY <2>3, <2>4, <2>6, <3>1, <3>2
  <2>7. CASE s # about[p]
    BY <2>3, <2>4, <2>5, <2>7
  <2>8. QED
    BY <2>6, <2>7
<1>12d. ASSUME NEW p \in Harvesters, ResolveFails(p) PROVE Warned'
  BY <1>12d DEF ResolveFails
<1>13. ASSUME NEW p \in Harvesters, LiveAnswer(p) PROVE Warned'
  BY <1>13 DEF LiveAnswer
<1>14. ASSUME NEW p \in Harvesters, KillHarvester(p) PROVE Warned'
  BY <1>14 DEF KillHarvester
<1>15. CASE CloseOpen
  BY <1>15 DEF CloseOpen
<1>16. CASE UNCHANGED queueVars
  BY <1>16 DEF queueVars
<1>17. QED
  BY <1>1, <1>2, <1>3, <1>4, <1>5, <1>6, <1>7, <1>8, <1>9, <1>10, <1>11, <1>12, <1>12b, <1>12c, <1>12d, <1>13,
     <1>14, <1>15, <1>16 DEF QueueNext

\* A session that has its proposals has no pending row, unless it was resumed, the row was
\* written by a process that had passed its check before, or it came between the two
\* statements of the resolve.
THEOREM NobodyAskedAgain == QueueSpec => []NotAskedAgain
<1> DEFINE Inv == QueueTyped /\ Reopens /\ Warned
<1>1. QueueInit => Inv
  BY InitQueueTyped, InitWarned
<1>2. Inv /\ [QueueNext]_queueVars => Inv'
  BY NextQueueTyped, NextReopens, NextWarned
<1>3. Inv => NotAskedAgain
  BY DEF Warned, NotAskedAgain
<1> HIDE DEF Inv
<1>4. QED
  BY <1>1, <1>2, <1>3, PTL DEF QueueSpec
==============================================================================
