-------------------------- MODULE SessionDoc_proofs --------------------------
(***************************************************************************)
(* Proofs about SessionDoc, for any number of processes, spans and kills.  *)
(***************************************************************************)
EXTENDS SessionDoc, TLAPS

-----------------------------------------------------------------------------
(* Types, and what the type of claim rests on: only a finalizer gets to the *)
(* flock, and a process that is idle has no role.                           *)


Pcs == pc \in [Procs -> Steps]
Data ==
    /\ clock \in 0..MaxTime /\ log \subseteq Times
    /\ doc \in Document \cup {NoDoc, Torn}
    /\ spans \in [Procs -> SUBSET Times]
    /\ put \in [Procs -> Change]
    /\ copy \in [Procs -> Document]
Flags ==
    /\ lock \in Maybe(Procs) \cup {Dead}
    /\ crashes \in 0..MaxCrashes
    /\ best \subseteq Times /\ late \subseteq Times
    /\ stolen \in BOOLEAN /\ lost \in BOOLEAN /\ mixed \in BOOLEAN
    /\ alone \in [Procs -> BOOLEAN]
Claims ==
    /\ role \in [Procs -> Roles]
    /\ claim # None => claim \in Procs /\ role[claim] = "finalize" /\ ~At(claim, "claim")
    /\ \A p \in Procs : At(p, "claim") \/ At(p, "check") => role[p] = "finalize"
    /\ \A p \in Procs : At(p, "idle") => role[p] = "none"

DocTyped == Pcs /\ Data /\ Flags /\ Claims

\* The parts are the type invariant.
LEMMA TypedParts == DocTyped => TypeOK
  BY DocAssumption DEF DocTyped, Pcs, Data, Flags, Claims, TypeOK

\* The steps of a process: those of writeDocument belong to a call.
LEMMA StepFacts ==
    /\ \A s \in {"idle", "store", "upsert", "claim", "check", "repair", "materialize", "done"} :
          <<s, "no">> \in Steps
    /\ \A s \in Writing, c \in Calls : <<s, c>> \in Steps
    /\ \A x \in Steps : x[1] \in Writing => x = <<x[1], x[2]>> /\ x[2] \in Calls
    /\ \A x \in Steps : x = <<x[1], x[2]>>
  BY DEF Steps, Writing, Holding, Calls

\* What is read and what is written is a document, and what is asked for is a change.
LEMMA DocFacts ==
  ASSUME Data
  PROVE  /\ Nothing \in Change /\ Blank \in Document /\ Get \in Document
         /\ Get.end \in Maybe(Times)
         /\ \A s \in {"none", "active", "ended"}, e \in Maybe(Times) : Meta(s, e) \in Change
         /\ \A p \in Procs : Changed(p) \in Document /\ put[p].end \in Maybe(Times)
         /\ \A p \in Procs : Footprint(p) \subseteq Times
<1> USE DEF Data
<1>1. Nothing \in Change /\ Blank \in Document
  BY DEF Nothing, Change, Blank, Document, Maybe
<1>2. Get \in Document
  <2>1. CASE Readable
    <3>1. doc \in Document
      BY <2>1 DEF Readable, NoDoc, Torn, Blank
    <3>2. QED
      BY <2>1, <3>1 DEF Get
  <2>2. CASE ~Readable
    BY <2>2, <1>1 DEF Get
  <2>3. QED
    BY <2>1, <2>2
<1>3. Get.end \in Maybe(Times)
  BY <1>2 DEF Document
<1>4. ASSUME NEW s \in {"none", "active", "ended"}, NEW e \in Maybe(Times) PROVE Meta(s, e) \in Change
  BY <1>1, <1>4 DEF Meta, Nothing, Change
<1>5. ASSUME NEW p \in Procs PROVE Changed(p) \in Document /\ put[p].end \in Maybe(Times)
  <2>1. put[p] \in Change /\ copy[p] \in Document
    OBVIOUS
  <2>2. QED
    BY <2>1 DEF Changed, NewMeta, Change, Document
<1>6. ASSUME NEW p \in Procs PROVE Footprint(p) \subseteq Times
  BY DEF Footprint
<1>7. QED
  BY <1>1, <1>2, <1>3, <1>4, <1>5, <1>6

\* Nothing runs at first.
LEMMA InitDocTyped == Init => DocTyped
<1> SUFFICES ASSUME Init PROVE DocTyped
  OBVIOUS
<1> USE DocAssumption DEF Init
<1>1. Pcs
  BY StepFacts DEF Pcs
<1>2. Nothing \in Change /\ Blank \in Document
  BY DEF Nothing, Change, Blank, Document, Maybe
<1>3. Data
  BY <1>2 DEF Data
<1>4. Flags
  <2>1. lock \in Maybe(Procs) \cup {Dead} /\ crashes \in 0..MaxCrashes
    BY DEF Maybe
  <2>2. best \subseteq Times /\ late \subseteq Times
    OBVIOUS
  <2>3. stolen \in BOOLEAN /\ lost \in BOOLEAN /\ mixed \in BOOLEAN /\ alone \in [Procs -> BOOLEAN]
    OBVIOUS
  <2>4. QED
    BY <2>1, <2>2, <2>3 DEF Flags
<1>5. Claims
  <2>1. role \in [Procs -> Roles] /\ \A p \in Procs : role[p] = "none"
    BY DEF Roles
  <2>2. \A p \in Procs : ~At(p, "claim") /\ ~At(p, "check")
    BY DEF At
  <2>3. claim = None
    OBVIOUS
  <2>4. QED
    BY ONLY <2>1, <2>2, <2>3 DEF Claims
<1>6. QED
  BY <1>1, <1>3, <1>4, <1>5 DEF DocTyped

\* A process goes from one step of its program to another.
LEMMA NextPcs == Pcs /\ [Next]_vars => Pcs'
<1> SUFFICES ASSUME Pcs, [Next]_vars PROVE Pcs'
  OBVIOUS
<1> USE StepFacts DEF Pcs, At, In, Goto, Move, Write, Leave, ghosts
<1>w. {"lock", "steal", "read", "truncate", "write", "unlock"} \subseteq Writing /\ Calls = {"start", "ended", "update", "replay", "summary"}
  BY DEF Writing, Holding, Calls
<1>c. /\ \A c \in {"start", "ended", "update", "replay", "summary"} : <<"lock", c>> \in Steps
      /\ \A s \in {"idle", "store", "claim", "materialize", "done"} : <<s, "no">> \in Steps
  BY <1>w
<1> USE <1>w, <1>c
<1>1. ASSUME NEW p \in Procs, Mkdir(p) PROVE Pcs'
  BY <1>1 DEF Mkdir
<1>2. ASSUME NEW p \in Procs, SeesStale(p) PROVE Pcs'
  BY <1>2 DEF SeesStale
<1>3. ASSUME NEW p \in Procs, Steal(p) PROVE Pcs'
  BY <1>3 DEF Steal
<1>4. ASSUME NEW p \in Procs, TimesOut(p) PROVE Pcs'
  BY <1>4 DEF TimesOut
<1>5. ASSUME NEW p \in Procs, Read(p) PROVE Pcs'
  BY <1>5 DEF Read
<1>6. ASSUME NEW p \in Procs, Truncate(p) PROVE Pcs'
  BY <1>6 DEF Truncate
<1>7. ASSUME NEW p \in Procs, WriteOut(p) PROVE Pcs'
  BY <1>7 DEF WriteOut
<1>8. ASSUME NEW p \in Procs, Unlock(p) PROVE Pcs'
  <2>1. /\ pc[p] \in Steps
        /\ \/ pc' = [pc EXCEPT ![p] = <<"materialize", "no">>]
           \/ pc' = [pc EXCEPT ![p] = <<"done", "no">>]
           \/ \E c \in Calls : pc' = [pc EXCEPT ![p] = <<"lock", c>>]
    BY <1>8 DEF Unlock
  <2>2. \E x \in Steps : pc' = [pc EXCEPT ![p] = x]
    BY ONLY <1>c, <1>w, <2>1
  <2>3. QED
    BY ONLY <2>2, Pcs, p \in Procs DEF Pcs
<1>9. ASSUME NEW p \in Procs, Finish(p) PROVE Pcs'
  BY <1>9 DEF Finish
<1>10. ASSUME NEW p \in Procs, Crash(p) PROVE Pcs'
  BY <1>10 DEF Crash
<1>11. ASSUME NEW p \in Procs, SpanEnds(p) PROVE Pcs'
  BY <1>11 DEF SpanEnds, Enter
<1>12. ASSUME NEW p \in Procs, Store(p) PROVE Pcs'
  BY <1>12 DEF Store
<1>13. ASSUME NEW p \in Procs, Upsert(p) PROVE Pcs'
  BY <1>13 DEF Upsert
<1>14. ASSUME NEW p \in Procs, Repair(p) PROVE Pcs'
  BY <1>14 DEF Repair, Enter
<1>15. ASSUME NEW p \in Procs, NEW r \in Loads, Load(p, r) PROVE Pcs'
  BY <1>15 DEF Load, Enter
<1>16. ASSUME NEW p \in Procs, Materialize(p) PROVE Pcs'
  BY <1>16 DEF Materialize
<1>17. ASSUME NEW p \in Procs, Claim(p) PROVE Pcs'
  BY <1>17 DEF Claim
<1>18. ASSUME NEW p \in Procs, ClaimBusy(p) PROVE Pcs'
  BY <1>18 DEF ClaimBusy
<1>19. ASSUME NEW p \in Procs, Skip(p) PROVE Pcs'
  BY <1>19 DEF Skip
<1>20. ASSUME NEW p \in Procs, Check(p) PROVE Pcs'
  BY <1>20 DEF Check
<1>21. ASSUME NEW p \in Procs, Capture(p) PROVE Pcs'
  BY <1>21 DEF Capture, Enter
<1>22. CASE UNCHANGED vars
  BY <1>22 DEF vars
<1>24. ASSUME NEW p \in Procs, ReadFails(p) PROVE Pcs'
  BY <1>24 DEF ReadFails
<1>25. ASSUME NEW p \in Procs, WriteFails(p) PROVE Pcs'
  BY <1>25 DEF WriteFails
<1>23. QED
  BY <1>1, <1>2, <1>3, <1>4, <1>5, <1>6, <1>7, <1>8, <1>9, <1>10, <1>11, <1>12, <1>13,
     <1>14, <1>15, <1>16, <1>17, <1>18, <1>19, <1>20, <1>21, <1>22, <1>24, <1>25 DEF Next, WriteStep

\* Every document, change and span is in range.
LEMMA NextData == Data /\ [Next]_vars => Data'
<1> SUFFICES ASSUME Data, [Next]_vars PROVE Data'
  OBVIOUS
<1> USE DocAssumption, DocFacts DEF Data, At, In, Goto, Move, Write, Leave, ghosts
<1>1. ASSUME NEW p \in Procs, Mkdir(p) PROVE Data'
  BY <1>1 DEF Mkdir
<1>2. ASSUME NEW p \in Procs, SeesStale(p) PROVE Data'
  BY <1>2 DEF SeesStale
<1>3. ASSUME NEW p \in Procs, Steal(p) PROVE Data'
  BY <1>3 DEF Steal
<1>4. ASSUME NEW p \in Procs, TimesOut(p) PROVE Data'
  BY <1>4 DEF TimesOut
<1>5. ASSUME NEW p \in Procs, Read(p) PROVE Data'
  BY <1>5 DEF Read
<1>6. ASSUME NEW p \in Procs, Truncate(p) PROVE Data'
  BY <1>6 DEF Truncate
<1>7. ASSUME NEW p \in Procs, WriteOut(p) PROVE Data'
  BY <1>7 DEF WriteOut
<1>8. ASSUME NEW p \in Procs, Unlock(p) PROVE Data'
  <2>1. Meta("active", None) \in Change /\ Meta("ended", put[p].end) \in Change
    BY DEF Maybe
  <2>2. put' \in [Procs -> Change]
    BY <1>8, <2>1 DEF Unlock
  <2>3. QED
    BY <1>8, <2>2 DEF Unlock
<1>9. ASSUME NEW p \in Procs, Finish(p) PROVE Data'
  BY <1>9 DEF Finish
<1>10. ASSUME NEW p \in Procs, Crash(p) PROVE Data'
  BY <1>10 DEF Crash
<1>11. ASSUME NEW p \in Procs, SpanEnds(p) PROVE Data'
  <2>1. clock + 1 \in Times /\ clock' \in 0..MaxTime
    BY <1>11 DEF SpanEnds, Times
  <2>2. QED
    BY <1>11, <2>1 DEF SpanEnds
<1>12. ASSUME NEW p \in Procs, Store(p) PROVE Data'
  BY <1>12 DEF Store
<1>13. ASSUME NEW p \in Procs, Upsert(p) PROVE Data'
  BY <1>13 DEF Upsert
<1>14. ASSUME NEW p \in Procs, Repair(p) PROVE Data'
  BY <1>14 DEF Repair, Enter
<1>15. ASSUME NEW p \in Procs, NEW r \in Loads, Load(p, r) PROVE Data'
  <2>1. Meta("active", None) \in Change
    BY DEF Maybe
  <2>2. QED
    BY <1>15, <2>1 DEF Load
<1>16. ASSUME NEW p \in Procs, Materialize(p) PROVE Data'
  <2>1. clock + 1 \in Times /\ clock' \in 0..MaxTime
    BY <1>16 DEF Materialize, Times
  <2>2. [status |-> "ended", end |-> clock + 1, foot |-> Footprint(p), keep |-> FALSE] \in Change
    BY <2>1 DEF Change, Maybe
  <2>3. QED
    BY <1>16, <2>1, <2>2 DEF Materialize
<1>17. ASSUME NEW p \in Procs, Claim(p) PROVE Data'
  BY <1>17 DEF Claim
<1>18. ASSUME NEW p \in Procs, ClaimBusy(p) PROVE Data'
  BY <1>18 DEF ClaimBusy
<1>19. ASSUME NEW p \in Procs, Skip(p) PROVE Data'
  BY <1>19 DEF Skip
<1>20. ASSUME NEW p \in Procs, Check(p) PROVE Data'
  <2>1. Meta("active", None) \in Change
    BY DEF Maybe
  <2>2. QED
    BY <1>20, <2>1 DEF Check
<1>21. ASSUME NEW p \in Procs, Capture(p) PROVE Data'
  <2>1. Meta(Get.status, Get.end) \in Change
    BY DEF Document, Maybe
  <2>2. QED
    BY <1>21, <2>1 DEF Capture
<1>22. CASE UNCHANGED vars
  BY <1>22 DEF vars
<1>24. ASSUME NEW p \in Procs, ReadFails(p) PROVE Data'
  BY <1>24 DEF ReadFails
<1>25. ASSUME NEW p \in Procs, WriteFails(p) PROVE Data'
  BY <1>25 DEF WriteFails
<1>23. QED
  BY <1>1, <1>2, <1>3, <1>4, <1>5, <1>6, <1>7, <1>8, <1>9, <1>10, <1>11, <1>12, <1>13,
     <1>14, <1>15, <1>16, <1>17, <1>18, <1>19, <1>20, <1>21, <1>22, <1>24, <1>25 DEF Next, WriteStep

\* The lock directory and the history keep their types.
LEMMA NextFlags == Data /\ Flags /\ [Next]_vars => Flags'
<1> SUFFICES ASSUME Data, Flags, [Next]_vars PROVE Flags'
  OBVIOUS
<1> USE DocAssumption DEF Flags, At, In, Goto, Move, Write, Leave, ghosts, Maybe
<1>1. ASSUME NEW p \in Procs, Mkdir(p) PROVE Flags'
  BY <1>1 DEF Mkdir
<1>2. ASSUME NEW p \in Procs, SeesStale(p) PROVE Flags'
  BY <1>2 DEF SeesStale
<1>3. ASSUME NEW p \in Procs, Steal(p) PROVE Flags'
  BY <1>3 DEF Steal
<1>4. ASSUME NEW p \in Procs, TimesOut(p) PROVE Flags'
  BY <1>4 DEF TimesOut
<1>5. ASSUME NEW p \in Procs, Read(p) PROVE Flags'
  BY <1>5 DEF Read
<1>6. ASSUME NEW p \in Procs, Truncate(p) PROVE Flags'
  BY <1>6 DEF Truncate
<1>7. ASSUME NEW p \in Procs, WriteOut(p) PROVE Flags'
  <2>1. put[p].foot \subseteq Times
    BY DEF Data, Change
  <2>2. QED
    BY <1>7, <2>1 DEF WriteOut
<1>8. ASSUME NEW p \in Procs, Unlock(p) PROVE Flags'
  BY <1>8 DEF Unlock
<1>9. ASSUME NEW p \in Procs, Finish(p) PROVE Flags'
  BY <1>9 DEF Finish
<1>10. ASSUME NEW p \in Procs, Crash(p) PROVE Flags'
  BY <1>10 DEF Crash
<1>11. ASSUME NEW p \in Procs, SpanEnds(p) PROVE Flags'
  BY <1>11 DEF SpanEnds, Enter
<1>12. ASSUME NEW p \in Procs, Store(p) PROVE Flags'
  <2>1. late' \in SUBSET Times
    BY <1>12 DEF Store, Data
  <2>2. QED
    BY <1>12, <2>1 DEF Store
<1>13. ASSUME NEW p \in Procs, Upsert(p) PROVE Flags'
  BY <1>13 DEF Upsert
<1>14. ASSUME NEW p \in Procs, Repair(p) PROVE Flags'
  BY <1>14 DEF Repair, Enter
<1>15. ASSUME NEW p \in Procs, NEW r \in Loads, Load(p, r) PROVE Flags'
  BY <1>15 DEF Load, Enter
<1>16. ASSUME NEW p \in Procs, Materialize(p) PROVE Flags'
  BY <1>16 DEF Materialize
<1>17. ASSUME NEW p \in Procs, Claim(p) PROVE Flags'
  BY <1>17 DEF Claim
<1>18. ASSUME NEW p \in Procs, ClaimBusy(p) PROVE Flags'
  BY <1>18 DEF ClaimBusy
<1>19. ASSUME NEW p \in Procs, Skip(p) PROVE Flags'
  BY <1>19 DEF Skip
<1>20. ASSUME NEW p \in Procs, Check(p) PROVE Flags'
  BY <1>20 DEF Check
<1>21. ASSUME NEW p \in Procs, Capture(p) PROVE Flags'
  BY <1>21 DEF Capture, Enter
<1>22. CASE UNCHANGED vars
  BY <1>22 DEF vars
<1>24. ASSUME NEW p \in Procs, ReadFails(p) PROVE Flags'
  BY <1>24 DEF ReadFails
<1>25. ASSUME NEW p \in Procs, WriteFails(p) PROVE Flags'
  BY <1>25 DEF WriteFails
<1>23. QED
  BY <1>1, <1>2, <1>3, <1>4, <1>5, <1>6, <1>7, <1>8, <1>9, <1>10, <1>11, <1>12, <1>13,
     <1>14, <1>15, <1>16, <1>17, <1>18, <1>19, <1>20, <1>21, <1>22, <1>24, <1>25 DEF Next, WriteStep

\* A process that ends gives the flock back.
LEMMA LeaveClaims ==
  ASSUME Claims, Pcs, NEW p \in Procs, Leave(p)
  PROVE  Claims'
<1> USE DEF Claims, Pcs, Leave, Goto
<1>1. /\ role' \in [Procs -> Roles] /\ pc' \in [Procs -> Steps]
      /\ \A q \in Procs \ {p} : role'[q] = role[q] /\ pc'[q] = pc[q]
      /\ role'[p] = "none" /\ pc'[p] = <<"idle", "no">>
  BY StepFacts DEF Roles
<1>2. ~At(p, "claim")' /\ ~At(p, "check")'
  BY <1>1 DEF At
<1>3. claim' # p
  BY DocAssumption
<1>4. (claim # None => claim \in Procs /\ role[claim] = "finalize" /\ ~At(claim, "claim"))'
  <2>1. claim' = claim \/ claim' = None
    OBVIOUS
  <2>2. QED
    BY <1>1, <1>3, <2>1 DEF At
<1>5. \A q \in Procs : (At(q, "claim") \/ At(q, "check"))' => role'[q] = "finalize"
  BY <1>1, <1>2 DEF At
<1>6. \A q \in Procs : At(q, "idle")' => role'[q] = "none"
  BY <1>1 DEF At
<1>7. role' \in [Procs -> Roles]
  BY <1>1
<1>8. QED
  BY <1>4, <1>5, <1>6, <1>7 DEF Claims, At

\* Only a finalizer gets to the flock and has it, and an idle process has no role.
LEMMA NextClaims == Pcs /\ Claims /\ [Next]_vars => Claims'
<1> SUFFICES ASSUME Pcs, Claims, [Next]_vars PROVE Claims'
  OBVIOUS
<1> USE DocAssumption DEF Claims, Pcs, At, In, Goto, Move, Write, Leave, ghosts, Roles
<1>1. ASSUME NEW p \in Procs, Mkdir(p) PROVE Claims'
  BY <1>1 DEF Mkdir
<1>2. ASSUME NEW p \in Procs, SeesStale(p) PROVE Claims'
  BY <1>2 DEF SeesStale
<1>3. ASSUME NEW p \in Procs, Steal(p) PROVE Claims'
  BY <1>3 DEF Steal
<1>4. ASSUME NEW p \in Procs, TimesOut(p) PROVE Claims'
  <2>1. CASE pc[p][2] = "start" /\ Materializer(p)
    <3>1. ~At(p, "idle") /\ UNCHANGED <<role, claim>> /\ pc' = [pc EXCEPT ![p] = <<"materialize", "no">>]
      BY <1>4, <2>1 DEF TimesOut
    <3>2. QED
      BY <3>1
  <2>2. CASE ~(pc[p][2] = "start" /\ Materializer(p))
    BY <1>4, <2>2, LeaveClaims DEF TimesOut
  <2>3. QED
    BY <2>1, <2>2
<1>5. ASSUME NEW p \in Procs, Read(p) PROVE Claims'
  BY <1>5 DEF Read
<1>6. ASSUME NEW p \in Procs, Truncate(p) PROVE Claims'
  BY <1>6 DEF Truncate
<1>7. ASSUME NEW p \in Procs, WriteOut(p) PROVE Claims'
  BY <1>7 DEF WriteOut
<1>8. ASSUME NEW p \in Procs, Unlock(p) PROVE Claims'
  <2>1. UNCHANGED <<role, claim>>
    BY <1>8 DEF Unlock
  <2>2. pc'[p] # <<"claim", "no">> /\ pc'[p] # <<"check", "no">> /\ pc'[p] # <<"idle", "no">>
        /\ \A q \in Procs \ {p} : pc'[q] = pc[q]
    BY <1>8 DEF Unlock
  <2>3. QED
    BY <2>1, <2>2
<1>9. ASSUME NEW p \in Procs, Finish(p) PROVE Claims'
  BY <1>9, LeaveClaims DEF Finish
<1>10. ASSUME NEW p \in Procs, Crash(p) PROVE Claims'
  BY <1>10, LeaveClaims DEF Crash
<1>11. ASSUME NEW p \in Procs, SpanEnds(p) PROVE Claims'
  BY <1>11 DEF SpanEnds, Enter
<1>12. ASSUME NEW p \in Procs, Store(p) PROVE Claims'
  BY <1>12 DEF Store
<1>13. ASSUME NEW p \in Procs, Upsert(p) PROVE Claims'
  <2>1. CASE Get.status = "ended"
    BY <1>13, <2>1, LeaveClaims DEF Upsert
  <2>2. CASE Get.status # "ended"
    <3>1. ~At(p, "idle") /\ UNCHANGED <<role, claim>> /\ pc' = [pc EXCEPT ![p] = <<"lock", "start">>]
      BY <1>13, <2>2 DEF Upsert
    <3>2. QED
      BY <3>1
  <2>3. QED
    BY <2>1, <2>2
<1>14. ASSUME NEW p \in Procs, Repair(p) PROVE Claims'
  BY <1>14 DEF Repair, Enter
<1>15. ASSUME NEW p \in Procs, NEW r \in Loads, Load(p, r) PROVE Claims'
  <2>1. /\ pc'[p] # <<"check", "no">> /\ pc'[p] # <<"idle", "no">>
        /\ pc'[p] = <<"claim", "no">> => r = "finalize"
        /\ \A q \in Procs \ {p} : pc'[q] = pc[q]
    BY <1>15 DEF Load
  <2>2. role' = [role EXCEPT ![p] = r] /\ UNCHANGED claim /\ role[p] = "none"
    BY <1>15 DEF Load, Enter
  <2>3. role' \in [Procs -> Roles] /\ role'[p] = r /\ \A q \in Procs \ {p} : role'[q] = role[q]
    BY <2>2
  <2>4. claim # p
    BY <2>2
  <2>5. QED
    BY <2>1, <2>2, <2>3, <2>4
<1>16. ASSUME NEW p \in Procs, Materialize(p) PROVE Claims'
  BY <1>16 DEF Materialize
<1>17. ASSUME NEW p \in Procs, Claim(p) PROVE Claims'
  BY <1>17 DEF Claim
<1>18. ASSUME NEW p \in Procs, ClaimBusy(p) PROVE Claims'
  BY <1>18, LeaveClaims DEF ClaimBusy
<1>19. ASSUME NEW p \in Procs, Skip(p) PROVE Claims'
  BY <1>19, LeaveClaims DEF Skip
<1>20. ASSUME NEW p \in Procs, Check(p) PROVE Claims'
  BY <1>20 DEF Check
<1>21. ASSUME NEW p \in Procs, Capture(p) PROVE Claims'
  BY <1>21 DEF Capture, Enter
<1>22. CASE UNCHANGED vars
  BY <1>22 DEF vars
<1>24. ASSUME NEW p \in Procs, ReadFails(p) PROVE Claims'
  BY <1>24 DEF ReadFails
<1>25. ASSUME NEW p \in Procs, WriteFails(p) PROVE Claims'
  <2>1. CASE pc[p][2] = "start" /\ Materializer(p)
    <3>1. ~At(p, "idle") /\ UNCHANGED <<role, claim>> /\ pc' = [pc EXCEPT ![p] = <<"materialize", "no">>]
      BY <1>25, <2>1 DEF WriteFails
    <3>2. QED
      BY <3>1
  <2>2. CASE ~(pc[p][2] = "start" /\ Materializer(p))
    BY <1>25, <2>2, LeaveClaims DEF WriteFails
  <2>3. QED
    BY <2>1, <2>2
<1>23. QED
  BY <1>1, <1>2, <1>3, <1>4, <1>5, <1>6, <1>7, <1>8, <1>9, <1>10, <1>11, <1>12, <1>13,
     <1>14, <1>15, <1>16, <1>17, <1>18, <1>19, <1>20, <1>21, <1>22, <1>24, <1>25 DEF Next, WriteStep

\* The type invariant is inductive.
LEMMA NextDocTyped == DocTyped /\ [Next]_vars => DocTyped'
  BY NextPcs, NextData, NextFlags, NextClaims DEF DocTyped

\* Every variable keeps its type, and the finalize flock is held by a finalizer past
\* its claim: no return path and no kill leaves it held.
THEOREM Typing == Spec => []TypeOK
  BY TypedParts, InitDocTyped, NextDocTyped, PTL DEF Spec

-----------------------------------------------------------------------------
(* The lock: while no directory was removed under a live holder, who is     *)
(* inside writeDocument has it.                                             *)

Exclusive == ~stolen => \A p \in Procs : pc[p][1] \in Holding => lock = p

\* Nobody is inside at first.
LEMMA InitExclusive == Init => Exclusive
<1> SUFFICES ASSUME Init, NEW p \in Procs PROVE pc[p][1] \notin Holding
  BY DEF Exclusive
<1>1. pc[p] = <<"idle", "no">>
  BY DEF Init
<1>2. QED
  BY <1>1 DEF Holding

\* Every step keeps the lock with its holder, or records that it was stolen.
LEMMA NextExclusive == Pcs /\ Flags /\ Exclusive /\ [Next]_vars => Exclusive'
<1> SUFFICES ASSUME Pcs, Flags, Exclusive, [Next]_vars PROVE Exclusive'
  OBVIOUS
<1> USE DocAssumption DEF Exclusive, Pcs, At, In, Goto, Move, Write, Leave, ghosts, Holding
<1>1. ASSUME NEW p \in Procs, Mkdir(p) PROVE Exclusive'
  <2>1. lock = None /\ lock' = p /\ stolen' = stolen /\ \A q \in Procs \ {p} : pc'[q] = pc[q]
    BY <1>1 DEF Mkdir, LockFree
  <2>2. ~stolen => \A q \in Procs : pc[q][1] \notin Holding
    BY <2>1 DEF Exclusive
  <2>3. QED
    BY <2>1, <2>2 DEF Exclusive
<1>2. ASSUME NEW p \in Procs, SeesStale(p) PROVE Exclusive'
  BY <1>2 DEF SeesStale
<1>3. ASSUME NEW p \in Procs, Steal(p) PROVE Exclusive'
  BY <1>3 DEF Steal
<1>4. ASSUME NEW p \in Procs, TimesOut(p) PROVE Exclusive'
  BY <1>4 DEF TimesOut
<1>5. ASSUME NEW p \in Procs, Read(p) PROVE Exclusive'
  BY <1>5 DEF Read
<1>6. ASSUME NEW p \in Procs, Truncate(p) PROVE Exclusive'
  BY <1>6 DEF Truncate
<1>7. ASSUME NEW p \in Procs, WriteOut(p) PROVE Exclusive'
  BY <1>7 DEF WriteOut
<1>8. ASSUME NEW p \in Procs, Unlock(p) PROVE Exclusive'
  BY <1>8 DEF Unlock
<1>9. ASSUME NEW p \in Procs, Finish(p) PROVE Exclusive'
  BY <1>9 DEF Finish
<1>10. ASSUME NEW p \in Procs, Crash(p) PROVE Exclusive'
  BY <1>10 DEF Crash
<1>11. ASSUME NEW p \in Procs, SpanEnds(p) PROVE Exclusive'
  BY <1>11 DEF SpanEnds, Enter
<1>12. ASSUME NEW p \in Procs, Store(p) PROVE Exclusive'
  BY <1>12 DEF Store
<1>13. ASSUME NEW p \in Procs, Upsert(p) PROVE Exclusive'
  BY <1>13 DEF Upsert
<1>14. ASSUME NEW p \in Procs, Repair(p) PROVE Exclusive'
  BY <1>14 DEF Repair, Enter
<1>15. ASSUME NEW p \in Procs, NEW r \in Loads, Load(p, r) PROVE Exclusive'
  BY <1>15 DEF Load, Enter
<1>16. ASSUME NEW p \in Procs, Materialize(p) PROVE Exclusive'
  BY <1>16 DEF Materialize
<1>17. ASSUME NEW p \in Procs, Claim(p) PROVE Exclusive'
  BY <1>17 DEF Claim
<1>18. ASSUME NEW p \in Procs, ClaimBusy(p) PROVE Exclusive'
  BY <1>18 DEF ClaimBusy
<1>19. ASSUME NEW p \in Procs, Skip(p) PROVE Exclusive'
  BY <1>19 DEF Skip
<1>20. ASSUME NEW p \in Procs, Check(p) PROVE Exclusive'
  BY <1>20 DEF Check
<1>21. ASSUME NEW p \in Procs, Capture(p) PROVE Exclusive'
  BY <1>21 DEF Capture, Enter
<1>22. CASE UNCHANGED vars
  BY <1>22 DEF vars
<1>24. ASSUME NEW p \in Procs, ReadFails(p) PROVE Exclusive'
  BY <1>24 DEF ReadFails
<1>25. ASSUME NEW p \in Procs, WriteFails(p) PROVE Exclusive'
  BY <1>25 DEF WriteFails
<1>23. QED
  BY <1>1, <1>2, <1>3, <1>4, <1>5, <1>6, <1>7, <1>8, <1>9, <1>10, <1>11, <1>12, <1>13,
     <1>14, <1>15, <1>16, <1>17, <1>18, <1>19, <1>20, <1>21, <1>22, <1>24, <1>25 DEF Next, WriteStep
-----------------------------------------------------------------------------
(* The footprint: what the holder has read is what was materialized last,   *)
(* and an unreadable document has somebody about to write it.               *)

Kept == (~stolen /\ ~lost) =>
    /\ Readable => doc.foot = best
    /\ doc.status = "absent" => best = {}
    /\ doc.status = "torn" => \E p \in Procs : In(p, "write")
    /\ \A p \in Procs : In(p, "truncate") \/ In(p, "write") => copy[p].foot = best

\* There is neither a document nor a footprint at first.
LEMMA InitKept == Init => Kept
<1> SUFFICES ASSUME Init PROVE Kept
  OBVIOUS
<1>1. doc.status = "absent" /\ best = {}
  BY DEF Init, NoDoc, Blank
<1>2. \A p \in Procs : pc[p] = <<"idle", "no">>
  BY DEF Init
<1>3. QED
  BY <1>1, <1>2 DEF Kept, Readable, In

\* A process that is neither before nor after a step about to write, and leaves the
\* document alone, disturbs nothing.
LEMMA BystanderKept ==
  ASSUME Kept, NEW p \in Procs, UNCHANGED <<doc, best>>, stolen => stolen', lost => lost',
         ~In(p, "write"), pc'[p][1] \notin {"truncate", "write"},
         \A q \in Procs \ {p} : pc'[q] = pc[q] /\ copy'[q] = copy[q]
  PROVE  Kept'
  BY DEF Kept, Readable, In

\* Every step keeps the footprint in the document or in the hands of the holder.
LEMMA NextKept == Pcs /\ Data /\ Exclusive /\ Kept /\ [Next]_vars => Kept'
<1> SUFFICES ASSUME Pcs, Data, Exclusive, Kept, [Next]_vars PROVE Kept'
  OBVIOUS
<1>d. pc \in [Procs -> Steps] /\ copy \in [Procs -> Document] /\ put \in [Procs -> Change]
  BY DEF Pcs, Data
<1> USE <1>d DEF At, In, Goto, Move, Write, Leave, ghosts
<1>1. ASSUME NEW p \in Procs, Mkdir(p) PROVE Kept'
  <2>1. /\ UNCHANGED <<doc, best>> /\ (stolen => stolen') /\ (lost => lost')
        /\ \A q \in Procs \ {p} : pc'[q] = pc[q] /\ copy'[q] = copy[q]
    BY <1>1 DEF Mkdir
  <2>2. ~In(p, "write") /\ pc'[p][1] \notin {"truncate", "write"}
    BY <1>1 DEF Mkdir
  <2>3. QED
    BY ONLY <2>1, <2>2, Kept, p \in Procs, BystanderKept
<1>2. ASSUME NEW p \in Procs, SeesStale(p) PROVE Kept'
  <2>1. /\ UNCHANGED <<doc, best>> /\ (stolen => stolen') /\ (lost => lost')
        /\ \A q \in Procs \ {p} : pc'[q] = pc[q] /\ copy'[q] = copy[q]
    BY <1>2 DEF SeesStale
  <2>2. ~In(p, "write") /\ pc'[p][1] \notin {"truncate", "write"}
    BY <1>2 DEF SeesStale
  <2>3. QED
    BY ONLY <2>1, <2>2, Kept, p \in Procs, BystanderKept
<1>3. ASSUME NEW p \in Procs, Steal(p) PROVE Kept'
  <2>1. /\ UNCHANGED <<doc, best>> /\ (stolen => stolen') /\ (lost => lost')
        /\ \A q \in Procs \ {p} : pc'[q] = pc[q] /\ copy'[q] = copy[q]
    BY <1>3 DEF Steal
  <2>2. ~In(p, "write") /\ pc'[p][1] \notin {"truncate", "write"}
    BY <1>3 DEF Steal
  <2>3. QED
    BY ONLY <2>1, <2>2, Kept, p \in Procs, BystanderKept
<1>4. ASSUME NEW p \in Procs, TimesOut(p) PROVE Kept'
  <2>1. /\ UNCHANGED <<doc, best>> /\ (stolen => stolen') /\ (lost => lost')
        /\ \A q \in Procs \ {p} : pc'[q] = pc[q] /\ copy'[q] = copy[q]
    BY <1>4 DEF TimesOut
  <2>2. ~In(p, "write") /\ pc'[p][1] \notin {"truncate", "write"}
    BY <1>4 DEF TimesOut
  <2>3. QED
    BY ONLY <2>1, <2>2, Kept, p \in Procs, BystanderKept
<1>5. ASSUME NEW p \in Procs, Read(p) PROVE Kept'
  <2>1. SUFFICES ASSUME ~stolen, ~lost PROVE Kept'
    BY <1>5 DEF Read, Kept
  <2>2. /\ UNCHANGED <<doc, best, stolen, lost>> /\ copy'[p] = Get
        /\ \A q \in Procs \ {p} : pc'[q] = pc[q] /\ copy'[q] = copy[q]
        /\ In(p, "read") /\ pc'[p][1] = "truncate"
    BY <1>5 DEF Read
  <2>3. \A q \in Procs \ {p} : ~In(q, "write")
    BY <2>1, <2>2 DEF Exclusive, Holding
  <2>4. doc.status # "torn"
    BY <2>1, <2>2, <2>3 DEF Kept
  <2>5. Get.foot = best
    BY <2>1, <2>4 DEF Kept, Get, Readable, Blank
  <2>6. QED
    BY <2>1, <2>2, <2>4, <2>5 DEF Kept, Readable
<1>6. ASSUME NEW p \in Procs, Truncate(p) PROVE Kept'
  <2>1. /\ UNCHANGED <<best, stolen, lost, copy>> /\ doc'.status = "torn"
        /\ \A q \in Procs \ {p} : pc'[q] = pc[q]
        /\ In(p, "truncate") /\ pc'[p][1] = "write"
    BY <1>6 DEF Truncate, Torn, Blank
  <2>2. QED
    BY <2>1 DEF Kept, Readable
<1>7. ASSUME NEW p \in Procs, WriteOut(p) PROVE Kept'
  <2>1. /\ UNCHANGED <<stolen, lost, copy>> /\ doc' = Changed(p)
        /\ best' = (IF put[p].keep THEN best ELSE put[p].foot)
        /\ \A q \in Procs \ {p} : pc'[q] = pc[q]
        /\ In(p, "write") /\ pc'[p][1] = "unlock"
    BY <1>7 DEF WriteOut
  <2>2. put[p] \in Change /\ copy[p] \in Document
    OBVIOUS
  <2>3. doc'.status \in {"none", "active", "ended"}
    BY <2>1, <2>2 DEF Changed, NewMeta, Change, Document
  <2>4. ~stolen => \A q \in Procs \ {p} : ~In(q, "write") /\ ~In(q, "truncate")
    BY <2>1 DEF Exclusive, Holding
  <2>5. ~stolen /\ ~lost => doc'.foot = best'
    BY <2>1 DEF Kept, Changed
  <2>6. QED
    BY <2>1, <2>3, <2>4, <2>5 DEF Kept, Readable
<1>8. ASSUME NEW p \in Procs, Unlock(p) PROVE Kept'
  <2>1. /\ UNCHANGED <<doc, best>> /\ (stolen => stolen') /\ (lost => lost')
        /\ \A q \in Procs \ {p} : pc'[q] = pc[q] /\ copy'[q] = copy[q]
    BY <1>8 DEF Unlock
  <2>2. ~In(p, "write") /\ pc'[p][1] \notin {"truncate", "write"}
    BY <1>8 DEF Unlock
  <2>3. QED
    BY ONLY <2>1, <2>2, Kept, p \in Procs, BystanderKept
<1>9. ASSUME NEW p \in Procs, Finish(p) PROVE Kept'
  <2>1. /\ UNCHANGED <<doc, best>> /\ (stolen => stolen') /\ (lost => lost')
        /\ \A q \in Procs \ {p} : pc'[q] = pc[q] /\ copy'[q] = copy[q]
    BY <1>9 DEF Finish
  <2>2. ~In(p, "write") /\ pc'[p][1] \notin {"truncate", "write"}
    BY <1>9 DEF Finish
  <2>3. QED
    BY ONLY <2>1, <2>2, Kept, p \in Procs, BystanderKept
<1>10. ASSUME NEW p \in Procs, Crash(p) PROVE Kept'
  <2>1. CASE In(p, "write")
    BY <1>10, <2>1 DEF Crash, Kept
  <2>2. CASE ~In(p, "write")
    <3>1. /\ UNCHANGED <<doc, best>> /\ (stolen => stolen') /\ (lost => lost')
          /\ \A q \in Procs \ {p} : pc'[q] = pc[q] /\ copy'[q] = copy[q]
      BY <1>10 DEF Crash
    <3>2. pc'[p][1] \notin {"truncate", "write"}
      BY <1>10 DEF Crash
    <3>3. QED
      BY ONLY <2>2, <3>1, <3>2, Kept, p \in Procs, BystanderKept
  <2>3. QED
    BY ONLY <2>1, <2>2
<1>11. ASSUME NEW p \in Procs, SpanEnds(p) PROVE Kept'
  <2>1. /\ UNCHANGED <<doc, best>> /\ (stolen => stolen') /\ (lost => lost')
        /\ \A q \in Procs \ {p} : pc'[q] = pc[q] /\ copy'[q] = copy[q]
    BY <1>11 DEF SpanEnds
  <2>2. ~In(p, "write") /\ pc'[p][1] \notin {"truncate", "write"}
    BY <1>11 DEF SpanEnds
  <2>3. QED
    BY ONLY <2>1, <2>2, Kept, p \in Procs, BystanderKept
<1>12. ASSUME NEW p \in Procs, Store(p) PROVE Kept'
  <2>1. /\ UNCHANGED <<doc, best>> /\ (stolen => stolen') /\ (lost => lost')
        /\ \A q \in Procs \ {p} : pc'[q] = pc[q] /\ copy'[q] = copy[q]
    BY <1>12 DEF Store
  <2>2. ~In(p, "write") /\ pc'[p][1] \notin {"truncate", "write"}
    BY <1>12 DEF Store
  <2>3. QED
    BY ONLY <2>1, <2>2, Kept, p \in Procs, BystanderKept
<1>13. ASSUME NEW p \in Procs, Upsert(p) PROVE Kept'
  <2>1. /\ UNCHANGED <<doc, best>> /\ (stolen => stolen') /\ (lost => lost')
        /\ \A q \in Procs \ {p} : pc'[q] = pc[q] /\ copy'[q] = copy[q]
    BY <1>13 DEF Upsert
  <2>2. ~In(p, "write") /\ pc'[p][1] \notin {"truncate", "write"}
    BY <1>13 DEF Upsert
  <2>3. QED
    BY ONLY <2>1, <2>2, Kept, p \in Procs, BystanderKept
<1>14. ASSUME NEW p \in Procs, Repair(p) PROVE Kept'
  <2>1. /\ UNCHANGED <<doc, best>> /\ (stolen => stolen') /\ (lost => lost')
        /\ \A q \in Procs \ {p} : pc'[q] = pc[q] /\ copy'[q] = copy[q]
    BY <1>14 DEF Repair
  <2>2. ~In(p, "write") /\ pc'[p][1] \notin {"truncate", "write"}
    BY <1>14 DEF Repair
  <2>3. QED
    BY ONLY <2>1, <2>2, Kept, p \in Procs, BystanderKept
<1>15. ASSUME NEW p \in Procs, NEW r \in Loads, Load(p, r) PROVE Kept'
  <2>1. /\ UNCHANGED <<doc, best>> /\ (stolen => stolen') /\ (lost => lost')
        /\ \A q \in Procs \ {p} : pc'[q] = pc[q] /\ copy'[q] = copy[q]
    BY <1>15 DEF Load
  <2>2. ~In(p, "write") /\ pc'[p][1] \notin {"truncate", "write"}
    BY <1>15 DEF Load
  <2>3. QED
    BY ONLY <2>1, <2>2, Kept, p \in Procs, BystanderKept
<1>16. ASSUME NEW p \in Procs, Materialize(p) PROVE Kept'
  <2>1. /\ UNCHANGED <<doc, best>> /\ (stolen => stolen') /\ (lost => lost')
        /\ \A q \in Procs \ {p} : pc'[q] = pc[q] /\ copy'[q] = copy[q]
    BY <1>16 DEF Materialize
  <2>2. ~In(p, "write") /\ pc'[p][1] \notin {"truncate", "write"}
    BY <1>16 DEF Materialize
  <2>3. QED
    BY ONLY <2>1, <2>2, Kept, p \in Procs, BystanderKept
<1>17. ASSUME NEW p \in Procs, Claim(p) PROVE Kept'
  <2>1. /\ UNCHANGED <<doc, best>> /\ (stolen => stolen') /\ (lost => lost')
        /\ \A q \in Procs \ {p} : pc'[q] = pc[q] /\ copy'[q] = copy[q]
    BY <1>17 DEF Claim
  <2>2. ~In(p, "write") /\ pc'[p][1] \notin {"truncate", "write"}
    BY <1>17 DEF Claim
  <2>3. QED
    BY ONLY <2>1, <2>2, Kept, p \in Procs, BystanderKept
<1>18. ASSUME NEW p \in Procs, ClaimBusy(p) PROVE Kept'
  <2>1. /\ UNCHANGED <<doc, best>> /\ (stolen => stolen') /\ (lost => lost')
        /\ \A q \in Procs \ {p} : pc'[q] = pc[q] /\ copy'[q] = copy[q]
    BY <1>18 DEF ClaimBusy
  <2>2. ~In(p, "write") /\ pc'[p][1] \notin {"truncate", "write"}
    BY <1>18 DEF ClaimBusy
  <2>3. QED
    BY ONLY <2>1, <2>2, Kept, p \in Procs, BystanderKept
<1>19. ASSUME NEW p \in Procs, Skip(p) PROVE Kept'
  <2>1. /\ UNCHANGED <<doc, best>> /\ (stolen => stolen') /\ (lost => lost')
        /\ \A q \in Procs \ {p} : pc'[q] = pc[q] /\ copy'[q] = copy[q]
    BY <1>19 DEF Skip
  <2>2. ~In(p, "write") /\ pc'[p][1] \notin {"truncate", "write"}
    BY <1>19 DEF Skip
  <2>3. QED
    BY ONLY <2>1, <2>2, Kept, p \in Procs, BystanderKept
<1>20. ASSUME NEW p \in Procs, Check(p) PROVE Kept'
  <2>1. /\ UNCHANGED <<doc, best>> /\ (stolen => stolen') /\ (lost => lost')
        /\ \A q \in Procs \ {p} : pc'[q] = pc[q] /\ copy'[q] = copy[q]
    BY <1>20 DEF Check
  <2>2. ~In(p, "write") /\ pc'[p][1] \notin {"truncate", "write"}
    BY <1>20 DEF Check
  <2>3. QED
    BY ONLY <2>1, <2>2, Kept, p \in Procs, BystanderKept
<1>21. ASSUME NEW p \in Procs, Capture(p) PROVE Kept'
  <2>1. /\ UNCHANGED <<doc, best>> /\ (stolen => stolen') /\ (lost => lost')
        /\ \A q \in Procs \ {p} : pc'[q] = pc[q] /\ copy'[q] = copy[q]
    BY <1>21 DEF Capture
  <2>2. ~In(p, "write") /\ pc'[p][1] \notin {"truncate", "write"}
    BY <1>21 DEF Capture
  <2>3. QED
    BY ONLY <2>1, <2>2, Kept, p \in Procs, BystanderKept
<1>22. CASE UNCHANGED vars
  <2>1. UNCHANGED <<doc, best, stolen, lost, pc, copy>>
    BY <1>22 DEF vars
  <2>2. QED
    BY ONLY <2>1, Kept DEF Kept, Readable, In
<1>24. ASSUME NEW p \in Procs, ReadFails(p) PROVE Kept'
  BY <1>24 DEF ReadFails, Kept
<1>25. ASSUME NEW p \in Procs, WriteFails(p) PROVE Kept'
  <2>1. CASE In(p, "write")
    BY <1>25, <2>1 DEF WriteFails, Kept
  <2>2. CASE ~In(p, "write")
    <3>1. /\ UNCHANGED <<doc, best>> /\ (stolen => stolen') /\ (lost => lost')
          /\ \A q \in Procs \ {p} : pc'[q] = pc[q] /\ copy'[q] = copy[q]
      BY <1>25 DEF WriteFails
    <3>2. pc'[p][1] \notin {"truncate", "write"}
      BY <1>25 DEF WriteFails
    <3>3. QED
      BY ONLY <2>2, <3>1, <3>2, Kept, p \in Procs, BystanderKept
  <2>3. QED
    BY ONLY <2>1, <2>2
<1>23. QED
  BY <1>1, <1>2, <1>3, <1>4, <1>5, <1>6, <1>7, <1>8, <1>9, <1>10, <1>11, <1>12, <1>13,
     <1>14, <1>15, <1>16, <1>17, <1>18, <1>19, <1>20, <1>21, <1>22, <1>24, <1>25 DEF Next, WriteStep

\* The lock and the footprint, together with the types, are inductive.
LEMMA NextDocInv == DocTyped /\ Exclusive /\ Kept /\ [Next]_vars => (DocTyped /\ Exclusive /\ Kept)'
  BY NextDocTyped, NextExclusive, NextKept DEF DocTyped

\* While no lock directory was removed under a live holder, and no write was cut off
\* halfway or began with a failed read, the document keeps the footprint materialized
\* last, for any number of hooks, finalizers, refreshes, repairs and captures.
THEOREM FootprintStays == Spec => []FootprintKept
<1>1. Kept => FootprintKept
  BY DEF Kept, FootprintKept
<1>2. QED
  BY <1>1, InitDocTyped, InitExclusive, InitKept, NextDocInv, PTL DEF Spec
-----------------------------------------------------------------------------
(* What a finalize leaves.  A change that ends the session was made by one  *)
(* materializer at a time, unless a refresh got in between; it covers every *)
(* span stored by then, and a span stored later is later, or known as late. *)

\* Spans and ends are numbered from one clock, so no span has the time of an end.
Ends == {doc.end} \cup {put[p].end : p \in Procs} \cup {copy[p].end : p \in Procs}
Apart ==
    /\ log \subseteq 1..clock
    /\ \A p \in Procs : spans[p] \subseteq 1..clock
    /\ \A e \in Ends : e # None => e =< clock /\ e \notin log /\ \A p \in Procs : e \notin spans[p]

\* Who is at which step, and how many materializers there may be.
Crew ==
    /\ \A p \in Procs : At(p, "store") \/ At(p, "upsert") => role[p] = "hook"
    /\ \A p \in Procs : At(p, "materialize") \/ pc[p][2] \in {"ended", "update", "replay"} => Materializer(p)
    /\ \A p \in Procs : role[p] = "finalize" /\ ~At(p, "claim") => claim = p
    /\ ~mixed => \A p, q \in Procs :
          p # q /\ Materializer(p) /\ Materializer(q) =>
              role[p] = "finalize" /\ role[q] = "finalize"

\* What a process asks for at which call.
Asks == \A p \in Procs :
    /\ ~put[p].keep <=> pc[p][2] = "ended"
    /\ pc[p][2] = "ended" => put[p].status = "ended"
    /\ role[p] = "finalize" /\ pc[p][2] = "update" => put[p].status = "ended"
    /\ At(p, "idle") => put[p].status # "ended"

\* While no refresh gets in between, an end that is about to be written is the newest.
Newest == ~mixed => \A p \in Procs :
    pc[p][2] = "ended" => put[p].end # None /\ \A e \in Ends : e # None => e =< put[p].end

\* The spans before an end that are not known as late are in the footprint.
Covered(end, foot) == end # None /\ \A t \in log \ late : t < end => t \in foot
Orderly == ~stolen /\ ~lost /\ ~mixed
Wrote(p) == pc[p][2] # "ended" \/ In(p, "unlock")
Copied(p) == In(p, "truncate") \/ In(p, "write")
Covering ==
    /\ Orderly /\ doc.status = "ended" => Covered(doc.end, doc.foot)
    /\ \A p \in Procs : pc[p][2] = "ended" => Covered(put[p].end, put[p].foot)
    /\ Orderly => \A p \in Procs :
          /\ put[p].status = "ended" /\ Wrote(p) => Covered(put[p].end, best)
          /\ copy[p].status = "ended" /\ Copied(p) => Covered(copy[p].end, best)

\* A finalize that runs alone has loaded the log, and has the session end with it.
Solitary == \A p \in Procs : alone[p] =>
    /\ \A q \in Procs \ {p} : At(q, "idle")
    /\ ~At(p, "idle") => role[p] = "finalize" /\ spans[p] = log
    /\ pc[p][2] = "ended" => log \subseteq put[p].foot
    /\ pc[p] = <<"unlock", "ended">> \/ pc[p][2] \in {"update", "replay"} \/ At(p, "done") =>
          log \subseteq best
    /\ ~lost /\ (pc[p] = <<"unlock", "update">> \/ (pc[p][2] = "replay" /\ ~Copied(p)) \/ At(p, "done")) =>
          doc.status = "ended"
    /\ ~lost /\ pc[p][2] = "replay" /\ Copied(p) => copy[p].status = "ended"
    /\ pc[p][2] # "summary"

\* No new time: the spans and the ends are some that were there, and nobody begins to
\* end the session.
Known == log \cup UNION {spans[p] : p \in Procs}
NothingNew ==
    /\ clock' = clock /\ log' \subseteq Known /\ \A p \in Procs : spans'[p] \subseteq Known
    /\ doc'.end \in Ends \cup {None}
    /\ \A p \in Procs : put'[p].end \in Ends \cup {None} /\ copy'[p].end \in Ends \cup {None}
    /\ \A p \in Procs : pc'[p][2] = "ended" => pc[p][2] = "ended" /\ put'[p].end = put[p].end
    /\ mixed => mixed'
\* Then spans and ends stay apart.
LEMMA NothingNewApart == ASSUME Apart, NothingNew PROVE Apart'
<1>1. Ends' \subseteq Ends \cup {None}
  BY DEF NothingNew, Ends
<1>2. Known \subseteq 1..clock /\ \A e \in Ends : e # None => e \notin Known
  BY DEF Apart, Known
<1>3. QED
  BY <1>1, <1>2 DEF Apart, NothingNew

\* The ends that are asked for, read and written are those of the changes.
LEMMA EndFacts ==
    ASSUME Data
    PROVE  /\ Nothing.end = None /\ Torn.end = None /\ Blank.end = None
           /\ Get.end \in Ends \cup {None}
           /\ \A s, e : Meta(s, e).end = e
           /\ \A p \in Procs : {Changed(p).end, put[p].end, copy[p].end} \subseteq Ends
           /\ doc.end \in Ends /\ Ends \subseteq Times \cup {None}
<1>1. doc.end \in Times \cup {None}
  <2>1. NoDoc.end = None /\ Torn.end = None /\ \A d \in Document : d.end \in Times \cup {None}
    BY DEF NoDoc, Torn, Blank, Document, Maybe
  <2>2. QED
    BY <2>1 DEF Data
<1>2. \A p \in Procs : put[p].end \in Times \cup {None} /\ copy[p].end \in Times \cup {None}
  <2>1. \A p \in Procs : copy[p] \in Document
    BY DEF Data
  <2>2. QED
    BY <2>1, DocFacts DEF Document, Maybe
<1>3. Ends \subseteq Times \cup {None}
  BY <1>1, <1>2 DEF Ends
<1>4. \A p \in Procs : {Changed(p).end, put[p].end, copy[p].end} \subseteq Ends
  BY DEF Changed, NewMeta, Ends
<1>5. Get.end \in Ends \cup {None}
  BY DEF Get, Ends, Blank
<1>6. QED
  BY <1>3, <1>4, <1>5 DEF Nothing, Torn, Blank, Ends, Meta

\* Only a span that ends and a materializer take a new time.
LEMMA NextNothingNew ==
    ASSUME Data, Pcs, [Next]_vars
    PROVE  NothingNew \/ \E p \in Procs : SpanEnds(p) \/ Materialize(p)
<1>d. /\ put \in [Procs -> Change] /\ copy \in [Procs -> Document] /\ pc \in [Procs -> Steps]
      /\ spans \in [Procs -> SUBSET Times] /\ log \subseteq Known
      /\ \A q \in Procs : spans[q] \subseteq Known
  BY DEF Data, Pcs, Known
<1> USE <1>d, EndFacts DEF NothingNew, Goto, Move, In, Write, Leave, ghosts
<1>1. ASSUME NEW p \in Procs, Mkdir(p) PROVE NothingNew
  BY <1>1 DEF Mkdir
<1>2. ASSUME NEW p \in Procs, SeesStale(p) PROVE NothingNew
  BY <1>2 DEF SeesStale
<1>3. ASSUME NEW p \in Procs, Steal(p) PROVE NothingNew
  BY <1>3 DEF Steal
<1>4. ASSUME NEW p \in Procs, TimesOut(p) PROVE NothingNew
  BY <1>4 DEF TimesOut
<1>5. ASSUME NEW p \in Procs, Read(p) PROVE NothingNew
  BY <1>5 DEF Read
<1>6. ASSUME NEW p \in Procs, Truncate(p) PROVE NothingNew
  BY <1>6 DEF Truncate
<1>7. ASSUME NEW p \in Procs, WriteOut(p) PROVE NothingNew
  BY <1>7 DEF WriteOut
<1>8. ASSUME NEW p \in Procs, Unlock(p) PROVE NothingNew
  BY <1>8 DEF Unlock
<1>9. ASSUME NEW p \in Procs, Finish(p) PROVE NothingNew
  BY <1>9 DEF Finish
<1>10. ASSUME NEW p \in Procs, Crash(p) PROVE NothingNew
  BY <1>10 DEF Crash
<1>12. ASSUME NEW p \in Procs, Store(p) PROVE NothingNew
  BY <1>12 DEF Store
<1>13. ASSUME NEW p \in Procs, Upsert(p) PROVE NothingNew
  <2>1. CASE Get.status = "ended"
    BY <1>13, <2>1 DEF Upsert
  <2>2. CASE Get.status # "ended"
    BY <1>13, <2>2 DEF Upsert
  <2>3. QED
    BY <2>1, <2>2
<1>14. ASSUME NEW p \in Procs, Repair(p) PROVE NothingNew
  BY <1>14 DEF Repair, Enter
<1>15. ASSUME NEW p \in Procs, NEW r \in Loads, Load(p, r) PROVE NothingNew
  <2>1. /\ UNCHANGED <<clock, log, doc, copy>> /\ (mixed => mixed') /\ spans' = [spans EXCEPT ![p] = log]
        /\ \/ put' = put
           \/ put' = [put EXCEPT ![p] = Meta("active", None)]
        /\ \A q \in Procs \ {p} : pc'[q] = pc[q]
        /\ pc'[p][2] # "ended"
    <3>1. (mixed => mixed')
      BY <1>15 DEF Load, Enter
    <3>2. /\ UNCHANGED <<clock, log, doc, copy>> /\ spans' = [spans EXCEPT ![p] = log]
          /\ \A q \in Procs \ {p} : pc'[q] = pc[q]
          /\ pc'[p][2] # "ended"
      BY <1>15 DEF Load
    <3>3. put' = put \/ put' = [put EXCEPT ![p] = Meta("active", None)]
      BY <1>15 DEF Load
    <3>4. QED
      BY <3>1, <3>2, <3>3
  <2>2. \A q \in Procs : put'[q].end \in Ends \cup {None}
    <3>1. \A q \in Procs : put'[q] = put[q] \/ put'[q] = Meta("active", None)
      BY <2>1
    <3>2. Meta("active", None).end = None
      BY EndFacts
    <3>3. QED
      BY <3>1, <3>2
  <2>3. \A q \in Procs : pc'[q][2] = "ended" => pc[q][2] = "ended" /\ put'[q].end = put[q].end
    <3>1. \A q \in Procs \ {p} : put'[q] = put[q]
      BY <2>1
    <3>2. QED
      BY <2>1, <3>1
  <2>4. QED
    BY <2>1, <2>2, <2>3
<1>17. ASSUME NEW p \in Procs, Claim(p) PROVE NothingNew
  BY <1>17 DEF Claim
<1>18. ASSUME NEW p \in Procs, ClaimBusy(p) PROVE NothingNew
  BY <1>18 DEF ClaimBusy
<1>19. ASSUME NEW p \in Procs, Skip(p) PROVE NothingNew
  BY <1>19 DEF Skip
<1>20. ASSUME NEW p \in Procs, Check(p) PROVE NothingNew
  BY <1>20 DEF Check
<1>21. ASSUME NEW p \in Procs, Capture(p) PROVE NothingNew
  BY <1>21 DEF Capture, Enter
<1>22. CASE UNCHANGED vars
  BY <1>22 DEF vars
<1>24. ASSUME NEW p \in Procs, ReadFails(p) PROVE NothingNew
  BY <1>24 DEF ReadFails
<1>25. ASSUME NEW p \in Procs, WriteFails(p) PROVE NothingNew
  BY <1>25 DEF WriteFails
<1>23. QED
  BY <1>1, <1>2, <1>3, <1>4, <1>5, <1>6, <1>7, <1>8, <1>9, <1>10, <1>12, <1>13, <1>14, <1>15, <1>17, <1>18, <1>19, <1>20, <1>21, <1>22, <1>24, <1>25 DEF Next, WriteStep

\* A new span or end takes the next time of the clock.
LEMMA NextApart == Data /\ Pcs /\ Apart /\ [Next]_vars => Apart'
<1> SUFFICES ASSUME Data, Pcs, Apart, [Next]_vars PROVE Apart'
  OBVIOUS
<1>e. (\A e \in Ends : e \in Nat \cup {None}) /\ spans \in [Procs -> SUBSET Times]
      /\ put \in [Procs -> Change]
  BY EndFacts, DocAssumption DEF Times, Data
<1>1. CASE NothingNew
  BY <1>1, NothingNewApart
<1>2. ASSUME NEW p \in Procs, SpanEnds(p) PROVE Apart'
  <2>1. /\ clock' = clock + 1 /\ clock \in Nat /\ UNCHANGED <<log, put, copy, doc>>
        /\ spans'[p] = {clock + 1} /\ \A q \in Procs \ {p} : spans'[q] = spans[q]
    BY <1>e, <1>2, DocAssumption DEF SpanEnds, Data
  <2>2. Ends' = Ends
    BY <2>1 DEF Ends
  <2>3. QED
    BY <1>e, <2>1, <2>2, DocAssumption DEF Apart
<1>3. ASSUME NEW p \in Procs, Materialize(p) PROVE Apart'
  <2>1. /\ clock' = clock + 1 /\ clock \in Nat /\ UNCHANGED <<log, spans, copy, doc>>
        /\ put'[p].end = clock + 1 /\ \A q \in Procs \ {p} : put'[q] = put[q]
    BY <1>e, <1>3, DocAssumption DEF Materialize, Write, Data
  <2>2. Ends' \subseteq Ends \cup {clock + 1}
    BY <2>1 DEF Ends
  <2>3. QED
    BY <1>e, <2>1, <2>2, DocAssumption DEF Apart
<1>4. QED
  BY <1>1, <1>2, <1>3, NextNothingNew

\* Who enters beside another materializer is counted, when one of the two is a refresh.
LEMMA EnterCrew ==
    ASSUME Pcs, Claims, Crew, NEW p \in Procs, At(p, "idle"),
           NEW r \in {"hook", "repair", "capture", "finalize", "refresh"},
           Enter(p, r), UNCHANGED claim, \A q \in Procs \ {p} : pc'[q] = pc[q],
           (At(p, "store") \/ At(p, "upsert"))' => r = "hook",
           ~At(p, "materialize")', pc'[p][2] \notin {"ended", "update", "replay"},
           r = "finalize" => At(p, "claim")'
    PROVE  Crew'
<1> USE DEF Claims, At, Materializer
<1>1. role' = [role EXCEPT ![p] = r] /\ role'[p] = r /\ \A q \in Procs \ {p} : role'[q] = role[q]
  BY DEF Enter
<1>2. \A q \in Procs : (At(q, "store") \/ At(q, "upsert"))' => role'[q] = "hook"
  BY <1>1 DEF Crew
<1>3. \A q \in Procs : At(q, "materialize")' \/ pc'[q][2] \in {"ended", "update", "replay"} => Materializer(q)'
  BY <1>1 DEF Crew
<1>4. \A q \in Procs : role'[q] = "finalize" /\ ~At(q, "claim")' => claim' = q
  BY <1>1 DEF Crew
<1>5. ASSUME ~mixed', NEW x \in Procs, NEW y \in Procs, x # y, Materializer(x)', Materializer(y)'
      PROVE  role'[x] = "finalize" /\ role'[y] = "finalize"
  <2>1. ~mixed /\ \A o \in Procs \ {p} :
            ~(/\ {r, role[o]} \subseteq {"finalize", "refresh"} /\ "refresh" \in {r, role[o]})
    BY <1>5 DEF Enter
  <2>2. \A o \in Procs \ {p} : Materializer(o) /\ r \in {"finalize", "refresh"} =>
            r = "finalize" /\ role[o] = "finalize"
    BY <2>1
  <2>3. QED
    BY <1>1, <1>5, <2>1, <2>2 DEF Crew
<1>6. QED
  BY <1>2, <1>3, <1>4, <1>5 DEF Crew

\* Every step keeps the processes at the steps of their roles.
LEMMA NextCrew == Pcs /\ Flags /\ Claims /\ Crew /\ [Next]_vars => Crew'
<1> SUFFICES ASSUME Pcs, Flags, Claims, Crew, [Next]_vars PROVE Crew'
  OBVIOUS
<1> USE DocAssumption DEF Pcs, Claims, Crew, Materializer, At, In, Goto, Move, Write, Leave, ghosts
<1>1. ASSUME NEW p \in Procs, Mkdir(p) PROVE Crew'
  BY <1>1 DEF Mkdir
<1>2. ASSUME NEW p \in Procs, SeesStale(p) PROVE Crew'
  BY <1>2 DEF SeesStale
<1>3. ASSUME NEW p \in Procs, Steal(p) PROVE Crew'
  BY <1>3 DEF Steal
<1>4. ASSUME NEW p \in Procs, TimesOut(p) PROVE Crew'
  BY <1>4 DEF TimesOut
<1>5. ASSUME NEW p \in Procs, Read(p) PROVE Crew'
  BY <1>5 DEF Read
<1>6. ASSUME NEW p \in Procs, Truncate(p) PROVE Crew'
  BY <1>6 DEF Truncate
<1>7. ASSUME NEW p \in Procs, WriteOut(p) PROVE Crew'
  BY <1>7 DEF WriteOut
<1>8. ASSUME NEW p \in Procs, Unlock(p) PROVE Crew'
  BY <1>8 DEF Unlock
<1>9. ASSUME NEW p \in Procs, Finish(p) PROVE Crew'
  BY <1>9 DEF Finish
<1>10. ASSUME NEW p \in Procs, Crash(p) PROVE Crew'
  BY <1>10 DEF Crash
<1>11. ASSUME NEW p \in Procs, SpanEnds(p) PROVE Crew'
  BY <1>11, EnterCrew DEF SpanEnds
<1>12. ASSUME NEW p \in Procs, Store(p) PROVE Crew'
  BY <1>12 DEF Store
<1>13. ASSUME NEW p \in Procs, Upsert(p) PROVE Crew'
  BY <1>13 DEF Upsert
<1>14. ASSUME NEW p \in Procs, Repair(p) PROVE Crew'
  BY <1>14, EnterCrew DEF Repair
<1>15. ASSUME NEW p \in Procs, NEW r \in Loads, Load(p, r) PROVE Crew'
  <2>1. r \in {"finalize", "refresh"}
    BY DocAssumption
  <2>2. QED
    BY <1>15, <2>1, EnterCrew DEF Load
<1>16. ASSUME NEW p \in Procs, Materialize(p) PROVE Crew'
  BY <1>16 DEF Materialize
<1>17. ASSUME NEW p \in Procs, Claim(p) PROVE Crew'
  BY <1>17 DEF Claim
<1>18. ASSUME NEW p \in Procs, ClaimBusy(p) PROVE Crew'
  BY <1>18 DEF ClaimBusy
<1>19. ASSUME NEW p \in Procs, Skip(p) PROVE Crew'
  BY <1>19 DEF Skip
<1>20. ASSUME NEW p \in Procs, Check(p) PROVE Crew'
  BY <1>20 DEF Check
<1>21. ASSUME NEW p \in Procs, Capture(p) PROVE Crew'
  BY <1>21, EnterCrew DEF Capture
<1>22. CASE UNCHANGED vars
  BY <1>22 DEF vars
<1>24. ASSUME NEW p \in Procs, ReadFails(p) PROVE Crew'
  BY <1>24 DEF ReadFails
<1>25. ASSUME NEW p \in Procs, WriteFails(p) PROVE Crew'
  BY <1>25 DEF WriteFails
<1>23. QED
  BY <1>1, <1>2, <1>3, <1>4, <1>5, <1>6, <1>7, <1>8, <1>9, <1>10, <1>11, <1>12, <1>13,
     <1>14, <1>15, <1>16, <1>17, <1>18, <1>19, <1>20, <1>21, <1>22, <1>24, <1>25 DEF Next, WriteStep

\* What a change asks for.
LEMMA Wants ==
    /\ Nothing.status = "none" /\ Nothing.keep
    /\ \A st, e : Meta(st, e).status = st /\ Meta(st, e).keep
  BY DEF Nothing, Meta

\* Every step asks for what its call is for.
LEMMA NextAsks == Pcs /\ Data /\ Claims /\ Crew /\ Asks /\ [Next]_vars => Asks'
<1> SUFFICES ASSUME Pcs, Data, Claims, Crew, Asks, [Next]_vars PROVE Asks'
  OBVIOUS
<1>d. put \in [Procs -> Change] /\ pc \in [Procs -> Steps] /\ role \in [Procs -> Roles]
  BY DEF Data, Pcs, Claims
<1> USE <1>d, Wants DEF Crew, Asks, Materializer, At, In, Goto, Move, Write, Leave, ghosts
<1>1. ASSUME NEW p \in Procs, Mkdir(p) PROVE Asks'
  BY <1>1 DEF Mkdir
<1>2. ASSUME NEW p \in Procs, SeesStale(p) PROVE Asks'
  BY <1>2 DEF SeesStale
<1>3. ASSUME NEW p \in Procs, Steal(p) PROVE Asks'
  BY <1>3 DEF Steal
<1>4. ASSUME NEW p \in Procs, TimesOut(p) PROVE Asks'
  BY <1>4 DEF TimesOut
<1>5. ASSUME NEW p \in Procs, Read(p) PROVE Asks'
  BY <1>5 DEF Read
<1>6. ASSUME NEW p \in Procs, Truncate(p) PROVE Asks'
  BY <1>6 DEF Truncate
<1>7. ASSUME NEW p \in Procs, WriteOut(p) PROVE Asks'
  BY <1>7 DEF WriteOut
<1>8. ASSUME NEW p \in Procs, Unlock(p) PROVE Asks'
  BY <1>8 DEF Unlock
<1>9. ASSUME NEW p \in Procs, Finish(p) PROVE Asks'
  BY <1>9 DEF Finish
<1>10. ASSUME NEW p \in Procs, Crash(p) PROVE Asks'
  BY <1>10 DEF Crash
<1>11. ASSUME NEW p \in Procs, SpanEnds(p) PROVE Asks'
  BY <1>11 DEF SpanEnds, Enter
<1>12. ASSUME NEW p \in Procs, Store(p) PROVE Asks'
  BY <1>12 DEF Store
<1>13. ASSUME NEW p \in Procs, Upsert(p) PROVE Asks'
  BY <1>13 DEF Upsert
<1>14. ASSUME NEW p \in Procs, Repair(p) PROVE Asks'
  BY <1>14 DEF Repair, Enter
<1>15. ASSUME NEW p \in Procs, NEW r \in Loads, Load(p, r) PROVE Asks'
  BY <1>15 DEF Load, Enter
<1>16. ASSUME NEW p \in Procs, Materialize(p) PROVE Asks'
  BY <1>16 DEF Materialize
<1>17. ASSUME NEW p \in Procs, Claim(p) PROVE Asks'
  BY <1>17 DEF Claim
<1>18. ASSUME NEW p \in Procs, ClaimBusy(p) PROVE Asks'
  BY <1>18 DEF ClaimBusy
<1>19. ASSUME NEW p \in Procs, Skip(p) PROVE Asks'
  BY <1>19 DEF Skip
<1>20. ASSUME NEW p \in Procs, Check(p) PROVE Asks'
  BY <1>20 DEF Check
<1>21. ASSUME NEW p \in Procs, Capture(p) PROVE Asks'
  BY <1>21 DEF Capture, Enter
<1>22. CASE UNCHANGED vars
  BY <1>22 DEF vars
<1>24. ASSUME NEW p \in Procs, ReadFails(p) PROVE Asks'
  BY <1>24 DEF ReadFails
<1>25. ASSUME NEW p \in Procs, WriteFails(p) PROVE Asks'
  BY <1>25 DEF WriteFails
<1>23. QED
  BY <1>1, <1>2, <1>3, <1>4, <1>5, <1>6, <1>7, <1>8, <1>9, <1>10, <1>11, <1>12, <1>13,
     <1>14, <1>15, <1>16, <1>17, <1>18, <1>19, <1>20, <1>21, <1>22, <1>24, <1>25 DEF Next, WriteStep

\* A finalize is alone until somebody enters.
LEMMA NextSolitary ==
    Pcs /\ Data /\ Claims /\ Crew /\ Asks /\ Asks' /\ Solitary /\ [Next]_vars => Solitary'
<1> SUFFICES ASSUME Pcs, Data, Claims, Crew, Asks, Asks', Solitary, [Next]_vars PROVE Solitary'
  OBVIOUS
<1>d. /\ put \in [Procs -> Change] /\ pc \in [Procs -> Steps] /\ role \in [Procs -> Roles]
      /\ spans \in [Procs -> SUBSET Times] /\ copy \in [Procs -> Document]
  BY DEF Data, Pcs, Claims
<1> USE <1>d, Wants DEF Solitary, Copied, Materializer, At, In, Goto, Move, Write, Leave, ghosts
<1>1. ASSUME NEW p \in Procs, Mkdir(p) PROVE Solitary'
  BY <1>1 DEF Mkdir
<1>2. ASSUME NEW p \in Procs, SeesStale(p) PROVE Solitary'
  BY <1>2 DEF SeesStale
<1>3. ASSUME NEW p \in Procs, Steal(p) PROVE Solitary'
  BY <1>3 DEF Steal
<1>4. ASSUME NEW p \in Procs, TimesOut(p) PROVE Solitary'
  <2>1. /\ UNCHANGED <<alone, log, best, doc>> /\ ~At(p, "idle")
        /\ \A q \in Procs \ {p} : pc'[q] = pc[q] /\ spans'[q] = spans[q]
    BY <1>4 DEF TimesOut
  <2>2. \A q \in Procs \ {p} : ~alone[q]
    BY <2>1
  <2>3. \/ pc'[p] = <<"idle", "no">>
        \/ /\ pc[p][1] = "lock" /\ pc[p][2] = "start"
           /\ pc'[p] = <<"materialize", "no">> /\ UNCHANGED <<role, spans>>
    BY <1>4 DEF TimesOut
  <2>4. \A x \in {<<"idle", "no">>, <<"materialize", "no">>} :
            /\ x # <<"unlock", "ended">> /\ x # <<"unlock", "update">> /\ x # <<"done", "no">>
            /\ x[1] \notin {"truncate", "write"} /\ x[2] = "no"
    OBVIOUS
  <2>5. alone[p] => /\ \A q \in Procs \ {p} : At(q, "idle")'
                    /\ ~At(p, "idle")' => role'[p] = "finalize" /\ spans'[p] = log
    BY <2>1, <2>3
  <2>6. /\ pc'[p] # <<"unlock", "ended">> /\ pc'[p] # <<"unlock", "update">> /\ ~At(p, "done")'
        /\ pc'[p][1] \notin {"truncate", "write"} /\ pc'[p][2] = "no"
    BY <2>3, <2>4
  <2>7. alone' = alone /\ log' = log
    BY <2>1
  <2>8. \A q \in Procs : alone'[q] => q = p
    BY <2>2, <2>7
  <2>9. QED
    <3>1. alone[p] \/ \A q \in Procs : ~alone'[q]
      BY <2>7, <2>8
    <3>2. alone[p] => \A q \in Procs \ {p} : pc'[q] = <<"idle", "no">>
      BY <2>5
    <3>3. alone[p] /\ ~At(p, "idle")' => role'[p] = "finalize" /\ spans'[p] = log'
      BY <2>5, <2>7
    <3>4. QED
      BY ONLY <2>6, <2>8, <3>1, <3>2, <3>3, p \in Procs DEF Solitary, Copied, At, In
<1>5. ASSUME NEW p \in Procs, Read(p) PROVE Solitary'
  <2>1. /\ UNCHANGED <<alone, role, spans, log, best, doc, put, lost>> /\ copy'[p] = Get
        /\ \A q \in Procs \ {p} : pc'[q] = pc[q] /\ copy'[q] = copy[q]
        /\ pc[p] = <<"read", pc[p][2]>> /\ pc'[p] = <<"truncate", pc[p][2]>>
    BY <1>5, StepFacts DEF Read, Holding, Writing
  <2>2. doc.status = "ended" => Get.status = "ended"
    BY DEF Get, Readable
  <2>3. \A q \in Procs : alone'[q] => q = p
    BY <2>1
  <2>4. ASSUME alone[p]
        PROVE  /\ role[p] = "finalize" /\ spans[p] = log /\ pc[p][2] # "summary"
               /\ pc[p][2] = "ended" => log \subseteq put[p].foot
               /\ pc[p][2] \in {"update", "replay"} => log \subseteq best
               /\ ~lost /\ pc[p][2] = "replay" => doc.status = "ended"
               /\ \A q \in Procs \ {p} : pc[q] = <<"idle", "no">>
    BY <2>1, <2>4
  <2>5. /\ pc'[p] # <<"unlock", "ended">> /\ pc'[p] # <<"unlock", "update">> /\ ~At(p, "done")'
        /\ pc'[p][1] = "truncate" /\ pc'[p][2] = pc[p][2] /\ ~At(p, "idle")'
    BY <2>1
  <2>6. QED
    BY ONLY <2>1, <2>2, <2>3, <2>4, <2>5, p \in Procs DEF Solitary, Copied, At, In
<1>6. ASSUME NEW p \in Procs, Truncate(p) PROVE Solitary'
  <2>1. /\ UNCHANGED <<alone, role, spans, log, best, put, copy, lost>>
        /\ \A q \in Procs \ {p} : pc'[q] = pc[q]
        /\ pc[p] = <<"truncate", pc[p][2]>> /\ pc'[p] = <<"write", pc[p][2]>>
    BY <1>6, StepFacts DEF Truncate, Holding, Writing
  <2>2. \A q \in Procs : alone'[q] => q = p
    BY <2>1
  <2>3. ASSUME alone[p]
        PROVE  /\ role[p] = "finalize" /\ spans[p] = log /\ pc[p][2] # "summary"
               /\ pc[p][2] = "ended" => log \subseteq put[p].foot
               /\ pc[p][2] \in {"update", "replay"} => log \subseteq best
               /\ ~lost /\ pc[p][2] = "replay" => copy[p].status = "ended"
               /\ \A q \in Procs \ {p} : pc[q] = <<"idle", "no">>
    BY <2>1, <2>3
  <2>4. /\ pc'[p] # <<"unlock", "ended">> /\ pc'[p] # <<"unlock", "update">> /\ ~At(p, "done")'
        /\ pc'[p][1] = "write" /\ pc'[p][2] = pc[p][2] /\ ~At(p, "idle")'
    BY <2>1
  <2>5. QED
    BY ONLY <2>1, <2>2, <2>3, <2>4, p \in Procs DEF Solitary, Copied, At, In
<1>7. ASSUME NEW p \in Procs, WriteOut(p) PROVE Solitary'
  BY <1>7 DEF WriteOut, Asks, Changed, NewMeta
<1>8. ASSUME NEW p \in Procs, Unlock(p) PROVE Solitary'
  <2>1. /\ UNCHANGED <<alone, role, spans, log, best, doc, lost>>
        /\ \A q \in Procs \ {p} : pc'[q] = pc[q]
        /\ pc[p][1] = "unlock" /\ pc[p] = <<"unlock", pc[p][2]>>
    BY <1>8, StepFacts DEF Unlock
  <2>2. \/ pc'[p] = <<"materialize", "no">>
        \/ pc'[p] = <<"done", "no">> /\ pc[p][2] = "start" /\ ~Materializer(p)
        \/ pc'[p] = <<"lock", "update">> /\ pc[p][2] = "ended"
        \/ pc'[p] = <<"lock", "replay">> /\ pc[p][2] = "update"
        \/ pc'[p] = <<"done", "no">> /\ pc[p][2] \in {"replay", "summary"}
    BY <1>8 DEF Unlock
  <2>3. \A q \in Procs \ {p} : ~alone[q]
    BY <2>1
  <2>4. ASSUME alone[p]
        PROVE  /\ pc'[p] # <<"unlock", "ended">> /\ pc'[p] # <<"unlock", "update">>
               /\ pc'[p][2] \notin {"ended", "summary"} /\ pc'[p][1] \notin {"truncate", "write"}
               /\ pc'[p][2] \in {"update", "replay"} \/ At(p, "done")' => log \subseteq best
               /\ ~lost /\ (pc'[p][2] = "replay" \/ At(p, "done")') => doc.status = "ended"
    <3>1. /\ role[p] = "finalize" /\ pc[p][2] # "summary"
          /\ pc[p][2] \in {"ended", "update", "replay"} => log \subseteq best
          /\ ~lost /\ pc[p][2] \in {"update", "replay"} => doc.status = "ended"
      BY <2>1, <2>4
    <3>2. QED
      BY <2>2, <3>1
  <2>5. alone[p] => \A q \in Procs \ {p} : At(q, "idle")
    BY <2>1
  <2>6. alone[p] => role[p] = "finalize" /\ spans[p] = log
    BY <2>1
  <2>7. QED
    BY <2>1, <2>3, <2>4, <2>5, <2>6
<1>9. ASSUME NEW p \in Procs, Finish(p) PROVE Solitary'
  BY <1>9 DEF Finish, Asks
<1>10. ASSUME NEW p \in Procs, Crash(p) PROVE Solitary'
  BY <1>10 DEF Crash, Asks
<1>11. ASSUME NEW p \in Procs, SpanEnds(p) PROVE Solitary'
  BY <1>11 DEF SpanEnds, Enter
<1>12. ASSUME NEW p \in Procs, Store(p) PROVE Solitary'
  BY <1>12 DEF Store
<1>13. ASSUME NEW p \in Procs, Upsert(p) PROVE Solitary'
  BY <1>13 DEF Upsert
<1>14. ASSUME NEW p \in Procs, Repair(p) PROVE Solitary'
  BY <1>14 DEF Repair, Enter
<1>15. ASSUME NEW p \in Procs, NEW r \in Loads, Load(p, r) PROVE Solitary'
  <2>1. alone'[p] => r = "finalize" /\ \A o \in Procs \ {p} : pc[o] = <<"idle", "no">>
    BY <1>15 DEF Load, Enter
  <2>2. /\ \A q \in Procs \ {p} : ~alone'[q] /\ pc'[q] = pc[q]
        /\ role'[p] = r /\ spans'[p] = log /\ log' = log
    BY <1>15 DEF Load, Enter
  <2>3. r = "finalize" => pc'[p] = <<"claim", "no">> /\ put' = put /\ put[p].status # "ended"
    BY <1>15 DEF Load, Asks
  <2>4. QED
    BY <2>1, <2>2, <2>3
<1>16. ASSUME NEW p \in Procs, Materialize(p) PROVE Solitary'
  <2>1. log \subseteq Footprint(p) /\ put'[p].foot = Footprint(p) /\ put'[p].status = "ended"
    BY <1>16 DEF Materialize, Footprint
  <2>2. QED
    BY <1>16, <2>1 DEF Materialize
<1>17. ASSUME NEW p \in Procs, Claim(p) PROVE Solitary'
  BY <1>17 DEF Claim
<1>18. ASSUME NEW p \in Procs, ClaimBusy(p) PROVE Solitary'
  BY <1>18 DEF ClaimBusy
<1>19. ASSUME NEW p \in Procs, Skip(p) PROVE Solitary'
  BY <1>19 DEF Skip
<1>20. ASSUME NEW p \in Procs, Check(p) PROVE Solitary'
  BY <1>20 DEF Check
<1>21. ASSUME NEW p \in Procs, Capture(p) PROVE Solitary'
  BY <1>21 DEF Capture, Enter
<1>22. CASE UNCHANGED vars
  BY <1>22 DEF vars
<1>24. ASSUME NEW p \in Procs, ReadFails(p) PROVE Solitary'
  BY <1>24 DEF ReadFails
<1>25. ASSUME NEW p \in Procs, WriteFails(p) PROVE Solitary'
  <2>1. /\ UNCHANGED <<alone, log, best>> /\ ~At(p, "idle")
        /\ \A q \in Procs \ {p} : pc'[q] = pc[q]
    BY <1>25 DEF WriteFails
  <2>2. \A q \in Procs : alone'[q] => q = p
    BY <2>1
  <2>3. \/ pc'[p] = <<"idle", "no">>
        \/ pc'[p] = <<"materialize", "no">> /\ UNCHANGED <<role, spans>>
    BY <1>25 DEF WriteFails
  <2>4. /\ pc'[p] # <<"unlock", "ended">> /\ pc'[p] # <<"unlock", "update">> /\ ~At(p, "done")'
        /\ pc'[p][1] \notin {"truncate", "write"} /\ pc'[p][2] = "no"
    BY <2>3
  <2>5. alone[p] => \A q \in Procs \ {p} : pc'[q] = <<"idle", "no">>
    BY <2>1
  <2>6. alone[p] /\ ~At(p, "idle")' => role'[p] = "finalize" /\ spans'[p] = log'
    BY <2>1, <2>3
  <2>7. alone'[p] => alone[p]
    BY <2>1
  <2>8. QED
    BY ONLY <2>2, <2>4, <2>5, <2>6, <2>7, p \in Procs DEF Solitary, Copied, At, In
<1>23. QED
  BY <1>1, <1>2, <1>3, <1>4, <1>5, <1>6, <1>7, <1>8, <1>9, <1>10, <1>11, <1>12, <1>13,
     <1>14, <1>15, <1>16, <1>17, <1>18, <1>19, <1>20, <1>21, <1>22, <1>24, <1>25 DEF Next, WriteStep

\* A materializer takes the newest end, and has nobody beside it that takes another.
LEMMA NextNewest == Data /\ Pcs /\ Crew /\ Apart /\ Newest /\ [Next]_vars => Newest'
<1> SUFFICES ASSUME Data, Pcs, Crew, Apart, Newest, [Next]_vars PROVE Newest'
  OBVIOUS
<1>d. /\ put \in [Procs -> Change] /\ pc \in [Procs -> Steps]
      /\ clock \in Nat /\ \A e \in Ends : e \in Nat \cup {None}
  BY EndFacts, DocAssumption DEF Data, Pcs, Times
<1>1. CASE NothingNew
  <2>1. Ends' \subseteq Ends \cup {None}
    BY <1>1 DEF NothingNew, Ends
  <2>2. QED
    BY <1>1, <2>1 DEF NothingNew, Newest
<1>2. ASSUME NEW p \in Procs, SpanEnds(p) PROVE Newest'
  <2>1. /\ UNCHANGED <<put, copy, doc>> /\ (mixed => mixed')
        /\ pc' = [pc EXCEPT ![p] = <<"store", "no">>]
    BY <1>2 DEF SpanEnds, Goto, Enter
  <2>2. Ends' = Ends
    BY <2>1 DEF Ends
  <2>3. QED
    BY <1>d, <2>1, <2>2 DEF Newest
<1>3. ASSUME NEW p \in Procs, Materialize(p) PROVE Newest'
  <2>1. /\ UNCHANGED <<copy, doc, mixed, role, claim>> /\ At(p, "materialize")
        /\ put'[p].end = clock + 1 /\ \A q \in Procs \ {p} : put'[q] = put[q] /\ pc'[q] = pc[q]
    BY <1>d, <1>3 DEF Materialize, Write, ghosts
  <2>2. Ends' \subseteq Ends \cup {clock + 1} /\ \A e \in Ends : e # None => e =< clock
    BY <2>1 DEF Ends, Apart
  <2>3. clock + 1 # None /\ \A e \in Ends' : e # None => e =< clock + 1
    BY <1>d, <2>2, DocAssumption
  <2>4. ~mixed => \A q \in Procs \ {p} : pc[q][2] # "ended"
    <3> SUFFICES ASSUME ~mixed, NEW q \in Procs \ {p}, pc[q][2] = "ended" PROVE FALSE
      OBVIOUS
    <3>1. Materializer(p) /\ Materializer(q) /\ ~At(p, "claim") /\ ~At(q, "claim")
      BY <2>1 DEF Crew, At
    <3>2. role[p] = "finalize" /\ role[q] = "finalize"
      BY <3>1 DEF Crew
    <3>3. QED
      BY <3>1, <3>2 DEF Crew
  <2>5. QED
    BY <2>1, <2>3, <2>4 DEF Newest
<1>4. QED
  BY <1>1, <1>2, <1>3, NextNothingNew

\* A step that leaves the document alone, and the ends that are copied or asked for.
LEMMA QuietCovering ==
    ASSUME Covering, UNCHANGED <<log, late, doc, best>>, Orderly' => Orderly,
           \A q \in Procs :
               /\ pc'[q][2] = "ended" => pc[q][2] = "ended" /\ put'[q] = put[q]
               /\ put'[q].status = "ended" /\ Wrote(q)' =>
                     Wrote(q) /\ put[q].status = "ended" /\ put'[q].end = put[q].end
               /\ copy'[q].status = "ended" /\ Copied(q)' => Copied(q) /\ copy'[q] = copy[q]
    PROVE  Covering'
  BY DEF Covering, Covered

\* Every step keeps what is about to end the session, and what ended it, covering.
LEMMA NextCovering ==
    Pcs /\ Data /\ Claims /\ Asks /\ Exclusive /\ Kept /\ Newest /\ Covering /\ [Next]_vars => Covering'
<1> SUFFICES ASSUME Pcs, Data, Claims, Asks, Exclusive, Kept, Newest, Covering, [Next]_vars
             PROVE  Covering'
  OBVIOUS
<1>d. /\ put \in [Procs -> Change] /\ copy \in [Procs -> Document]
      /\ pc \in [Procs -> Steps] /\ role \in [Procs -> Roles]
  BY DEF Data, Pcs, Claims
<1>b. Blank.status # "ended" /\ Nothing.status # "ended"
  BY DEF Blank, Nothing
<1> USE <1>d, <1>b, Wants
        DEF Orderly, Wrote, Copied, At, In, Goto, Move, Write, Leave, ghosts
<1>1. ASSUME NEW p \in Procs, Mkdir(p) PROVE Covering'
  BY <1>1, QuietCovering DEF Mkdir
<1>2. ASSUME NEW p \in Procs, SeesStale(p) PROVE Covering'
  BY <1>2, QuietCovering DEF SeesStale
<1>3. ASSUME NEW p \in Procs, Steal(p) PROVE Covering'
  BY <1>3, QuietCovering DEF Steal
<1>4. ASSUME NEW p \in Procs, TimesOut(p) PROVE Covering'
  BY <1>4, QuietCovering DEF TimesOut
<1>5. ASSUME NEW p \in Procs, Read(p) PROVE Covering'
  <2>1. /\ UNCHANGED <<log, late, doc, best, put, stolen, lost, mixed>> /\ copy'[p] = Get
        /\ pc[p][1] = "read" /\ pc'[p] = <<"truncate", pc[p][2]>>
        /\ \A q \in Procs \ {p} : pc'[q] = pc[q] /\ copy'[q] = copy[q]
    BY <1>5 DEF Read
  <2>2. ASSUME Orderly, Get.status = "ended" PROVE Covered(Get.end, best)
    <3>1. Readable /\ Get = doc
      BY <2>2 DEF Get
    <3>2. doc.foot = best
      BY <2>2, <3>1 DEF Kept
    <3>3. QED
      BY <2>2, <3>1, <3>2 DEF Covering
  <2>3. QED
    BY <2>1, <2>2 DEF Covering, Covered
<1>6. ASSUME NEW p \in Procs, Truncate(p) PROVE Covering'
  <2>1. /\ UNCHANGED <<log, late, best, put, copy, stolen, lost, mixed>> /\ doc'.status # "ended"
        /\ pc[p][1] = "truncate" /\ pc'[p] = <<"write", pc[p][2]>>
        /\ \A q \in Procs \ {p} : pc'[q] = pc[q]
    BY <1>6 DEF Truncate, Torn, Blank
  <2>2. QED
    BY <2>1 DEF Covering, Covered
<1>7. ASSUME NEW p \in Procs, WriteOut(p) PROVE Covering'
  <2>1. /\ UNCHANGED <<log, late, stolen, lost, mixed, put, copy>> /\ doc' = Changed(p)
        /\ best' = (IF put[p].keep THEN best ELSE put[p].foot)
        /\ pc'[p] = <<"unlock", pc[p][2]>> /\ \A q \in Procs \ {p} : pc'[q] = pc[q]
        /\ pc[p][1] = "write"
    BY <1>7 DEF WriteOut
  <2>2. ASSUME Orderly, NEW e \in Ends, Covered(e, best) PROVE Covered(e, best')
    <3>1. CASE put[p].keep
      BY <2>1, <2>2, <3>1
    <3>2. CASE ~put[p].keep
      <4>1. pc[p][2] = "ended" /\ Covered(put[p].end, put[p].foot)
        BY <3>2 DEF Asks, Covering
      <4>2. e # None /\ e =< put[p].end /\ put[p].end # None
        BY <2>2, <4>1 DEF Newest, Covered
      <4>3. e \in Nat /\ put[p].end \in Nat /\ log \subseteq Nat
        BY <4>2, EndFacts, DocAssumption DEF Data, Times
      <4>4. QED
        BY <2>1, <3>2, <4>1, <4>2, <4>3 DEF Covered
    <3>3. QED
      BY <3>1, <3>2
  <2>3. \A q \in Procs : put[q].end \in Ends /\ copy[q].end \in Ends
    BY DEF Ends
  <2>4. ASSUME Orderly, NEW q \in Procs, put[q].status = "ended", Wrote(q)'
        PROVE  Covered(put[q].end, best')
    <3>1. CASE Wrote(q)
      BY <2>2, <2>3, <2>4, <3>1 DEF Covering
    <3>2. CASE ~Wrote(q)
      <4>1. q = p /\ pc[p][2] = "ended"
        BY <2>1, <2>4, <3>2
      <4>2. QED
        BY <2>1, <4>1 DEF Covering, Asks
    <3>3. QED
      BY <3>1, <3>2
  <2>5. ASSUME Orderly, NEW q \in Procs, copy[q].status = "ended", Copied(q)
        PROVE  Covered(copy[q].end, best')
    BY <2>2, <2>3, <2>5 DEF Covering
  <2>6. ASSUME Orderly, doc'.status = "ended" PROVE Covered(doc'.end, doc'.foot)
    <3>1. doc'.foot = best'
      BY <2>1, <2>6 DEF Changed, Kept
    <3>2. CASE pc[p][2] = "replay"
      <4>1. doc'.end = copy[p].end /\ copy[p].status = "ended"
        BY <2>1, <2>6, <3>2 DEF Changed, NewMeta
      <4>2. QED
        BY <2>1, <2>5, <2>6, <3>1, <4>1
    <3>3. CASE pc[p][2] # "replay"
      <4>1. doc'.end = put[p].end /\ put[p].status = "ended"
        BY <2>1, <2>6, <3>3 DEF Changed, NewMeta
      <4>2. Wrote(p)'
        BY <2>1
      <4>3. QED
        BY <2>4, <2>6, <3>1, <4>1, <4>2
    <3>4. QED
      BY <3>2, <3>3
  <2>7. QED
    BY <2>1, <2>4, <2>5, <2>6 DEF Covering, Covered
<1>8. ASSUME NEW p \in Procs, Unlock(p) PROVE Covering'
  <2>1. /\ UNCHANGED <<log, late, best, doc, stolen, lost, mixed>>
        /\ \A q \in Procs \ {p} : pc'[q] = pc[q] /\ put'[q] = put[q] /\ copy'[q] = copy[q]
        /\ copy'[p] = Blank /\ pc[p] = <<"unlock", pc[p][2]>> /\ pc'[p][2] # "ended"
    BY <1>8, StepFacts DEF Unlock
  <2>2. put'[p].status = "ended" => put[p].status = "ended" /\ put'[p].end = put[p].end
    <3>1. CASE pc[p][2] = "ended"
      <4>1. put' = [put EXCEPT ![p] = IF role[p] = "finalize" THEN Meta("ended", put[p].end)
                                                           ELSE Meta("active", None)]
        BY <1>8, <3>1 DEF Unlock
      <4>2. Meta("ended", put[p].end).end = put[p].end
        BY DEF Meta
      <4>3. put[p].status = "ended"
        BY <3>1 DEF Asks
      <4>4. QED
        BY <4>1, <4>2, <4>3
    <3>2. CASE pc[p][2] # "ended"
      BY <1>8, <3>2 DEF Unlock
    <3>3. QED
      BY <3>1, <3>2
  <2>3. Wrote(p)
    BY <2>1
  <2>4. QED
    BY <2>1, <2>2, <2>3, QuietCovering
<1>9. ASSUME NEW p \in Procs, Finish(p) PROVE Covering'
  BY <1>9, QuietCovering DEF Finish
<1>10. ASSUME NEW p \in Procs, Crash(p) PROVE Covering'
  BY <1>10, QuietCovering DEF Crash
<1>11. ASSUME NEW p \in Procs, SpanEnds(p) PROVE Covering'
  BY <1>11, QuietCovering DEF SpanEnds, Enter, Asks
<1>12. ASSUME NEW p \in Procs, Store(p) PROVE Covering'
  <2>1. /\ log' = log \cup spans[p] /\ UNCHANGED <<doc, put, copy, best, stolen, lost, mixed>>
        /\ late' = late \cup
             {t \in spans[p] : \E e \in {doc.end} \cup {put[q].end : q \in Procs}
                                        \cup {copy[q].end : q \in Procs} : e # None /\ e > t}
        /\ pc' = [pc EXCEPT ![p] = <<"upsert", "no">>]
    BY <1>12 DEF Store
  <2>2. spans[p] \subseteq Nat /\ \A e \in Ends : e \in Nat \cup {None}
    BY DocAssumption, EndFacts DEF Data, Times
  <2>3. ASSUME NEW e \in Ends, NEW F, Covered(e, F) PROVE Covered(e, F)'
    <3>1. ASSUME NEW t \in spans[p], e # None, t < e PROVE t \in late'
      BY <2>1, <2>2, <3>1 DEF Ends
    <3>2. QED
      BY <2>1, <2>3, <3>1 DEF Covered
  <2>4. doc.end \in Ends /\ \A q \in Procs : put[q].end \in Ends /\ copy[q].end \in Ends
    BY DEF Ends
  <2>5. \A q \in Procs : /\ pc'[q][2] = "ended" => pc[q][2] = "ended"
                         /\ put[q].status = "ended" => (Wrote(q)' => Wrote(q))
                         /\ Copied(q)' => Copied(q)
    BY <1>12, <2>1 DEF Store, Asks
  <2>6. QED
    BY <2>1, <2>3, <2>4, <2>5 DEF Covering
<1>13. ASSUME NEW p \in Procs, Upsert(p) PROVE Covering'
  BY <1>13, QuietCovering DEF Upsert
<1>14. ASSUME NEW p \in Procs, Repair(p) PROVE Covering'
  BY <1>14, QuietCovering DEF Repair, Enter
<1>15. ASSUME NEW p \in Procs, NEW r \in Loads, Load(p, r) PROVE Covering'
  <2>1. /\ UNCHANGED <<log, late, doc, best, stolen, lost, copy>> /\ (mixed => mixed')
        /\ \A q \in Procs \ {p} : pc'[q] = pc[q] /\ put'[q] = put[q]
        /\ pc'[p] \in {<<"claim", "no">>, <<"lock", "start">>}
    BY <1>15 DEF Load, Enter
  <2>2. put'[p].status # "ended"
    BY <1>15 DEF Load, Asks
  <2>3. QED
    BY <2>1, <2>2, QuietCovering
<1>16. ASSUME NEW p \in Procs, Materialize(p) PROVE Covering'
  <2>1. /\ UNCHANGED <<log, late, best, doc, copy, stolen, lost, mixed>>
        /\ \A q \in Procs \ {p} : pc'[q] = pc[q] /\ put'[q] = put[q]
        /\ pc'[p] = <<"lock", "ended">>
        /\ put'[p].end = clock + 1 /\ put'[p].foot = Footprint(p)
    BY <1>16 DEF Materialize
  <2>2. clock + 1 # None /\ log \subseteq Footprint(p)
    BY DocAssumption DEF Data, Footprint
  <2>3. QED
    BY <2>1, <2>2 DEF Covering, Covered
<1>17. ASSUME NEW p \in Procs, Claim(p) PROVE Covering'
  BY <1>17, QuietCovering DEF Claim
<1>18. ASSUME NEW p \in Procs, ClaimBusy(p) PROVE Covering'
  BY <1>18, QuietCovering DEF ClaimBusy
<1>19. ASSUME NEW p \in Procs, Skip(p) PROVE Covering'
  BY <1>19, QuietCovering DEF Skip
<1>20. ASSUME NEW p \in Procs, Check(p) PROVE Covering'
  BY <1>20, QuietCovering DEF Check
<1>21. ASSUME NEW p \in Procs, Capture(p) PROVE Covering'
  <2>1. /\ UNCHANGED <<log, late, doc, best, copy, stolen, lost>> /\ (mixed => mixed')
        /\ put' = [put EXCEPT ![p] = Meta(Get.status, Get.end)] /\ pc'[p] = <<"lock", "summary">>
        /\ \A q \in Procs \ {p} : pc'[q] = pc[q]
        /\ Get = doc /\ Readable
    BY <1>21 DEF Capture, Enter, Get
  <2>2. put'[p].status = doc.status /\ put'[p].end = doc.end /\ \A q \in Procs \ {p} : put'[q] = put[q]
    BY <2>1, Wants, EndFacts
  <2>3. Orderly /\ doc.status = "ended" => Covered(doc.end, best)
    BY <2>1 DEF Covering, Kept
  <2>4. QED
    BY <2>1, <2>2, <2>3 DEF Covering, Covered
<1>22. CASE UNCHANGED vars
  BY <1>22, QuietCovering DEF vars
<1>24. ASSUME NEW p \in Procs, ReadFails(p) PROVE Covering'
  <2>1. ~Orderly'
    BY <1>24 DEF ReadFails
  <2>2. /\ UNCHANGED <<log, late, put>> /\ \A q \in Procs : pc'[q][2] = pc[q][2]
    BY <1>24 DEF ReadFails
  <2>3. QED
    BY <2>1, <2>2 DEF Covering, Covered
<1>25. ASSUME NEW p \in Procs, WriteFails(p) PROVE Covering'
  <2>1. /\ UNCHANGED <<log, late, doc, best>> /\ (Orderly' => Orderly)
        /\ \A q \in Procs \ {p} : pc'[q] = pc[q] /\ put'[q] = put[q] /\ copy'[q] = copy[q]
        /\ copy'[p] = Blank /\ pc'[p] \in {<<"idle", "no">>, <<"materialize", "no">>}
    BY <1>25 DEF WriteFails
  <2>2. \/ put'[p] = Nothing
        \/ put'[p] = put[p] /\ pc[p][2] = "start"
    BY <1>25 DEF WriteFails
  <2>3. QED
    BY <2>1, <2>2, QuietCovering
<1>23. QED
  BY <1>1, <1>2, <1>3, <1>4, <1>5, <1>6, <1>7, <1>8, <1>9, <1>10, <1>11, <1>12, <1>13, <1>14, <1>15, <1>16, <1>17, <1>18, <1>19, <1>20, <1>21, <1>22, <1>24, <1>25 DEF Next, WriteStep

\* Nothing is under way at first, and nothing has ended.
LEMMA InitCovering == Init => Apart /\ Crew /\ Asks /\ Newest /\ Covering /\ Solitary
<1> SUFFICES ASSUME Init PROVE Apart /\ Crew /\ Asks /\ Newest /\ Covering /\ Solitary
  OBVIOUS
<1>1. /\ doc.end = None /\ doc.status = "absent" /\ log = {} /\ ~mixed /\ claim = None
      /\ \A p \in Procs : /\ put[p] = Nothing /\ copy[p] = Blank /\ pc[p] = <<"idle", "no">> /\ role[p] = "none"
                          /\ spans[p] = {} /\ ~alone[p]
  BY DEF Init, NoDoc, Blank
<1>2. Nothing.end = None /\ Blank.end = None
  BY DEF Nothing, Blank
<1>3. Apart
  BY <1>1, <1>2 DEF Apart, Ends
<1>4. Crew
  BY <1>1 DEF Crew, Materializer, At
<1>5. Asks /\ Newest /\ Covering /\ Solitary
  BY <1>1, Wants DEF Asks, Newest, Covering, Copied, Solitary, At, In
<1>6. QED
  BY <1>3, <1>4, <1>5

CoverInv ==
    DocTyped /\ Exclusive /\ Kept /\ Apart /\ Crew /\ Asks /\ Newest /\ Covering /\ Solitary

\* The invariant holds at first.
LEMMA InitCoverInv == Init => CoverInv
  BY InitDocTyped, InitExclusive, InitKept, InitCovering DEF CoverInv

\* Together they are inductive.
LEMMA NextCoverInv == CoverInv /\ [Next]_vars => CoverInv'
<1> SUFFICES ASSUME CoverInv, [Next]_vars PROVE CoverInv'
  OBVIOUS
<1>1. (DocTyped /\ Exclusive /\ Kept)'
  BY NextDocInv DEF CoverInv
<1>2. Apart' /\ Crew' /\ Asks'
  BY NextApart, NextCrew, NextAsks DEF CoverInv, DocTyped
<1>3. Newest' /\ Covering' /\ Solitary'
  BY <1>2, NextNewest, NextCovering, NextSolitary DEF CoverInv, DocTyped
<1>4. QED
  BY <1>1, <1>2, <1>3 DEF CoverInv

\* A finalize that ran alone, whether it materialized or found the session finalized
\* already, leaves it ended with every stored span in its footprint but the late ones,
\* unless a refresh overlapped a finalize before, a lock was stolen, or a write was cut
\* off or began with a failed read.
THEOREM FinalizeCoversAll == Spec => FinalizeCovers
<1>1. ASSUME CoverInv, NEW p \in Procs, Finish(p) \/ Skip(p), alone[p], ~stolen, ~lost, ~mixed
      PROVE  doc.status = "ended" /\ log \ late \subseteq doc.foot
  <2>1. /\ doc.status = "ended" => Covered(doc.end, doc.foot) /\ doc.foot = best
        /\ role[p] = "finalize" /\ spans[p] = log
    <3>1. ~At(p, "idle")
      BY <1>1 DEF Finish, Skip, At
    <3>2. QED
      BY <1>1, <3>1 DEF CoverInv, Covering, Orderly, Solitary, Kept, Readable
  <2>2. CASE Finish(p)
    <3>1. At(p, "done")
      BY <2>2 DEF Finish
    <3>2. doc.status = "ended" /\ log \subseteq best
      BY <1>1, <3>1 DEF CoverInv, Solitary
    <3>3. QED
      BY <2>1, <3>2
  <2>3. CASE Skip(p)
    <3>1. doc.status = "ended" /\ doc.end # None /\ \A t \in log : t =< doc.end
      BY <2>1, <2>3 DEF Skip, Finalized, Get, Blank
    <3>2. doc.end \in Nat /\ doc.end \notin log /\ log \subseteq Nat
      BY <1>1, <3>1, EndFacts, DocAssumption DEF CoverInv, DocTyped, Apart, Data, Times
    <3>3. \A t \in log : t < doc.end
      BY <3>1, <3>2
    <3>4. QED
      BY <2>1, <3>1, <3>3 DEF Covered
  <2>4. QED
    BY <1>1, <2>2, <2>3
<1>2. CoverInv => \A p \in Procs :
          (Finish(p) \/ Skip(p)) /\ alone[p] /\ ~stolen /\ ~lost /\ ~mixed =>
              doc.status = "ended" /\ log \ late \subseteq doc.foot
  BY <1>1
<1>3. QED
  BY <1>2, InitCoverInv, NextCoverInv, PTL DEF Spec, FinalizeCovers
==============================================================================
