---------------------------- MODULE Gates_proofs -----------------------------
(***************************************************************************)
(* Proofs about the gates of a build (BuildGate), the seeding of a         *)
(* worktree (WorktreeSeed), the state file of the hooks (HookState), the   *)
(* model of the embedding worker (ModelFetch) and the embeddings of the    *)
(* store (EmbedStore), for any number of processes, slots, rows and edits, *)
(* and about MCGates, which runs the five side by side.                    *)
(***************************************************************************)
EXTENDS MCGates, TLAPS, FiniteSetTheorems, SequenceTheorems

-----------------------------------------------------------------------------
(* BuildGate. Types, and the slot a process is at: at a step that uses a    *)
(* slot it is one of those the process counts, which the type of listed     *)
(* rests on.                                                                *)

AtSlot == {"scan", "truncate", "fill", "clear", "unslot", "listDrop", "listRead"}
First == {"idle", "busy", "drop", "lock", "sleep"}

InRange == \A p \in GateProcs :
    /\ gpc[p] # "idle" => count[p] \in SlotCounts
    /\ gpc[p] \in First => at[p] = 1
    /\ gpc[p] = "sleep" => count[p] > 0
    /\ (gpc[p] \in AtSlot \/ (gpc[p] = "hold" /\ count[p] > 0)) => at[p] \in 1..count[p]

Typed == GateTypeOK /\ InRange

\* A slot a process counts is a slot of the pool.
LEMMA CountedSlot ==
    ASSUME NEW n \in SlotCounts, NEW i \in 1..n PROVE i \in Slots
  BY DEF Slots

\* No process is in a call at first.
LEMMA InitTyped == GateInit => Typed
<1> SUFFICES ASSUME GateInit PROVE Typed
  OBVIOUS
<1> USE GateAssumption DEF GateInit
<1>1. GateTypeOK
  BY DEF GateTypeOK, GateSteps, Calls, SlotSteps
<1>2. InRange
  BY DEF InRange, First, AtSlot
<1>3. QED
  BY <1>1, <1>2 DEF Typed

\* Every step of the gates keeps the types and the slot in range.
LEMMA NextTyped == Typed /\ [GateNext]_gateVars => Typed'
<1> SUFFICES ASSUME Typed, [GateNext]_gateVars PROVE Typed'
  OBVIOUS
<1> USE GateAssumption DEF Typed, GateTypeOK, InRange, GateSteps, SlotSteps, AtSlot, First,
    Meta, frame, GateGoto, GateReturn, Calls
<1>1. ASSUME NEW p \in GateProcs, StartCall(p) PROVE Typed'
  BY <1>1 DEF StartCall
<1>2. ASSUME NEW p \in GateProcs, FindBusy(p) PROVE Typed'
  BY <1>2 DEF FindBusy
<1>3. ASSUME NEW p \in GateProcs, FindFree(p) PROVE Typed'
  BY <1>3 DEF FindFree
<1>4. ASSUME NEW p \in GateProcs, DropLock(p) PROVE Typed'
  <2>1. GateTypeOK'
    <3>1. gpc' \in [GateProcs -> GateSteps] /\ at' \in [GateProcs -> Nat \ {0}]
      BY <1>4 DEF DropLock
    <3>2. probing' \in [GateProcs -> BOOLEAN] /\ call' \in [GateProcs -> Calls]
      BY <1>4 DEF DropLock
    <3>3. count' \in [GateProcs -> SlotCounts \cup {0}]
      BY <1>4 DEF DropLock
    <3>4. listed' \in [GateProcs -> SUBSET Entry]
      BY <1>4 DEF DropLock
    <3>5. QED
      BY <1>4, <3>1, <3>2, <3>3, <3>4 DEF DropLock
  <2>2. InRange'
    BY <1>4 DEF DropLock
  <2>3. QED
    BY <2>1, <2>2 DEF Typed
<1>5. ASSUME NEW p \in GateProcs, TakeLock(p) PROVE Typed'
  BY <1>5 DEF TakeLock
<1>6. ASSUME NEW p \in GateProcs, RefuseLock(p) PROVE Typed'
  BY <1>6 DEF RefuseLock
<1>7. ASSUME NEW p \in GateProcs, TakeSlot(p) PROVE Typed'
  BY <1>7 DEF TakeSlot
<1>8. ASSUME NEW p \in GateProcs, PassSlot(p) PROVE Typed'
  <2>1. GateTypeOK'
    <3>1. gpc' \in [GateProcs -> GateSteps] /\ at' \in [GateProcs -> Nat \ {0}]
      <4>1. \E step \in GateSteps : gpc' = [gpc EXCEPT ![p] = step]
        <5>1. gpc' = gpc => gpc' = [gpc EXCEPT ![p] = "scan"]
          BY <1>8 DEF PassSlot
        <5>2. QED
          BY <1>8, <5>1 DEF PassSlot
      <4>2. QED
        BY <1>8, <4>1 DEF PassSlot
    <3>2. probing' \in [GateProcs -> BOOLEAN] /\ call' \in [GateProcs -> Calls]
      BY <1>8 DEF PassSlot
    <3>3. count' \in [GateProcs -> SlotCounts \cup {0}]
      BY <1>8 DEF PassSlot
    <3>4. listed' \in [GateProcs -> SUBSET Entry]
      BY <1>8 DEF PassSlot
    <3>5. QED
      BY <1>8, <3>1, <3>2, <3>3, <3>4 DEF PassSlot
  <2>2. InRange'
    BY <1>8 DEF PassSlot
  <2>3. QED
    BY <2>1, <2>2 DEF Typed
<1>9. ASSUME NEW p \in GateProcs, Retry(p) PROVE Typed'
  BY <1>9 DEF Retry
<1>10. ASSUME NEW p \in GateProcs, TruncateMeta(p) PROVE Typed'
  BY <1>10 DEF TruncateMeta
<1>11. ASSUME NEW p \in GateProcs, FillMeta(p) PROVE Typed'
  BY <1>11 DEF FillMeta
<1>12. ASSUME NEW p \in GateProcs, EndBuild(p) PROVE Typed'
  BY <1>12 DEF EndBuild
<1>13. ASSUME NEW p \in GateProcs, ClearMeta(p) PROVE Typed'
  BY <1>13 DEF ClearMeta
<1>14. ASSUME NEW p \in GateProcs, FreeSlot(p) PROVE Typed'
  <2>1. GateTypeOK'
    <3>1. gpc' \in [GateProcs -> GateSteps] /\ at' \in [GateProcs -> Nat \ {0}]
      BY <1>14 DEF FreeSlot
    <3>2. probing' \in [GateProcs -> BOOLEAN] /\ call' \in [GateProcs -> Calls]
      BY <1>14 DEF FreeSlot
    <3>3. count' \in [GateProcs -> SlotCounts \cup {0}]
      BY <1>14 DEF FreeSlot
    <3>4. listed' \in [GateProcs -> SUBSET Entry]
      BY <1>14 DEF FreeSlot
    <3>5. QED
      BY <1>14, <3>1, <3>2, <3>3, <3>4 DEF FreeSlot
  <2>2. InRange'
    BY <1>14 DEF FreeSlot
  <2>3. QED
    BY <2>1, <2>2 DEF Typed
<1>15. ASSUME NEW p \in GateProcs, FreeLock(p) PROVE Typed'
  BY <1>15 DEF FreeLock
<1>16. ASSUME NEW p \in GateProcs, ListEnd(p) PROVE Typed'
  BY <1>16 DEF ListEnd
<1>17. ASSUME NEW p \in GateProcs, ListTake(p) PROVE Typed'
  <2>1. GateTypeOK'
    BY <1>17 DEF ListTake
  <2>2. InRange'
    BY <1>17 DEF ListTake
  <2>3. QED
    BY <2>1, <2>2 DEF Typed
<1>18. ASSUME NEW p \in GateProcs, ListDrop(p) PROVE Typed'
  <2>1. GateTypeOK'
    <3>1. gpc' \in [GateProcs -> GateSteps] /\ at' \in [GateProcs -> Nat \ {0}]
      BY <1>18 DEF ListDrop
    <3>2. probing' \in [GateProcs -> BOOLEAN] /\ call' \in [GateProcs -> Calls]
      BY <1>18 DEF ListDrop
    <3>3. count' \in [GateProcs -> SlotCounts \cup {0}]
      BY <1>18 DEF ListDrop
    <3>4. listed' \in [GateProcs -> SUBSET Entry]
      BY <1>18 DEF ListDrop
    <3>5. QED
      BY <1>18, <3>1, <3>2, <3>3, <3>4 DEF ListDrop
  <2>2. InRange'
    BY <1>18 DEF ListDrop
  <2>3. QED
    BY <2>1, <2>2 DEF Typed
<1>19. ASSUME NEW p \in GateProcs, ListHeld(p) PROVE Typed'
  BY <1>19 DEF ListHeld
<1>20. ASSUME NEW p \in GateProcs, ListRead(p) PROVE Typed'
  <2>1. at[p] \in Slots
    BY <1>20, CountedSlot DEF ListRead
  <2> DEFINE m == meta[at[p]]
             pid == IF m = None THEN None ELSE m.pid
  <2>2. pid # Dead => pid \in GateProcs \cup {None}
    BY <2>1
  <2>3. pid # Dead => [slot |-> at[p], pid |-> pid, by |-> slot[at[p]]] \in Entry
    BY <2>1, <2>2 DEF Entry
  <2>4. listed' \in [GateProcs -> SUBSET Entry]
    BY <1>20, <2>3 DEF ListRead
  <2>5. QED
    BY <1>20, <2>4 DEF ListRead
<1>21. ASSUME NEW p \in GateProcs, KillCall(p) PROVE Typed'
  BY <1>21 DEF KillCall
<1>22. CASE UNCHANGED gateVars
  BY <1>22 DEF gateVars
<1>23. QED
  BY <1>1, <1>2, <1>3, <1>4, <1>5, <1>6, <1>7, <1>8, <1>9, <1>10, <1>11, <1>12, <1>13,
     <1>14, <1>15, <1>16, <1>17, <1>18, <1>19, <1>20, <1>21, <1>22 DEF GateNext, GateStep

\* Every variable of the gates keeps its type, and a process that works on a slot
\* works on one that its environment counts.
THEOREM GateTyping == GateSpec => [](GateTypeOK /\ InRange)
  BY InitTyped, NextTyped, PTL DEF GateSpec, Typed

-----------------------------------------------------------------------------
(* BuildGate. Who holds what.  A process past a lock holds it, and the      *)
(* .meta file of a slot names a living process only while that process      *)
(* holds the slot.                                                          *)

HoldsLock == \A p \in GateProcs :
    \/ gpc[p] \in {"drop", "hold", "sleep", "unlock"}
    \/ gpc[p] \in {"scan", "truncate", "fill", "clear", "unslot"} /\ ~probing[p]
    => buildLock[repo[p]] = p

HoldsSlot == \A p \in GateProcs :
    \/ gpc[p] \in {"truncate", "fill", "clear", "unslot", "listDrop"}
    \/ gpc[p] = "hold" /\ count[p] > 0
    => slot[at[p]] = p

MetaOwn == \A i \in Slots : \A p \in GateProcs :
    meta[i] = [pid |-> p] =>
        /\ slot[i] = p /\ at[p] = i
        /\ gpc[p] \in {"hold", "clear"} /\ count[p] > 0

Holding == HoldsLock /\ HoldsSlot /\ MetaOwn

GateInv == Typed /\ Holding /\ ListedHeld

\* Nobody holds anything at first.
LEMMA InitGateInv == GateInit => GateInv
  BY InitTyped, GateAssumption DEF GateInit, GateInv, Holding, HoldsLock, HoldsSlot, MetaOwn,
     ListedHeld

\* Every step keeps the locks with the processes past them.
LEMMA NextHoldsLock == Typed /\ HoldsLock /\ [GateNext]_gateVars => HoldsLock'
<1> SUFFICES ASSUME Typed, HoldsLock, [GateNext]_gateVars PROVE HoldsLock'
  OBVIOUS
<1> USE GateAssumption DEF Typed, GateTypeOK, HoldsLock, frame, GateGoto, GateReturn
<1>1. ASSUME NEW p \in GateProcs, StartCall(p) PROVE HoldsLock'
  BY <1>1 DEF StartCall
<1>2. ASSUME NEW p \in GateProcs, FindBusy(p) PROVE HoldsLock'
  BY <1>2 DEF FindBusy
<1>3. ASSUME NEW p \in GateProcs, FindFree(p) PROVE HoldsLock'
  BY <1>3 DEF FindFree
<1>4. ASSUME NEW p \in GateProcs, DropLock(p) PROVE HoldsLock'
  BY <1>4 DEF DropLock
<1>5. ASSUME NEW p \in GateProcs, TakeLock(p) PROVE HoldsLock'
  BY <1>5 DEF TakeLock
<1>6. ASSUME NEW p \in GateProcs, RefuseLock(p) PROVE HoldsLock'
  BY <1>6 DEF RefuseLock
<1>7. ASSUME NEW p \in GateProcs, TakeSlot(p) PROVE HoldsLock'
  BY <1>7 DEF TakeSlot
<1>8. ASSUME NEW p \in GateProcs, PassSlot(p) PROVE HoldsLock'
  BY <1>8 DEF PassSlot
<1>9. ASSUME NEW p \in GateProcs, Retry(p) PROVE HoldsLock'
  BY <1>9 DEF Retry
<1>10. ASSUME NEW p \in GateProcs, TruncateMeta(p) PROVE HoldsLock'
  BY <1>10 DEF TruncateMeta
<1>11. ASSUME NEW p \in GateProcs, FillMeta(p) PROVE HoldsLock'
  BY <1>11 DEF FillMeta
<1>12. ASSUME NEW p \in GateProcs, EndBuild(p) PROVE HoldsLock'
  BY <1>12 DEF EndBuild
<1>13. ASSUME NEW p \in GateProcs, ClearMeta(p) PROVE HoldsLock'
  BY <1>13 DEF ClearMeta
<1>14. ASSUME NEW p \in GateProcs, FreeSlot(p) PROVE HoldsLock'
  BY <1>14 DEF FreeSlot
<1>15. ASSUME NEW p \in GateProcs, FreeLock(p) PROVE HoldsLock'
  BY <1>15 DEF FreeLock
<1>16. ASSUME NEW p \in GateProcs, ListEnd(p) PROVE HoldsLock'
  BY <1>16 DEF ListEnd
<1>17. ASSUME NEW p \in GateProcs, ListTake(p) PROVE HoldsLock'
  BY <1>17 DEF ListTake
<1>18. ASSUME NEW p \in GateProcs, ListDrop(p) PROVE HoldsLock'
  BY <1>18 DEF ListDrop
<1>19. ASSUME NEW p \in GateProcs, ListHeld(p) PROVE HoldsLock'
  BY <1>19 DEF ListHeld
<1>20. ASSUME NEW p \in GateProcs, ListRead(p) PROVE HoldsLock'
  BY <1>20 DEF ListRead
<1>21. ASSUME NEW p \in GateProcs, KillCall(p) PROVE HoldsLock'
  BY <1>21 DEF KillCall
<1>22. CASE UNCHANGED gateVars
  BY <1>22 DEF gateVars
<1>23. QED
  BY <1>1, <1>2, <1>3, <1>4, <1>5, <1>6, <1>7, <1>8, <1>9, <1>10, <1>11, <1>12, <1>13,
     <1>14, <1>15, <1>16, <1>17, <1>18, <1>19, <1>20, <1>21, <1>22 DEF GateNext,
     GateStep

\* Every step keeps the slots with the processes that use them: a flock is taken only
\* when it is free, and given back by its holder.
LEMMA NextHoldsSlot == Typed /\ HoldsSlot /\ [GateNext]_gateVars => HoldsSlot'
<1> SUFFICES ASSUME Typed, HoldsSlot, [GateNext]_gateVars PROVE HoldsSlot'
  OBVIOUS
<1> USE GateAssumption, CountedSlot DEF Typed, GateTypeOK, InRange, AtSlot, First, HoldsSlot,
    frame, GateGoto, GateReturn
<1>1. ASSUME NEW p \in GateProcs, StartCall(p) PROVE HoldsSlot'
  BY <1>1 DEF StartCall
<1>2. ASSUME NEW p \in GateProcs, FindBusy(p) PROVE HoldsSlot'
  BY <1>2 DEF FindBusy
<1>3. ASSUME NEW p \in GateProcs, FindFree(p) PROVE HoldsSlot'
  BY <1>3 DEF FindFree
<1>4. ASSUME NEW p \in GateProcs, DropLock(p) PROVE HoldsSlot'
  BY <1>4 DEF DropLock
<1>5. ASSUME NEW p \in GateProcs, TakeLock(p) PROVE HoldsSlot'
  BY <1>5 DEF TakeLock
<1>6. ASSUME NEW p \in GateProcs, RefuseLock(p) PROVE HoldsSlot'
  BY <1>6 DEF RefuseLock
<1>7. ASSUME NEW p \in GateProcs, TakeSlot(p) PROVE HoldsSlot'
  BY <1>7 DEF TakeSlot
<1>8. ASSUME NEW p \in GateProcs, PassSlot(p) PROVE HoldsSlot'
  <2>1. gpc'[p] \in {"scan", "idle", "sleep", "unlock"}
    BY <1>8 DEF PassSlot
  <2>2. \A q \in GateProcs \ {p} :
           gpc'[q] = gpc[q] /\ at'[q] = at[q] /\ count'[q] = count[q]
    BY <1>8 DEF PassSlot
  <2>3. slot' = slot
    BY <1>8 DEF PassSlot
  <2>4. QED
    BY <2>1, <2>2, <2>3
<1>9. ASSUME NEW p \in GateProcs, Retry(p) PROVE HoldsSlot'
  BY <1>9 DEF Retry
<1>10. ASSUME NEW p \in GateProcs, TruncateMeta(p) PROVE HoldsSlot'
  BY <1>10 DEF TruncateMeta
<1>11. ASSUME NEW p \in GateProcs, FillMeta(p) PROVE HoldsSlot'
  BY <1>11 DEF FillMeta
<1>12. ASSUME NEW p \in GateProcs, EndBuild(p) PROVE HoldsSlot'
  BY <1>12 DEF EndBuild
<1>13. ASSUME NEW p \in GateProcs, ClearMeta(p) PROVE HoldsSlot'
  BY <1>13 DEF ClearMeta
<1>14. ASSUME NEW p \in GateProcs, FreeSlot(p) PROVE HoldsSlot'
  BY <1>14 DEF FreeSlot
<1>15. ASSUME NEW p \in GateProcs, FreeLock(p) PROVE HoldsSlot'
  BY <1>15 DEF FreeLock
<1>16. ASSUME NEW p \in GateProcs, ListEnd(p) PROVE HoldsSlot'
  BY <1>16 DEF ListEnd
<1>17. ASSUME NEW p \in GateProcs, ListTake(p) PROVE HoldsSlot'
  BY <1>17 DEF ListTake
<1>18. ASSUME NEW p \in GateProcs, ListDrop(p) PROVE HoldsSlot'
  BY <1>18 DEF ListDrop
<1>19. ASSUME NEW p \in GateProcs, ListHeld(p) PROVE HoldsSlot'
  BY <1>19 DEF ListHeld
<1>20. ASSUME NEW p \in GateProcs, ListRead(p) PROVE HoldsSlot'
  BY <1>20 DEF ListRead
<1>21. ASSUME NEW p \in GateProcs, KillCall(p) PROVE HoldsSlot'
  BY <1>21 DEF KillCall
<1>22. CASE UNCHANGED gateVars
  BY <1>22 DEF gateVars
<1>23. QED
  BY <1>1, <1>2, <1>3, <1>4, <1>5, <1>6, <1>7, <1>8, <1>9, <1>10, <1>11, <1>12, <1>13,
     <1>14, <1>15, <1>16, <1>17, <1>18, <1>19, <1>20, <1>21, <1>22 DEF GateNext,
     GateStep

\* Every step keeps the .meta files true of the living: unlock clears the file before
\* it gives up the flock.
LEMMA NextMetaOwn ==
    Typed /\ HoldsSlot /\ MetaOwn /\ [GateNext]_gateVars => MetaOwn'
<1> SUFFICES ASSUME Typed, HoldsSlot, MetaOwn, [GateNext]_gateVars PROVE MetaOwn'
  OBVIOUS
<1> USE GateAssumption, CountedSlot DEF Typed, GateTypeOK, InRange, AtSlot, First, HoldsSlot,
    MetaOwn, frame, GateGoto, GateReturn
<1>1. ASSUME NEW p \in GateProcs, StartCall(p) PROVE MetaOwn'
  BY <1>1 DEF StartCall
<1>2. ASSUME NEW p \in GateProcs, FindBusy(p) PROVE MetaOwn'
  BY <1>2 DEF FindBusy
<1>3. ASSUME NEW p \in GateProcs, FindFree(p) PROVE MetaOwn'
  BY <1>3 DEF FindFree
<1>4. ASSUME NEW p \in GateProcs, DropLock(p) PROVE MetaOwn'
  BY <1>4 DEF DropLock
<1>5. ASSUME NEW p \in GateProcs, TakeLock(p) PROVE MetaOwn'
  BY <1>5 DEF TakeLock
<1>6. ASSUME NEW p \in GateProcs, RefuseLock(p) PROVE MetaOwn'
  BY <1>6 DEF RefuseLock
<1>7. ASSUME NEW p \in GateProcs, TakeSlot(p) PROVE MetaOwn'
  BY <1>7 DEF TakeSlot
<1>8. ASSUME NEW p \in GateProcs, PassSlot(p) PROVE MetaOwn'
  BY <1>8 DEF PassSlot
<1>9. ASSUME NEW p \in GateProcs, Retry(p) PROVE MetaOwn'
  BY <1>9 DEF Retry
<1>10. ASSUME NEW p \in GateProcs, TruncateMeta(p) PROVE MetaOwn'
  BY <1>10 DEF TruncateMeta
<1>11. ASSUME NEW p \in GateProcs, FillMeta(p) PROVE MetaOwn'
  BY <1>11 DEF FillMeta
<1>12. ASSUME NEW p \in GateProcs, EndBuild(p) PROVE MetaOwn'
  BY <1>12 DEF EndBuild
<1>13. ASSUME NEW p \in GateProcs, ClearMeta(p) PROVE MetaOwn'
  BY <1>13 DEF ClearMeta
<1>14. ASSUME NEW p \in GateProcs, FreeSlot(p) PROVE MetaOwn'
  BY <1>14 DEF FreeSlot
<1>15. ASSUME NEW p \in GateProcs, FreeLock(p) PROVE MetaOwn'
  BY <1>15 DEF FreeLock
<1>16. ASSUME NEW p \in GateProcs, ListEnd(p) PROVE MetaOwn'
  BY <1>16 DEF ListEnd
<1>17. ASSUME NEW p \in GateProcs, ListTake(p) PROVE MetaOwn'
  BY <1>17 DEF ListTake
<1>18. ASSUME NEW p \in GateProcs, ListDrop(p) PROVE MetaOwn'
  BY <1>18 DEF ListDrop
<1>19. ASSUME NEW p \in GateProcs, ListHeld(p) PROVE MetaOwn'
  BY <1>19 DEF ListHeld
<1>20. ASSUME NEW p \in GateProcs, ListRead(p) PROVE MetaOwn'
  BY <1>20 DEF ListRead
<1>21. ASSUME NEW p \in GateProcs, KillCall(p) PROVE MetaOwn'
  BY <1>21 DEF KillCall
<1>22. CASE UNCHANGED gateVars
  BY <1>22 DEF gateVars
<1>23. QED
  BY <1>1, <1>2, <1>3, <1>4, <1>5, <1>6, <1>7, <1>8, <1>9, <1>10, <1>11, <1>12, <1>13,
     <1>14, <1>15, <1>16, <1>17, <1>18, <1>19, <1>20, <1>21, <1>22 DEF GateNext,
     GateStep

\* What List appends is true when it reads the file.
LEMMA NextListedHeld ==
    Typed /\ MetaOwn /\ ListedHeld /\ [GateNext]_gateVars => ListedHeld'
<1> SUFFICES ASSUME Typed, MetaOwn, ListedHeld, [GateNext]_gateVars PROVE ListedHeld'
  OBVIOUS
<1> USE GateAssumption DEF Typed, GateTypeOK, ListedHeld, frame, GateGoto, GateReturn
<1>1. ASSUME NEW p \in GateProcs, StartCall(p) PROVE ListedHeld'
  BY <1>1 DEF StartCall
<1>2. ASSUME NEW p \in GateProcs, FindBusy(p) PROVE ListedHeld'
  BY <1>2 DEF FindBusy
<1>3. ASSUME NEW p \in GateProcs, FindFree(p) PROVE ListedHeld'
  BY <1>3 DEF FindFree
<1>4. ASSUME NEW p \in GateProcs, DropLock(p) PROVE ListedHeld'
  BY <1>4 DEF DropLock
<1>5. ASSUME NEW p \in GateProcs, TakeLock(p) PROVE ListedHeld'
  BY <1>5 DEF TakeLock
<1>6. ASSUME NEW p \in GateProcs, RefuseLock(p) PROVE ListedHeld'
  BY <1>6 DEF RefuseLock
<1>7. ASSUME NEW p \in GateProcs, TakeSlot(p) PROVE ListedHeld'
  BY <1>7 DEF TakeSlot
<1>8. ASSUME NEW p \in GateProcs, PassSlot(p) PROVE ListedHeld'
  BY <1>8 DEF PassSlot
<1>9. ASSUME NEW p \in GateProcs, Retry(p) PROVE ListedHeld'
  BY <1>9 DEF Retry
<1>10. ASSUME NEW p \in GateProcs, TruncateMeta(p) PROVE ListedHeld'
  BY <1>10 DEF TruncateMeta
<1>11. ASSUME NEW p \in GateProcs, FillMeta(p) PROVE ListedHeld'
  BY <1>11 DEF FillMeta
<1>12. ASSUME NEW p \in GateProcs, EndBuild(p) PROVE ListedHeld'
  BY <1>12 DEF EndBuild
<1>13. ASSUME NEW p \in GateProcs, ClearMeta(p) PROVE ListedHeld'
  BY <1>13 DEF ClearMeta
<1>14. ASSUME NEW p \in GateProcs, FreeSlot(p) PROVE ListedHeld'
  BY <1>14 DEF FreeSlot
<1>15. ASSUME NEW p \in GateProcs, FreeLock(p) PROVE ListedHeld'
  BY <1>15 DEF FreeLock
<1>16. ASSUME NEW p \in GateProcs, ListEnd(p) PROVE ListedHeld'
  BY <1>16 DEF ListEnd
<1>17. ASSUME NEW p \in GateProcs, ListTake(p) PROVE ListedHeld'
  BY <1>17 DEF ListTake
<1>18. ASSUME NEW p \in GateProcs, ListDrop(p) PROVE ListedHeld'
  BY <1>18 DEF ListDrop
<1>19. ASSUME NEW p \in GateProcs, ListHeld(p) PROVE ListedHeld'
  BY <1>19 DEF ListHeld
<1>20. ASSUME NEW p \in GateProcs, ListRead(p) PROVE ListedHeld'
  <2> DEFINE m == meta[at[p]]
             pid == IF m = None THEN None ELSE m.pid
  <2>1. at[p] \in Slots
    BY <1>20, CountedSlot DEF ListRead, InRange, AtSlot
  <2>2. pid # Dead /\ pid # None => slot[at[p]] = pid
    <3> SUFFICES ASSUME pid # Dead, pid # None PROVE slot[at[p]] = pid
      OBVIOUS
    <3>1. pid \in GateProcs /\ meta[at[p]] = [pid |-> pid]
      BY <2>1 DEF Meta
    <3>2. QED
      BY <2>1, <3>1 DEF MetaOwn
  <2>3. \A e \in listed'[p] : e \in listed[p] \/ (e.pid # None => e.by = e.pid)
    BY <1>20, <2>2 DEF ListRead
  <2>4. \A q \in GateProcs \ {p} : listed'[q] = listed[q]
    BY <1>20 DEF ListRead
  <2>5. QED
    BY <2>3, <2>4
<1>21. ASSUME NEW p \in GateProcs, KillCall(p) PROVE ListedHeld'
  BY <1>21 DEF KillCall
<1>22. CASE UNCHANGED gateVars
  BY <1>22 DEF gateVars
<1>23. QED
  BY <1>1, <1>2, <1>3, <1>4, <1>5, <1>6, <1>7, <1>8, <1>9, <1>10, <1>11, <1>12, <1>13,
     <1>14, <1>15, <1>16, <1>17, <1>18, <1>19, <1>20, <1>21, <1>22 DEF GateNext,
     GateStep

\* The inductive invariant of the gates.
LEMMA NextGateInv == GateInv /\ [GateNext]_gateVars => GateInv'
  BY NextTyped, NextHoldsLock, NextHoldsSlot, NextMetaOwn, NextListedHeld
     DEF GateInv, Holding

\* so graph builds status never shows a process at a slot that it did not hold when
\* the .meta file was read, with any number of slots, processes and kills.
THEOREM StatusIsTrue == GateSpec => []ListedHeld
<1>1. GateInv => ListedHeld
  BY DEF GateInv
<1>2. QED
  BY <1>1, InitGateInv, NextGateInv, PTL DEF GateSpec

-----------------------------------------------------------------------------
(* BuildGate. The refinement.  Two builds of one repository would hold one *)
(* flock, and builds that count at most k slots hold different ones of the *)
(* first k.                                                                *)

\* The instance counts as FiniteSets does.
LEMMA SameCardinality == ASSUME NEW S PROVE Semaphore!Cardinality(S) = Cardinality(S)
  BY DEF Semaphore!Cardinality, Cardinality

Build(p) == IF gpc[p] = "hold" THEN [repo |-> repo[p], slots |-> count[p]] ELSE None
Building == [p \in GateProcs |-> Build(p)]

SemaphoreStep == [Semaphore!SemaphoreNext]_Building

Capped == \A k \in Nat :
    Cardinality({p \in GateProcs : Build(p) # None /\ Build(p).slots \in 1..k}) =< k

\* Builds of processes with at most k slots hold as many slots of the first k.
LEMMA Bounded == Typed /\ HoldsSlot => Capped
<1> SUFFICES ASSUME Typed, HoldsSlot, NEW k \in Nat
             PROVE  Cardinality({p \in GateProcs :
                        Build(p) # None /\ Build(p).slots \in 1..k}) =< k
  BY DEF Capped
<1> DEFINE W == {p \in GateProcs : Build(p) # None /\ Build(p).slots \in 1..k}
<1>1. \A p \in W : /\ p \in GateProcs /\ gpc[p] = "hold"
                   /\ count[p] \in 1..k
  BY DEF Build
<1>2. \A p \in W : at[p] \in 1..k /\ slot[at[p]] = p
  BY <1>1 DEF Typed, GateTypeOK, InRange, HoldsSlot
<1> DEFINE f == [p \in W |-> at[p]]
<1> HIDE DEF W
<1>3. f \in Injection(W, 1..k)
  BY <1>2 DEF Injection, IsInjective
<1>4. IsFiniteSet(1..k) /\ Cardinality(1..k) = k
  BY FS_Interval
<1>5. Cardinality(W) =< k
  BY <1>3, <1>4, FS_Injection
<1>6. QED
  BY <1>5 DEF W

\* A build that begins with both gates is a step of the semaphore.
LEMMA BeginStep ==
    ASSUME Typed, Capped', NEW p \in GateProcs,
           gpc[p] \notin {"idle", "hold"}, gpc' = [gpc EXCEPT ![p] = "hold"],
           repo' = repo, count' = count,
           \A q \in GateProcs : gpc[q] = "hold" => repo[q] # repo[p]
    PROVE  \E r \in Repos, n \in SlotCounts : Semaphore!Begin(p, r, n)
<1> USE GateAssumption
<1>1. PICK r \in Repos, n \in SlotCounts : repo[p] = r /\ count[p] = n
  BY DEF Typed, GateTypeOK, InRange
<1>2. Building[p] = None
  BY DEF Building, Build
<1>3. \A q \in GateProcs : Building[q] # None => Building[q].repo # r
  BY <1>1 DEF Building, Build
<1>4. Building' = [Building EXCEPT ![p] = [repo |-> r, slots |-> n]]
  BY <1>1 DEF Building, Build, Typed, GateTypeOK
<1>5. ASSUME NEW k \in SlotCounts \ {0}
      PROVE  Cardinality({q \in GateProcs : /\ Building'[q] # None
                                            /\ Building'[q].slots \in 1..k}) =< k
  <2>1. Cardinality({q \in GateProcs : Build(q)' # None /\ Build(q)'.slots \in 1..k}) =< k
    BY DEF Capped
  <2>2. \A q \in GateProcs : Building'[q] = Build(q)'
    BY DEF Building
  <2>3. {q \in GateProcs : Building'[q] # None /\ Building'[q].slots \in 1..k}
        = {q \in GateProcs : Build(q)' # None /\ Build(q)'.slots \in 1..k}
    BY <2>2
  <2>4. QED
    BY <2>1, <2>3
<1>6. \A k \in SlotCounts \ {0} : Semaphore!Cardinality(Semaphore!Within(k)') =< k
  BY <1>5, SameCardinality, Zenon DEF Semaphore!Within, Building, Build
<1>7. Semaphore!Begin(p, r, n)
  BY <1>2, <1>3, <1>4, <1>6, Zenon DEF Semaphore!Begin, Building, Build
<1>8. QED
  BY <1>7

\* A build that ends, or is killed, is a step of the semaphore.
LEMMA EndStep ==
    ASSUME Typed, NEW p \in GateProcs, gpc[p] = "hold", gpc'[p] # "hold", repo' = repo,
           gpc' \in [GateProcs -> GateSteps],
           \A q \in GateProcs \ {p} : gpc'[q] = gpc[q] /\ count'[q] = count[q]
    PROVE  Semaphore!End(p)
<1> USE GateAssumption
<1>1. Building[p] # None
  BY DEF Building, Build, Typed, GateTypeOK, InRange
<1>2. Building' = [Building EXCEPT ![p] = None]
  BY DEF Building, Build
<1>3. QED
  BY <1>1, <1>2 DEF Semaphore!End, Building, Build

\* A step that changes no build is a stutter of the semaphore.
LEMMA NoBuildStep ==
    ASSUME repo' = repo,
           \A q \in GateProcs : /\ gpc'[q] = "hold" <=> gpc[q] = "hold"
                                /\ gpc[q] = "hold" => count'[q] = count[q]
    PROVE  Building' = Building
  BY DEF Building, Build

\* Every step of the gates is a step of the semaphore or a stutter.
LEMMA NextSemaphore ==
    Typed /\ Typed' /\ Holding /\ Holding' /\ [GateNext]_gateVars => SemaphoreStep
<1> SUFFICES ASSUME Typed, Typed', Holding, Holding', [GateNext]_gateVars
             PROVE  SemaphoreStep
  OBVIOUS
<1>a. Capped'
  BY Bounded, PTL DEF Holding
<1> USE DEF frame, GateGoto, GateReturn, SemaphoreStep
<1>1. ASSUME NEW p \in GateProcs, StartCall(p) PROVE SemaphoreStep
  BY <1>1, NoBuildStep DEF StartCall, Typed, GateTypeOK
<1>2. ASSUME NEW p \in GateProcs, FindBusy(p) PROVE SemaphoreStep
  BY <1>2, NoBuildStep DEF FindBusy, Typed, GateTypeOK
<1>3. ASSUME NEW p \in GateProcs, FindFree(p) PROVE SemaphoreStep
  BY <1>3, NoBuildStep DEF FindFree, Typed, GateTypeOK
<1>4. ASSUME NEW p \in GateProcs, DropLock(p) PROVE SemaphoreStep
  BY <1>4, NoBuildStep DEF DropLock, Typed, GateTypeOK
<1>5. ASSUME NEW p \in GateProcs, TakeLock(p) PROVE SemaphoreStep
  <2>1. CASE count[p] = 0
    <3>1. \A q \in GateProcs : gpc[q] = "hold" => repo[q] # repo[p]
      BY <1>5, GateAssumption DEF TakeLock, Holding, HoldsLock, Typed, GateTypeOK
    <3>2. \E r \in Repos, n \in SlotCounts : Semaphore!Begin(p, r, n)
      BY <1>5, <1>a, <2>1, <3>1, BeginStep DEF TakeLock
    <3>3. QED
      BY <3>2 DEF Semaphore!SemaphoreNext
  <2>2. CASE count[p] # 0
    BY <1>5, <2>2, NoBuildStep DEF TakeLock, Typed, GateTypeOK
  <2>3. QED
    BY <2>1, <2>2
<1>6. ASSUME NEW p \in GateProcs, RefuseLock(p) PROVE SemaphoreStep
  BY <1>6, NoBuildStep DEF RefuseLock, Typed, GateTypeOK
<1>7. ASSUME NEW p \in GateProcs, TakeSlot(p) PROVE SemaphoreStep
  BY <1>7, NoBuildStep DEF TakeSlot, Typed, GateTypeOK
<1>8. ASSUME NEW p \in GateProcs, PassSlot(p) PROVE SemaphoreStep
  BY <1>8, NoBuildStep DEF PassSlot, Typed, GateTypeOK
<1>9. ASSUME NEW p \in GateProcs, Retry(p) PROVE SemaphoreStep
  BY <1>9, NoBuildStep DEF Retry, Typed, GateTypeOK
<1>10. ASSUME NEW p \in GateProcs, TruncateMeta(p) PROVE SemaphoreStep
  BY <1>10, NoBuildStep DEF TruncateMeta, Typed, GateTypeOK
<1>11. ASSUME NEW p \in GateProcs, FillMeta(p) PROVE SemaphoreStep
  <2>1. CASE ~probing[p]
    <3>1. \A q \in GateProcs : gpc[q] = "hold" => repo[q] # repo[p]
      BY <1>11, <2>1 DEF FillMeta, Holding, HoldsLock
    <3>2. \E r \in Repos, n \in SlotCounts : Semaphore!Begin(p, r, n)
      BY <1>11, <1>a, <2>1, <3>1, BeginStep DEF FillMeta
    <3>3. QED
      BY <3>2 DEF Semaphore!SemaphoreNext
  <2>2. CASE probing[p]
    BY <1>11, <2>2, NoBuildStep DEF FillMeta, Typed, GateTypeOK
  <2>3. QED
    BY <2>1, <2>2
<1>12. ASSUME NEW p \in GateProcs, EndBuild(p) PROVE SemaphoreStep
  <2>1. Semaphore!End(p)
    BY <1>12, EndStep DEF EndBuild, Typed, GateTypeOK
  <2>2. QED
    BY <2>1 DEF Semaphore!SemaphoreNext
<1>13. ASSUME NEW p \in GateProcs, ClearMeta(p) PROVE SemaphoreStep
  BY <1>13, NoBuildStep DEF ClearMeta, Typed, GateTypeOK
<1>14. ASSUME NEW p \in GateProcs, FreeSlot(p) PROVE SemaphoreStep
  BY <1>14, NoBuildStep DEF FreeSlot, Typed, GateTypeOK
<1>15. ASSUME NEW p \in GateProcs, FreeLock(p) PROVE SemaphoreStep
  BY <1>15, NoBuildStep DEF FreeLock, Typed, GateTypeOK
<1>16. ASSUME NEW p \in GateProcs, ListEnd(p) PROVE SemaphoreStep
  BY <1>16, NoBuildStep DEF ListEnd, Typed, GateTypeOK
<1>17. ASSUME NEW p \in GateProcs, ListTake(p) PROVE SemaphoreStep
  BY <1>17, NoBuildStep DEF ListTake, Typed, GateTypeOK
<1>18. ASSUME NEW p \in GateProcs, ListDrop(p) PROVE SemaphoreStep
  BY <1>18, NoBuildStep DEF ListDrop, Typed, GateTypeOK
<1>19. ASSUME NEW p \in GateProcs, ListHeld(p) PROVE SemaphoreStep
  BY <1>19, NoBuildStep DEF ListHeld, Typed, GateTypeOK
<1>20. ASSUME NEW p \in GateProcs, ListRead(p) PROVE SemaphoreStep
  BY <1>20, NoBuildStep DEF ListRead, Typed, GateTypeOK
<1>21. ASSUME NEW p \in GateProcs, KillCall(p) PROVE SemaphoreStep
  <2>1. CASE gpc[p] = "hold"
    <3>1. Semaphore!End(p)
      BY <1>21, <2>1, EndStep DEF KillCall, Typed, GateTypeOK
    <3>2. QED
      BY <3>1 DEF Semaphore!SemaphoreNext
  <2>2. CASE gpc[p] # "hold"
    BY <1>21, <2>2, NoBuildStep DEF KillCall, Typed, GateTypeOK
  <2>3. QED
    BY <2>1, <2>2
<1>22. CASE UNCHANGED gateVars
  BY <1>22, NoBuildStep DEF gateVars
<1>23. QED
  BY <1>1, <1>2, <1>3, <1>4, <1>5, <1>6, <1>7, <1>8, <1>9, <1>10, <1>11, <1>12, <1>13,
     <1>14, <1>15, <1>16, <1>17, <1>18, <1>19, <1>20, <1>21, <1>22 DEF GateNext,
     GateStep

\* There is no build at first.
LEMMA InitSemaphore == GateInit => Semaphore!SemaphoreInit
  BY DEF GateInit, Semaphore!SemaphoreInit

\* The flock on build.lock and the slots of the pool are a semaphore: whatever the
\* number of processes, repositories and slots, and whoever probes or is killed.
THEOREM GatesAreSemaphore == GateSpec => ImplementsSemaphore
<1>1. GateInv => Typed /\ Holding
  BY DEF GateInv
<1>2. SemaphoreStep <=> [Semaphore!SemaphoreNext]_Building
  BY DEF SemaphoreStep
<1>3. QED
  BY <1>1, InitGateInv, NextGateInv, InitSemaphore, NextSemaphore, PTL
     DEF GateSpec, ImplementsSemaphore, Semaphore!SemaphoreSpec, SemaphoreStep, Building, Build

-----------------------------------------------------------------------------
(* WorktreeSeed. Types.  That temps never falls below zero rests on who     *)
(* owns a temporary directory: every seeder under way has one of its own.   *)

WithTemp == {"backup", "recheck", "rename", "remove", "copy", "write", "undo"}
Owners == {p \in Seeders : spc[p] \in WithTemp}

Plain ==
    /\ spc \in [Seeders -> SeedSteps]
    /\ dest \in {"none", "file", "dir"}
    /\ db \in {"none", "part", "full"}
    /\ held \subseteq SeedRows /\ safe \subseteq SeedRows
    /\ onFile \subseteq Seeders
    /\ mixed \in BOOLEAN /\ cut \in BOOLEAN
    /\ seeds \in 0..MaxSeeds
    /\ seedKills \in 0..SeedKills

Counted ==
    /\ temps \in Nat /\ temps =< seeds
    /\ IsFiniteSet(Owners) /\ Cardinality(Owners) =< temps

Seeding == Plain /\ Counted

\* The types are what the parts say.
LEMMA SeedingTyped == Seeding => SeedTypeOK
  BY SeedAssumption DEF Seeding, Plain, Counted, SeedTypeOK

\* What a step does to the owners of the temporary directories.
Same == Owners' = Owners /\ temps' = temps /\ seeds' \in {seeds, seeds + 1}
Adds(p) == /\ p \notin Owners /\ Owners' = Owners \cup {p}
           /\ temps' = temps + 1 /\ seeds' = seeds + 1
Drops(p) == /\ p \in Owners /\ Owners' = Owners \ {p}
            /\ temps' \in {temps, temps - 1} /\ seeds' = seeds

OwnersStep == Same \/ \E p \in Seeders : Adds(p) \/ Drops(p)

\* A call that begins adds its process, a call that ends takes it away, with its
\* directory or without, and every other step leaves the owners as they are.
LEMMA NextOwners == Plain /\ [SeedNext]_seedVars => OwnersStep
<1> SUFFICES ASSUME Plain, [SeedNext]_seedVars PROVE OwnersStep
  OBVIOUS
<1> USE DEF Plain, SeedSteps, Filling, Committed, SeedGoto, WithTemp, Owners, seedCounts,
    OwnersStep, Same, Adds, Drops
<1>1. ASSUME NEW p \in Seeders, SeedBegin(p) PROVE OwnersStep
  BY <1>1 DEF SeedBegin
<1>2. ASSUME NEW p \in Seeders, SeedBackup(p) PROVE OwnersStep
  BY <1>2 DEF SeedBackup
<1>3. ASSUME NEW p \in Seeders, SeedRecheck(p) PROVE OwnersStep
  BY <1>3 DEF SeedRecheck
<1>4. ASSUME NEW p \in Seeders, SeedRename(p) PROVE OwnersStep
  BY <1>4 DEF SeedRename
<1>5. ASSUME NEW p \in Seeders, SeedRenameFails(p) PROVE OwnersStep
  BY <1>5 DEF SeedRenameFails
<1>6. ASSUME NEW p \in Seeders, SeedRemove(p) PROVE OwnersStep
  BY <1>6 DEF SeedRemove, RemoveSo
<1>7. ASSUME NEW p \in Seeders, SeedCopy(p) PROVE OwnersStep
  BY <1>7 DEF SeedCopy
<1>8. ASSUME NEW p \in Seeders, SeedWritten(p) PROVE OwnersStep
  BY <1>8 DEF SeedWritten
<1>9. ASSUME NEW p \in Seeders, SeedCopyFails(p) PROVE OwnersStep
  BY <1>9 DEF SeedCopyFails
<1>10. ASSUME NEW p \in Seeders, SeedUndo(p) PROVE OwnersStep
  BY <1>10 DEF SeedUndo, RemoveSo
<1>11. ASSUME NEW p \in Seeders, InitDirs(p) PROVE OwnersStep
  BY <1>11 DEF InitDirs
<1>12. ASSUME NEW p \in Seeders, InitPublish(p) PROVE OwnersStep
  BY <1>12 DEF InitPublish
<1>13. ASSUME NEW p \in Seeders, InitFinds(p) PROVE OwnersStep
  BY <1>13 DEF InitFinds
<1>14. ASSUME NEW p \in Seeders, InitFails(p) PROVE OwnersStep
  BY <1>14 DEF InitFails
<1>15. ASSUME NEW p \in Seeders, KillSeeder(p) PROVE OwnersStep
  BY <1>15 DEF KillSeeder
<1>16. CASE StoreRow
  BY <1>16 DEF StoreRow
<1>17. CASE UNCHANGED seedVars
  BY <1>17 DEF seedVars
<1>18. QED
  BY <1>1, <1>2, <1>3, <1>4, <1>5, <1>6, <1>7, <1>8, <1>9, <1>10, <1>11, <1>12, <1>13,
     <1>14, <1>15, <1>16, <1>17 DEF SeedNext

\* No step takes a directory that is not there.
LEMMA NextCounted == Seeding /\ OwnersStep => Counted'
<1> SUFFICES ASSUME Seeding, OwnersStep PROVE Counted'
  OBVIOUS
<1> USE DEF Seeding, Plain, Counted
<1>1. Cardinality(Owners) \in Nat
  BY FS_CardinalityType
<1>2. CASE Same
  BY <1>1, <1>2 DEF Same
<1>3. ASSUME NEW p \in Seeders, Adds(p) PROVE Counted'
  <2>1. IsFiniteSet(Owners') /\ Cardinality(Owners') = Cardinality(Owners) + 1
    BY <1>3, FS_AddElement DEF Adds
  <2>2. QED
    BY <1>1, <1>3, <2>1 DEF Adds
<1>4. ASSUME NEW p \in Seeders, Drops(p) PROVE Counted'
  <2>1. IsFiniteSet(Owners') /\ Cardinality(Owners') = Cardinality(Owners) - 1
    BY <1>4, FS_RemoveElement DEF Drops
  <2>2. Cardinality(Owners') \in Nat
    BY <2>1, FS_CardinalityType
  <2>3. QED
    BY <1>1, <1>4, <2>1, <2>2 DEF Drops
<1>5. QED
  BY <1>2, <1>3, <1>4 DEF OwnersStep

\* Every step of a seeder, of so init or of a command keeps the other types.
LEMMA NextPlain == Plain /\ [SeedNext]_seedVars => Plain'
<1> SUFFICES ASSUME Plain, [SeedNext]_seedVars PROVE Plain'
  OBVIOUS
<1> USE SeedAssumption DEF Plain, SeedSteps, Filling, Committed, SeedGoto, seedCounts
<1>1. ASSUME NEW p \in Seeders, SeedBegin(p) PROVE Plain'
  BY <1>1 DEF SeedBegin
<1>2. ASSUME NEW p \in Seeders, SeedBackup(p) PROVE Plain'
  BY <1>2 DEF SeedBackup
<1>3. ASSUME NEW p \in Seeders, SeedRecheck(p) PROVE Plain'
  BY <1>3 DEF SeedRecheck
<1>4. ASSUME NEW p \in Seeders, SeedRename(p) PROVE Plain'
  BY <1>4 DEF SeedRename
<1>5. ASSUME NEW p \in Seeders, SeedRenameFails(p) PROVE Plain'
  BY <1>5 DEF SeedRenameFails
<1>6. ASSUME NEW p \in Seeders, SeedRemove(p) PROVE Plain'
  BY <1>6 DEF SeedRemove, RemoveSo
<1>7. ASSUME NEW p \in Seeders, SeedCopy(p) PROVE Plain'
  BY <1>7 DEF SeedCopy
<1>8. ASSUME NEW p \in Seeders, SeedWritten(p) PROVE Plain'
  BY <1>8 DEF SeedWritten
<1>9. ASSUME NEW p \in Seeders, SeedCopyFails(p) PROVE Plain'
  BY <1>9 DEF SeedCopyFails
<1>10. ASSUME NEW p \in Seeders, SeedUndo(p) PROVE Plain'
  BY <1>10 DEF SeedUndo, RemoveSo
<1>11. ASSUME NEW p \in Seeders, InitDirs(p) PROVE Plain'
  BY <1>11 DEF InitDirs
<1>12. ASSUME NEW p \in Seeders, InitPublish(p) PROVE Plain'
  BY <1>12 DEF InitPublish
<1>13. ASSUME NEW p \in Seeders, InitFinds(p) PROVE Plain'
  BY <1>13 DEF InitFinds
<1>14. ASSUME NEW p \in Seeders, InitFails(p) PROVE Plain'
  BY <1>14 DEF InitFails
<1>15. ASSUME NEW p \in Seeders, KillSeeder(p) PROVE Plain'
  BY <1>15 DEF KillSeeder
<1>16. CASE StoreRow
  BY <1>16 DEF StoreRow
<1>17. CASE UNCHANGED seedVars
  BY <1>17 DEF seedVars
<1>18. QED
  BY <1>1, <1>2, <1>3, <1>4, <1>5, <1>6, <1>7, <1>8, <1>9, <1>10, <1>11, <1>12, <1>13,
     <1>14, <1>15, <1>16, <1>17 DEF SeedNext

\* Nobody is under way at first.
LEMMA InitSeeding == SeedInit => Seeding
<1> SUFFICES ASSUME SeedInit PROVE Seeding
  OBVIOUS
<1>1. Owners = {}
  BY DEF SeedInit, Owners, WithTemp
<1>2. Counted
  BY <1>1, FS_EmptySet DEF Counted, SeedInit
<1>3. Plain
  <2>1. spc \in [Seeders -> SeedSteps]
    BY DEF SeedInit, SeedSteps
  <2>2. seeds \in 0..MaxSeeds /\ seedKills \in 0..SeedKills
    BY SeedAssumption DEF SeedInit
  <2>3. QED
    BY <2>1, <2>2 DEF SeedInit, Plain
<1>4. QED
  BY <1>2, <1>3 DEF Seeding

\* The types and the count of temporary directories are inductive.
LEMMA NextSeeding == Seeding /\ [SeedNext]_seedVars => Seeding'
  BY NextOwners, NextCounted, NextPlain DEF Seeding

\* Every variable of the seeding keeps its type.
THEOREM SeedTyping == SeedSpec => []SeedTypeOK
  BY InitSeeding, NextSeeding, SeedingTyped, PTL DEF SeedSpec

-----------------------------------------------------------------------------
(* WorktreeSeed. Rows.  While there is a safe row .so is a directory, so no *)
(* seeder passes its second check, and none was past it when the row was    *)
(* stored.                                                                  *)

Undisturbed == safe # {} => dest = "dir" /\ \A p \in Seeders : spc[p] \notin Committed

RowsInv == SeedKeepsRows /\ Undisturbed

\* There are no rows at first.
LEMMA InitRows == SeedInit => RowsInv
  BY DEF SeedInit, RowsInv, SeedKeepsRows, Undisturbed

\* No step takes a safe row away or lets a seeder through that could.
LEMMA NextRows == Plain /\ RowsInv /\ [SeedNext]_seedVars => RowsInv'
<1> SUFFICES ASSUME Plain, RowsInv, [SeedNext]_seedVars PROVE RowsInv'
  OBVIOUS
<1> USE DEF Plain, SeedSteps, Filling, Committed, SeedGoto, seedCounts, RowsInv,
    SeedKeepsRows, Undisturbed
<1>1. ASSUME NEW p \in Seeders, SeedBegin(p) PROVE RowsInv'
  BY <1>1 DEF SeedBegin
<1>2. ASSUME NEW p \in Seeders, SeedBackup(p) PROVE RowsInv'
  BY <1>2 DEF SeedBackup
<1>3. ASSUME NEW p \in Seeders, SeedRecheck(p) PROVE RowsInv'
  BY <1>3 DEF SeedRecheck
<1>4. ASSUME NEW p \in Seeders, SeedRename(p) PROVE RowsInv'
  BY <1>4 DEF SeedRename
<1>5. ASSUME NEW p \in Seeders, SeedRenameFails(p) PROVE RowsInv'
  BY <1>5 DEF SeedRenameFails
<1>6. ASSUME NEW p \in Seeders, SeedRemove(p) PROVE RowsInv'
  BY <1>6 DEF SeedRemove, RemoveSo
<1>7. ASSUME NEW p \in Seeders, SeedCopy(p) PROVE RowsInv'
  BY <1>7 DEF SeedCopy
<1>8. ASSUME NEW p \in Seeders, SeedWritten(p) PROVE RowsInv'
  BY <1>8 DEF SeedWritten
<1>9. ASSUME NEW p \in Seeders, SeedCopyFails(p) PROVE RowsInv'
  BY <1>9 DEF SeedCopyFails
<1>10. ASSUME NEW p \in Seeders, SeedUndo(p) PROVE RowsInv'
  BY <1>10 DEF SeedUndo, RemoveSo
<1>11. ASSUME NEW p \in Seeders, InitDirs(p) PROVE RowsInv'
  BY <1>11 DEF InitDirs
<1>12. ASSUME NEW p \in Seeders, InitPublish(p) PROVE RowsInv'
  BY <1>12 DEF InitPublish
<1>13. ASSUME NEW p \in Seeders, InitFinds(p) PROVE RowsInv'
  BY <1>13 DEF InitFinds
<1>14. ASSUME NEW p \in Seeders, InitFails(p) PROVE RowsInv'
  BY <1>14 DEF InitFails
<1>15. ASSUME NEW p \in Seeders, KillSeeder(p) PROVE RowsInv'
  BY <1>15 DEF KillSeeder
<1>16. CASE StoreRow
  BY <1>16 DEF StoreRow
<1>17. CASE UNCHANGED seedVars
  BY <1>17 DEF seedVars
<1>18. QED
  BY <1>1, <1>2, <1>3, <1>4, <1>5, <1>6, <1>7, <1>8, <1>9, <1>10, <1>11, <1>12, <1>13,
     <1>14, <1>15, <1>16, <1>17 DEF SeedNext

\* A seeder never takes away a row stored while no seeder was past its second check,
\* however many seeders, failures and kills there are.
THEOREM SafeRowsStay == SeedSpec => []SeedKeepsRows
<1>1. Seeding => Plain
  BY DEF Seeding
<1>2. RowsInv => SeedKeepsRows
  BY DEF RowsInv
<1>3. QED
  BY <1>1, <1>2, InitSeeding, NextSeeding, InitRows, NextRows, PTL DEF SeedSpec

-----------------------------------------------------------------------------
(* WorktreeSeed. Whole databases.  Who writes so.db under its name is in    *)
(* the middle of its copy, and two of them have met; what is not whole yet  *)
(* has somebody who will complete or remove it.                             *)

Writing == \A p \in onFile : spc[p] = "write"
Alone == ~mixed => \A p, q \in onFile : p = q
Named == db # "none" \/ onFile # {} => dest = "dir"
Attended ==
    (dest = "dir" /\ db # "full") =>
        \/ cut \/ mixed
        \/ \E p \in Seeders : spc[p] = "undo"
        \/ db = "part" /\ onFile # {}
        \/ db = "none" /\ \E p \in Seeders : spc[p] = "init"

WholeInv == Writing /\ Alone /\ Named /\ Attended

\* Nothing is filled at first.
LEMMA InitWhole == SeedInit => WholeInv
  BY DEF SeedInit, WholeInv, Writing, Alone, Named, Attended

\* No step leaves a part of a database that nobody attends to, but a kill.
LEMMA NextWhole == Plain /\ WholeInv /\ [SeedNext]_seedVars => WholeInv'
<1> SUFFICES ASSUME Plain, WholeInv, [SeedNext]_seedVars PROVE WholeInv'
  OBVIOUS
<1> USE DEF Plain, SeedSteps, Filling, Committed, SeedGoto, seedCounts, WholeInv, Writing,
    Alone, Named, Attended
<1>1. ASSUME NEW p \in Seeders, SeedBegin(p) PROVE WholeInv'
  BY <1>1 DEF SeedBegin
<1>2. ASSUME NEW p \in Seeders, SeedBackup(p) PROVE WholeInv'
  BY <1>2 DEF SeedBackup
<1>3. ASSUME NEW p \in Seeders, SeedRecheck(p) PROVE WholeInv'
  BY <1>3 DEF SeedRecheck
<1>4. ASSUME NEW p \in Seeders, SeedRename(p) PROVE WholeInv'
  BY <1>4 DEF SeedRename
<1>5. ASSUME NEW p \in Seeders, SeedRenameFails(p) PROVE WholeInv'
  BY <1>5 DEF SeedRenameFails
<1>6. ASSUME NEW p \in Seeders, SeedRemove(p) PROVE WholeInv'
  BY <1>6 DEF SeedRemove, RemoveSo
<1>7. ASSUME NEW p \in Seeders, SeedCopy(p) PROVE WholeInv'
  BY <1>7 DEF SeedCopy
<1>8. ASSUME NEW p \in Seeders, SeedWritten(p) PROVE WholeInv'
  <2>1. Writing' /\ Alone' /\ Named'
    BY <1>8 DEF SeedWritten
  <2>2. CASE db' = "full"
    BY <2>1, <2>2
  <2>3. CASE db' # "full"
    <3>1. db' = db /\ dest' = dest /\ mixed' = mixed /\ cut' = cut
      BY <1>8, <2>3 DEF SeedWritten
    <3>2. ~mixed => onFile # {p} /\ onFile' = onFile
      BY <1>8, <2>3 DEF SeedWritten
    <3>3. \A q \in Seeders : spc[q] \in {"undo", "init"} => spc'[q] = spc[q]
      BY <1>8 DEF SeedWritten
    <3>4. QED
      BY <2>1, <3>1, <3>2, <3>3
  <2>4. QED
    BY <2>2, <2>3
<1>9. ASSUME NEW p \in Seeders, SeedCopyFails(p) PROVE WholeInv'
  BY <1>9 DEF SeedCopyFails
<1>10. ASSUME NEW p \in Seeders, SeedUndo(p) PROVE WholeInv'
  BY <1>10 DEF SeedUndo, RemoveSo
<1>11. ASSUME NEW p \in Seeders, InitDirs(p) PROVE WholeInv'
  BY <1>11 DEF InitDirs
<1>12. ASSUME NEW p \in Seeders, InitPublish(p) PROVE WholeInv'
  BY <1>12 DEF InitPublish
<1>13. ASSUME NEW p \in Seeders, InitFinds(p) PROVE WholeInv'
  BY <1>13 DEF InitFinds
<1>14. ASSUME NEW p \in Seeders, InitFails(p) PROVE WholeInv'
  BY <1>14 DEF InitFails
<1>15. ASSUME NEW p \in Seeders, KillSeeder(p) PROVE WholeInv'
  BY <1>15 DEF KillSeeder
<1>16. CASE StoreRow
  BY <1>16 DEF StoreRow
<1>17. CASE UNCHANGED seedVars
  BY <1>17 DEF seedVars
<1>18. QED
  BY <1>1, <1>2, <1>3, <1>4, <1>5, <1>6, <1>7, <1>8, <1>9, <1>10, <1>11, <1>12, <1>13,
     <1>14, <1>15, <1>16, <1>17 DEF SeedNext

\* A worktree is not left managed without a whole database, however many seeders race
\* with so init, unless a process that filled it was killed or gave up, or two wrote one file.
THEOREM NoHalfWorktree == SeedSpec => []SeedWhole
<1>1. Seeding => Plain
  BY DEF Seeding
<1>2. Plain /\ WholeInv => SeedWhole
  BY DEF Plain, WholeInv, Writing, Attended, SeedWhole, Filling
<1>3. QED
  BY <1>1, <1>2, InitSeeding, NextSeeding, InitWhole, NextWhole, PTL DEF SeedSpec

-----------------------------------------------------------------------------
(* HookState.  What the operations on the pending edits do to them.          *)

NoTwice(s) == \A i, j \in DOMAIN s : s[i] = s[j] => i = j

\* Who adds an edit drops the oldest at the cap, and no other.
LEMMA AddsEdit ==
    ASSUME NEW s \in Seq(Edits), Len(s) =< PendingCap, NEW e \in Edits
    PROVE  /\ WithEdit(s, e) \in Seq(Edits) /\ Len(WithEdit(s, e)) =< PendingCap
           /\ ToSet(WithEdit(s, e)) \subseteq ToSet(s) \cup {e}
           /\ e \in ToSet(WithEdit(s, e))
           /\ NoTwice(s) /\ e \notin ToSet(s) => NoTwice(WithEdit(s, e))
<1>1. Len(s) \in Nat /\ PendingCap \in Nat \ {0} /\ DOMAIN s = 1..Len(s)
  BY HookAssumption
<1>2. CASE Len(s) < PendingCap
  <2> DEFINE t == Append(s, e)
  <2>1. WithEdit(s, e) = t
    BY <1>1, <1>2 DEF WithEdit
  <2>2. /\ t \in Seq(Edits) /\ Len(t) = Len(s) + 1
        /\ \A i \in 1..Len(s) : t[i] = s[i]
        /\ t[Len(s) + 1] = e
    BY <1>1
  <2> HIDE DEF t
  <2>3. DOMAIN t = 1..(Len(s) + 1)
    BY <1>1, <2>2
  <2>4. ToSet(t) \subseteq ToSet(s) \cup {e} /\ e \in ToSet(t)
    BY <1>1, <2>2, <2>3 DEF ToSet
  <2>5. NoTwice(s) /\ e \notin ToSet(s) => NoTwice(t)
    BY <1>1, <2>2, <2>3 DEF ToSet, NoTwice
  <2>6. QED
    BY <1>1, <1>2, <2>1, <2>2, <2>4, <2>5
<1>3. CASE Len(s) >= PendingCap
  <2> DEFINE t == Append(Tail(s), e)
  <2>1. WithEdit(s, e) = t
    BY <1>3 DEF WithEdit
  <2>2. Len(s) \in Nat \ {0}
    BY <1>1, <1>3
  <2>3. /\ Tail(s) \in Seq(Edits) /\ Len(Tail(s)) = Len(s) - 1
        /\ \A i \in 1..(Len(s) - 1) : Tail(s)[i] = s[i + 1]
    BY <2>2
  <2>4. /\ t \in Seq(Edits) /\ Len(t) = Len(s)
        /\ \A i \in 1..(Len(s) - 1) : t[i] = s[i + 1]
        /\ t[Len(s)] = e
    BY <2>2, <2>3
  <2> HIDE DEF t
  <2>5. DOMAIN t = 1..Len(s)
    BY <2>2, <2>4
  <2>6. ToSet(t) \subseteq ToSet(s) \cup {e} /\ e \in ToSet(t)
    <3>1. ToSet(t) = {t[i] : i \in 1..Len(s)} /\ ToSet(s) = {s[i] : i \in 1..Len(s)}
      BY <1>1, <2>5 DEF ToSet
    <3>2. ASSUME NEW i \in 1..Len(s) PROVE t[i] \in {s[j] : j \in 1..Len(s)} \cup {e}
      <4>1. CASE i = Len(s)
        BY <2>4, <4>1
      <4>2. CASE i # Len(s)
        <5>1. i \in 1..(Len(s) - 1) /\ i + 1 \in 1..Len(s)
          BY <2>2, <4>2
        <5>2. t[i] = s[i + 1]
          BY <2>4, <5>1
        <5>3. QED
          BY <5>1, <5>2
      <4>3. QED
        BY <4>1, <4>2
    <3>3. Len(s) \in 1..Len(s)
      BY <2>2
    <3>4. QED
      BY <2>4, <3>1, <3>2, <3>3
  <2>7. ASSUME NoTwice(s), e \notin ToSet(s) PROVE NoTwice(t)
    <3>1. \A i \in 1..Len(s) : t[i] = IF i < Len(s) THEN s[i + 1] ELSE e
      BY <2>2, <2>4
    <3>2. \A i \in 1..Len(s) : s[i] # e
      BY <1>1, <2>7 DEF ToSet
    <3>3. ASSUME NEW i \in 1..Len(s), NEW j \in 1..Len(s), t[i] = t[j] PROVE i = j
      <4>1. CASE i < Len(s) /\ j < Len(s)
        <5>1. i + 1 \in 1..Len(s) /\ j + 1 \in 1..Len(s) /\ s[i + 1] = s[j + 1]
          BY <2>2, <3>1, <3>3, <4>1
        <5>2. i + 1 = j + 1
          BY <1>1, <2>7, <5>1 DEF NoTwice
        <5>3. QED
          BY <5>2
      <4>2. CASE i = Len(s) \/ j = Len(s)
        BY <2>2, <3>1, <3>2, <3>3, <4>2
      <4>3. QED
        BY <2>2, <4>1, <4>2
    <3>4. QED
      BY <2>5, <3>3 DEF NoTwice
  <2>8. QED
    BY <1>1, <2>1, <2>4, <2>6, <2>7
<1>4. QED
  BY <1>1, <1>2, <1>3

\* What is left when the entry at k is removed.
LEMMA RemovesOne ==
    ASSUME NEW s \in Seq(Edits), NEW k \in 1..Len(s)
    PROVE  /\ RemoveAt(s, k) \in Seq(Edits) /\ Len(RemoveAt(s, k)) = Len(s) - 1
           /\ \A i \in 1..(Len(s) - 1) : RemoveAt(s, k)[i] = IF i < k THEN s[i] ELSE s[i + 1]
<1>1. Len(s) \in Nat /\ k \in Int
  OBVIOUS
<1>2. /\ SubSeq(s, 1, k - 1) \in Seq(Edits) /\ Len(SubSeq(s, 1, k - 1)) = k - 1
      /\ \A i \in 1..(k - 1) : SubSeq(s, 1, k - 1)[i] = s[i]
  BY <1>1, SubSeqProperties
<1>3. /\ SubSeq(s, k + 1, Len(s)) \in Seq(Edits) /\ Len(SubSeq(s, k + 1, Len(s))) = Len(s) - k
      /\ \A i \in 1..(Len(s) - k) : SubSeq(s, k + 1, Len(s))[i] = s[k + i]
  <2>1. /\ k + 1 \in Int /\ Len(s) \in Int /\ \A i \in (k + 1)..Len(s) : s[i] \in Edits
        /\ Len(s) - (k + 1) + 1 = Len(s) - k
    BY <1>1
  <2>2. /\ SubSeq(s, k + 1, Len(s)) \in Seq(Edits)
        /\ Len(SubSeq(s, k + 1, Len(s))) = IF k + 1 =< Len(s) THEN Len(s) - (k + 1) + 1 ELSE 0
        /\ \A i \in 1..(Len(s) - (k + 1) + 1) : SubSeq(s, k + 1, Len(s))[i] = s[(k + 1) + i - 1]
    BY <2>1, SubSeqProperties
  <2>3. Len(SubSeq(s, k + 1, Len(s))) = Len(s) - k
    BY <1>1, <2>2
  <2>4. ASSUME NEW i \in 1..(Len(s) - k) PROVE SubSeq(s, k + 1, Len(s))[i] = s[k + i]
    <3>1. i \in 1..(Len(s) - (k + 1) + 1) /\ (k + 1) + i - 1 = k + i
      BY <1>1
    <3>2. QED
      BY <2>2, <3>1
  <2>5. QED
    BY <2>2, <2>3, <2>4
<1> DEFINE t == RemoveAt(s, k)
<1>4. /\ t \in Seq(Edits) /\ Len(t) = Len(s) - 1
      /\ \A i \in 1..(Len(s) - 1) : t[i] = IF i < k THEN s[i] ELSE s[i + 1]
  <2> DEFINE a == SubSeq(s, 1, k - 1)
             b == SubSeq(s, k + 1, Len(s))
  <2>1. t = a \o b
    BY DEF RemoveAt
  <2>2. /\ a \in Seq(Edits) /\ b \in Seq(Edits) /\ Len(a) = k - 1 /\ Len(b) = Len(s) - k
        /\ \A i \in 1..(k - 1) : a[i] = s[i]
        /\ \A i \in 1..(Len(s) - k) : b[i] = s[k + i]
    BY <1>2, <1>3
  <2> HIDE DEF a, b, t
  <2>3. /\ t \in Seq(Edits) /\ Len(t) = Len(a) + Len(b)
        /\ \A i \in 1..(Len(a) + Len(b)) : t[i] = IF i =< Len(a) THEN a[i] ELSE b[i - Len(a)]
    BY <2>1, <2>2, ConcatProperties
  <2>4. ASSUME NEW i \in 1..(Len(s) - 1) PROVE t[i] = IF i < k THEN s[i] ELSE s[i + 1]
    <3>1. CASE i < k
      <4>1. i \in 1..(Len(a) + Len(b)) /\ i =< Len(a) /\ i \in 1..(k - 1)
        BY <1>1, <2>2, <3>1
      <4>2. t[i] = a[i] /\ a[i] = s[i]
        BY <2>2, <2>3, <4>1
      <4>3. QED
        BY <3>1, <4>2
    <3>2. CASE i >= k
      <4>1. t[i] = b[i - (k - 1)] /\ i - (k - 1) \in 1..(Len(s) - k)
        <5>1. i \in 1..(Len(a) + Len(b)) /\ ~(i =< Len(a)) /\ i - (k - 1) \in 1..(Len(s) - k)
          BY <1>1, <2>2, <3>2
        <5>2. t[i] = b[i - Len(a)]
          BY <2>3, <5>1
        <5>3. QED
          BY <2>2, <5>1, <5>2
      <4>2. k + (i - (k - 1)) = i + 1
        BY <1>1
      <4>3. b[i - (k - 1)] = s[k + (i - (k - 1))]
        BY <2>2, <4>1
      <4>4. t[i] = s[i + 1] /\ ~(i < k)
        BY ONLY <1>1, <3>2, <4>1, <4>2, <4>3, k \in Nat, i \in Nat
      <4>5. QED
        BY ONLY <4>4
    <3>3. QED
      BY <1>1, <3>1, <3>2
  <2>5. QED
    BY <1>1, <2>2, <2>3, <2>4
<1>5. QED
  BY <1>4

\* Deleting the entry of an edit deletes no other.
LEMMA DeletesEdit ==
    ASSUME NEW s \in Seq(Edits), NEW e \in ToSet(s)
    PROVE  /\ Without(s, e) \in Seq(Edits) /\ Len(Without(s, e)) = Len(s) - 1
           /\ ToSet(Without(s, e)) \subseteq ToSet(s)
           /\ NoTwice(s) => NoTwice(Without(s, e)) /\ ToSet(Without(s, e)) = ToSet(s) \ {e}
<1> DEFINE k == CHOOSE i \in DOMAIN s : s[i] = e
           t == RemoveAt(s, k)
<1>1. k \in 1..Len(s) /\ s[k] = e /\ Len(s) \in Nat /\ DOMAIN s = 1..Len(s)
  BY DEF ToSet
<1> HIDE DEF k
<1>4. /\ t \in Seq(Edits) /\ Len(t) = Len(s) - 1
      /\ \A i \in 1..(Len(s) - 1) : t[i] = IF i < k THEN s[i] ELSE s[i + 1]
  BY <1>1, RemovesOne
<1>5. DOMAIN t = 1..(Len(s) - 1)
  BY <1>1, <1>4
<1> HIDE DEF t
<1>6. ToSet(t) \subseteq ToSet(s)
  BY <1>1, <1>4, <1>5 DEF ToSet
<1>7. ASSUME NoTwice(s) PROVE NoTwice(t) /\ ToSet(t) = ToSet(s) \ {e}
  <2>1. NoTwice(t)
    <3>1. ASSUME NEW i \in 1..(Len(s) - 1), NEW j \in 1..(Len(s) - 1), t[i] = t[j]
          PROVE i = j
      <4> DEFINE At(n) == IF n < k THEN n ELSE n + 1
      <4>1. At(i) \in 1..Len(s) /\ At(j) \in 1..Len(s)
        BY <1>1
      <4>2. t[i] = s[At(i)] /\ t[j] = s[At(j)]
        BY <1>4
      <4>3. At(i) = At(j)
        BY <1>1, <1>7, <3>1, <4>1, <4>2 DEF NoTwice
      <4>4. QED
        BY <1>1, <4>3
    <3>2. QED
      BY <1>5, <3>1 DEF NoTwice
  <2>2. e \notin ToSet(t)
    BY <1>1, <1>4, <1>5, <1>7 DEF ToSet, NoTwice
  <2>3. ASSUME NEW i \in 1..Len(s), i # k PROVE s[i] \in ToSet(t)
    <3>1. CASE i < k
      BY <1>1, <1>4, <1>5, <3>1 DEF ToSet
    <3>2. CASE i > k
      <4>1. i - 1 \in 1..(Len(s) - 1) /\ t[i - 1] = s[i]
        BY <1>1, <1>4, <3>2
      <4>2. QED
        BY <1>5, <4>1 DEF ToSet
    <3>3. QED
      BY <1>1, <2>3, <3>1, <3>2
  <2>4. QED
    BY <1>1, <1>6, <2>1, <2>2, <2>3 DEF ToSet
<1>8. QED
  BY <1>4, <1>6, <1>7 DEF t, k, Without

\* There are as many edits in a sequence without duplicates as it is long.
LEMMA CountsEdits ==
    ASSUME NEW s \in Seq(Edits), NoTwice(s)
    PROVE  IsFiniteSet(ToSet(s)) /\ Cardinality(ToSet(s)) = Len(s)
<1>1. Len(s) \in Nat /\ DOMAIN s = 1..Len(s) /\ s \in [1..Len(s) -> ToSet(s)]
  BY DEF ToSet
<1>2. s \in Bijection(1..Len(s), ToSet(s))
  BY <1>1 DEF Bijection, Injection, Surjection, IsInjective, NoTwice, ToSet
<1>3. IsFiniteSet(1..Len(s)) /\ Cardinality(1..Len(s)) = Len(s)
  BY <1>1, FS_Interval
<1>4. QED
  BY <1>2, <1>3, FS_Bijection DEF ExistsBijection
-----------------------------------------------------------------------------
(* HookState. Which hooks run together, and what they know of.               *)

Cur == IF file = None THEN HookState0 ELSE file
Todo == UNION {todo[p] : p \in Hooks}
Tools == {"PreToolUse", "PostToolUse"}

\* Where a hook can be.
Shape == \A p \in Hooks :
    /\ hpc[p] = "idle" => hook[p] = "other"
    /\ hpc[p] \in Between => view[p] # None
    /\ hook[p] = "PreToolUse" => hpc[p] \in {"load", "save"}
    /\ hook[p] = "other" => hpc[p] \in {"idle", "load", "save"}
    /\ hook[p] = "PostToolUse" /\ hpc[p] = "save" => edit[p] \in ToSet(view[p].pend)
    /\ todo[p] # {} => hook[p] = "UserPromptSubmit" /\ hpc[p] \in {"bump", "saveBump"}
\* No edit is heard of before its PreToolUse, and none is decided before it ended.
Known ==
    /\ \A p \in Hooks :
          /\ hook[p] \in Tools => edit[p] \in added
          /\ hook[p] = "PostToolUse" => edit[p] \in ended
          /\ hook[p] = "UserPromptSubmit" => ended = added
          /\ hpc[p] \in Between => ToSet(view[p].pend) \subseteq added
    /\ ToSet(Cur.pend) \subseteq added
    /\ accepted \cup rejected \cup Todo \subseteq ended
\* A prompt comes when no tool hook runs, and an edit has one hook at a time.
Apart == \A p, q \in Hooks : p # q =>
    /\ hook[p] = "UserPromptSubmit" => hook[q] = "other"
    /\ hook[p] \in Tools /\ hook[q] \in Tools => edit[p] # edit[q]

HookTyped == HookTypeOK /\ Shape /\ Known /\ Apart

(* HookState. While nothing is lost the file is the account of the edits,    *)
(* but for the hooks that have reported one and not counted it yet.          *)

Accepting == {p \in Hooks : hook[p] = "PostToolUse" /\ hpc[p] \in {"bump", "saveBump"}}
Rejecting == {p \in Hooks : hook[p] = "UserPromptSubmit" /\ hpc[p] = "saveBump"}
Adding == {edit[p] : p \in {q \in Hooks : hook[q] = "PreToolUse"}}

FreshView == \A p \in Hooks : hpc[p] \in Between /\ p \notin stale => view[p] = Cur
Finite ==
    /\ IsFiniteSet(accepted) /\ IsFiniteSet(rejected)
    /\ IsFiniteSet(Accepting) /\ IsFiniteSet(Rejecting)
Tally ==
    /\ Cur.accepts + Cardinality(Accepting) = Cardinality(accepted)
    /\ Cur.rejects + Cardinality(Rejecting) = Cardinality(rejected)
Remaining ==
    /\ NoTwice(Cur.pend)
    /\ ToSet(Cur.pend) = added \ (accepted \cup rejected \cup dropped \cup Todo \cup Adding)
Undecided ==
    /\ accepted \cap rejected = {} /\ Todo \cap (accepted \cup rejected) = {}
    /\ \A p \in Hooks :
          /\ hook[p] = "PreToolUse" =>
                edit[p] \notin accepted \cup rejected \cup dropped \cup Todo
          /\ hook[p] = "PostToolUse" /\ hpc[p] \in {"load", "save"} =>
                edit[p] \notin accepted \cup rejected \cup Todo

Account == FreshView /\ Finite /\ Tally /\ Remaining /\ Undecided
HookInv == HookTyped /\ (~lost => Account)

\* The empty state is one, and None is none.
LEMMA StateFacts ==
    /\ HookState0 \in HookStates /\ None \notin HookStates
    /\ HookState0.pend = <<>> /\ HookState0.accepts = 0 /\ HookState0.rejects = 0
    /\ ToSet(<<>>) = {}
    /\ HookTypeOK => Cur \in HookStates
<1>1. HookState0 \in HookStates
  BY HookAssumption DEF HookState0, HookStates
<1>2. HookTypeOK => Cur \in HookStates
  BY <1>1 DEF HookTypeOK, Cur
<1>3. ToSet(<<>>) = {}
  BY DEF ToSet
<1>4. QED
  BY <1>1, <1>2, <1>3, HookAssumption DEF HookState0

\* Nothing is pending at first.
LEMMA InitHookTyped == HookInit => HookTyped
<1> SUFFICES ASSUME HookInit PROVE HookTyped
  OBVIOUS
<1>1. HookTypeOK
  BY DEF HookInit, HookTypeOK, HookSteps, Events
<1>2. Shape /\ Apart
  BY DEF HookInit, Shape, Apart, Between, Tools
<1>3. Known
  BY StateFacts DEF HookInit, Known, Between, Tools, Cur, Todo
<1>4. QED
  BY <1>1, <1>2, <1>3 DEF HookTyped

\* A hook starts.
LEMMA RunHookTyped ==
    ASSUME HookTyped, NEW p \in Hooks, RunHook(p) PROVE HookTyped'
<1>1. PICK ev \in Events, e \in Edits \cup {None} :
         /\ hook' = [hook EXCEPT ![p] = ev]
         /\ edit' = [edit EXCEPT ![p] = e]
         /\ ev # "other" => \A q \in Hooks : hook[q] # "UserPromptSubmit"
         /\ \/ /\ ev = "PreToolUse" /\ e \in Edits \ added
               /\ added' = added \cup {e} /\ ended' = ended
            \/ /\ ev = "PostToolUse" /\ e \in added \ ended
               /\ \A q \in Hooks : ~(hook[q] = "PreToolUse" /\ edit[q] = e)
               /\ ended' = ended \cup {e} /\ added' = added
            \/ /\ ev = "UserPromptSubmit" /\ e = None
               /\ \A q \in Hooks : hpc[q] = "idle" \/ hook[q] = "other"
               /\ ended' = added /\ added' = added
            \/ ev = "other" /\ e = None /\ UNCHANGED <<added, ended>>
  BY DEF RunHook, Events
<1>2. /\ hpc[p] = "idle" /\ hpc' = [hpc EXCEPT ![p] = "load"]
      /\ UNCHANGED <<view, todo, file, old, reaping, dropped, accepted, rejected, stale, lost>>
  BY DEF RunHook
<1> USE DEF HookTyped, HookTypeOK, HookSteps, Events
<1>3. HookTypeOK'
  BY <1>1, <1>2
<1>4. Shape'
  BY <1>1, <1>2 DEF Shape, Between
<1>5. Known'
  <2>1. Cur' = Cur /\ Todo' = Todo
    BY <1>2 DEF Cur, Todo
  <2>2. added \subseteq added' /\ ended \subseteq ended'
    BY <1>1
  <2>3. ToSet(Cur.pend)' \subseteq added' /\ (accepted \cup rejected \cup Todo)' \subseteq ended'
    BY <1>2, <2>1, <2>2 DEF Known
  <2>4. ASSUME NEW q \in Hooks
        PROVE /\ hook'[q] \in Tools => edit'[q] \in added'
              /\ hook'[q] = "PostToolUse" => edit'[q] \in ended'
              /\ hook'[q] = "UserPromptSubmit" => ended' = added'
              /\ hpc'[q] \in Between => ToSet(view'[q].pend) \subseteq added'
    <3>1. CASE q = p
      BY <1>1, <1>2, <3>1 DEF Tools, Between
    <3>2. CASE q # p
      <4>1. hook'[q] = hook[q] /\ edit'[q] = edit[q] /\ hpc'[q] = hpc[q] /\ view'[q] = view[q]
        BY <1>1, <1>2, <3>2
      <4>2. hook[q] = "UserPromptSubmit" => ev = "other"
        BY <1>1
      <4>3. QED
        BY <1>1, <2>2, <4>1, <4>2 DEF Known
    <3>3. QED
      BY <3>1, <3>2
  <2>5. QED
    BY <2>3, <2>4 DEF Known
<1>6. Apart'
  <2> SUFFICES ASSUME NEW q \in Hooks, NEW r \in Hooks, q # r
               PROVE  /\ hook'[q] = "UserPromptSubmit" => hook'[r] = "other"
                      /\ hook'[q] \in Tools /\ hook'[r] \in Tools => edit'[q] # edit'[r]
    BY DEF Apart
  <2>1. \A s \in Hooks : s # p => hook'[s] = hook[s] /\ edit'[s] = edit[s]
    BY <1>1
  <2>2. \A s \in Hooks : hpc[s] = "idle" => hook[s] = "other"
    BY DEF Shape
  <2>3. \A s \in Hooks : hook[s] \in Tools =>
            edit[s] \in added /\ (hook[s] = "PostToolUse" => edit[s] \in ended)
    BY DEF Known
  <2>4. CASE q # p /\ r # p
    BY <2>1, <2>4 DEF Apart
  <2>5. CASE q = p
    BY <1>1, <2>1, <2>2, <2>3, <2>5 DEF Tools
  <2>6. CASE r = p
    BY <1>1, <2>1, <2>2, <2>3, <2>6 DEF Tools
  <2>7. QED
    BY <2>4, <2>5, <2>6
<1>7. QED
  BY <1>3, <1>4, <1>5, <1>6

\* What a save of the state n does, whichever operation saves it.
LEMMA SaveTyped ==
    ASSUME HookTypeOK, NEW p \in Hooks, NEW n \in HookStates, Save(p, n)
    PROVE  /\ Cur' = n /\ file' = n /\ file' # None
           /\ view' = [view EXCEPT ![p] = None]
           /\ view' \in [Hooks -> HookStates \cup {None}]
           /\ old' \in BOOLEAN /\ reaping' \in BOOLEAN /\ lost' \in BOOLEAN
           /\ stale' \in SUBSET Hooks
<1>1. /\ view' = [view EXCEPT ![p] = None] /\ view' \in [Hooks -> HookStates \cup {None}]
      /\ old' \in BOOLEAN /\ stale' \in SUBSET Hooks /\ reaping' \in BOOLEAN
  BY DEF Save, HookTypeOK
<1>2. lost' \in BOOLEAN
  BY Zenon DEF Save, HookTypeOK
<1>3. file' = n /\ n # None
  BY StateFacts DEF Save
<1>4. Cur' = n
  BY <1>3 DEF Cur
<1>5. QED
  BY <1>1, <1>2, <1>3, <1>4

\* Every step of a hook keeps the types, and what they rest on.
LEMMA NextHookTyped == HookTyped /\ [HookNext]_hookVars => HookTyped'
<1> SUFFICES ASSUME HookTyped, [HookNext]_hookVars PROVE HookTyped'
  OBVIOUS
<1> USE HookAssumption DEF HookTyped, HookTypeOK, HookSteps, Events
<1>0. Cur \in HookStates /\ \A q \in Hooks : hpc[q] \in Between => view[q] \in HookStates
  BY StateFacts DEF Shape
<1>1. ASSUME NEW p \in Hooks, RunHook(p) PROVE HookTyped'
  BY <1>1, RunHookTyped
<1>2. ASSUME NEW p \in Hooks, LoadState(p) PROVE HookTyped'
  <2>1. /\ view' = [view EXCEPT ![p] = Cur] /\ view'[p] = Cur /\ old' = FALSE
        /\ hpc[p] = "load"
        /\ stale' = stale \ {p}
        /\ UNCHANGED <<file, reaping, edit, todo, added, ended, dropped, rejected, lost>>
    BY <1>2 DEF LoadState, Load, Cur
  <2>2. \/ /\ hook[p] = "PostToolUse" /\ edit[p] \notin ToSet(Cur.pend)
           /\ accepted' = accepted \cup {edit[p]}
           /\ hpc' = [hpc EXCEPT ![p] = "bump"] /\ hook' = hook
        \/ /\ hook[p] = "UserPromptSubmit" /\ ToSet(Cur.pend) = {}
           /\ hpc' = [hpc EXCEPT ![p] = "idle"]
           /\ hook' = [hook EXCEPT ![p] = "other"] /\ accepted' = accepted
        \/ /\ hook[p] = "PostToolUse" => edit[p] \in ToSet(Cur.pend)
           /\ hpc' = [hpc EXCEPT ![p] = "save"]
           /\ UNCHANGED <<hook, accepted>>
    BY <1>2, <2>1 DEF LoadState
  <2>3. HookTypeOK'
    BY <1>0, <2>1, <2>2 DEF Known, Tools
  <2>4. Shape'
    BY <1>0, <2>1, <2>2, StateFacts DEF Shape, Between
  <2>5. Known'
    <3>1. Cur' = Cur /\ Todo' = Todo
      BY <2>1 DEF Cur, Todo
    <3>2. QED
      BY <2>1, <2>2, <3>1 DEF Known, Tools, Between
  <2>6. Apart'
    BY <2>1, <2>2 DEF Apart, Tools
  <2>7. QED
    BY <2>3, <2>4, <2>5, <2>6
<1>3. ASSUME NEW p \in Hooks, SaveAdd(p) PROVE HookTyped'
  <2> DEFINE pend == WithEdit(view[p].pend, edit[p])
             n == [view[p] EXCEPT !.pend = pend]
  <2>1. /\ hpc[p] = "save" /\ hook[p] = "PreToolUse" /\ Save(p, n)
        /\ dropped' = dropped \cup (ToSet(view[p].pend) \ ToSet(pend))
        /\ hpc' = [hpc EXCEPT ![p] = "idle"] /\ hook' = [hook EXCEPT ![p] = "other"]
        /\ edit' = [edit EXCEPT ![p] = None]
        /\ UNCHANGED <<todo, added, ended, accepted, rejected>>
    BY <1>3 DEF SaveAdd
  <2>2. edit[p] \in added /\ edit[p] \in Edits /\ ToSet(view[p].pend) \subseteq added
    BY <2>1 DEF Known, Tools, Between
  <2>3. view[p].pend \in Seq(Edits) /\ Len(view[p].pend) =< PendingCap
    BY <1>0, <2>1 DEF HookStates, Between
  <2>4. /\ pend \in Seq(Edits) /\ Len(pend) =< PendingCap
        /\ ToSet(pend) \subseteq ToSet(view[p].pend) \cup {edit[p]}
    BY <2>2, <2>3, AddsEdit
  <2>5. n \in HookStates /\ n.pend = pend
    BY <1>0, <2>1, <2>4 DEF HookStates, Between
  <2> HIDE DEF pend, n
  <2>6. /\ Cur' = n /\ file' = n /\ view' = [view EXCEPT ![p] = None]
        /\ view' \in [Hooks -> HookStates \cup {None}]
        /\ old' \in BOOLEAN /\ reaping' \in BOOLEAN /\ lost' \in BOOLEAN
        /\ stale' \in SUBSET Hooks
    BY <2>1, <2>5, SaveTyped
  <2>7. HookTypeOK'
    BY <2>1, <2>2, <2>5, <2>6
  <2>8. Shape'
    BY <2>1, <2>6 DEF Shape, Between
  <2>9. Known'
    <3>1. Todo' = Todo
      BY <2>1 DEF Todo
    <3>2. QED
      BY <2>1, <2>2, <2>4, <2>5, <2>6, <3>1 DEF Known, Tools, Between
  <2>10. Apart'
    BY <2>1 DEF Apart, Tools
  <2>11. QED
    BY <2>7, <2>8, <2>9, <2>10
<1>4. ASSUME NEW p \in Hooks, SaveTake(p) PROVE HookTyped'
  <2> DEFINE pend == Without(view[p].pend, edit[p])
             n == [view[p] EXCEPT !.pend = pend]
  <2>1. /\ hpc[p] = "save" /\ hook[p] = "PostToolUse" /\ Save(p, n)
        /\ accepted' = accepted \cup {edit[p]}
        /\ hpc' = [hpc EXCEPT ![p] = "bump"]
        /\ UNCHANGED <<hook, edit, todo, added, ended, dropped, rejected>>
    BY <1>4 DEF SaveTake
  <2>2. /\ edit[p] \in added /\ edit[p] \in ended /\ ToSet(view[p].pend) \subseteq added
        /\ edit[p] \in ToSet(view[p].pend)
    BY <2>1 DEF Known, Tools, Between, Shape
  <2>3. view[p].pend \in Seq(Edits) /\ Len(view[p].pend) =< PendingCap
    BY <1>0, <2>1 DEF HookStates, Between
  <2>4. /\ pend \in Seq(Edits) /\ Len(pend) = Len(view[p].pend) - 1
        /\ ToSet(pend) \subseteq ToSet(view[p].pend)
    BY <2>2, <2>3, DeletesEdit
  <2> HIDE DEF pend
  <2>5. n \in HookStates /\ n.pend = pend
    <3>1. Len(view[p].pend) - 1 =< PendingCap
      BY <2>3
    <3>2. QED
      BY <1>0, <2>1, <2>4, <3>1 DEF HookStates, Between
  <2> HIDE DEF n
  <2>6. /\ Cur' = n /\ file' = n /\ view' = [view EXCEPT ![p] = None]
        /\ view' \in [Hooks -> HookStates \cup {None}]
        /\ old' \in BOOLEAN /\ reaping' \in BOOLEAN /\ lost' \in BOOLEAN
        /\ stale' \in SUBSET Hooks
    BY <2>1, <2>5, SaveTyped DEF pend
  <2>7. HookTypeOK'
    BY <2>1, <2>2, <2>5, <2>6
  <2>8. Shape'
    BY <2>1, <2>6 DEF Shape, Between
  <2>9. Known'
    <3>1. Todo' = Todo
      BY <2>1 DEF Todo
    <3>2. QED
      BY <2>1, <2>2, <2>4, <2>5, <2>6, <3>1 DEF Known, Tools, Between
  <2>10. Apart'
    BY <2>1 DEF Apart, Tools
  <2>11. QED
    BY <2>7, <2>8, <2>9, <2>10
<1>5. ASSUME NEW p \in Hooks, SaveDrain(p) PROVE HookTyped'
  <2> DEFINE n == [view[p] EXCEPT !.pend = <<>>]
  <2>1. /\ hpc[p] = "save" /\ hook[p] = "UserPromptSubmit" /\ Save(p, n)
        /\ todo' = [todo EXCEPT ![p] = ToSet(view[p].pend)]
        /\ hpc' = [hpc EXCEPT ![p] = "bump"]
        /\ UNCHANGED <<hook, edit, added, ended, dropped, accepted, rejected>>
    BY <1>5 DEF SaveDrain, hookHist
  <2>2. ToSet(view[p].pend) \subseteq added /\ ended = added
    BY <2>1 DEF Known, Between
  <2>3. n \in HookStates /\ n.pend = <<>>
    <3>1. /\ view[p] \in [pend : Seq(Edits), accepts : Nat, rejects : Nat]
          /\ <<>> \in Seq(Edits) /\ Len(<<>>) =< PendingCap
      BY <1>0, <2>1 DEF HookStates, Between
    <3>2. QED
      BY <3>1 DEF HookStates
  <2> HIDE DEF n
  <2>4. /\ Cur' = n /\ file' = n /\ view' = [view EXCEPT ![p] = None]
        /\ view' \in [Hooks -> HookStates \cup {None}]
        /\ old' \in BOOLEAN /\ reaping' \in BOOLEAN /\ lost' \in BOOLEAN
        /\ stale' \in SUBSET Hooks
    BY <2>1, <2>3, SaveTyped DEF n
  <2>5. HookTypeOK'
    BY <2>1, <2>2, <2>3, <2>4
  <2>6. Shape'
    BY <2>1, <2>4 DEF Shape, Between
  <2>7. Known'
    <3>1. Todo' \subseteq Todo \cup ToSet(view[p].pend)
      BY <2>1 DEF Todo
    <3>2. ToSet(Cur.pend)' = {}
      BY <2>3, <2>4, StateFacts
    <3>3. QED
      BY <2>1, <2>2, <2>4, <3>1, <3>2 DEF Known, Tools, Between
  <2>8. Apart'
    BY <2>1 DEF Apart, Tools
  <2>9. QED
    BY <2>5, <2>6, <2>7, <2>8
<1>6. ASSUME NEW p \in Hooks, SaveOther(p) PROVE HookTyped'
  <2>1. /\ hpc[p] = "save" /\ hook[p] = "other" /\ Save(p, view[p])
        /\ hpc' = [hpc EXCEPT ![p] = "idle"]
        /\ UNCHANGED <<hook, edit, todo, added, ended, dropped, accepted, rejected>>
    BY <1>6 DEF SaveOther, hookHist
  <2>2. view[p] \in HookStates /\ ToSet(view[p].pend) \subseteq added
    BY <1>0, <2>1 DEF Known, Between
  <2>3. /\ Cur' = view[p] /\ file' = view[p] /\ view' = [view EXCEPT ![p] = None]
        /\ view' \in [Hooks -> HookStates \cup {None}]
        /\ old' \in BOOLEAN /\ reaping' \in BOOLEAN /\ lost' \in BOOLEAN
        /\ stale' \in SUBSET Hooks
    BY <2>1, <2>2, SaveTyped
  <2>4. HookTypeOK'
    BY <2>1, <2>2, <2>3
  <2>5. Shape'
    BY <2>1, <2>3 DEF Shape, Between
  <2>6. Known'
    <3>1. Todo' = Todo
      BY <2>1 DEF Todo
    <3>2. QED
      BY <2>1, <2>2, <2>3, <3>1 DEF Known, Tools, Between
  <2>7. Apart'
    BY <2>1 DEF Apart
  <2>8. QED
    BY <2>4, <2>5, <2>6, <2>7
<1>7. ASSUME NEW p \in Hooks, LoadBump(p) PROVE HookTyped'
  <2>1. /\ hpc[p] = "bump" /\ view' = [view EXCEPT ![p] = Cur] /\ old' = FALSE
        /\ hpc' = [hpc EXCEPT ![p] = "saveBump"]
        /\ stale' = stale \ {p}
        /\ UNCHANGED <<file, reaping, hook, edit, added, ended, dropped, accepted, lost>>
    BY <1>7 DEF LoadBump, Load, Cur
  <2>2. \/ hook[p] = "PostToolUse" /\ UNCHANGED <<todo, rejected>>
        \/ /\ hook[p] = "UserPromptSubmit"
           /\ \E e \in todo[p] : /\ todo' = [todo EXCEPT ![p] = @ \ {e}]
                                 /\ rejected' = rejected \cup {e}
    BY <1>7 DEF LoadBump
  <2>3. rejected' \subseteq rejected \cup todo[p] /\ todo[p] \subseteq Todo /\ Todo' \subseteq Todo
    BY <2>2 DEF Todo
  <2>4. HookTypeOK'
    <3>1. rejected' \in SUBSET added
      BY <2>3 DEF Known
    <3>2. todo' \in [Hooks -> SUBSET Edits]
      BY <2>2
    <3>3. QED
      BY <1>0, <2>1, <3>1, <3>2
  <2>5. Shape'
    BY <1>0, <2>1, <2>2, StateFacts DEF Shape, Between
  <2>6. Known'
    <3>1. Cur' = Cur
      BY <2>1 DEF Cur
    <3>2. (accepted \cup rejected \cup Todo)' \subseteq ended'
      BY <2>1, <2>3 DEF Known
    <3>3. QED
      BY <2>1, <3>1, <3>2 DEF Known, Tools, Between
  <2>7. Apart'
    BY <2>1 DEF Apart
  <2>8. QED
    BY <2>4, <2>5, <2>6, <2>7
<1>8. ASSUME NEW p \in Hooks, SaveBump(p) PROVE HookTyped'
  <2> DEFINE n == IF hook[p] = "PostToolUse" THEN [view[p] EXCEPT !.accepts = @ + 1]
                                            ELSE [view[p] EXCEPT !.rejects = @ + 1]
  <2>1. /\ hpc[p] = "saveBump" /\ Save(p, n)
        /\ UNCHANGED <<todo, added, ended, dropped, accepted, rejected>>
        /\ \/ hpc' = [hpc EXCEPT ![p] = "bump"] /\ todo[p] # {} /\ UNCHANGED <<hook, edit>>
           \/ /\ hpc' = [hpc EXCEPT ![p] = "idle"] /\ todo[p] = {}
              /\ hook' = [hook EXCEPT ![p] = "other"]
              /\ edit' = [edit EXCEPT ![p] = None]
    BY <1>8 DEF SaveBump, hookHist
  <2>2. view[p] \in HookStates /\ ToSet(view[p].pend) \subseteq added
    BY <1>0, <2>1 DEF Known, Between
  <2>3. n \in HookStates /\ n.pend = view[p].pend
    BY <2>2 DEF HookStates
  <2> HIDE DEF n
  <2>4. /\ Cur' = n /\ file' = n /\ view' = [view EXCEPT ![p] = None]
        /\ view' \in [Hooks -> HookStates \cup {None}]
        /\ old' \in BOOLEAN /\ reaping' \in BOOLEAN /\ lost' \in BOOLEAN
        /\ stale' \in SUBSET Hooks
    BY <2>1, <2>3, SaveTyped DEF n
  <2>5. HookTypeOK'
    BY <2>1, <2>3, <2>4
  <2>6. Shape'
    BY <2>1, <2>4 DEF Shape, Between
  <2>7. Known'
    <3>1. Todo' = Todo
      BY <2>1 DEF Todo
    <3>2. QED
      BY <2>1, <2>2, <2>3, <2>4, <3>1 DEF Known, Tools, Between
  <2>8. Apart'
    BY <2>1 DEF Apart, Tools
  <2>9. QED
    BY <2>5, <2>6, <2>7, <2>8
<1>9. ASSUME NEW p \in Hooks, KillHook(p) PROVE HookTyped'
  <2>1. /\ hpc' = [hpc EXCEPT ![p] = "idle"] /\ hook' = [hook EXCEPT ![p] = "other"]
        /\ edit' = [edit EXCEPT ![p] = None] /\ view' = [view EXCEPT ![p] = None]
        /\ todo' = [todo EXCEPT ![p] = {}] /\ stale' = stale \ {p} /\ lost' = TRUE
        /\ UNCHANGED <<file, old, reaping, added, ended, dropped, accepted, rejected>>
    BY <1>9 DEF KillHook, HookReturn, hookHist
  <2>2. HookTypeOK' /\ Shape'
    BY <2>1 DEF Shape, Between
  <2>3. Known'
    <3>1. Cur' = Cur /\ Todo' \subseteq Todo
      BY <2>1 DEF Cur, Todo
    <3>2. QED
      BY <2>1, <3>1 DEF Known, Tools, Between
  <2>4. Apart'
    BY <2>1 DEF Apart, Tools
  <2>5. QED
    BY <2>2, <2>3, <2>4
<1>10. CASE Week \/ GcStat
  <2>1. /\ UNCHANGED <<hpc, hook, edit, view, todo, file, added, ended, dropped, accepted, rejected,
                       stale, lost>>
        /\ old' \in BOOLEAN /\ reaping' \in BOOLEAN
    BY <1>10 DEF Week, GcStat, hookFrame, hookHist
  <2>2. Cur' = Cur /\ Todo' = Todo
    BY <2>1 DEF Cur, Todo
  <2>3. QED
    BY <2>1, <2>2 DEF Shape, Known, Apart
<1>11. CASE GcRemove
  <2>1. /\ UNCHANGED <<hpc, hook, edit, view, todo, stale>>
        /\ file' = None /\ old' = FALSE /\ reaping' = FALSE
        /\ Cur'.pend = <<>> /\ Todo' = Todo
    BY <1>11, StateFacts DEF GcRemove, hookFrame, Cur, Todo
  <2>2. \/ /\ \A p \in Hooks : hpc[p] = "idle"
           /\ added' = {} /\ ended' = {} /\ dropped' = {} /\ accepted' = {} /\ rejected' = {}
           /\ lost' = lost
        \/ lost' = TRUE /\ UNCHANGED <<added, ended, dropped, accepted, rejected>>
    BY <1>11 DEF GcRemove, hookHist
  <2>3. HookTypeOK' /\ Shape' /\ Apart'
    BY <2>1, <2>2 DEF Shape, Apart
  <2>4. Known'
    <3>1. ToSet(Cur.pend)' = {}
      BY <2>1, StateFacts
    <3>2. CASE \A p \in Hooks : hpc[p] = "idle"
      <4>1. Todo = {} /\ \A p \in Hooks : hook[p] = "other"
        BY <3>2 DEF Shape, Todo
      <4>2. QED
        BY <2>1, <2>2, <3>1, <3>2, <4>1 DEF Known, Tools, Between
    <3>3. CASE ~\A p \in Hooks : hpc[p] = "idle"
      BY <2>1, <2>2, <3>1, <3>3 DEF Known
    <3>4. QED
      BY <3>2, <3>3
  <2>5. QED
    BY <2>3, <2>4
<1>12. CASE UNCHANGED hookVars
  <2>1. UNCHANGED <<hpc, hook, edit, view, todo, file, old, reaping, added, ended, dropped,
                    accepted, rejected, stale, lost>>
    BY <1>12 DEF hookVars, hookFrame, hookHist
  <2>2. Cur' = Cur /\ Todo' = Todo
    BY <2>1 DEF Cur, Todo
  <2>3. QED
    BY <2>1, <2>2 DEF Shape, Known, Apart
<1>13. QED
  BY <1>1, <1>2, <1>3, <1>4, <1>5, <1>6, <1>7, <1>8, <1>9, <1>10, <1>11, <1>12 DEF HookNext

\* Nothing is counted at first.
LEMMA InitAccount == HookInit => Account
<1> SUFFICES ASSUME HookInit PROVE Account
  OBVIOUS
<1>1. /\ Cur.pend = <<>> /\ Cur.accepts = 0 /\ Cur.rejects = 0
      /\ Accepting = {} /\ Rejecting = {} /\ Adding = {} /\ Todo = {}
  BY StateFacts DEF HookInit, Cur, Accepting, Rejecting, Adding, Todo
<1>2. FreshView /\ Undecided
  BY DEF HookInit, FreshView, Undecided, Between, Todo
<1>3. Finite /\ Tally
  BY <1>1, FS_EmptySet DEF HookInit, Finite, Tally
<1>4. Remaining
  BY <1>1, StateFacts DEF HookInit, Remaining, NoTwice
<1>5. QED
  BY <1>2, <1>3, <1>4 DEF Account

\* A save that loses nothing saves over what it has loaded.
LEMMA SaveFresh ==
    ASSUME FreshView, NEW p \in Hooks, hpc[p] \in Between, NEW n, Save(p, n), ~lost'
    PROVE  /\ ~lost /\ view[p] = Cur
           /\ \A q \in Hooks \ {p} : hpc[q] \in Between => q \in stale'
  BY DEF Save, FreshView

\* No step of a hook that loses nothing leaves the account wrong.
LEMMA NextAccount ==
    ASSUME HookTyped, ~lost => Account, [HookNext]_hookVars, ~lost' PROVE Account'
<1> USE DEF Account
<1>0. Cur \in HookStates
  BY StateFacts DEF HookTyped
<1>1. ASSUME NEW p \in Hooks, RunHook(p) PROVE Account'
  <2>1. PICK ev \in Events, e \in Edits \cup {None} :
           /\ hook' = [hook EXCEPT ![p] = ev]
           /\ edit' = [edit EXCEPT ![p] = e]
           /\ \/ /\ ev = "PreToolUse" /\ e \in Edits \ added /\ added' = added \cup {e}
              \/ /\ ev = "PostToolUse" /\ e \in added \ ended /\ added' = added
              \/ ev \in {"UserPromptSubmit", "other"} /\ added' = added
    BY <1>1 DEF RunHook, Events
  <2>2. /\ hpc[p] = "idle" /\ hpc' = [hpc EXCEPT ![p] = "load"] /\ hook[p] = "other"
        /\ UNCHANGED <<view, todo, file, dropped, accepted, rejected, stale, lost>>
    BY <1>1 DEF RunHook, HookTyped, Shape
  <2>3. Cur' = Cur /\ Todo' = Todo /\ Accepting' = Accepting /\ Rejecting' = Rejecting
    BY <2>1, <2>2 DEF Cur, Todo, Accepting, Rejecting, HookTyped, HookTypeOK
  <2>4. Account
    BY <2>2
  <2>5. FreshView' /\ Finite' /\ Tally'
    BY <2>2, <2>3, <2>4 DEF FreshView, Finite, Tally, Between, HookTyped, HookTypeOK
  <2>6. Adding' = IF ev = "PreToolUse" THEN Adding \cup {e} ELSE Adding
    BY <2>1, <2>2 DEF Adding, HookTyped, HookTypeOK
  <2>7. accepted \cup rejected \cup Todo \subseteq ended /\ ended \cup dropped \subseteq added
    BY DEF HookTyped, HookTypeOK, Known
  <2>8. ToSet(Cur.pend) \subseteq added
    BY DEF HookTyped, Known
  <2>9. Remaining'
    BY <2>1, <2>2, <2>3, <2>4, <2>6, <2>7, <2>8 DEF Remaining
  <2>10. Undecided'
    BY <2>1, <2>2, <2>3, <2>4, <2>7 DEF Undecided, HookTyped, HookTypeOK
  <2>11. QED
    BY <2>5, <2>9, <2>10
<1>2. ASSUME NEW p \in Hooks, LoadState(p) PROVE Account'
  <2>1. /\ view' = [view EXCEPT ![p] = Cur] /\ view'[p] = Cur /\ hpc[p] = "load"
        /\ stale' = stale \ {p}
        /\ UNCHANGED <<file, edit, todo, added, ended, dropped, rejected, lost>>
    BY <1>2 DEF LoadState, Load, Cur, HookTyped, HookTypeOK
  <2>2. \/ /\ hook[p] = "PostToolUse" /\ edit[p] \notin ToSet(Cur.pend)
           /\ accepted' = accepted \cup {edit[p]}
           /\ hpc' = [hpc EXCEPT ![p] = "bump"] /\ hook' = hook
        \/ /\ hook[p] = "UserPromptSubmit" /\ ToSet(Cur.pend) = {}
           /\ hpc' = [hpc EXCEPT ![p] = "idle"]
           /\ hook' = [hook EXCEPT ![p] = "other"] /\ accepted' = accepted
        \/ /\ hpc' = [hpc EXCEPT ![p] = "save"]
           /\ UNCHANGED <<hook, accepted>>
    BY <1>2, <2>1 DEF LoadState
  <2>3. Cur' = Cur /\ Todo' = Todo /\ Account
    BY <2>1 DEF Cur, Todo
  <2>4. FreshView'
    BY <2>1, <2>2, <2>3 DEF FreshView, Between, HookTyped, HookTypeOK
  <2>5. Adding' = Adding /\ Rejecting' = Rejecting
    BY <2>1, <2>2 DEF Adding, Rejecting, HookTyped, HookTypeOK
  <2>6. CASE hook[p] = "PostToolUse" /\ accepted' = accepted \cup {edit[p]}
                /\ edit[p] \notin ToSet(Cur.pend)
                /\ hpc' = [hpc EXCEPT ![p] = "bump"] /\ hook' = hook
    <3>1. Accepting' = Accepting \cup {p} /\ p \notin Accepting
      BY <2>1, <2>6 DEF Accepting, HookTyped, HookTypeOK
    <3>2. edit[p] \notin accepted \cup rejected \cup Todo
      BY <2>1, <2>3, <2>6 DEF Undecided
    <3>3. /\ IsFiniteSet(Accepting') /\ Cardinality(Accepting') = Cardinality(Accepting) + 1
          /\ IsFiniteSet(accepted') /\ Cardinality(accepted') = Cardinality(accepted) + 1
      BY <2>3, <2>6, <3>1, <3>2, FS_AddElement DEF Finite
    <3>4. /\ Cardinality(Accepting) \in Nat /\ Cardinality(accepted) \in Nat
          /\ Cur.accepts \in Nat
      BY <1>0, <2>3, FS_CardinalityType DEF Finite, HookStates
    <3>5. Finite' /\ Tally'
      BY <2>1, <2>3, <2>5, <3>3, <3>4 DEF Finite, Tally
    <3>6. Remaining'
      BY <2>1, <2>3, <2>5, <2>6 DEF Remaining
    <3>7. Undecided'
      <4>1. \A q \in Hooks : q # p /\ hook[q] \in Tools => edit[q] # edit[p]
        BY <2>6 DEF HookTyped, Apart, Tools
      <4>2. QED
        BY <2>1, <2>3, <2>6, <3>2, <4>1 DEF Undecided, Tools, HookTyped, HookTypeOK
    <3>8. QED
      BY <2>4, <3>5, <3>6, <3>7
  <2>7. CASE \/ /\ hook[p] = "UserPromptSubmit" /\ hpc' = [hpc EXCEPT ![p] = "idle"]
                /\ hook' = [hook EXCEPT ![p] = "other"] /\ accepted' = accepted
             \/ hpc' = [hpc EXCEPT ![p] = "save"] /\ UNCHANGED <<hook, accepted>>
    <3>1. Accepting' = Accepting
      BY <2>1, <2>7 DEF Accepting, HookTyped, HookTypeOK
    <3>2. Finite' /\ Tally' /\ Remaining'
      BY <2>1, <2>3, <2>5, <2>7, <3>1 DEF Finite, Tally, Remaining
    <3>3. Undecided'
      BY <2>1, <2>3, <2>7 DEF Undecided, HookTyped, HookTypeOK
    <3>4. QED
      BY <2>4, <3>2, <3>3
  <2>8. QED
    BY <2>2, <2>6, <2>7
<1>3. ASSUME NEW p \in Hooks, SaveAdd(p) PROVE Account'
  <2> DEFINE pend == WithEdit(view[p].pend, edit[p])
             n == [view[p] EXCEPT !.pend = pend]
  <2>1. /\ hpc[p] = "save" /\ hook[p] = "PreToolUse" /\ Save(p, n)
        /\ dropped' = dropped \cup (ToSet(view[p].pend) \ ToSet(pend))
        /\ hpc' = [hpc EXCEPT ![p] = "idle"] /\ hook' = [hook EXCEPT ![p] = "other"]
        /\ edit' = [edit EXCEPT ![p] = None]
        /\ UNCHANGED <<todo, added, ended, accepted, rejected>>
    BY <1>3 DEF SaveAdd
  <2>2. Account /\ view[p] = Cur /\ \A q \in Hooks \ {p} : hpc[q] \in Between => q \in stale'
    <3>1. ~lost
      BY <2>1 DEF Save
    <3>2. QED
      BY <2>1, <3>1, SaveFresh DEF Between
  <2>3. edit[p] \in added /\ edit[p] \in Edits /\ edit[p] \in Adding
    BY <2>1 DEF HookTyped, HookTypeOK, Known, Tools, Adding
  <2>4. Cur.pend \in Seq(Edits) /\ Len(Cur.pend) =< PendingCap
    BY <1>0 DEF HookStates
  <2>5. edit[p] \notin ToSet(Cur.pend) /\ NoTwice(Cur.pend)
    BY <2>2, <2>3 DEF Remaining
  <2>6. /\ pend \in Seq(Edits) /\ Len(pend) =< PendingCap /\ NoTwice(pend)
        /\ ToSet(pend) \subseteq ToSet(Cur.pend) \cup {edit[p]} /\ edit[p] \in ToSet(pend)
    BY <2>2, <2>3, <2>4, <2>5, AddsEdit
  <2> HIDE DEF pend
  <2>7. /\ n \in HookStates /\ n.pend = pend
        /\ n.accepts = Cur.accepts /\ n.rejects = Cur.rejects
    BY <1>0, <2>2, <2>6 DEF HookStates
  <2> HIDE DEF n
  <2>8. Cur' = n
    BY <2>1, <2>7, SaveTyped DEF HookTyped, pend
  <2>9. /\ Todo' = Todo /\ Accepting' = Accepting /\ Rejecting' = Rejecting
        /\ Adding' = Adding \ {edit[p]}
    <3>1. Todo' = Todo
      BY <2>1 DEF Todo
    <3>2. Accepting' = Accepting /\ Rejecting' = Rejecting
      BY <2>1 DEF Accepting, Rejecting, HookTyped, HookTypeOK
    <3>3. \A q \in Hooks : q # p /\ hook[q] = "PreToolUse" => edit[q] # edit[p]
      BY <2>1 DEF HookTyped, Apart, Tools
    <3>4. Adding' = Adding \ {edit[p]}
      BY <2>1, <3>3 DEF Adding, HookTyped, HookTypeOK
    <3>5. QED
      BY <3>1, <3>2, <3>4
  <2>10. FreshView'
    BY <2>1, <2>2 DEF FreshView, Between, HookTyped, HookTypeOK
  <2>11. Finite' /\ Tally'
    BY <2>1, <2>2, <2>7, <2>8, <2>9 DEF Finite, Tally
  <2>12. edit[p] \notin accepted \cup rejected \cup dropped \cup Todo
    BY <2>1, <2>2 DEF Undecided
  <2>13. Remaining'
    <3>1. ToSet(pend) = added \ (accepted \cup rejected \cup dropped' \cup Todo
                                  \cup (Adding \ {edit[p]}))
      BY <2>1, <2>2, <2>3, <2>6, <2>12 DEF Remaining
    <3>2. QED
      BY <2>1, <2>6, <2>7, <2>8, <2>9, <3>1 DEF Remaining
  <2>14. Undecided'
    <3>1. \A q \in Hooks : hook[q] = "PreToolUse" => edit[q] \notin ToSet(Cur.pend)
      BY <2>2 DEF Remaining, Adding
    <3>2. QED
      BY <2>1, <2>2, <2>9, <3>1 DEF Undecided, HookTyped, HookTypeOK
  <2>15. QED
    BY <2>10, <2>11, <2>13, <2>14
<1>4. ASSUME NEW p \in Hooks, SaveTake(p) PROVE Account'
  <2> DEFINE pend == Without(view[p].pend, edit[p])
             n == [view[p] EXCEPT !.pend = pend]
  <2>1. /\ hpc[p] = "save" /\ hook[p] = "PostToolUse" /\ Save(p, n)
        /\ accepted' = accepted \cup {edit[p]}
        /\ hpc' = [hpc EXCEPT ![p] = "bump"]
        /\ UNCHANGED <<hook, edit, todo, added, ended, dropped, rejected>>
    BY <1>4 DEF SaveTake
  <2>2. Account /\ view[p] = Cur /\ \A q \in Hooks \ {p} : hpc[q] \in Between => q \in stale'
    <3>1. ~lost
      BY <2>1 DEF Save
    <3>2. QED
      BY <2>1, <3>1, SaveFresh DEF Between
  <2>3. edit[p] \in ToSet(Cur.pend) /\ NoTwice(Cur.pend) /\ Cur.pend \in Seq(Edits)
    BY <1>0, <2>1, <2>2 DEF HookTyped, Shape, Remaining, HookStates
  <2>4. /\ pend \in Seq(Edits) /\ Len(pend) = Len(Cur.pend) - 1 /\ NoTwice(pend)
        /\ ToSet(pend) = ToSet(Cur.pend) \ {edit[p]}
    BY <2>2, <2>3, DeletesEdit
  <2> HIDE DEF pend
  <2>5. /\ n \in HookStates /\ n.pend = pend
        /\ n.accepts = Cur.accepts /\ n.rejects = Cur.rejects
    <3>1. Len(Cur.pend) =< PendingCap /\ Len(Cur.pend) - 1 =< PendingCap
      BY <1>0, <2>3, HookAssumption DEF HookStates
    <3>2. QED
      BY <1>0, <2>2, <2>4, <3>1 DEF HookStates
  <2> HIDE DEF n
  <2>6. Cur' = n
    BY <2>1, <2>5, SaveTyped DEF HookTyped, pend
  <2>7. /\ Todo' = Todo /\ Rejecting' = Rejecting /\ Adding' = Adding
        /\ Accepting' = Accepting \cup {p} /\ p \notin Accepting
    BY <2>1 DEF Todo, Accepting, Rejecting, Adding, HookTyped, HookTypeOK
  <2>8. edit[p] \notin accepted \cup rejected \cup Todo
    BY <2>1, <2>2 DEF Undecided
  <2>9. FreshView'
    BY <2>1, <2>2 DEF FreshView, Between, HookTyped, HookTypeOK
  <2>10. Finite' /\ Tally'
    <3>1. /\ IsFiniteSet(Accepting') /\ Cardinality(Accepting') = Cardinality(Accepting) + 1
          /\ IsFiniteSet(accepted') /\ Cardinality(accepted') = Cardinality(accepted) + 1
      BY <2>1, <2>2, <2>7, <2>8, FS_AddElement DEF Finite
    <3>2. /\ Cardinality(Accepting) \in Nat /\ Cardinality(accepted) \in Nat
          /\ Cur.accepts \in Nat
      BY <1>0, <2>2, FS_CardinalityType DEF Finite, HookStates
    <3>3. QED
      BY <2>1, <2>2, <2>5, <2>6, <2>7, <3>1, <3>2 DEF Finite, Tally
  <2>11. Remaining'
    BY <2>1, <2>2, <2>4, <2>5, <2>6, <2>7 DEF Remaining
  <2>12. Undecided'
    <3>1. \A q \in Hooks : q # p /\ hook[q] \in Tools => edit[q] # edit[p]
      BY <2>1 DEF HookTyped, Apart, Tools
    <3>2. QED
      BY <2>1, <2>2, <2>7, <2>8, <3>1 DEF Undecided, Tools, HookTyped, HookTypeOK
  <2>13. QED
    BY <2>9, <2>10, <2>11, <2>12
<1>5. ASSUME NEW p \in Hooks, SaveDrain(p) PROVE Account'
  <2> DEFINE n == [view[p] EXCEPT !.pend = <<>>]
  <2>1. /\ hpc[p] = "save" /\ hook[p] = "UserPromptSubmit" /\ Save(p, n)
        /\ todo' = [todo EXCEPT ![p] = ToSet(view[p].pend)]
        /\ hpc' = [hpc EXCEPT ![p] = "bump"]
        /\ UNCHANGED <<hook, edit, added, ended, dropped, accepted, rejected>>
    BY <1>5 DEF SaveDrain, hookHist
  <2>2. Account /\ view[p] = Cur /\ \A q \in Hooks \ {p} : hpc[q] \in Between => q \in stale'
    <3>1. ~lost
      BY <2>1 DEF Save
    <3>2. QED
      BY <2>1, <3>1, SaveFresh DEF Between
  <2>3. /\ n \in HookStates /\ n.pend = <<>>
        /\ n.accepts = Cur.accepts /\ n.rejects = Cur.rejects
    <3>1. <<>> \in Seq(Edits) /\ Len(<<>>) =< PendingCap
      BY HookAssumption
    <3>2. QED
      BY <1>0, <2>2, <3>1 DEF HookStates
  <2> HIDE DEF n
  <2>4. Cur' = n
    BY <2>1, <2>3, SaveTyped DEF HookTyped, n
  <2>5. /\ Rejecting' = Rejecting /\ Adding' = Adding /\ Accepting' = Accepting
    BY <2>1 DEF Accepting, Rejecting, Adding, HookTyped, HookTypeOK
  <2>6. Todo = {} /\ Todo' = ToSet(Cur.pend)
    <3>1. \A q \in Hooks : todo[q] = {}
      BY <2>1 DEF HookTyped, Shape, Apart
    <3>2. QED
      BY <2>1, <2>2, <3>1 DEF Todo, HookTyped, HookTypeOK
  <2>7. FreshView'
    BY <2>1, <2>2 DEF FreshView, Between, HookTyped, HookTypeOK
  <2>8. Finite' /\ Tally'
    BY <2>1, <2>2, <2>3, <2>4, <2>5 DEF Finite, Tally
  <2>9. Remaining'
    <3>1. NoTwice(Cur.pend)' /\ ToSet(Cur.pend)' = {}
      BY <2>3, <2>4, StateFacts DEF NoTwice
    <3>2. QED
      BY <2>1, <2>2, <2>5, <2>6, <3>1 DEF Remaining
  <2>10. Undecided'
    <3>1. \A q \in Hooks : hook[q] \notin Tools
      BY <2>1 DEF HookTyped, Apart, Tools
    <3>2. QED
      BY <2>1, <2>2, <2>6, <3>1 DEF Undecided, Remaining, Tools, HookTyped, HookTypeOK
  <2>11. QED
    BY <2>7, <2>8, <2>9, <2>10
<1>6. ASSUME NEW p \in Hooks, SaveOther(p) PROVE Account'
  <2>1. /\ hpc[p] = "save" /\ hook[p] = "other" /\ Save(p, view[p])
        /\ hpc' = [hpc EXCEPT ![p] = "idle"]
        /\ UNCHANGED <<hook, edit, todo, added, ended, dropped, accepted, rejected>>
    BY <1>6 DEF SaveOther, hookHist
  <2>2. Account /\ view[p] = Cur /\ \A q \in Hooks \ {p} : hpc[q] \in Between => q \in stale'
    <3>1. ~lost
      BY <2>1 DEF Save
    <3>2. QED
      BY <2>1, <3>1, SaveFresh DEF Between
  <2>3. Cur' = Cur
    BY <1>0, <2>1, <2>2, SaveTyped DEF HookTyped
  <2>4. /\ Todo' = Todo /\ Rejecting' = Rejecting /\ Adding' = Adding /\ Accepting' = Accepting
    BY <2>1 DEF Todo, Accepting, Rejecting, Adding, HookTyped, HookTypeOK
  <2>5. FreshView'
    BY <2>1, <2>2 DEF FreshView, Between, HookTyped, HookTypeOK
  <2>6. Finite' /\ Tally' /\ Remaining'
    BY <2>1, <2>2, <2>3, <2>4 DEF Finite, Tally, Remaining
  <2>7. Undecided'
    BY <2>1, <2>2, <2>4 DEF Undecided, HookTyped, HookTypeOK
  <2>8. QED
    BY <2>5, <2>6, <2>7
<1>7. ASSUME NEW p \in Hooks, LoadBump(p) PROVE Account'
  <2>1. /\ hpc[p] = "bump" /\ view' = [view EXCEPT ![p] = Cur]
        /\ hpc' = [hpc EXCEPT ![p] = "saveBump"]
        /\ stale' = stale \ {p}
        /\ UNCHANGED <<file, hook, edit, added, ended, dropped, accepted, lost>>
    BY <1>7 DEF LoadBump, Load, Cur
  <2>2. Cur' = Cur /\ Account
    BY <2>1 DEF Cur
  <2>3. FreshView'
    BY <2>1, <2>2 DEF FreshView, Between, HookTyped, HookTypeOK
  <2>4. Adding' = Adding /\ Accepting' = Accepting
    BY <2>1 DEF Adding, Accepting, HookTyped, HookTypeOK
  <2>5. CASE hook[p] = "PostToolUse" /\ UNCHANGED <<todo, rejected>>
    <3>1. Rejecting' = Rejecting /\ Todo' = Todo
      BY <2>1, <2>5 DEF Rejecting, Todo, HookTyped, HookTypeOK
    <3>2. QED
      BY <2>1, <2>2, <2>3, <2>4, <2>5, <3>1
         DEF Finite, Tally, Remaining, Undecided, HookTyped, HookTypeOK
  <2>6. CASE hook[p] = "UserPromptSubmit"
    <3>1. PICK e \in todo[p] : /\ todo' = [todo EXCEPT ![p] = @ \ {e}]
                              /\ rejected' = rejected \cup {e}
      BY <1>7, <2>6 DEF LoadBump
    <3>2. /\ \A q \in Hooks : q # p => hook[q] = "other" /\ todo[q] = {}
          /\ \A q \in Hooks : hook[q] \notin Tools
      BY <2>6 DEF HookTyped, Shape, Apart, Tools
    <3>3. Todo = todo[p] /\ Todo' = Todo \ {e} /\ e \in Todo
      BY <3>1, <3>2 DEF Todo, HookTyped, HookTypeOK
    <3>4. Rejecting' = Rejecting \cup {p} /\ p \notin Rejecting
      BY <2>1, <2>6 DEF Rejecting, HookTyped, HookTypeOK
    <3>5. e \notin rejected /\ e \notin accepted
      BY <2>2, <3>3 DEF Undecided
    <3>6. /\ IsFiniteSet(Rejecting') /\ Cardinality(Rejecting') = Cardinality(Rejecting) + 1
          /\ IsFiniteSet(rejected') /\ Cardinality(rejected') = Cardinality(rejected) + 1
      BY <2>2, <3>1, <3>4, <3>5, FS_AddElement DEF Finite
    <3>7. /\ Cardinality(Rejecting) \in Nat /\ Cardinality(rejected) \in Nat
          /\ Cur.rejects \in Nat
      BY <1>0, <2>2, FS_CardinalityType DEF Finite, HookStates
    <3>8. Finite' /\ Tally'
      BY <2>1, <2>2, <2>4, <3>6, <3>7 DEF Finite, Tally
    <3>9. Remaining'
      BY <2>1, <2>2, <2>4, <3>1, <3>3 DEF Remaining
    <3>10. Undecided'
      BY <2>1, <2>2, <3>1, <3>2, <3>3, <3>5 DEF Undecided, Tools
    <3>11. QED
      BY <2>3, <3>8, <3>9, <3>10
  <2>7. QED
    BY <1>7, <2>5, <2>6 DEF LoadBump
<1>8. ASSUME NEW p \in Hooks, SaveBump(p) PROVE Account'
  <2> DEFINE n == IF hook[p] = "PostToolUse" THEN [view[p] EXCEPT !.accepts = @ + 1]
                                            ELSE [view[p] EXCEPT !.rejects = @ + 1]
  <2>1. /\ hpc[p] = "saveBump" /\ Save(p, n)
        /\ UNCHANGED <<todo, added, ended, dropped, accepted, rejected>>
        /\ \/ hpc' = [hpc EXCEPT ![p] = "bump"] /\ todo[p] # {} /\ UNCHANGED <<hook, edit>>
           \/ /\ hpc' = [hpc EXCEPT ![p] = "idle"] /\ todo[p] = {}
              /\ hook' = [hook EXCEPT ![p] = "other"]
              /\ edit' = [edit EXCEPT ![p] = None]
    BY <1>8 DEF SaveBump, hookHist
  <2>2. Account /\ view[p] = Cur /\ \A q \in Hooks \ {p} : hpc[q] \in Between => q \in stale'
    <3>1. ~lost
      BY <2>1 DEF Save
    <3>2. QED
      BY <2>1, <3>1, SaveFresh DEF Between
  <2>3. /\ n \in HookStates /\ n.pend = Cur.pend
        /\ n.accepts = IF hook[p] = "PostToolUse" THEN Cur.accepts + 1 ELSE Cur.accepts
        /\ n.rejects = IF hook[p] = "PostToolUse" THEN Cur.rejects ELSE Cur.rejects + 1
    BY <1>0, <2>2 DEF HookStates
  <2> HIDE DEF n
  <2>4. Cur' = n
    BY <2>1, <2>3, SaveTyped DEF HookTyped, n
  <2>5. hook[p] \in {"PostToolUse", "UserPromptSubmit"}
    BY <2>1 DEF HookTyped, HookTypeOK, Shape, Events
  <2>6. Todo' = Todo /\ Adding' = Adding
    <3>1. Todo' = Todo
      BY <2>1 DEF Todo
    <3>2. Adding' = Adding
      BY <2>1, <2>5 DEF Adding, HookTyped, HookTypeOK
    <3>3. QED
      BY <3>1, <3>2
  <2>7. FreshView'
    BY <2>1, <2>2 DEF FreshView, Between, HookTyped, HookTypeOK
  <2>8. /\ Cardinality(Rejecting) \in Nat /\ Cardinality(Accepting) \in Nat
        /\ Cur.rejects \in Nat /\ Cur.accepts \in Nat
    BY <1>0, <2>2, FS_CardinalityType DEF Finite, HookStates
  <2>9. Finite' /\ Tally'
    <3>1. CASE hook[p] = "PostToolUse"
      <4>1. todo[p] = {}
        BY <3>1 DEF HookTyped, Shape
      <4>2. Accepting' = Accepting \ {p} /\ p \in Accepting /\ Rejecting' = Rejecting
        BY <2>1, <3>1, <4>1 DEF Accepting, Rejecting, HookTyped, HookTypeOK
      <4>3. IsFiniteSet(Accepting') /\ Cardinality(Accepting') = Cardinality(Accepting) - 1
        BY <2>2, <4>2, FS_RemoveElement DEF Finite
      <4>4. Cur'.accepts = Cur.accepts + 1 /\ Cur'.rejects = Cur.rejects
        BY <2>3, <2>4, <3>1
      <4>5. QED
        BY <2>1, <2>2, <2>8, <4>2, <4>3, <4>4 DEF Finite, Tally
    <3>2. CASE hook[p] = "UserPromptSubmit"
      <4>1. Rejecting' = Rejecting \ {p} /\ p \in Rejecting /\ Accepting' = Accepting
        BY <2>1, <3>2 DEF Accepting, Rejecting, HookTyped, HookTypeOK
      <4>2. IsFiniteSet(Rejecting') /\ Cardinality(Rejecting') = Cardinality(Rejecting) - 1
        BY <2>2, <4>1, FS_RemoveElement DEF Finite
      <4>3. Cur'.rejects = Cur.rejects + 1 /\ Cur'.accepts = Cur.accepts
        BY <2>3, <2>4, <3>2
      <4>4. QED
        BY <2>1, <2>2, <2>8, <4>1, <4>2, <4>3 DEF Finite, Tally
    <3>3. QED
      BY <2>5, <3>1, <3>2
  <2>10. Remaining'
    BY <2>1, <2>2, <2>3, <2>4, <2>6 DEF Remaining
  <2>11. Undecided'
    BY <2>1, <2>2, <2>6 DEF Undecided, HookTyped, HookTypeOK
  <2>12. QED
    BY <2>7, <2>9, <2>10, <2>11
<1>9. ASSUME NEW p \in Hooks, KillHook(p) PROVE Account'
  BY <1>9 DEF KillHook
<1>10. CASE Week \/ GcStat \/ UNCHANGED hookVars
  <2>1. UNCHANGED <<hpc, hook, edit, view, todo, file, added, ended, dropped, accepted, rejected,
                    stale, lost>>
    BY <1>10 DEF Week, GcStat, hookFrame, hookHist, hookVars
  <2>2. /\ Cur' = Cur /\ Todo' = Todo /\ Adding' = Adding /\ Accepting' = Accepting
        /\ Rejecting' = Rejecting
    BY <2>1 DEF Cur, Todo, Adding, Accepting, Rejecting
  <2>3. QED
    BY <2>1, <2>2 DEF FreshView, Finite, Tally, Remaining, Undecided
<1>11. CASE GcRemove
  <2>1. /\ UNCHANGED <<hpc, hook, edit, view, todo, stale>>
        /\ file' = None /\ \A p \in Hooks : hpc[p] = "idle"
        /\ added' = {} /\ ended' = {} /\ dropped' = {} /\ accepted' = {} /\ rejected' = {}
    BY <1>11 DEF GcRemove, hookFrame
  <2>2. \A p \in Hooks : hook[p] = "other" /\ todo[p] = {}
    BY <2>1 DEF HookTyped, Shape
  <2>3. /\ Cur' = HookState0 /\ Todo' = {} /\ Adding' = {} /\ Accepting' = {}
        /\ Rejecting' = {}
    BY <2>1, <2>2 DEF Cur, Todo, Adding, Accepting, Rejecting
  <2>4. FreshView' /\ Undecided'
    BY <2>1, <2>2, <2>3 DEF FreshView, Undecided, Between
  <2>5. Finite' /\ Tally'
    BY <2>1, <2>3, StateFacts, FS_EmptySet DEF Finite, Tally
  <2>6. Remaining'
    BY <2>1, <2>3, StateFacts DEF Remaining, NoTwice
  <2>7. QED
    BY <2>4, <2>5, <2>6
<1>12. QED
  BY <1>1, <1>2, <1>3, <1>4, <1>5, <1>6, <1>7, <1>8, <1>9, <1>10, <1>11 DEF HookNext

\* Every variable of the hooks keeps its type: in particular no file and no view
\* holds more pending edits than the cap, however the hooks interleave.
THEOREM HookTyping == HookSpec => []HookTypeOK
  BY InitHookTyped, NextHookTyped, PTL DEF HookSpec, HookTyped

\* The account is square at first, and every step that loses nothing keeps it so.
LEMMA InitHookInv == HookInit => HookInv
  BY InitHookTyped, InitAccount DEF HookInv

\* A step that loses something or breaks an assumption ends the account, every other
\* one keeps it.
LEMMA NextHookInv == HookInv /\ [HookNext]_hookVars => HookInv'
  BY NextHookTyped, NextAccount DEF HookInv

\* Each edit is decided once and counted once, as long as no hook saved over what
\* another had saved, nobody was killed and GC took nothing fresh.
THEOREM EditsAreCounted == HookSpec => []HookCounts
<1>1. HookInv => HookCounts
  <2> SUFFICES ASSUME HookInv, ~lost, \A p \in Hooks : hpc[p] = "idle"
               PROVE  /\ Cur.accepts = Cardinality(accepted)
                      /\ Cur.rejects = Cardinality(rejected)
                      /\ accepted \cap rejected = {}
                      /\ ToSet(Cur.pend) = added \ (accepted \cup rejected \cup dropped)
                      /\ Len(Cur.pend) = Cardinality(ToSet(Cur.pend))
    BY DEF HookCounts, Cur
  <2>1. HookTyped /\ Account /\ Cur \in HookStates
    BY StateFacts DEF HookInv, HookTyped
  <2>2. Accepting = {} /\ Rejecting = {}
    BY DEF Accepting, Rejecting
  <2>3. Adding = {} /\ Todo = {}
    BY <2>1 DEF Adding, Todo, HookTyped, Shape
  <2>4. Cur.accepts \in Nat /\ Cur.rejects \in Nat /\ Cur.pend \in Seq(Edits)
    BY <2>1 DEF HookStates
  <2>5. Len(Cur.pend) = Cardinality(ToSet(Cur.pend))
    BY <2>1, <2>4, CountsEdits DEF Account, Remaining
  <2>6. Account
    BY <2>1 DEF HookInv
  <2>7. ToSet(Cur.pend) = added \ (accepted \cup rejected \cup dropped)
    BY <2>3, <2>6 DEF Account, Remaining
  <2>8. accepted \cap rejected = {}
    BY <2>6 DEF Account, Undecided
  <2>9. Cardinality(Accepting) = 0 /\ Cardinality(Rejecting) = 0
    BY <2>2, FS_EmptySet
  <2>10. Cur.accepts = Cardinality(accepted) /\ Cur.rejects = Cardinality(rejected)
    <3>1. Cardinality(accepted) \in Nat /\ Cardinality(rejected) \in Nat
      BY <2>6, FS_CardinalityType DEF Account, Finite
    <3>2. QED
      BY <2>4, <2>6, <2>9, <3>1 DEF Account, Tally
  <2>11. QED
    BY <2>5, <2>7, <2>8, <2>10
<1>2. QED
  BY <1>1, InitHookInv, NextHookInv, PTL DEF HookSpec

-----------------------------------------------------------------------------
(* ModelFetch.  A download that met no other has the temporary file to       *)
(* itself: what it holds is what the process was sent, and the name is       *)
(* still there when it is renamed.  doubt covers the downloads that met.     *)

AtFile(p) == fpc[p] \in {"copy", "close"}

\* The names are of files that were created, and not of the same one.
NamesApart ==
    /\ {tmp, model} \subseteq (1..inodes) \cup {None}
    /\ tmp # None => tmp # model
\* What a process has been sent at its step.
SentBefore == \A p \in Fetchers :
    /\ fpc[p] \in {"idle", "open"} => sent[p] = 0 /\ sound[p]
    /\ fpc[p] = "close" => sent[p] = ModelLen
    /\ AtFile(p) => fd[p] \in Inodes
\* Who met nobody copies alone, into the file of the name.
CopiesAlone == \A p \in Fetchers : AtFile(p) /\ p \notin met =>
    /\ Meets(p) = {}
    /\ tmp # None /\ fd[p] = tmp
    /\ sound[p] => data[tmp] = 1..sent[p]
\* Without a doubt nobody at a file has met another.
NoDoubt == ~doubt => \A p \in Fetchers : AtFile(p) => p \notin met

FetchInv == FetchTypeOK /\ NamesApart /\ SentBefore /\ CopiesAlone /\ NoDoubt /\ ModelWhole

\* The name holds no file, or one that is in doubt.
LEMMA InitFetchInv == FetchInit => FetchInv
<1> SUFFICES ASSUME FetchInit PROVE FetchInv
  OBVIOUS
<1> USE FetchAssumption DEF FetchInit
<1>1. FetchTypeOK
  <2>1. /\ fpc \in [Fetchers -> {"idle", "open", "copy", "close"}]
        /\ fd \in [Fetchers -> Inodes \cup {None}]
        /\ sent \in [Fetchers -> 0..ModelLen] /\ sound \in [Fetchers -> BOOLEAN]
        /\ data \in [Inodes -> SUBSET Pieces]
    OBVIOUS
  <2>2. {tmp, model} \subseteq Inodes \cup {None} /\ inodes \in 0..MaxInodes
    BY DEF Inodes
  <2>3. met \subseteq Fetchers /\ doubt \in BOOLEAN
    OBVIOUS
  <2>4. QED
    BY <2>1, <2>2, <2>3 DEF FetchTypeOK
<1>2. NamesApart /\ SentBefore /\ CopiesAlone /\ NoDoubt /\ ModelWhole
  BY DEF NamesApart, SentBefore, CopiesAlone, NoDoubt, ModelWhole, AtFile
<1>3. QED
  BY <1>1, <1>2 DEF FetchInv

\* Every step of a download keeps the invariant.
LEMMA NextFetchInv == FetchInv /\ [FetchNext]_fetchVars => FetchInv'
<1> SUFFICES ASSUME FetchInv, [FetchNext]_fetchVars PROVE FetchInv'
  OBVIOUS
<1> USE FetchAssumption DEF FetchInv, FetchTypeOK, NamesApart, SentBefore, CopiesAlone, NoDoubt,
    ModelWhole, Whole, AtFile, Meets, Inodes, Pieces, FetchGoto, FetchLeave, fetchFiles, Busy
<1>1. ASSUME NEW p \in Fetchers, EnsurePinned(p) PROVE FetchInv'
  BY <1>1 DEF EnsurePinned
<1>2. ASSUME NEW p \in Fetchers, OpenTmp(p) PROVE FetchInv'
  <2>1. /\ tmp' \in 1..inodes' /\ tmp' # None /\ tmp' # model
        /\ inodes' \in inodes..MaxInodes
    BY <1>2 DEF OpenTmp
  <2>2. /\ fpc' = [fpc EXCEPT ![p] = "copy"] /\ fpc[p] = "open"
        /\ fd' = [fd EXCEPT ![p] = tmp'] /\ data' = [data EXCEPT ![tmp'] = {}]
        /\ UNCHANGED <<sent, sound, model>>
    BY <1>2 DEF OpenTmp
  <2>3. /\ met' = IF Meets(p) = {} THEN met \ {p} ELSE met \cup {p} \cup Meets(p)
        /\ doubt' = (doubt \/ Meets(p) # {})
    BY <1>2 DEF OpenTmp
  <2>4. FetchTypeOK'
    BY <2>1, <2>2, <2>3
  <2>5. NamesApart' /\ SentBefore'
    BY <2>1, <2>2
  <2>6. CopiesAlone'
    BY <2>1, <2>2, <2>3
  <2>7. NoDoubt'
    BY <2>2, <2>3
  <2>8. ModelWhole'
    BY <2>1, <2>2, <2>3
  <2>9. QED
    BY <2>4, <2>5, <2>6, <2>7, <2>8
<1>3. ASSUME NEW p \in Fetchers, NoAnswer(p) PROVE FetchInv'
  BY <1>3 DEF NoAnswer
<1>4. ASSUME NEW p \in Fetchers, NEW good \in BOOLEAN, CopyPiece(p, good) PROVE FetchInv'
  <2>1. /\ fpc[p] = "copy" /\ sent[p] \in 0..(ModelLen - 1) /\ fd[p] \in Inodes
        /\ sent' = [sent EXCEPT ![p] = sent[p] + 1]
        /\ sound' = [sound EXCEPT ![p] = sound[p] /\ good]
        /\ UNCHANGED <<fpc, fd, tmp, model, inodes, met, doubt>>
    BY <1>4 DEF CopyPiece
  <2>2. data' = [data EXCEPT ![fd[p]] = IF good THEN data[fd[p]] \cup {sent[p] + 1}
                                                ELSE data[fd[p]] \ {sent[p] + 1}]
    BY <1>4 DEF CopyPiece
  <2>3. FetchTypeOK' /\ NamesApart' /\ SentBefore' /\ NoDoubt'
    BY <2>1, <2>2
  <2>4. ASSUME NEW q \in Fetchers, AtFile(q)', q \notin met'
        PROVE /\ Meets(q)' = {}
              /\ tmp' # None /\ fd'[q] = tmp'
              /\ sound'[q] => data'[tmp'] = 1..sent'[q]
    <3>1. Meets(q) = {} /\ tmp # None /\ fd[q] = tmp /\ (sound[q] => data[tmp] = 1..sent[q])
      BY <2>1, <2>4
    <3>2. q = p
      BY <2>1, <3>1
    <3>3. data'[tmp] = IF good THEN data[tmp] \cup {sent[p] + 1} ELSE data[tmp] \ {sent[p] + 1}
      BY <2>1, <2>2, <3>1, <3>2
    <3>4. sound'[p] => sound[p] /\ good
      BY <2>1
    <3>5. sent'[p] = sent[p] + 1 /\ sent[p] \in Nat
      BY <2>1
    <3>6. (1..sent[p]) \cup {sent[p] + 1} = 1..(sent[p] + 1)
      BY <3>5
    <3>7. QED
      BY <2>1, <3>1, <3>2, <3>3, <3>4, <3>5, <3>6
  <2>5. ModelWhole'
    BY <2>1, <2>2
  <2>6. CopiesAlone'
    BY <2>4
  <2>9. QED
    BY <2>3, <2>5, <2>6
<1>5. ASSUME NEW p \in Fetchers, EndCopy(p) PROVE FetchInv'
  BY <1>5 DEF EndCopy
<1>6. ASSUME NEW p \in Fetchers, DropTmp(p) PROVE FetchInv'
  BY <1>6 DEF DropTmp
<1>7. ASSUME NEW p \in Fetchers, RenameTmp(p) PROVE FetchInv'
  BY <1>7 DEF RenameTmp, SumIsRight
<1>8. ASSUME NEW p \in Fetchers, KillFetcher(p) PROVE FetchInv'
  BY <1>8 DEF KillFetcher
<1>9. CASE UNCHANGED fetchVars
  BY <1>9 DEF fetchVars, fetchLocal
<1>10. QED
  BY <1>1, <1>2, <1>3, <1>4, <1>5, <1>6, <1>7, <1>8, <1>9 DEF FetchNext

\* Every variable of the downloads keeps its type.
THEOREM FetchTyping == FetchSpec => []FetchTypeOK
  BY InitFetchInv, NextFetchInv, PTL DEF FetchSpec, FetchInv

\* What has the name of the model is the pinned file, whoever was killed and
\* whatever was sent, unless downloads met.
THEOREM ModelIsWhole == FetchSpec => []ModelWhole
  BY InitFetchInv, NextFetchInv, PTL DEF FetchSpec, FetchInv

-----------------------------------------------------------------------------
(* EmbedStore.  Types, and who may be at a step: only a store that was       *)
(* stamped has rows, and who writes a vector has a row to write it for.      *)

WithText == {"insert", "insertZero", "vector", "done"}

TextInHand == \A u \in Users : text[u] # None <=> upc[u] \in WithText
RowInHand == \A u \in Users :
    /\ upc[u] \in {"vector", "done"} => text[u] \in Rows
    /\ batch[u] \subseteq Rows
StampFirst ==
    /\ \A u \in Users : stamp = None => upc[u] \in {"idle", "read", "stamp"}
    /\ stamp = None => Rows = {}

StoreTyped == StoreTypeOK /\ TextInHand /\ RowInHand /\ StampFirst

(* An episode that is not pending and did not stray has its vector or is     *)
(* about to get it, from the mark of an upgrade on; and so has one whose     *)
(* vector was just written, although it may be pending still.  This holds of *)
(* every row, because a faded one may be brought back.                       *)

Upgraded ==
    /\ stamp = "bge" \/ \E u \in Users : upc[u] = "upgraded"
    /\ \A u \in Users : upc[u] # "mark"
Embedded(e) ==
    \/ e \in strayed \/ vector[e] = "bge"
    \/ \E u \in Users : upc[u] = "vector" /\ text[u] = e
RowsEmbedded == Upgraded => \A e \in Rows \ pending : Embedded(e)
DoneEmbedded == Upgraded => \A u \in Users : upc[u] = "done" => Embedded(text[u])

StoreInv == StoreTyped /\ RowsEmbedded /\ DoneEmbedded


\* A store is empty at first, or whole.
LEMMA InitStoreTyped == StoreInit => StoreTyped
<1> SUFFICES ASSUME StoreInit PROVE StoreTyped
  OBVIOUS
<1> USE StoreAssumption DEF StoreInit, Rows, Generations
<1>1. StoreTypeOK
  BY DEF StoreTypeOK
<1>2. TextInHand /\ RowInHand /\ StampFirst
  BY DEF TextInHand, RowInHand, StampFirst, WithText
<1>3. QED
  BY <1>1, <1>2 DEF StoreTyped

\* Every step of a user of the store keeps the types.
LEMMA NextStoreTyped == StoreTyped /\ [StoreNext]_storeVars => StoreTyped'
<1> SUFFICES ASSUME StoreTyped, [StoreNext]_storeVars PROVE StoreTyped'
  OBVIOUS
<1> USE StoreAssumption DEF StoreTyped, StoreTypeOK, TextInHand, RowInHand, StampFirst, WithText,
    Rows, Unfaded, InHand, Generations, StoreGoto, CountsWrite, Embeddings, GenAfter, Leave,
    userState, rowState
<1>1. ASSUME NEW u \in Users, StartUser(u) PROVE StoreTyped'
  BY <1>1 DEF StartUser
<1>2. ASSUME NEW u \in Users, Reopen(u) PROVE StoreTyped'
  BY <1>2 DEF Reopen
<1>3. ASSUME NEW u \in Users, EnsureEmbedder(u) PROVE StoreTyped'
  BY <1>3 DEF EnsureEmbedder
<1>4. ASSUME NEW u \in Users, MisreadStamp(u) PROVE StoreTyped'
  BY <1>4 DEF MisreadStamp
<1>5. ASSUME NEW u \in Users, Wipe(u) PROVE StoreTyped'
  BY <1>5 DEF Wipe
<1>6. ASSUME NEW u \in Users, Mark(u) PROVE StoreTyped'
  BY <1>6 DEF Mark
<1>7. ASSUME NEW u \in Users, Stamp(u) PROVE StoreTyped'
  BY <1>7 DEF Stamp
<1>8. ASSUME NEW u \in Users, Insert(u) PROVE StoreTyped'
  BY <1>8 DEF Insert
<1>9. ASSUME NEW u \in Users, FindByHash(u) PROVE StoreTyped'
  BY <1>9 DEF FindByHash
<1>10. ASSUME NEW u \in Users, WriteVector(u) PROVE StoreTyped'
  BY <1>10 DEF WriteVector
<1>11. ASSUME NEW u \in Users, ClearPending(u) PROVE StoreTyped'
  BY <1>11 DEF ClearPending
<1>12. ASSUME NEW u \in Users, Sleep(u) PROVE StoreTyped'
  BY <1>12 DEF Sleep
<1>13. ASSUME NEW u \in Users, SelectPending(u) PROVE StoreTyped'
  BY <1>13 DEF SelectPending
<1>14. ASSUME NEW u \in Users, NEW v \in Generations \cup {None}, Flush(u, v) PROVE StoreTyped'
  BY <1>14 DEF Flush
<1>15. ASSUME NEW u \in Users, NEW e \in Episodes, Hint(u, e) PROVE StoreTyped'
  BY <1>15 DEF Hint
<1>16. ASSUME NEW u \in Users, NEW v \in Generations \cup {None}, NEW e \in Episodes,
            Capture(u, e, v)
      PROVE StoreTyped'
  BY <1>16 DEF Capture
<1>17. ASSUME NEW u \in Users, End(u) PROVE StoreTyped'
  BY <1>17 DEF End
<1>18. ASSUME NEW u \in Users, KillUser(u) PROVE StoreTyped'
  BY <1>18 DEF KillUser
<1>19. CASE UNCHANGED storeVars
  BY <1>19 DEF storeVars
<1>20. QED
  BY <1>1, <1>2, <1>3, <1>4, <1>5, <1>6, <1>7, <1>8, <1>9, <1>10, <1>11, <1>12, <1>13, <1>14, <1>15, <1>16, <1>17, <1>18, <1>19 DEF StoreNext

\* Nothing is upgraded at first.
LEMMA InitStoreInv == StoreInit => RowsEmbedded /\ DoneEmbedded
  BY DEF StoreInit, RowsEmbedded, DoneEmbedded, Upgraded, Embedded, Rows

\* Every step of a user of the store keeps what was upgraded in order.
LEMMA NextStoreInv == StoreInv /\ [StoreNext]_storeVars => (RowsEmbedded /\ DoneEmbedded)'
<1> DEFINE Inv == RowsEmbedded /\ DoneEmbedded
<1> SUFFICES ASSUME StoreInv, [StoreNext]_storeVars PROVE Inv'
  OBVIOUS
<1> USE StoreAssumption DEF StoreInv, StoreTyped, StoreTypeOK, TextInHand, RowInHand, StampFirst,
    WithText, Rows, Unfaded, InHand, Generations, StoreGoto, CountsWrite, Embeddings, GenAfter,
    Leave, userState, rowState, RowsEmbedded, DoneEmbedded, Upgraded, Embedded, Upgrading, Strays
<1>1. ASSUME NEW u \in Users, StartUser(u) PROVE Inv'
  BY <1>1 DEF StartUser
<1>2. ASSUME NEW u \in Users, Reopen(u) PROVE Inv'
  BY <1>2 DEF Reopen
<1>3. ASSUME NEW u \in Users, EnsureEmbedder(u) PROVE Inv'
  BY <1>3 DEF EnsureEmbedder
<1>4. ASSUME NEW u \in Users, MisreadStamp(u) PROVE Inv'
  BY <1>4 DEF MisreadStamp
<1>5. ASSUME NEW u \in Users, Wipe(u) PROVE Inv'
  BY <1>5 DEF Wipe
<1>6. ASSUME NEW u \in Users, Mark(u) PROVE Inv'
  BY <1>6 DEF Mark
<1>7. ASSUME NEW u \in Users, Stamp(u) PROVE Inv'
  BY <1>7 DEF Stamp
<1>8. ASSUME NEW u \in Users, Insert(u) PROVE Inv'
  BY <1>8 DEF Insert
<1>9. ASSUME NEW u \in Users, FindByHash(u) PROVE Inv'
  BY <1>9 DEF FindByHash
<1>10. ASSUME NEW u \in Users, WriteVector(u) PROVE Inv'
  BY <1>10 DEF WriteVector
<1>11. ASSUME NEW u \in Users, ClearPending(u) PROVE Inv'
  BY <1>11 DEF ClearPending
<1>12. ASSUME NEW u \in Users, Sleep(u) PROVE Inv'
  BY <1>12 DEF Sleep
<1>13. ASSUME NEW u \in Users, SelectPending(u) PROVE Inv'
  BY <1>13 DEF SelectPending
<1>14. ASSUME NEW u \in Users, NEW v \in Generations \cup {None}, Flush(u, v) PROVE Inv'
  BY <1>14 DEF Flush
<1>15. ASSUME NEW u \in Users, NEW e \in Episodes, Hint(u, e) PROVE Inv'
  BY <1>15 DEF Hint
<1>16. ASSUME NEW u \in Users, NEW v \in Generations \cup {None}, NEW e \in Episodes,
            Capture(u, e, v)
      PROVE Inv'
  BY <1>16 DEF Capture
<1>17. ASSUME NEW u \in Users, End(u) PROVE Inv'
  BY <1>17 DEF End
<1>18. ASSUME NEW u \in Users, KillUser(u) PROVE Inv'
  BY <1>18 DEF KillUser
<1>19. CASE UNCHANGED storeVars
  BY <1>19 DEF storeVars
<1>20. QED
  BY <1>1, <1>2, <1>3, <1>4, <1>5, <1>6, <1>7, <1>8, <1>9, <1>10, <1>11, <1>12, <1>13, <1>14, <1>15, <1>16, <1>17, <1>18, <1>19 DEF StoreNext

\* With the types the three are inductive.
LEMMA InitAllEmbedded == StoreInit => StoreInv
  BY InitStoreTyped, InitStoreInv DEF StoreInv

\* Every step of the store and the worker keeps them.
LEMMA NextAllEmbedded == StoreInv /\ [StoreNext]_storeVars => StoreInv'
  BY NextStoreTyped, NextStoreInv DEF StoreInv

\* Every variable of the store keeps its type.
THEOREM StoreTyping == StoreSpec => []StoreTypeOK
  BY InitStoreTyped, NextStoreTyped, PTL DEF StoreSpec, StoreTyped

\* After an upgrade every episode is found or embedded by the next sleep.
THEOREM EpisodesAreFound == StoreSpec => []EmbeddedFound
<1>1. StoreInv => EmbeddedFound
  BY DEF StoreInv, EmbeddedFound, RowsEmbedded, Upgraded, Embedded, Unfaded, InHand, Rows
<1>2. QED
  BY <1>1, InitAllEmbedded, NextAllEmbedded, PTL DEF StoreSpec

-----------------------------------------------------------------------------
(* MCGates.  A behaviour moves one of the five and rests the others, and no  *)
(* two share a variable: it is a behaviour of each, so each keeps in it what *)
(* it keeps alone, and the run and the theorems speak of the same formulas.  *)

\* What moves one of the five is a step or a stutter of each.
LEMMA GatesProject == GatesSpec => GateSpec /\ SeedSpec /\ HookSpec /\ FetchSpec /\ StoreSpec
<1>1. GatesInit => GateInit /\ SeedInit /\ HookInit /\ FetchInit /\ StoreInit
  BY DEF GatesInit
<1>2. [GatesNext]_gatesVars => /\ [GateNext]_gateVars /\ [SeedNext]_seedVars
                               /\ [HookNext]_hookVars /\ [FetchNext]_fetchVars
                               /\ [StoreNext]_storeVars
  BY DEF GatesNext, gatesVars
<1>3. QED
  BY <1>1, <1>2, PTL DEF GatesSpec, GateSpec, SeedSpec, HookSpec, FetchSpec, StoreSpec

\* The types of all five hold of the behaviours the run checks.
THEOREM GatesTyping == GatesSpec => []GatesTypeOK
  BY GatesProject, GateTyping, SeedTyping, HookTyping, FetchTyping, StoreTyping, PTL
     DEF GatesTypeOK

\* So does what the five promise, side by side: the status of the gate, the rows and
\* the database of a worktree, the counts of edits, the model and the embeddings.
THEOREM GatesKeepAll ==
    GatesSpec => [](/\ ListedHeld /\ SeedKeepsRows /\ SeedWhole
                    /\ HookCounts /\ ModelWhole /\ EmbeddedFound)
  BY GatesProject, StatusIsTrue, SafeRowsStay, NoHalfWorktree, EditsAreCounted, ModelIsWhole,
     EpisodesAreFound, PTL
=============================================================================
