------------------------ MODULE GraphPublish_proofs ------------------------
(***************************************************************************)
(* Proofs about GraphPublish, for any number of builders, writers, rows    *)
(* and files, and whatever the steps at which a builder may be killed.     *)
(***************************************************************************)
EXTENDS GraphPublish, TLAPS

-----------------------------------------------------------------------------
(* Types. *)

\* The empty repository is well typed.
LEMMA InitTyping == Init => TypeOK
<1> SUFFICES ASSUME Init PROVE TypeOK
  OBVIOUS
<1> USE PublishAssumption DEF Init
<1>1. files \in [Inodes -> File]
  BY DEF File
<1>2. next \in 1..(MaxFiles + 1)
  OBVIOUS
<1>3. pc \in [Builders -> Steps]
  BY DEF Steps
<1>4. QED
  BY <1>1, <1>2, <1>3 DEF TypeOK, MaybeInode

\* Every step of publish.go and of a writer keeps the types and gives the lock back.
LEMMA NextTyping == TypeOK /\ [Next]_vars => TypeOK'
<1> SUFFICES ASSUME TypeOK, [Next]_vars PROVE TypeOK'
  OBVIOUS
<1> USE PublishAssumption DEF TypeOK, Inodes, MaybeInode, File, Steps, Held, Goto, gvars
<1>1. ASSUME NEW b \in Builders, NEW n \in BOOLEAN, Begin(b, n) PROVE TypeOK'
  BY <1>1 DEF Begin
<1>2. ASSUME NEW b \in Builders, TakeLock(b) PROVE TypeOK'
  BY <1>2 DEF TakeLock, LockFree
<1>3. ASSUME NEW b \in Builders, LockBusy(b) PROVE TypeOK'
  BY <1>3 DEF LockBusy
<1>4. ASSUME NEW b \in Builders, GetSlot(b) PROVE TypeOK'
  BY <1>4 DEF GetSlot
<1>5. ASSUME NEW b \in Builders, PoolFull(b) PROVE TypeOK'
  BY <1>5 DEF PoolFull, Leave
<1>6. ASSUME NEW b \in Builders, NEW good \in BOOLEAN, Build(b, good) PROVE TypeOK'
  BY <1>6 DEF Build
<1>7. ASSUME NEW b \in Builders, Verify(b) PROVE TypeOK'
  BY <1>7 DEF Verify
<1>8. ASSUME NEW b \in Builders, Fail(b) PROVE TypeOK'
  BY <1>8 DEF Fail, Leave
<1>9. ASSUME NEW b \in Builders, Copy(b) PROVE TypeOK'
  BY <1>9 DEF Copy, CopiedRows
<1>10. ASSUME NEW b \in Builders, DropBackup(b) PROVE TypeOK'
  BY <1>10 DEF DropBackup, RemoveBackup
<1>11. ASSUME NEW b \in Builders, Park(b) PROVE TypeOK'
  BY <1>11 DEF Park
<1>12. ASSUME NEW b \in Builders, Swap(b) PROVE TypeOK'
  BY <1>12 DEF Swap
<1>13. ASSUME NEW b \in Builders, SwapFails(b) PROVE TypeOK'
  BY <1>13 DEF SwapFails, Leave, Restore, Tear
<1>14. ASSUME NEW b \in Builders, Clean(b) PROVE TypeOK'
  BY <1>14 DEF Clean, RemoveBackup, Leave
<1>15. ASSUME NEW b \in Builders, Crash(b) PROVE TypeOK'
  BY <1>15 DEF Crash, Tear, Leave
<1>16. ASSUME NEW w \in Writers, Open(w) PROVE TypeOK'
  BY <1>16 DEF Open
<1>17. ASSUME NEW w \in Writers, NEW row \in Rows, Commit(w, row) PROVE TypeOK'
  BY <1>17 DEF Commit
<1>18. ASSUME NEW w \in Writers, Close(w) PROVE TypeOK'
  BY <1>18 DEF Close
<1>19. CASE UNCHANGED vars
  BY <1>19 DEF vars
<1>20. QED
  BY <1>1, <1>2, <1>3, <1>4, <1>5, <1>6, <1>7, <1>8, <1>9, <1>10, <1>11, <1>12,
     <1>13, <1>14, <1>15, <1>16, <1>17, <1>18, <1>19 DEF Next

\* Every variable keeps its type and build.lock never outlives its holder.
THEOREM Typing == Spec => []TypeOK
  BY InitTyping, NextTyping, PTL DEF Spec

-----------------------------------------------------------------------------
(* Who owns the staged file.  A builder between the lock and the end of its *)
(* swap holds build.lock, and the file it stages is its own: it has no name *)
(* under .so/db, nobody has it open, and a file not created yet is blank.   *)

Exclusive == \A b \in Builders : pc[b] \in Held => lock = b

Staging == {"verify", "copy", "drop", "park", "swap"}
Accepted == {"copy", "drop", "park", "swap"}

Created ==
    /\ \A i \in {db, prev, pub} \ {None} : i < next
    /\ \A w \in Writers : handle[w] # None => handle[w] < next

Private == \A b \in Builders : pc[b] \in Staging =>
    /\ stage[b] \in Inodes
    /\ stage[b] < next
    /\ stage[b] \notin {db, prev, pub}
    /\ \A w \in Writers : handle[w] # stage[b]

Blank == \A i \in Inodes : i >= next => ~files[i].graph

Checked == \A b \in Builders : pc[b] \in Accepted => files[stage[b]].ok

Owned == Exclusive /\ Created /\ Private /\ Blank /\ Checked

StageInv == Owned /\ VerifiedLive

\* Nothing is staged at first.
LEMMA InitStage == Init => StageInv
  BY PublishAssumption DEF Init, StageInv, Owned, Exclusive, Created, Private, Blank,
     Checked, VerifiedLive, Held, Staging, Accepted

\* Every step keeps the lock exclusive, the stages private and unverified files off
\* the two names.
LEMMA NextStage == TypeOK /\ TypeOK' /\ StageInv /\ [Next]_vars => StageInv'
<1> SUFFICES ASSUME TypeOK, TypeOK', StageInv, [Next]_vars PROVE StageInv'
  OBVIOUS
<1> USE PublishAssumption DEF TypeOK, Inodes, MaybeInode, File, Held, Goto, gvars,
    StageInv, Owned, Exclusive, Created, Private, Blank, Checked, VerifiedLive,
    Staging, Accepted
<1>1. ASSUME NEW b \in Builders, NEW n \in BOOLEAN, Begin(b, n) PROVE StageInv'
  BY <1>1 DEF Begin
<1>2. ASSUME NEW b \in Builders, TakeLock(b) PROVE StageInv'
  BY <1>2 DEF TakeLock, LockFree
<1>3. ASSUME NEW b \in Builders, LockBusy(b) PROVE StageInv'
  BY <1>3 DEF LockBusy
<1>4. ASSUME NEW b \in Builders, GetSlot(b) PROVE StageInv'
  BY <1>4 DEF GetSlot
<1>5. ASSUME NEW b \in Builders, PoolFull(b) PROVE StageInv'
  BY <1>5 DEF PoolFull, Leave
<1>6. ASSUME NEW b \in Builders, NEW good \in BOOLEAN, Build(b, good) PROVE StageInv'
  BY <1>6 DEF Build
<1>7. ASSUME NEW b \in Builders, Verify(b) PROVE StageInv'
  BY <1>7 DEF Verify, Verifies
<1>8. ASSUME NEW b \in Builders, Fail(b) PROVE StageInv'
  BY <1>8 DEF Fail, Leave
<1>9. ASSUME NEW b \in Builders, Copy(b) PROVE StageInv'
  BY <1>9 DEF Copy, CopiedRows
<1>10. ASSUME NEW b \in Builders, DropBackup(b) PROVE StageInv'
  <2>1. Exclusive' /\ Created'
    BY <1>10 DEF DropBackup, RemoveBackup
  <2>2. Private'
    BY <1>10 DEF DropBackup, RemoveBackup
  <2>3. Blank' /\ Checked'
    BY <1>10 DEF DropBackup, RemoveBackup
  <2>4. VerifiedLive'
    BY <1>10 DEF DropBackup, RemoveBackup
  <2>5. QED
    BY <2>1, <2>2, <2>3, <2>4 DEF StageInv, Owned
<1>11. ASSUME NEW b \in Builders, Park(b) PROVE StageInv'
  <2>1. Exclusive' /\ Created'
    BY <1>11 DEF Park
  <2>2. Private'
    BY <1>11 DEF Park
  <2>3. Blank' /\ Checked'
    BY <1>11 DEF Park
  <2>4. VerifiedLive'
    BY <1>11 DEF Park
  <2>5. QED
    BY <2>1, <2>2, <2>3, <2>4 DEF StageInv, Owned
<1>12. ASSUME NEW b \in Builders, Swap(b) PROVE StageInv'
  BY <1>12 DEF Swap
<1>13. ASSUME NEW b \in Builders, SwapFails(b) PROVE StageInv'
  BY <1>13 DEF SwapFails, Leave, Restore, Tear
<1>14. ASSUME NEW b \in Builders, Clean(b) PROVE StageInv'
  <2>1. Exclusive' /\ Created'
    BY <1>14 DEF Clean, RemoveBackup, Leave
  <2>2. Private'
    BY <1>14 DEF Clean, RemoveBackup, Leave
  <2>3. Blank' /\ Checked'
    BY <1>14 DEF Clean, RemoveBackup, Leave
  <2>4. VerifiedLive'
    BY <1>14 DEF Clean, RemoveBackup, Leave
  <2>5. QED
    BY <2>1, <2>2, <2>3, <2>4 DEF StageInv, Owned
<1>15. ASSUME NEW b \in Builders, Crash(b) PROVE StageInv'
  BY <1>15 DEF Crash, Tear, Leave
<1>16. ASSUME NEW w \in Writers, Open(w) PROVE StageInv'
  <2>1. Exclusive' /\ Created'
    BY <1>16 DEF Open
  <2>2. Private'
    BY <1>16 DEF Open
  <2>3. Blank' /\ Checked'
    BY <1>16 DEF Open
  <2>4. VerifiedLive'
    BY <1>16 DEF Open
  <2>5. QED
    BY <2>1, <2>2, <2>3, <2>4 DEF StageInv, Owned
<1>17. ASSUME NEW w \in Writers, NEW row \in Rows, Commit(w, row) PROVE StageInv'
  BY <1>17 DEF Commit
<1>18. ASSUME NEW w \in Writers, Close(w) PROVE StageInv'
  BY <1>18 DEF Close
<1>19. CASE UNCHANGED vars
  BY <1>19 DEF vars
<1>20. QED
  BY <1>1, <1>2, <1>3, <1>4, <1>5, <1>6, <1>7, <1>8, <1>9, <1>10, <1>11, <1>12,
     <1>13, <1>14, <1>15, <1>16, <1>17, <1>18, <1>19 DEF Next

\* A graph that did not pass Verify is never under so.db or its backup.
THEOREM LiveVerified == Spec => []VerifiedLive
<1>1. TypeOK /\ StageInv => VerifiedLive
  BY DEF StageInv
<1>2. QED
  BY <1>1, Typing, InitStage, NextStage, PTL DEF Spec

-----------------------------------------------------------------------------
(* The live generation.  During the swap it is parked under the backup name *)
(* and the builder remembers it; what a writer may create as so.db in the   *)
(* window is never the published file.                                      *)

Parked == \A b \in Builders : pc[b] = "swap" =>
    /\ pub # None /\ ~torn => had[b] /\ prev = pub
    /\ db # None => db # pub

Cleaning == \A b \in Builders : pc[b] = "clean" => pub # None /\ db = pub

LiveInv == LiveIsLatest /\ Parked /\ Cleaning

\* Nothing is published at first.
LEMMA InitLive == Init => LiveInv
  BY DEF Init, LiveInv, LiveIsLatest, Parked, Cleaning

\* Every step keeps so.db, or the parked file during the swap, the last publication.
LEMMA NextLive ==
    TypeOK /\ TypeOK' /\ StageInv /\ LiveInv /\ [Next]_vars => LiveInv'
<1> SUFFICES ASSUME TypeOK, TypeOK', StageInv, LiveInv, [Next]_vars PROVE LiveInv'
  OBVIOUS
<1> USE PublishAssumption DEF TypeOK, Inodes, MaybeInode, Held, Goto, gvars,
    StageInv, Owned, Exclusive, Created, Private, Staging,
    LiveInv, LiveIsLatest, Parked, Cleaning, InSwap
<1>1. ASSUME NEW b \in Builders, NEW n \in BOOLEAN, Begin(b, n) PROVE LiveInv'
  BY <1>1 DEF Begin
<1>2. ASSUME NEW b \in Builders, TakeLock(b) PROVE LiveInv'
  BY <1>2 DEF TakeLock, LockFree
<1>3. ASSUME NEW b \in Builders, LockBusy(b) PROVE LiveInv'
  BY <1>3 DEF LockBusy
<1>4. ASSUME NEW b \in Builders, GetSlot(b) PROVE LiveInv'
  BY <1>4 DEF GetSlot
<1>5. ASSUME NEW b \in Builders, PoolFull(b) PROVE LiveInv'
  BY <1>5 DEF PoolFull, Leave
<1>6. ASSUME NEW b \in Builders, NEW good \in BOOLEAN, Build(b, good) PROVE LiveInv'
  BY <1>6 DEF Build
<1>7. ASSUME NEW b \in Builders, Verify(b) PROVE LiveInv'
  BY <1>7 DEF Verify, Verifies
<1>8. ASSUME NEW b \in Builders, Fail(b) PROVE LiveInv'
  BY <1>8 DEF Fail, Leave
<1>9. ASSUME NEW b \in Builders, Copy(b) PROVE LiveInv'
  BY <1>9 DEF Copy, CopiedRows
<1>10. ASSUME NEW b \in Builders, DropBackup(b) PROVE LiveInv'
  BY <1>10 DEF DropBackup, RemoveBackup
<1>11. ASSUME NEW b \in Builders, Park(b) PROVE LiveInv'
  BY <1>11 DEF Park
<1>12. ASSUME NEW b \in Builders, Swap(b) PROVE LiveInv'
  BY <1>12 DEF Swap
<1>13. ASSUME NEW b \in Builders, SwapFails(b) PROVE LiveInv'
  BY <1>13 DEF SwapFails, Leave, Restore, Tear
<1>14. ASSUME NEW b \in Builders, Clean(b) PROVE LiveInv'
  BY <1>14 DEF Clean, RemoveBackup, Leave
<1>15. ASSUME NEW b \in Builders, Crash(b) PROVE LiveInv'
  BY <1>15 DEF Crash, Tear, Leave
<1>16. ASSUME NEW w \in Writers, Open(w) PROVE LiveInv'
  BY <1>16 DEF Open
<1>17. ASSUME NEW w \in Writers, NEW row \in Rows, Commit(w, row) PROVE LiveInv'
  BY <1>17 DEF Commit
<1>18. ASSUME NEW w \in Writers, Close(w) PROVE LiveInv'
  BY <1>18 DEF Close
<1>19. CASE UNCHANGED vars
  BY <1>19 DEF vars
<1>20. QED
  BY <1>1, <1>2, <1>3, <1>4, <1>5, <1>6, <1>7, <1>8, <1>9, <1>10, <1>11, <1>12,
     <1>13, <1>14, <1>15, <1>16, <1>17, <1>18, <1>19 DEF Next

\* Outside the swap, and unless the last swap was left half-way, so.db is the graph
\* published last.
THEOREM LatestIsLive == Spec => []LiveIsLatest
<1>1. LiveInv => LiveIsLatest
  BY DEF LiveInv
<1>2. QED
  BY <1>1, Typing, InitStage, NextStage, InitLive, NextLive, PTL DEF Spec

-----------------------------------------------------------------------------
(* Memory rows.  What was committed before a copy began is in the staged    *)
(* file once copied, and in the parked file until the stage replaces it.    *)

CopyHolds == \A b \in Builders : pc[b] \in {"drop", "park", "swap"} =>
    safe \cap MemRows \subseteq files[stage[b]].rows

SwapRemembers == \A b \in Builders :
    pc[b] = "swap" /\ safe \cap MemRows # {} => had[b]

RowsInv == SafeRowsKept /\ CopyHolds /\ SwapRemembers

\* Nothing is committed at first.
LEMMA InitRows == Init => RowsInv
  BY DEF Init, RowsInv, SafeRowsKept, CopyHolds, SwapRemembers

\* Every step keeps the committed memory rows in so.db, the stage that replaces it, or
\* the parked file.
LEMMA NextRows ==
    TypeOK /\ TypeOK' /\ StageInv /\ RowsInv /\ [Next]_vars => RowsInv'
<1> SUFFICES ASSUME TypeOK, TypeOK', StageInv, RowsInv, [Next]_vars PROVE RowsInv'
  OBVIOUS
<1> USE PublishAssumption DEF TypeOK, Inodes, MaybeInode, File, Held, Goto, gvars,
    StageInv, Owned, Exclusive, Created, Private, Staging,
    RowsInv, SafeRowsKept, CopyHolds, SwapRemembers, InSwap, Copied
<1>1. ASSUME NEW b \in Builders, NEW n \in BOOLEAN, Begin(b, n) PROVE RowsInv'
  BY <1>1 DEF Begin
<1>2. ASSUME NEW b \in Builders, TakeLock(b) PROVE RowsInv'
  BY <1>2 DEF TakeLock, LockFree
<1>3. ASSUME NEW b \in Builders, LockBusy(b) PROVE RowsInv'
  BY <1>3 DEF LockBusy
<1>4. ASSUME NEW b \in Builders, GetSlot(b) PROVE RowsInv'
  BY <1>4 DEF GetSlot
<1>5. ASSUME NEW b \in Builders, PoolFull(b) PROVE RowsInv'
  BY <1>5 DEF PoolFull, Leave
<1>6. ASSUME NEW b \in Builders, NEW good \in BOOLEAN, Build(b, good) PROVE RowsInv'
  BY <1>6 DEF Build
<1>7. ASSUME NEW b \in Builders, Verify(b) PROVE RowsInv'
  BY <1>7 DEF Verify, Verifies
<1>8. ASSUME NEW b \in Builders, Fail(b) PROVE RowsInv'
  BY <1>8 DEF Fail, Leave
<1>9. ASSUME NEW b \in Builders, Copy(b) PROVE RowsInv'
  BY <1>9 DEF Copy, CopiedRows
<1>10. ASSUME NEW b \in Builders, DropBackup(b) PROVE RowsInv'
  BY <1>10 DEF DropBackup, RemoveBackup
<1>11. ASSUME NEW b \in Builders, Park(b) PROVE RowsInv'
  BY <1>11 DEF Park
<1>12. ASSUME NEW b \in Builders, Swap(b) PROVE RowsInv'
  BY <1>12 DEF Swap
<1>13. ASSUME NEW b \in Builders, SwapFails(b) PROVE RowsInv'
  BY <1>13 DEF SwapFails, Leave, Restore, Tear
<1>14. ASSUME NEW b \in Builders, Clean(b) PROVE RowsInv'
  BY <1>14 DEF Clean, RemoveBackup, Leave
<1>15. ASSUME NEW b \in Builders, Crash(b) PROVE RowsInv'
  BY <1>15 DEF Crash, Tear, Leave
<1>16. ASSUME NEW w \in Writers, Open(w) PROVE RowsInv'
  BY <1>16 DEF Open
<1>17. ASSUME NEW w \in Writers, NEW row \in Rows, Commit(w, row) PROVE RowsInv'
  BY <1>17 DEF Commit
<1>18. ASSUME NEW w \in Writers, Close(w) PROVE RowsInv'
  BY <1>18 DEF Close
<1>19. CASE UNCHANGED vars
  BY <1>19 DEF vars
<1>20. QED
  BY <1>1, <1>2, <1>3, <1>4, <1>5, <1>6, <1>7, <1>8, <1>9, <1>10, <1>11, <1>12,
     <1>13, <1>14, <1>15, <1>16, <1>17, <1>18, <1>19 DEF Next

\* A memory row committed before the copy of a publish began survives that
\* publish and every later one, up to a torn swap.
THEOREM RowsSurvive == Spec => []SafeRowsKept
<1>1. RowsInv => SafeRowsKept
  BY DEF RowsInv
<1>2. QED
  BY <1>1, Typing, InitStage, NextStage, InitRows, NextRows, PTL DEF Spec

-----------------------------------------------------------------------------
(* Generations.  Every graph reachable under so.db or its backup is older   *)
(* than the one being staged, and the file a writer may create inside the   *)
(* swap holds no graph.                                                     *)

Older == \A b \in Builders : pc[b] \in Staging =>
    /\ files[stage[b]].graph
    /\ \A i \in {db, prev} \ {None} : files[i].graph => i < stage[b]

Published ==
    /\ pub = None => \A i \in {db, prev} \ {None} : ~files[i].graph
    /\ pub # None => files[pub].graph

Window == \A b \in Builders : pc[b] = "swap" /\ db # None => ~files[db].graph

GenInv == Older /\ Published /\ Window

\* No file has a number yet.
LEMMA InitGen == Init => GenInv
  BY DEF Init, GenInv, Older, Published, Window, Staging

\* Every step keeps the staged file newer than the files that have a name.
LEMMA NextGen ==
    TypeOK /\ TypeOK' /\ StageInv /\ GenInv /\ [Next]_vars => GenInv'
<1> SUFFICES ASSUME TypeOK, TypeOK', StageInv, GenInv, [Next]_vars PROVE GenInv'
  OBVIOUS
<1> USE PublishAssumption DEF TypeOK, Inodes, MaybeInode, File, Held, Goto, gvars,
    StageInv, Owned, Exclusive, Created, Private, Blank, Staging,
    GenInv, Older, Published, Window
<1>1. ASSUME NEW b \in Builders, NEW n \in BOOLEAN, Begin(b, n) PROVE GenInv'
  BY <1>1 DEF Begin
<1>2. ASSUME NEW b \in Builders, TakeLock(b) PROVE GenInv'
  BY <1>2 DEF TakeLock, LockFree
<1>3. ASSUME NEW b \in Builders, LockBusy(b) PROVE GenInv'
  BY <1>3 DEF LockBusy
<1>4. ASSUME NEW b \in Builders, GetSlot(b) PROVE GenInv'
  BY <1>4 DEF GetSlot
<1>5. ASSUME NEW b \in Builders, PoolFull(b) PROVE GenInv'
  BY <1>5 DEF PoolFull, Leave
<1>6. ASSUME NEW b \in Builders, NEW good \in BOOLEAN, Build(b, good) PROVE GenInv'
  BY <1>6 DEF Build
<1>7. ASSUME NEW b \in Builders, Verify(b) PROVE GenInv'
  BY <1>7 DEF Verify, Verifies
<1>8. ASSUME NEW b \in Builders, Fail(b) PROVE GenInv'
  BY <1>8 DEF Fail, Leave
<1>9. ASSUME NEW b \in Builders, Copy(b) PROVE GenInv'
  BY <1>9 DEF Copy, CopiedRows
<1>10. ASSUME NEW b \in Builders, DropBackup(b) PROVE GenInv'
  BY <1>10 DEF DropBackup, RemoveBackup
<1>11. ASSUME NEW b \in Builders, Park(b) PROVE GenInv'
  BY <1>11 DEF Park
<1>12. ASSUME NEW b \in Builders, Swap(b) PROVE GenInv'
  BY <1>12 DEF Swap
<1>13. ASSUME NEW b \in Builders, SwapFails(b) PROVE GenInv'
  BY <1>13 DEF SwapFails, Leave, Restore, Tear
<1>14. ASSUME NEW b \in Builders, Clean(b) PROVE GenInv'
  BY <1>14 DEF Clean, RemoveBackup, Leave
<1>15. ASSUME NEW b \in Builders, Crash(b) PROVE GenInv'
  BY <1>15 DEF Crash, Tear, Leave
<1>16. ASSUME NEW w \in Writers, Open(w) PROVE GenInv'
  BY <1>16 DEF Open
<1>17. ASSUME NEW w \in Writers, NEW row \in Rows, Commit(w, row) PROVE GenInv'
  BY <1>17 DEF Commit
<1>18. ASSUME NEW w \in Writers, Close(w) PROVE GenInv'
  BY <1>18 DEF Close
<1>19. CASE UNCHANGED vars
  BY <1>19 DEF vars
<1>20. QED
  BY <1>1, <1>2, <1>3, <1>4, <1>5, <1>6, <1>7, <1>8, <1>9, <1>10, <1>11, <1>12,
     <1>13, <1>14, <1>15, <1>16, <1>17, <1>18, <1>19 DEF Next

-----------------------------------------------------------------------------
(* The step properties. *)

PublishInv == TypeOK /\ StageInv /\ LiveInv /\ GenInv

\* The conjunction of the invariants that the step properties of publish.go rest on.
THEOREM Invariance == Spec => []PublishInv
<1>1. TypeOK /\ StageInv /\ LiveInv /\ GenInv => PublishInv
  BY DEF PublishInv
<1>2. QED
  BY <1>1, Typing, InitStage, NextStage, InitLive, NextLive, InitGen, NextGen,
     PTL DEF Spec

LosesOnlyWhenTorn ==
    (pub # None /\ HasName(pub) /\ ~HasName(pub)') =>
        torn /\ \E b \in Builders : DropBackup(b) \/ Park(b)

\* In a reachable state, DropBackup and Park after a torn swap are the only steps that
\* take the last name of the published graph.
LEMMA NextLoses == PublishInv /\ PublishInv' /\ [Next]_vars => [LosesOnlyWhenTorn]_vars
<1> SUFFICES ASSUME PublishInv, PublishInv', [Next]_vars PROVE LosesOnlyWhenTorn
  OBVIOUS
<1> USE PublishAssumption DEF PublishInv, TypeOK, Inodes, MaybeInode, Held, Goto, gvars,
    StageInv, Owned, Exclusive, Created, Private, Staging,
    LiveInv, LiveIsLatest, Parked, Cleaning, InSwap,
    LosesOnlyWhenTorn, HasName
<1>1. ASSUME NEW b \in Builders, NEW n \in BOOLEAN, Begin(b, n) PROVE LosesOnlyWhenTorn
  BY <1>1 DEF Begin
<1>2. ASSUME NEW b \in Builders, TakeLock(b) PROVE LosesOnlyWhenTorn
  BY <1>2 DEF TakeLock, LockFree
<1>3. ASSUME NEW b \in Builders, LockBusy(b) PROVE LosesOnlyWhenTorn
  BY <1>3 DEF LockBusy
<1>4. ASSUME NEW b \in Builders, GetSlot(b) PROVE LosesOnlyWhenTorn
  BY <1>4 DEF GetSlot
<1>5. ASSUME NEW b \in Builders, PoolFull(b) PROVE LosesOnlyWhenTorn
  BY <1>5 DEF PoolFull, Leave
<1>6. ASSUME NEW b \in Builders, NEW good \in BOOLEAN, Build(b, good) PROVE LosesOnlyWhenTorn
  BY <1>6 DEF Build
<1>7. ASSUME NEW b \in Builders, Verify(b) PROVE LosesOnlyWhenTorn
  BY <1>7 DEF Verify, Verifies
<1>8. ASSUME NEW b \in Builders, Fail(b) PROVE LosesOnlyWhenTorn
  BY <1>8 DEF Fail, Leave
<1>9. ASSUME NEW b \in Builders, Copy(b) PROVE LosesOnlyWhenTorn
  BY <1>9 DEF Copy, CopiedRows
<1>10. ASSUME NEW b \in Builders, DropBackup(b) PROVE LosesOnlyWhenTorn
  BY <1>10 DEF DropBackup, RemoveBackup
<1>11. ASSUME NEW b \in Builders, Park(b) PROVE LosesOnlyWhenTorn
  BY <1>11 DEF Park
<1>12. ASSUME NEW b \in Builders, Swap(b) PROVE LosesOnlyWhenTorn
  BY <1>12 DEF Swap
<1>13. ASSUME NEW b \in Builders, SwapFails(b) PROVE LosesOnlyWhenTorn
  BY <1>13 DEF SwapFails, Leave, Restore, Tear
<1>14. ASSUME NEW b \in Builders, Clean(b) PROVE LosesOnlyWhenTorn
  BY <1>14 DEF Clean, RemoveBackup, Leave
<1>15. ASSUME NEW b \in Builders, Crash(b) PROVE LosesOnlyWhenTorn
  BY <1>15 DEF Crash, Tear, Leave
<1>16. ASSUME NEW w \in Writers, Open(w) PROVE LosesOnlyWhenTorn
  BY <1>16 DEF Open
<1>17. ASSUME NEW w \in Writers, NEW row \in Rows, Commit(w, row) PROVE LosesOnlyWhenTorn
  BY <1>17 DEF Commit
<1>18. ASSUME NEW w \in Writers, Close(w) PROVE LosesOnlyWhenTorn
  BY <1>18 DEF Close
<1>19. CASE UNCHANGED vars
  BY <1>19 DEF vars
<1>20. QED
  BY <1>1, <1>2, <1>3, <1>4, <1>5, <1>6, <1>7, <1>8, <1>9, <1>10, <1>11, <1>12,
     <1>13, <1>14, <1>15, <1>16, <1>17, <1>18, <1>19 DEF Next

\* The graph published last loses its last name only when a publish after a torn swap
\* removes so.db.previous or renames so.db over it.
THEOREM LossNeedsTornSwap == Spec => OnlyPublishAfterTornSwapLoses
  BY Invariance, NextLoses, PTL DEF Spec, OnlyPublishAfterTornSwapLoses, LosesOnlyWhenTorn

-----------------------------------------------------------------------------
(* The register. *)

\* The empty repository is the empty register.
LEMMA InitRegister == Init => Register!Init
  BY DEF Init, Register!Init, LiveGraph

RegisterStep == Register!Next \/ UNCHANGED Register!vars

\* Every step of publish.go or of a writer is a step of the register or a stutter.
LEMMA NextRegister == PublishInv /\ PublishInv' /\ [Next]_vars => RegisterStep
<1> SUFFICES ASSUME PublishInv, PublishInv', [Next]_vars
             PROVE  RegisterStep
  OBVIOUS
<1> USE PublishAssumption DEF PublishInv, TypeOK, Inodes, MaybeInode, File, Held, Goto, gvars,
    StageInv, Owned, Exclusive, Created, Private, Blank, Staging,
    LiveInv, LiveIsLatest, Parked, Cleaning, InSwap,
    GenInv, Older, Published, Window, LiveGraph,
    Register!Next, Register!Publish, Register!Tear, Register!Lose, Register!vars
<1>1. ASSUME NEW b \in Builders, NEW n \in BOOLEAN, Begin(b, n) PROVE RegisterStep
  BY <1>1 DEF Begin, RegisterStep
<1>2. ASSUME NEW b \in Builders, TakeLock(b) PROVE RegisterStep
  BY <1>2 DEF TakeLock, LockFree, RegisterStep
<1>3. ASSUME NEW b \in Builders, LockBusy(b) PROVE RegisterStep
  BY <1>3 DEF LockBusy, RegisterStep
<1>4. ASSUME NEW b \in Builders, GetSlot(b) PROVE RegisterStep
  BY <1>4 DEF GetSlot, RegisterStep
<1>5. ASSUME NEW b \in Builders, PoolFull(b) PROVE RegisterStep
  BY <1>5 DEF PoolFull, Leave, RegisterStep
<1>6. ASSUME NEW b \in Builders, NEW good \in BOOLEAN, Build(b, good) PROVE RegisterStep
  BY <1>6 DEF Build, RegisterStep
<1>7. ASSUME NEW b \in Builders, Verify(b) PROVE RegisterStep
  BY <1>7 DEF Verify, Verifies, RegisterStep
<1>8. ASSUME NEW b \in Builders, Fail(b) PROVE RegisterStep
  BY <1>8 DEF Fail, Leave, RegisterStep
<1>9. ASSUME NEW b \in Builders, Copy(b) PROVE RegisterStep
  BY <1>9 DEF Copy, CopiedRows, RegisterStep
<1>10. ASSUME NEW b \in Builders, DropBackup(b) PROVE RegisterStep
  BY <1>10 DEF DropBackup, RemoveBackup, RegisterStep
<1>11. ASSUME NEW b \in Builders, Park(b) PROVE RegisterStep
  BY <1>11 DEF Park, RegisterStep
<1>12. ASSUME NEW b \in Builders, Swap(b) PROVE RegisterStep
  BY <1>12 DEF Swap, RegisterStep
<1>13. ASSUME NEW b \in Builders, SwapFails(b) PROVE RegisterStep
  BY <1>13 DEF SwapFails, Leave, Restore, Tear, RegisterStep
<1>14. ASSUME NEW b \in Builders, Clean(b) PROVE RegisterStep
  BY <1>14 DEF Clean, RemoveBackup, Leave, RegisterStep
<1>15. ASSUME NEW b \in Builders, Crash(b) PROVE RegisterStep
  BY <1>15 DEF Crash, Tear, Leave, RegisterStep
<1>16. ASSUME NEW w \in Writers, Open(w) PROVE RegisterStep
  BY <1>16 DEF Open, RegisterStep
<1>17. ASSUME NEW w \in Writers, NEW row \in Rows, Commit(w, row) PROVE RegisterStep
  BY <1>17 DEF Commit, RegisterStep
<1>18. ASSUME NEW w \in Writers, Close(w) PROVE RegisterStep
  BY <1>18 DEF Close, RegisterStep
<1>19. CASE UNCHANGED vars
  BY <1>19 DEF vars, RegisterStep
<1>20. QED
  BY <1>1, <1>2, <1>3, <1>4, <1>5, <1>6, <1>7, <1>8, <1>9, <1>10, <1>11, <1>12,
     <1>13, <1>14, <1>15, <1>16, <1>17, <1>18, <1>19 DEF Next

\* publish.go implements the register: its generation only moves forward, and
\* is lost only in consequence of a torn swap.
THEOREM PublishIsRegister == Spec => ImplementsRegister
  BY Invariance, InitRegister, NextRegister, PTL
     DEF Spec, ImplementsRegister, Register!Spec, RegisterStep

=============================================================================
