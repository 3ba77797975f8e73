--------------------------- MODULE Distill_proofs ---------------------------
(***************************************************************************)
(* Proofs about Distill, for any number of processes, sessions and faults. *)
(***************************************************************************)
EXTENDS Distill, TLAPS

-----------------------------------------------------------------------------
(* Types: the updates of a branch are one of a few lists, or what is left   *)
(* of one.                                                                  *)

Clearing == {<<ClearPending>>, <<ClearPending, ClearFail>>}
Marking == {<<MarkDistilled, ClearPending>>, <<ClearFail, MarkDistilled, ClearPending>>,
            <<MarkDistilled, ClearPending, ClearFail>>}
Unmarking == {<<UnmarkDistilled, ClearPending>>}
Queueing == {<<MarkPending>>, <<BumpFail, MarkPending>>}
Lists == Clearing \cup Marking \cup Unmarking \cup Queueing \cup {<<ClearFail>>}

RowsRead == [ids : SUBSET Chats, fails : Nat]

DistillTyped ==
    /\ dpc \in [Distillers -> DistillSteps]
    /\ chat \in [Distillers -> Chats \cup {None}]
    /\ after \in [Distillers -> {"idle", "begin", "check"}]
    /\ role \in [Distillers -> {"ended", "resumed", "other"}]
    /\ todo \in [Distillers -> Lists \cup {<<>>}]
    /\ copy \in [Distillers -> RowsRead \cup {None}]
    /\ pending \subseteq Chats /\ distilled \subseteq Chats
    /\ failed \in [Chats -> Nat] /\ called \in [Chats -> Nat]
    /\ dlock \in Distillers \cup {None}
    /\ queued \subseteq Chats /\ doubled \subseteq Chats /\ mixed \subseteq doubled
    /\ requeued \subseteq Chats /\ outdated \subseteq Distillers
    /\ unmarked \subseteq Distillers /\ dropped \subseteq Chats
    /\ lostUpdate \in BOOLEAN
    /\ dkills \in Nat
    /\ \A p \in Distillers :
          /\ dpc[p] = "idle" <=> chat[p] = None
          /\ dpc[p] = "idle" => role[p] = "other"
          /\ dpc[p] = "do" <=> todo[p] # <<>>
          /\ dpc[p] # "do" => copy[p] = None
          /\ todo[p] \in Unmarking => role[p] = "resumed"

\* The lists are sequences of updates, and what an update leaves of one is one.
LEMMA ListFacts ==
    /\ Lists \subseteq Seq(Updates) /\ <<>> \in Seq(Updates) /\ <<>> \notin Lists
    /\ \A l \in Lists : /\ Head(l) \in Updates
                        /\ Tail(l) \in Lists \cup {<<>>}
                        /\ Len(l) > 1 <=> Tail(l) # <<>>
                        /\ Tail(l) \notin Unmarking
    /\ \A l \in Lists : Head(l) = UnmarkDistilled => l \in Unmarking /\ Tail(l) = <<ClearPending>>
    /\ \A l \in Lists : Head(l) = MarkDistilled => l \in Marking /\ Tail(l) \in Clearing
    /\ \A l \in Lists : Head(l) = ClearPending => l \in Clearing /\ Tail(l) \in {<<>>, <<ClearFail>>}
    /\ \A l \in Lists : Head(l) = MarkPending => l = <<MarkPending>> /\ Tail(l) = <<>>
    /\ \A l \in Lists : Head(l) = BumpFail => l = <<BumpFail, MarkPending>> /\ Tail(l) = <<MarkPending>>
    /\ \A l \in Lists : Head(l) = ClearFail =>
          \/ l = <<ClearFail>> /\ Tail(l) = <<>>
          \/ l = <<ClearFail, MarkDistilled, ClearPending>> /\ Tail(l) = <<MarkDistilled, ClearPending>>
<1>1. /\ MarkPending \notin {ClearPending, MarkDistilled, UnmarkDistilled, BumpFail, ClearFail}
      /\ ClearPending \notin {MarkDistilled, UnmarkDistilled, BumpFail, ClearFail}
      /\ MarkDistilled \notin {UnmarkDistilled, BumpFail, ClearFail}
      /\ UnmarkDistilled \notin {BumpFail, ClearFail} /\ BumpFail # ClearFail
  BY DEF MarkPending, ClearPending, MarkDistilled, UnmarkDistilled, BumpFail, ClearFail
<1>2. {MarkPending, ClearPending, MarkDistilled, UnmarkDistilled, BumpFail, ClearFail} = Updates
  BY DEF Updates
<1> USE DEF Lists, Clearing, Marking, Unmarking, Queueing
<1>3. Lists \subseteq Seq(Updates) /\ <<>> \in Seq(Updates)
  BY <1>2
<1>4. <<>> \notin Lists
  OBVIOUS
<1> DEFINE Fact(l) ==
      /\ Head(l) \in Updates /\ Tail(l) \in Lists \cup {<<>>}
      /\ Len(l) > 1 <=> Tail(l) # <<>>
      /\ Tail(l) \notin Unmarking
      /\ Head(l) = UnmarkDistilled => l \in Unmarking /\ Tail(l) = <<ClearPending>>
      /\ Head(l) = MarkDistilled => l \in Marking /\ Tail(l) \in Clearing
      /\ Head(l) = ClearPending => l \in Clearing /\ Tail(l) \in {<<>>, <<ClearFail>>}
      /\ Head(l) = MarkPending => l = <<MarkPending>> /\ Tail(l) = <<>>
      /\ Head(l) = BumpFail => l = <<BumpFail, MarkPending>> /\ Tail(l) = <<MarkPending>>
      /\ Head(l) = ClearFail =>
           \/ l = <<ClearFail>> /\ Tail(l) = <<>>
           \/ l = <<ClearFail, MarkDistilled, ClearPending>> /\ Tail(l) = <<MarkDistilled, ClearPending>>
<1>5. Fact(<<ClearPending>>)
  <2>1. /\ Head(<<ClearPending>>) = ClearPending
        /\ Tail(<<ClearPending>>) = <<>>
        /\ Len(<<ClearPending>>) = 1
    OBVIOUS
  <2>2. QED
    BY <1>1, <1>2, <2>1
<1>6. Fact(<<ClearPending, ClearFail>>)
  <2>1. /\ Head(<<ClearPending, ClearFail>>) = ClearPending
        /\ Tail(<<ClearPending, ClearFail>>) = <<ClearFail>>
        /\ Len(<<ClearPending, ClearFail>>) = 2
    OBVIOUS
  <2>2. QED
    BY <1>1, <1>2, <2>1
<1>7. Fact(<<MarkDistilled, ClearPending>>)
  <2>1. /\ Head(<<MarkDistilled, ClearPending>>) = MarkDistilled
        /\ Tail(<<MarkDistilled, ClearPending>>) = <<ClearPending>>
        /\ Len(<<MarkDistilled, ClearPending>>) = 2
    OBVIOUS
  <2>2. QED
    BY <1>1, <1>2, <2>1
<1>8. Fact(<<ClearFail, MarkDistilled, ClearPending>>)
  <2>1. /\ Head(<<ClearFail, MarkDistilled, ClearPending>>) = ClearFail
        /\ Tail(<<ClearFail, MarkDistilled, ClearPending>>) = <<MarkDistilled, ClearPending>>
        /\ Len(<<ClearFail, MarkDistilled, ClearPending>>) = 3
    OBVIOUS
  <2>2. QED
    BY <1>1, <1>2, <2>1
<1>9. Fact(<<MarkDistilled, ClearPending, ClearFail>>)
  <2>1. /\ Head(<<MarkDistilled, ClearPending, ClearFail>>) = MarkDistilled
        /\ Tail(<<MarkDistilled, ClearPending, ClearFail>>) = <<ClearPending, ClearFail>>
        /\ Len(<<MarkDistilled, ClearPending, ClearFail>>) = 3
    OBVIOUS
  <2>2. QED
    BY <1>1, <1>2, <2>1
<1>10. Fact(<<UnmarkDistilled, ClearPending>>)
  <2>1. /\ Head(<<UnmarkDistilled, ClearPending>>) = UnmarkDistilled
        /\ Tail(<<UnmarkDistilled, ClearPending>>) = <<ClearPending>>
        /\ Len(<<UnmarkDistilled, ClearPending>>) = 2
    OBVIOUS
  <2>2. QED
    BY <1>1, <1>2, <2>1
<1>11. Fact(<<MarkPending>>)
  <2>1. /\ Head(<<MarkPending>>) = MarkPending
        /\ Tail(<<MarkPending>>) = <<>>
        /\ Len(<<MarkPending>>) = 1
    OBVIOUS
  <2>2. QED
    BY <1>1, <1>2, <2>1
<1>12. Fact(<<BumpFail, MarkPending>>)
  <2>1. /\ Head(<<BumpFail, MarkPending>>) = BumpFail
        /\ Tail(<<BumpFail, MarkPending>>) = <<MarkPending>>
        /\ Len(<<BumpFail, MarkPending>>) = 2
    OBVIOUS
  <2>2. QED
    BY <1>1, <1>2, <2>1
<1>13. Fact(<<ClearFail>>)
  <2>1. Head(<<ClearFail>>) = ClearFail /\ Tail(<<ClearFail>>) = <<>> /\ Len(<<ClearFail>>) = 1
    OBVIOUS
  <2>2. QED
    BY <1>1, <1>2, <2>1
<1> HIDE DEF Fact
<1>14. \A l \in Lists : Fact(l)
  BY ONLY <1>5, <1>6, <1>7, <1>8, <1>9, <1>10, <1>11, <1>12, <1>13 DEF Lists, Clearing, Marking, Unmarking, Queueing
<1>15. QED
  BY ONLY <1>3, <1>4, <1>14 DEF Fact

\* The types are those of the model.
LEMMA TypedDistill == DistillTyped => DistillTypeOK
  BY ListFacts DEF DistillTyped, DistillTypeOK

-----------------------------------------------------------------------------
(* What an update does.                                                     *)

\* The rows after an update, with op the head of the list.
RowsAfter(p, s) ==
    /\ pending' = CASE Head(todo[p]) = MarkPending -> copy[p].ids \cup {s}
                    [] Head(todo[p]) = ClearPending -> copy[p].ids \ {s}
                    [] OTHER -> pending
    /\ distilled' = CASE Head(todo[p]) = MarkDistilled -> copy[p].ids \cup {s}
                      [] Head(todo[p]) = UnmarkDistilled -> copy[p].ids \ {s}
                      [] OTHER -> distilled
    /\ failed' = CASE Head(todo[p]) = BumpFail -> [failed EXCEPT ![s] = copy[p].fails + 1]
                   [] Head(todo[p]) = ClearFail -> [failed EXCEPT ![s] = 0]
                   [] OTHER -> failed
    /\ called' = IF Head(todo[p]) = ClearFail \/ (Head(todo[p]) = BumpFail /\ copy[p].fails + 1 < failed[s])
                 THEN [called EXCEPT ![s] = 0] ELSE called
    /\ queued' = IF Head(todo[p]) = MarkPending THEN queued \cup {s} ELSE queued

\* The process after an update.
FrameAfter(p) ==
    /\ todo' = [todo EXCEPT ![p] = Tail(todo[p])]
    /\ copy' = [copy EXCEPT ![p] = None]
    /\ \A q \in Distillers \ {p} : /\ dpc'[q] = dpc[q] /\ chat'[q] = chat[q]
                                   /\ role'[q] = role[q] /\ after'[q] = after[q]
    /\ \/ /\ Tail(todo[p]) # <<>>
          /\ UNCHANGED <<dpc, chat, role, after, dlock>>
       \/ /\ Tail(todo[p]) = <<>> /\ dpc'[p] \in {"begin", "check"}
          /\ UNCHANGED <<chat, role, dlock>>
       \/ /\ Tail(todo[p]) = <<>> /\ dpc'[p] = "idle" /\ chat'[p] = None /\ role'[p] = "other"
          /\ dlock' = IF dlock = p THEN None ELSE dlock

\* On to the next update, or out of the branch.
LEMMA FrameFacts ==
  ASSUME DistillTyped, NEW p \in Distillers, dpc[p] = "do", NextUpdate(p)
  PROVE  /\ todo[p] \in Lists /\ chat[p] \in Chats /\ FrameAfter(p)
         /\ dpc' \in [Distillers -> DistillSteps] /\ chat' \in [Distillers -> Chats \cup {None}]
         /\ role' \in [Distillers -> {"ended", "resumed", "other"}]
         /\ after' \in [Distillers -> {"idle", "begin", "check"}]
<1> USE DEF DistillTyped
<1>1. todo[p] \in Lists /\ chat[p] \in Chats
  OBVIOUS
<1>2. CASE Len(todo[p]) > 1
  <2>1. Tail(todo[p]) # <<>>
    BY <1>1, <1>2, ListFacts
  <2>2. /\ todo' = [todo EXCEPT ![p] = Tail(todo[p])] /\ copy' = [copy EXCEPT ![p] = None]
        /\ UNCHANGED <<dpc, chat, after, role, dlock>>
    BY <1>2 DEF NextUpdate
  <2>3. QED
    BY <1>1, <2>1, <2>2 DEF FrameAfter
<1>3. CASE ~(Len(todo[p]) > 1) /\ after[p] = "idle"
  <2>1. Tail(todo[p]) = <<>>
    BY <1>1, <1>3, ListFacts
  <2>2. Leave(p)
    BY <1>3 DEF NextUpdate
  <2>3. QED
    BY <1>1, <2>1, <2>2 DEF FrameAfter, Leave, DistillGoto, DistillSteps
<1>4. CASE ~(Len(todo[p]) > 1) /\ after[p] # "idle"
  <2>1. Tail(todo[p]) = <<>>
    BY <1>1, <1>4, ListFacts
  <2>2. /\ DistillGoto(p, after[p]) /\ after[p] \in {"begin", "check"}
        /\ after' = [after EXCEPT ![p] = IF @ = "begin" THEN "check" ELSE "idle"]
        /\ todo' = [todo EXCEPT ![p] = <<>>] /\ copy' = [copy EXCEPT ![p] = None]
        /\ UNCHANGED <<chat, role, dlock>>
    BY <1>4 DEF NextUpdate
  <2>3. QED
    BY <1>1, <2>1, <2>2 DEF FrameAfter, DistillGoto, DistillSteps
<1>5. QED
  BY ONLY <1>2, <1>3, <1>4

\* WriteRow, the update taken as one of the six.
LEMMA WriteFacts ==
  ASSUME DistillTyped, NEW p \in Distillers, WriteRow(p)
  PROVE  /\ todo[p] \in Lists /\ chat[p] \in Chats /\ copy[p] \in RowsRead /\ dpc[p] = "do"
         /\ RowsAfter(p, chat[p]) /\ FrameAfter(p)
         /\ dpc' \in [Distillers -> DistillSteps] /\ chat' \in [Distillers -> Chats \cup {None}]
         /\ role' \in [Distillers -> {"ended", "resumed", "other"}]
         /\ after' \in [Distillers -> {"idle", "begin", "check"}]
         /\ outdated' = (outdated \cup {q \in Distillers \ {p} :
                /\ copy[q] # None /\ Head(todo[q])[1] = Head(todo[p])[1]
                /\ Head(todo[p])[1] = "failed" => chat[q] = chat[p]}) \ {p}
         /\ lostUpdate' = (lostUpdate \/ (p \in outdated /\ Head(todo[p])[1] # "failed"))
         /\ dropped' = CASE Head(todo[p]) = ClearPending /\ p \in unmarked -> dropped \cup {chat[p]}
                         [] Head(todo[p]) \in {MarkPending, MarkDistilled} -> dropped \ {chat[p]}
                         [] OTHER -> dropped
         /\ unmarked \ {p} \subseteq unmarked' /\ unmarked' \subseteq unmarked
         /\ UNCHANGED <<doubled, mixed, requeued, dstarts, dkills>>
<1> USE DEF DistillTyped
<1>1. todo[p] \in Lists /\ chat[p] \in Chats /\ copy[p] \in RowsRead /\ dpc[p] = "do"
  BY DEF WriteRow
<1>2. RowsAfter(p, chat[p])
  <2>1. PICK up \in Updates : up = Head(todo[p])
    BY <1>1, ListFacts
  <2>2. /\ pending' = IF up[1] = "pending" THEN Updated(copy[p], up[2], chat[p]).ids ELSE pending
        /\ distilled' = IF up[1] = "distilled" THEN Updated(copy[p], up[2], chat[p]).ids ELSE distilled
        /\ failed' = IF up[1] = "failed"
                     THEN [failed EXCEPT ![chat[p]] = Updated(copy[p], up[2], chat[p]).fails] ELSE failed
        /\ called' = IF up = ClearFail \/ (up = BumpFail /\ Updated(copy[p], up[2], chat[p]).fails < failed[chat[p]])
                     THEN [called EXCEPT ![chat[p]] = 0] ELSE called
        /\ queued' = IF up = MarkPending THEN queued \cup {chat[p]} ELSE queued
    BY <2>1 DEF WriteRow
  <2>d. /\ MarkPending[1] = "pending" /\ MarkPending[2] = "add"
        /\ ClearPending[1] = "pending" /\ ClearPending[2] = "remove"
        /\ MarkDistilled[1] = "distilled" /\ MarkDistilled[2] = "add"
        /\ UnmarkDistilled[1] = "distilled" /\ UnmarkDistilled[2] = "remove"
        /\ BumpFail[1] = "failed" /\ BumpFail[2] = "bump"
        /\ ClearFail[1] = "failed" /\ ClearFail[2] = "reset"
    BY DEF MarkPending, ClearPending, MarkDistilled, UnmarkDistilled, BumpFail, ClearFail
  <2> USE <2>d
  <2>3. CASE up = MarkPending
    BY <2>1, <2>2, <2>3 DEF RowsAfter, Updated
  <2>4. CASE up = ClearPending
    BY <2>1, <2>2, <2>4 DEF RowsAfter, Updated
  <2>5. CASE up = MarkDistilled
    BY <2>1, <2>2, <2>5 DEF RowsAfter, Updated
  <2>6. CASE up = UnmarkDistilled
    BY <2>1, <2>2, <2>6 DEF RowsAfter, Updated
  <2>7. CASE up = BumpFail
    <3>1. Updated(copy[p], up[2], chat[p]).fails = copy[p].fails + 1
      BY <2>7 DEF Updated
    <3>2. failed' = [failed EXCEPT ![chat[p]] = copy[p].fails + 1]
      BY <2>2, <2>7, <3>1
    <3>3. /\ UNCHANGED <<pending, distilled, queued>>
          /\ called' = IF copy[p].fails + 1 < failed[chat[p]] THEN [called EXCEPT ![chat[p]] = 0] ELSE called
          /\ up \notin {MarkPending, ClearPending, MarkDistilled, UnmarkDistilled} /\ BumpFail # ClearFail
      BY <2>2, <2>7, <3>1
    <3>4. QED
      BY ONLY <2>1, <2>7, <3>2, <3>3 DEF RowsAfter
  <2>8. CASE up = ClearFail
    <3>1. Updated(copy[p], up[2], chat[p]).fails = 0
      BY <2>8 DEF Updated
    <3>2. failed' = [failed EXCEPT ![chat[p]] = 0]
      BY <2>2, <2>8, <3>1
    <3>3. /\ UNCHANGED <<pending, distilled, queued>>
          /\ called' = [called EXCEPT ![chat[p]] = 0]
          /\ up \notin {MarkPending, ClearPending, MarkDistilled, UnmarkDistilled} /\ BumpFail # ClearFail
      BY <2>2, <2>8
    <3>4. QED
      BY ONLY <2>1, <2>8, <3>2, <3>3 DEF RowsAfter
  <2>9. QED
    BY ONLY <2>1, <2>3, <2>4, <2>5, <2>6, <2>7, <2>8 DEF Updates
<1>3. NextUpdate(p)
  BY DEF WriteRow
<1>4. UNCHANGED <<doubled, mixed, requeued, dstarts, dkills>>
  BY DEF WriteRow, distillCounts
<1>5. unmarked \ {p} \subseteq unmarked' /\ unmarked' \subseteq unmarked
  BY DEF WriteRow, Leaves
<1>6. QED
  BY <1>1, <1>2, <1>3, <1>4, <1>5, FrameFacts DEF WriteRow

-----------------------------------------------------------------------------
(* The types are inductive.                                                 *)

\* Nobody is at work at first.
LEMMA InitDistillTyped == DistillInit => DistillTyped
<1> SUFFICES ASSUME DistillInit PROVE DistillTyped
  OBVIOUS
<1> USE DistillAssumption DEF DistillInit, DistillTyped
<1>1. dpc \in [Distillers -> DistillSteps] /\ todo \in [Distillers -> Lists \cup {<<>>}]
  BY DEF DistillSteps
<1>2. <<>> \notin Unmarking
  BY DEF Unmarking
<1>3. QED
  BY <1>1, <1>2

\* Every step keeps the types.
LEMMA NextDistillTyped == DistillTyped /\ [DistillNext]_distillVars => DistillTyped'
<1> SUFFICES ASSUME DistillTyped, [DistillNext]_distillVars PROVE DistillTyped'
  OBVIOUS
<1>l. /\ <<>> \notin Lists
      /\ {<<MarkPending>>, <<ClearPending>>, <<MarkDistilled, ClearPending>>, <<BumpFail, MarkPending>>,
          <<ClearFail, MarkDistilled, ClearPending>>, <<MarkDistilled, ClearPending, ClearFail>>}
         \subseteq Lists \ Unmarking
      /\ <<UnmarkDistilled, ClearPending>> \in Lists
      /\ <<>> \notin Unmarking
  BY ListFacts DEF Lists, Clearing, Marking, Unmarking, Queueing, MarkPending, ClearPending, MarkDistilled,
     UnmarkDistilled, BumpFail, ClearFail
<1> USE DistillAssumption, <1>l DEF DistillTyped, DistillGoto, Work, Leave, distillMeta, distillHist, distillCounts, DistillSteps
<1>1. ASSUME NEW p \in Distillers, NEW s \in Chats, EndChat(p, s) PROVE DistillTyped'
  BY <1>1 DEF EndChat, BeginDistill
<1>2. ASSUME NEW p \in Distillers, NEW s \in Chats, ResumeChat(p, s) PROVE DistillTyped'
  BY <1>2 DEF ResumeChat, BeginDistill
<1>3. ASSUME NEW p \in Distillers, NEW s \in Chats, StartDistill(p, s) PROVE DistillTyped'
  BY <1>3 DEF StartDistill, BeginDistill
<1>4. ASSUME NEW p \in Distillers, NEW s \in Chats, ApplyLive(p, s) PROVE DistillTyped'
  BY <1>4 DEF ApplyLive, BeginDistill
<1>5. ASSUME NEW p \in Distillers, ClaimDistilled(p) PROVE DistillTyped'
  <2>1. CASE Leave(p)
    BY <1>5, <2>1 DEF ClaimDistilled
  <2>2. CASE DistillGoto(p, "claim") /\ UNCHANGED <<chat, after, role, todo, copy, dlock>>
    BY <1>5, <2>2 DEF ClaimDistilled
  <2>3. QED
    BY ONLY <1>5, <2>1, <2>2 DEF ClaimDistilled
<1>6. ASSUME NEW p \in Distillers, ClaimChat(p) PROVE DistillTyped'
  <2>1. CASE Leave(p)
    BY <1>6, <2>1 DEF ClaimChat
  <2>2. CASE Work(p, <<MarkPending>>) /\ UNCHANGED <<chat, after, role, copy, dlock>>
    BY <1>6, <2>2 DEF ClaimChat
  <2>3. QED
    BY ONLY <1>6, <2>1, <2>2 DEF ClaimChat
<1>7. ASSUME NEW p \in Distillers, CheckDistilled(p) PROVE DistillTyped'
  <2>1. CASE Work(p, <<MarkPending>>) /\ requeued' = requeued \cup {chat[p]}
    BY <1>7, <2>1 DEF CheckDistilled
  <2>2. CASE Work(p, <<ClearPending>>) /\ UNCHANGED requeued
    BY <1>7, <2>2 DEF CheckDistilled
  <2>3. CASE Work(p, <<MarkDistilled, ClearPending>>) /\ UNCHANGED requeued
    BY <1>7, <2>3 DEF CheckDistilled
  <2>4. CASE DistillGoto(p, "lock") /\ UNCHANGED <<todo, requeued>>
    BY <1>7, <2>4 DEF CheckDistilled
  <2>5. QED
    BY ONLY <1>7, <2>1, <2>2, <2>3, <2>4 DEF CheckDistilled
<1>8. ASSUME NEW p \in Distillers, TryDistillLock(p) PROVE DistillTyped'
  <2>1. CASE dlock' = p /\ DistillGoto(p, "ready") /\ UNCHANGED todo
    BY <1>8, <2>1 DEF TryDistillLock
  <2>2. CASE Work(p, <<MarkPending>>) /\ UNCHANGED dlock
    BY <1>8, <2>2 DEF TryDistillLock
  <2>3. QED
    BY ONLY <1>8, <2>1, <2>2 DEF TryDistillLock
<1>9. ASSUME NEW p \in Distillers, CallProvider(p) PROVE DistillTyped'
  <2>1. CASE Work(p, <<MarkPending>>) /\ UNCHANGED called
    BY <1>9, <2>1 DEF CallProvider
  <2>2. CASE /\ called' = [called EXCEPT ![chat[p]] = @ + 1]
             /\ DistillGoto(p, "run") /\ UNCHANGED todo
    BY <1>9, <2>2 DEF CallProvider
  <2>3. QED
    BY ONLY <1>9, <2>1, <2>2 DEF CallProvider
<1>10. ASSUME NEW p \in Distillers, EndCall(p) PROVE DistillTyped'
  <2>1. CASE Work(p, <<BumpFail, MarkPending>>)
    BY <1>10, <2>1 DEF EndCall
  <2>2. CASE Work(p, <<ClearFail, MarkDistilled, ClearPending>>)
    BY <1>10, <2>2 DEF EndCall
  <2>3. QED
    BY ONLY <1>10, <2>1, <2>2 DEF EndCall
<1>11. ASSUME NEW p \in Distillers, NEW s \in Chats, CaptureChat(p, s) PROVE DistillTyped'
  BY <1>11 DEF CaptureChat, BeginDistill
<1>12. ASSUME NEW p \in Distillers, ReadRow(p) PROVE DistillTyped'
  <2>1. Row(Head(todo[p])[1], chat[p]) \in RowsRead
    BY <1>12 DEF ReadRow, Row, RowsRead
  <2>2. QED
    BY <1>12, <2>1 DEF ReadRow
<1>13. ASSUME NEW p \in Distillers, WriteRow(p) PROVE DistillTyped'
  <2>1. /\ todo[p] \in Lists /\ chat[p] \in Chats /\ copy[p] \in RowsRead /\ dpc[p] = "do"
        /\ RowsAfter(p, chat[p]) /\ FrameAfter(p)
        /\ dpc' \in [Distillers -> DistillSteps] /\ chat' \in [Distillers -> Chats \cup {None}]
        /\ role' \in [Distillers -> {"ended", "resumed", "other"}]
        /\ after' \in [Distillers -> {"idle", "begin", "check"}]
        /\ dropped' = CASE Head(todo[p]) = ClearPending /\ p \in unmarked -> dropped \cup {chat[p]}
                        [] Head(todo[p]) \in {MarkPending, MarkDistilled} -> dropped \ {chat[p]}
                        [] OTHER -> dropped
        /\ UNCHANGED <<doubled, mixed, requeued, dkills>>
    BY ONLY DistillTyped, p \in Distillers, <1>13, WriteFacts
  <2>o. outdated' \subseteq Distillers /\ lostUpdate' \in BOOLEAN
    BY <1>13 DEF WriteRow
  <2>u. unmarked' \subseteq Distillers /\ dropped' \subseteq Chats
    BY <2>1, <1>13 DEF WriteRow, Leaves
  <2>2. pending' \subseteq Chats /\ distilled' \subseteq Chats /\ queued' \subseteq Chats
    BY <2>1 DEF RowsAfter, RowsRead
  <2>3. failed' \in [Chats -> Nat] /\ called' \in [Chats -> Nat]
    BY <2>1 DEF RowsAfter, RowsRead
  <2>4. Tail(todo[p]) \in Lists \cup {<<>>} /\ Tail(todo[p]) \notin Unmarking
    BY <2>1, ListFacts
  <2>5. todo' \in [Distillers -> Lists \cup {<<>>}] /\ copy' \in [Distillers -> RowsRead \cup {None}]
    BY <2>1, <2>4 DEF FrameAfter
  <2>6. ASSUME NEW q \in Distillers
        PROVE  /\ dpc'[q] = "idle" <=> chat'[q] = None
               /\ dpc'[q] = "idle" => role'[q] = "other"
               /\ dpc'[q] = "do" <=> todo'[q] # <<>>
               /\ dpc'[q] # "do" => copy'[q] = None
               /\ todo'[q] \in Unmarking => role'[q] = "resumed"
    BY <2>1, <2>4, <2>6 DEF FrameAfter
  <2>7. dlock' \in Distillers \cup {None}
    BY <2>1 DEF FrameAfter
  <2>8. QED
    BY ONLY DistillTyped, <2>1, <2>2, <2>3, <2>5, <2>6, <2>7, <2>o, <2>u DEF DistillTyped
<1>14. ASSUME NEW p \in Distillers, ReadFails(p) PROVE DistillTyped'
  <2>1. /\ dkills' = dkills + 1
        /\ UNCHANGED <<chat, after, role, pending, distilled, failed, dlock, queued, lostUpdate, unmarked,
                       dropped, doubled, mixed, requeued>>
    BY <1>14 DEF ReadFails, Fault
  <2>2. CASE dpc[p] = "begin" /\ DistillGoto(p, "claim") /\ UNCHANGED <<todo, copy, called, outdated>>
    BY <2>1, <2>2
  <2>3. CASE dpc[p] = "claim" /\ Work(p, <<MarkPending>>) /\ UNCHANGED <<copy, called, outdated>>
    <3>1. todo' = [todo EXCEPT ![p] = <<MarkPending>>] /\ dpc' = [dpc EXCEPT ![p] = "do"]
      BY ONLY <2>3 DEF Work, DistillGoto
    <3>2. <<MarkPending>> \in Lists /\ <<MarkPending>> \notin Unmarking /\ <<MarkPending>> # <<>>
      BY <1>l
    <3>3. /\ todo' \in [Distillers -> Lists \cup {<<>>}] /\ dpc' \in [Distillers -> DistillSteps]
          /\ \A q \in Distillers :
                /\ dpc'[q] = "idle" <=> chat[q] = None
                /\ dpc'[q] = "idle" => role[q] = "other"
                /\ dpc'[q] = "do" <=> todo'[q] # <<>>
                /\ dpc'[q] # "do" => copy[q] = None
                /\ todo'[q] \in Unmarking => role[q] = "resumed"
      BY ONLY DistillTyped, p \in Distillers, <2>3, <3>1, <3>2 DEF DistillTyped, DistillSteps
    <3>4. dkills' \in Nat
      BY <2>1
    <3>5. QED
      BY ONLY DistillTyped, <2>1, <2>3, <3>3, <3>4 DEF DistillTyped
  <2>4. CASE dpc[p] = "check" /\ DistillGoto(p, "lock") /\ UNCHANGED <<todo, copy, called, outdated>>
    BY <2>1, <2>4
  <2>5. CASE /\ dpc[p] = "ready" /\ DistillGoto(p, "run")
             /\ called' = [called EXCEPT ![chat[p]] = @ + 1] /\ UNCHANGED <<todo, copy, outdated>>
    BY <2>1, <2>5
  <2>6. CASE /\ dpc[p] = "do" /\ copy' = [copy EXCEPT ![p] = [ids |-> {}, fails |-> 0]]
             /\ outdated' = outdated \cup {p} /\ UNCHANGED <<dpc, todo, called>>
    <3>1. [ids |-> {}, fails |-> 0] \in RowsRead
      BY DEF RowsRead
    <3>2. QED
      BY <2>1, <2>6, <3>1
  <2>7. QED
    BY ONLY <1>14, <2>2, <2>3, <2>4, <2>5, <2>6 DEF ReadFails
<1>15. ASSUME NEW p \in Distillers, WriteFails(p) PROVE DistillTyped'
  <2>1. /\ dpc[p] = "do" /\ todo[p] \in Lists /\ chat[p] \in Chats /\ FrameAfter(p) /\ dkills' = dkills + 1
        /\ dpc' \in [Distillers -> DistillSteps] /\ chat' \in [Distillers -> Chats \cup {None}]
        /\ role' \in [Distillers -> {"ended", "resumed", "other"}]
        /\ after' \in [Distillers -> {"idle", "begin", "check"}]
        /\ UNCHANGED <<pending, distilled, failed, queued, called, lostUpdate, dropped, doubled, mixed, requeued>>
        /\ outdated' = outdated \ {p}
    <3>1. dpc[p] = "do" /\ NextUpdate(p)
      BY ONLY <1>15 DEF WriteFails
    <3>2. QED
      BY ONLY <3>1, <1>15, DistillTyped, p \in Distillers, FrameFacts DEF WriteFails, Fault, distillMeta
  <2>2. Tail(todo[p]) \in Lists \cup {<<>>} /\ Tail(todo[p]) \notin Unmarking
    BY <2>1, ListFacts
  <2>3. todo' \in [Distillers -> Lists \cup {<<>>}] /\ copy' \in [Distillers -> RowsRead \cup {None}]
    BY <2>1, <2>2 DEF FrameAfter
  <2>4. ASSUME NEW q \in Distillers
        PROVE  /\ dpc'[q] = "idle" <=> chat'[q] = None
               /\ dpc'[q] = "idle" => role'[q] = "other"
               /\ dpc'[q] = "do" <=> todo'[q] # <<>>
               /\ dpc'[q] # "do" => copy'[q] = None
               /\ todo'[q] \in Unmarking => role'[q] = "resumed"
    BY <2>1, <2>2, <2>4 DEF FrameAfter
  <2>5. dlock' \in Distillers \cup {None}
    BY <2>1 DEF FrameAfter
  <2>6. outdated' \subseteq Distillers /\ unmarked' \subseteq Distillers /\ dkills' \in Nat
    BY <2>1, <1>15 DEF WriteFails
  <2>7. QED
    BY ONLY DistillTyped, <2>1, <2>3, <2>4, <2>5, <2>6 DEF DistillTyped
<1>16. ASSUME NEW p \in Distillers, KillDistiller(p) PROVE DistillTyped'
  BY <1>16 DEF KillDistiller, Fault
<1>17. CASE UNCHANGED distillVars
  BY <1>17 DEF distillVars, distillFrame, distillMeta, distillHist, distillCounts
<1>18. QED
  BY <1>1, <1>2, <1>3, <1>4, <1>5, <1>6, <1>7, <1>8, <1>9, <1>10, <1>11, <1>12, <1>13,
     <1>14, <1>15, <1>16, <1>17 DEF DistillNext

\* Every variable of the queue keeps its type.
THEOREM DistillTyping == DistillSpec => []DistillTypeOK
  BY TypedDistill, InitDistillTyped, NextDistillTyped, PTL DEF DistillSpec

-----------------------------------------------------------------------------
(* What a process has read is the row as it is, unless the row was written  *)
(* since; and two processes at one session are on record.                   *)

Together == \A p, q \in Distillers : p # q /\ chat[p] = chat[q] /\ chat[p] # None =>
    /\ chat[p] \in doubled
    /\ role[p] = "resumed" => chat[p] \in mixed
FreshCopies == \A p \in Distillers \ outdated : copy[p] # None =>
    /\ Head(todo[p])[1] = "pending" => copy[p].ids = pending
    /\ Head(todo[p])[1] = "distilled" => copy[p].ids = distilled

\* The row that an update is of.
LEMMA Keys ==
    /\ \A u \in Updates : /\ u[1] = "pending" <=> u \in {MarkPending, ClearPending}
                          /\ u[1] = "distilled" <=> u \in {MarkDistilled, UnmarkDistilled}
                          /\ u[1] = "failed" <=> u \in {BumpFail, ClearFail}
    /\ {MarkPending, ClearPending, MarkDistilled, UnmarkDistilled, BumpFail, ClearFail} = Updates
    /\ MarkPending \notin {ClearPending, MarkDistilled, UnmarkDistilled, BumpFail, ClearFail}
    /\ ClearPending \notin {MarkDistilled, UnmarkDistilled, BumpFail, ClearFail}
    /\ MarkDistilled \notin {UnmarkDistilled, BumpFail, ClearFail}
    /\ UnmarkDistilled \notin {BumpFail, ClearFail} /\ BumpFail # ClearFail
  BY DEF Updates, MarkPending, ClearPending, MarkDistilled, UnmarkDistilled, BumpFail, ClearFail

\* The branches of the code, by kind.
LEMMA Branches ==
    /\ <<MarkPending>> \in Queueing /\ <<BumpFail, MarkPending>> \in Queueing
    /\ <<ClearPending>> \in Clearing /\ <<UnmarkDistilled, ClearPending>> \in Unmarking
    /\ <<MarkDistilled, ClearPending>> \in Marking
    /\ <<ClearFail, MarkDistilled, ClearPending>> \in Marking
    /\ <<MarkDistilled, ClearPending, ClearFail>> \in Marking
    /\ Clearing \cap (Marking \cup Unmarking \cup Queueing) = {}
    /\ Marking \cap (Unmarking \cup Queueing) = {} /\ Unmarking \cap Queueing = {}
    /\ <<>> \notin Lists /\ Clearing \cup Marking \cup Unmarking \cup Queueing \subseteq Lists
    /\ <<ClearFail>> \notin Clearing \cup Marking \cup Unmarking \cup Queueing
    /\ \A l \in Queueing : l # <<MarkPending>> => l = <<BumpFail, MarkPending>>
  BY Keys, ListFacts DEF Lists, Clearing, Marking, Unmarking, Queueing, Updates

\* Nobody is at work at first.
LEMMA InitTogether == DistillInit => Together /\ FreshCopies
  BY DEF DistillInit, Together, FreshCopies

\* Who begins at a session where another is puts it on record.
LEMMA NextTogether == DistillTyped /\ Together /\ [DistillNext]_distillVars => Together'
<1> SUFFICES ASSUME DistillTyped, Together, [DistillNext]_distillVars PROVE Together'
  OBVIOUS
<1>t. /\ chat \in [Distillers -> Chats \cup {None}]
      /\ role \in [Distillers -> {"ended", "resumed", "other"}]
      /\ None \notin Chats
  BY DistillAssumption DEF DistillTyped
<1> USE <1>t DEF Together, DistillGoto, Work, Leave, distillMeta, distillHist, distillCounts
<1>1. ASSUME NEW p \in Distillers, NEW s \in Chats, EndChat(p, s) PROVE Together'
  BY <1>1 DEF EndChat, BeginDistill
<1>2. ASSUME NEW p \in Distillers, NEW s \in Chats, ResumeChat(p, s) PROVE Together'
  BY <1>2 DEF ResumeChat, BeginDistill
<1>3. ASSUME NEW p \in Distillers, NEW s \in Chats, StartDistill(p, s) PROVE Together'
  BY <1>3 DEF StartDistill, BeginDistill
<1>4. ASSUME NEW p \in Distillers, NEW s \in Chats, ApplyLive(p, s) PROVE Together'
  BY <1>4 DEF ApplyLive, BeginDistill
<1>5. ASSUME NEW p \in Distillers, ClaimDistilled(p) PROVE Together'
  <2>1. CASE Leave(p)
    BY <1>5, <2>1 DEF ClaimDistilled
  <2>2. CASE DistillGoto(p, "claim") /\ UNCHANGED <<chat, after, role, todo, copy, dlock>>
    BY <1>5, <2>2 DEF ClaimDistilled
  <2>3. QED
    BY ONLY <1>5, <2>1, <2>2 DEF ClaimDistilled
<1>6. ASSUME NEW p \in Distillers, ClaimChat(p) PROVE Together'
  <2>1. CASE Leave(p)
    BY <1>6, <2>1 DEF ClaimChat
  <2>2. CASE Work(p, <<MarkPending>>) /\ UNCHANGED <<chat, after, role, copy, dlock>>
    BY <1>6, <2>2 DEF ClaimChat
  <2>3. QED
    BY ONLY <1>6, <2>1, <2>2 DEF ClaimChat
<1>7. ASSUME NEW p \in Distillers, CheckDistilled(p) PROVE Together'
  BY <1>7 DEF CheckDistilled
<1>8. ASSUME NEW p \in Distillers, TryDistillLock(p) PROVE Together'
  BY <1>8 DEF TryDistillLock
<1>9. ASSUME NEW p \in Distillers, CallProvider(p) PROVE Together'
  BY <1>9 DEF CallProvider
<1>10. ASSUME NEW p \in Distillers, EndCall(p) PROVE Together'
  BY <1>10 DEF EndCall
<1>11. ASSUME NEW p \in Distillers, NEW s \in Chats, CaptureChat(p, s) PROVE Together'
  BY <1>11 DEF CaptureChat, BeginDistill
<1>12. ASSUME NEW p \in Distillers, ReadRow(p) PROVE Together'
  BY <1>12 DEF ReadRow
<1>13. ASSUME NEW p \in Distillers, WriteRow(p) PROVE Together'
  <2>1. /\ todo[p] \in Lists /\ chat[p] \in Chats /\ dpc[p] = "do" /\ copy[p] # None /\ copy[p] \in RowsRead
        /\ RowsAfter(p, chat[p]) /\ FrameAfter(p)
        /\ outdated' = (outdated \cup {q \in Distillers \ {p} :
                /\ copy[q] # None /\ Head(todo[q])[1] = Head(todo[p])[1]
                /\ Head(todo[p])[1] = "failed" => chat[q] = chat[p]}) \ {p}
        /\ lostUpdate' = (lostUpdate \/ (p \in outdated /\ Head(todo[p])[1] # "failed"))
        /\ UNCHANGED <<doubled, mixed, requeued, dkills>>
    BY <1>13, WriteFacts DEF WriteRow
  <2>2. QED
    BY <2>1 DEF FrameAfter
<1>14. ASSUME NEW p \in Distillers, ReadFails(p) PROVE Together'
  BY <1>14 DEF ReadFails, Fault
<1>15. ASSUME NEW p \in Distillers, WriteFails(p) PROVE Together'
  <2>1. /\ dpc[p] = "do" /\ todo[p] \in Lists /\ chat[p] \in Chats /\ FrameAfter(p) /\ dkills' = dkills + 1
        /\ UNCHANGED <<pending, distilled, failed, queued, called, lostUpdate, dropped, doubled, mixed, requeued>>
        /\ outdated' = outdated \ {p}
    BY <1>15, FrameFacts DEF WriteFails, Fault, distillMeta
  <2>2. QED
    BY <2>1 DEF FrameAfter
<1>16. ASSUME NEW p \in Distillers, KillDistiller(p) PROVE Together'
  BY <1>16 DEF KillDistiller, Fault
<1>17. CASE UNCHANGED distillVars
  BY <1>17 DEF distillVars, distillFrame, distillMeta, distillHist, distillCounts
<1>18. QED
  BY <1>1, <1>2, <1>3, <1>4, <1>5, <1>6, <1>7, <1>8, <1>9, <1>10, <1>11, <1>12, <1>13,
     <1>14, <1>15, <1>16, <1>17 DEF DistillNext

\* Whoever writes a row makes the copies that others have of it old.
LEMMA NextFresh == DistillTyped /\ FreshCopies /\ [DistillNext]_distillVars => FreshCopies'
<1> SUFFICES ASSUME DistillTyped, FreshCopies, [DistillNext]_distillVars PROVE FreshCopies'
  OBVIOUS
<1>t. /\ todo \in [Distillers -> Lists \cup {<<>>}] /\ copy \in [Distillers -> RowsRead \cup {None}]
      /\ \A p \in Distillers : dpc[p] # "do" => copy[p] = None
  BY DEF DistillTyped
<1> USE <1>t DEF FreshCopies, DistillGoto, Work, Leave, distillMeta, distillHist, distillCounts
<1>1. ASSUME NEW p \in Distillers, NEW s \in Chats, EndChat(p, s) PROVE FreshCopies'
  BY <1>1 DEF EndChat, BeginDistill
<1>2. ASSUME NEW p \in Distillers, NEW s \in Chats, ResumeChat(p, s) PROVE FreshCopies'
  BY <1>2 DEF ResumeChat, BeginDistill
<1>3. ASSUME NEW p \in Distillers, NEW s \in Chats, StartDistill(p, s) PROVE FreshCopies'
  BY <1>3 DEF StartDistill, BeginDistill
<1>4. ASSUME NEW p \in Distillers, NEW s \in Chats, ApplyLive(p, s) PROVE FreshCopies'
  BY <1>4 DEF ApplyLive, BeginDistill
<1>5. ASSUME NEW p \in Distillers, ClaimDistilled(p) PROVE FreshCopies'
  <2>1. CASE Leave(p)
    BY <1>5, <2>1 DEF ClaimDistilled
  <2>2. CASE DistillGoto(p, "claim") /\ UNCHANGED <<chat, after, role, todo, copy, dlock>>
    BY <1>5, <2>2 DEF ClaimDistilled
  <2>3. QED
    BY ONLY <1>5, <2>1, <2>2 DEF ClaimDistilled
<1>6. ASSUME NEW p \in Distillers, ClaimChat(p) PROVE FreshCopies'
  <2>1. CASE Leave(p)
    BY <1>6, <2>1 DEF ClaimChat
  <2>2. CASE Work(p, <<MarkPending>>) /\ UNCHANGED <<chat, after, role, copy, dlock>>
    BY <1>6, <2>2 DEF ClaimChat
  <2>3. QED
    BY ONLY <1>6, <2>1, <2>2 DEF ClaimChat
<1>7. ASSUME NEW p \in Distillers, CheckDistilled(p) PROVE FreshCopies'
  BY <1>7 DEF CheckDistilled
<1>8. ASSUME NEW p \in Distillers, TryDistillLock(p) PROVE FreshCopies'
  BY <1>8 DEF TryDistillLock
<1>9. ASSUME NEW p \in Distillers, CallProvider(p) PROVE FreshCopies'
  BY <1>9 DEF CallProvider
<1>10. ASSUME NEW p \in Distillers, EndCall(p) PROVE FreshCopies'
  BY <1>10 DEF EndCall
<1>11. ASSUME NEW p \in Distillers, NEW s \in Chats, CaptureChat(p, s) PROVE FreshCopies'
  BY <1>11 DEF CaptureChat, BeginDistill
<1>12. ASSUME NEW p \in Distillers, ReadRow(p) PROVE FreshCopies'
  <2>1. /\ copy' = [copy EXCEPT ![p] = Row(Head(todo[p])[1], chat[p])]
        /\ UNCHANGED <<todo, pending, distilled, outdated>>
    BY <1>12 DEF ReadRow
  <2>2. /\ Head(todo[p])[1] = "pending" => Row(Head(todo[p])[1], chat[p]).ids = pending
        /\ Head(todo[p])[1] = "distilled" => Row(Head(todo[p])[1], chat[p]).ids = distilled
    BY DEF Row
  <2>3. copy'[p] = Row(Head(todo[p])[1], chat[p]) /\ \A q \in Distillers \ {p} : copy'[q] = copy[q]
    BY <2>1
  <2>4. QED
    BY ONLY FreshCopies, p \in Distillers, <2>1, <2>2, <2>3 DEF FreshCopies
<1>13. ASSUME NEW p \in Distillers, WriteRow(p) PROVE FreshCopies'
  <2>1. /\ todo[p] \in Lists /\ chat[p] \in Chats /\ dpc[p] = "do" /\ copy[p] # None /\ copy[p] \in RowsRead
        /\ RowsAfter(p, chat[p]) /\ FrameAfter(p)
        /\ outdated' = (outdated \cup {q \in Distillers \ {p} :
                /\ copy[q] # None /\ Head(todo[q])[1] = Head(todo[p])[1]
                /\ Head(todo[p])[1] = "failed" => chat[q] = chat[p]}) \ {p}
        /\ lostUpdate' = (lostUpdate \/ (p \in outdated /\ Head(todo[p])[1] # "failed"))
        /\ UNCHANGED <<doubled, mixed, requeued, dkills>>
    BY <1>13, WriteFacts DEF WriteRow
  <2>2. SUFFICES ASSUME NEW q \in Distillers \ outdated', copy'[q] # None
                 PROVE  /\ Head(todo'[q])[1] = "pending" => copy'[q].ids = pending'
                        /\ Head(todo'[q])[1] = "distilled" => copy'[q].ids = distilled'
    OBVIOUS
  <2>3. /\ q # p /\ copy'[q] = copy[q] /\ todo'[q] = todo[q]
    BY <2>1, <2>2 DEF FrameAfter
  <2>4. q \notin outdated /\ (Head(todo[q])[1] = Head(todo[p])[1] => Head(todo[p])[1] = "failed")
    BY <2>1, <2>2, <2>3
  <2>5. Head(todo[p]) \in Updates
    BY <2>1, ListFacts
  <2>6. /\ Head(todo[p])[1] # "pending" => pending' = pending
        /\ Head(todo[p])[1] # "distilled" => distilled' = distilled
    BY <2>1, <2>5, Keys DEF RowsAfter
  <2>7. QED
    BY <2>2, <2>3, <2>4, <2>6
<1>14. ASSUME NEW p \in Distillers, ReadFails(p) PROVE FreshCopies'
  BY <1>14 DEF ReadFails, Fault
<1>15. ASSUME NEW p \in Distillers, WriteFails(p) PROVE FreshCopies'
  <2>1. /\ dpc[p] = "do" /\ todo[p] \in Lists /\ chat[p] \in Chats /\ FrameAfter(p) /\ dkills' = dkills + 1
        /\ UNCHANGED <<pending, distilled, failed, queued, called, lostUpdate, dropped, doubled, mixed, requeued>>
        /\ outdated' = outdated \ {p}
    BY <1>15, FrameFacts DEF WriteFails, Fault, distillMeta
  <2>2. QED
    BY <2>1 DEF FrameAfter
<1>16. ASSUME NEW p \in Distillers, KillDistiller(p) PROVE FreshCopies'
  BY <1>16 DEF KillDistiller, Fault
<1>17. CASE UNCHANGED distillVars
  BY <1>17 DEF distillVars, distillFrame, distillMeta, distillHist, distillCounts
<1>18. QED
  BY <1>1, <1>2, <1>3, <1>4, <1>5, <1>6, <1>7, <1>8, <1>9, <1>10, <1>11, <1>12, <1>13,
     <1>14, <1>15, <1>16, <1>17 DEF DistillNext

-----------------------------------------------------------------------------
(* No session is forgotten: who takes one out of the queue has put it among *)
(* the distilled ones, or resumed it when it was in neither list.           *)

Ordered == ~lostUpdate => \A p \in Distillers : chat[p] \notin mixed =>
    /\ todo[p] \in Unmarking => chat[p] \notin queued
    /\ todo[p] \in Clearing =>
          \/ chat[p] \in distilled \/ p \in unmarked
          \/ role[p] = "resumed" /\ chat[p] \notin queued

\* The lists are empty at first.
LEMMA InitOrdered == DistillInit => Ordered /\ NotForgotten
  BY Branches DEF DistillInit, Ordered, NotForgotten

\* The order of the updates of a branch is the order that this needs.
LEMMA NextOrdered ==
  DistillTyped /\ Together /\ FreshCopies /\ Ordered /\ [DistillNext]_distillVars => Ordered'
<1> SUFFICES ASSUME DistillTyped, Together, FreshCopies, Ordered, [DistillNext]_distillVars PROVE Ordered'
  OBVIOUS
<1>t. /\ todo \in [Distillers -> Lists \cup {<<>>}] /\ chat \in [Distillers -> Chats \cup {None}]
      /\ role \in [Distillers -> {"ended", "resumed", "other"}]
      /\ \A p \in Distillers : todo[p] \in Unmarking => role[p] = "resumed"
      /\ \A p \in Distillers : dpc[p] = "do" <=> todo[p] # <<>>
      /\ None \notin Chats
  BY DistillAssumption DEF DistillTyped
<1>k. /\ <<>> \notin Clearing \cup Unmarking
      /\ \A l \in Queueing \cup Marking : l \notin Clearing \cup Unmarking
      /\ \A l \in Unmarking : l \notin Clearing
      /\ \A l \in Clearing : l \notin Unmarking
  BY Branches
<1> USE <1>t, <1>k, Branches DEF Ordered, DistillGoto, Work, Leave, distillMeta, distillHist, distillCounts
<1>1. ASSUME NEW p \in Distillers, NEW s \in Chats, EndChat(p, s) PROVE Ordered'
  BY <1>1 DEF EndChat, BeginDistill
<1>2. ASSUME NEW p \in Distillers, NEW s \in Chats, ResumeChat(p, s) PROVE Ordered'
  BY <1>2 DEF ResumeChat, BeginDistill
<1>3. ASSUME NEW p \in Distillers, NEW s \in Chats, StartDistill(p, s) PROVE Ordered'
  BY <1>3 DEF StartDistill, BeginDistill
<1>4. ASSUME NEW p \in Distillers, NEW s \in Chats, ApplyLive(p, s) PROVE Ordered'
  BY <1>4 DEF ApplyLive, BeginDistill
<1>5. ASSUME NEW p \in Distillers, ClaimDistilled(p) PROVE Ordered'
  <2>1. CASE Leave(p)
    BY <1>5, <2>1 DEF ClaimDistilled
  <2>2. CASE DistillGoto(p, "claim") /\ UNCHANGED <<chat, after, role, todo, copy, dlock>>
    BY <1>5, <2>2 DEF ClaimDistilled
  <2>3. QED
    BY ONLY <1>5, <2>1, <2>2 DEF ClaimDistilled
<1>6. ASSUME NEW p \in Distillers, ClaimChat(p) PROVE Ordered'
  <2>1. CASE Leave(p)
    BY <1>6, <2>1 DEF ClaimChat
  <2>2. CASE Work(p, <<MarkPending>>) /\ UNCHANGED <<chat, after, role, copy, dlock>>
    BY <1>6, <2>2 DEF ClaimChat
  <2>3. QED
    BY ONLY <1>6, <2>1, <2>2 DEF ClaimChat
<1>7. ASSUME NEW p \in Distillers, CheckDistilled(p) PROVE Ordered'
  <2>1. CASE Work(p, <<MarkPending>>) /\ requeued' = requeued \cup {chat[p]}
    BY <1>7, <2>1 DEF CheckDistilled
  <2>2. CASE Work(p, <<ClearPending>>) /\ UNCHANGED requeued
    BY <1>7, <2>2 DEF CheckDistilled
  <2>3. CASE Work(p, <<MarkDistilled, ClearPending>>) /\ UNCHANGED requeued
    BY <1>7, <2>3 DEF CheckDistilled
  <2>4. CASE DistillGoto(p, "lock") /\ UNCHANGED <<todo, requeued>>
    BY <1>7, <2>4 DEF CheckDistilled
  <2>5. QED
    BY ONLY <1>7, <2>1, <2>2, <2>3, <2>4 DEF CheckDistilled
<1>8. ASSUME NEW p \in Distillers, TryDistillLock(p) PROVE Ordered'
  <2>1. CASE dlock' = p /\ DistillGoto(p, "ready") /\ UNCHANGED todo
    BY <1>8, <2>1 DEF TryDistillLock
  <2>2. CASE Work(p, <<MarkPending>>) /\ UNCHANGED dlock
    BY <1>8, <2>2 DEF TryDistillLock
  <2>3. QED
    BY ONLY <1>8, <2>1, <2>2 DEF TryDistillLock
<1>9. ASSUME NEW p \in Distillers, CallProvider(p) PROVE Ordered'
  <2>1. CASE Work(p, <<MarkPending>>) /\ UNCHANGED called
    BY <1>9, <2>1 DEF CallProvider
  <2>2. CASE /\ called' = [called EXCEPT ![chat[p]] = @ + 1]
             /\ DistillGoto(p, "run") /\ UNCHANGED todo
    BY <1>9, <2>2 DEF CallProvider
  <2>3. QED
    BY ONLY <1>9, <2>1, <2>2 DEF CallProvider
<1>10. ASSUME NEW p \in Distillers, EndCall(p) PROVE Ordered'
  <2>1. CASE Work(p, <<BumpFail, MarkPending>>)
    BY <1>10, <2>1 DEF EndCall
  <2>2. CASE Work(p, <<ClearFail, MarkDistilled, ClearPending>>)
    BY <1>10, <2>2 DEF EndCall
  <2>3. QED
    BY ONLY <1>10, <2>1, <2>2 DEF EndCall
<1>11. ASSUME NEW p \in Distillers, NEW s \in Chats, CaptureChat(p, s) PROVE Ordered'
  BY <1>11 DEF CaptureChat, BeginDistill
<1>12. ASSUME NEW p \in Distillers, ReadRow(p) PROVE Ordered'
  BY <1>12 DEF ReadRow
<1>13. ASSUME NEW p \in Distillers, WriteRow(p) PROVE Ordered'
  <2>1. /\ todo[p] \in Lists /\ chat[p] \in Chats /\ dpc[p] = "do" /\ copy[p] # None /\ copy[p] \in RowsRead
        /\ RowsAfter(p, chat[p]) /\ FrameAfter(p)
        /\ outdated' = (outdated \cup {q \in Distillers \ {p} :
                /\ copy[q] # None /\ Head(todo[q])[1] = Head(todo[p])[1]
                /\ Head(todo[p])[1] = "failed" => chat[q] = chat[p]}) \ {p}
        /\ lostUpdate' = (lostUpdate \/ (p \in outdated /\ Head(todo[p])[1] # "failed"))
        /\ unmarked \ {p} \subseteq unmarked'
        /\ UNCHANGED <<doubled, mixed, requeued, dkills>>
    BY <1>13, WriteFacts DEF WriteRow
  <2>c. ~lostUpdate' => /\ ~lostUpdate
                        /\ Head(todo[p])[1] = "pending" => copy[p].ids = pending
                        /\ Head(todo[p])[1] = "distilled" => copy[p].ids = distilled
    BY <2>1 DEF FreshCopies
  <2>h. Head(todo[p]) \in Updates
    BY <2>1, ListFacts
  <2>r. ~lostUpdate' =>
        /\ pending' = CASE Head(todo[p]) = MarkPending -> pending \cup {chat[p]}
                        [] Head(todo[p]) = ClearPending -> pending \ {chat[p]}
                        [] OTHER -> pending
        /\ distilled' = CASE Head(todo[p]) = MarkDistilled -> distilled \cup {chat[p]}
                          [] Head(todo[p]) = UnmarkDistilled -> distilled \ {chat[p]}
                          [] OTHER -> distilled
        /\ queued' = IF Head(todo[p]) = MarkPending THEN queued \cup {chat[p]} ELSE queued
    BY <2>1, <2>c, <2>h, Keys DEF RowsAfter
  <2>2. SUFFICES ASSUME ~lostUpdate', NEW q \in Distillers, chat'[q] \notin mixed
                 PROVE  /\ todo'[q] \in Unmarking => chat'[q] \notin queued'
                        /\ todo'[q] \in Clearing =>
                              \/ chat'[q] \in distilled' \/ q \in unmarked'
                              \/ role'[q] = "resumed" /\ chat'[q] \notin queued'
    BY <2>1
  <2>3. CASE q = p
    <3>1. /\ todo'[q] = Tail(todo[p]) /\ Tail(todo[p]) \notin Unmarking
          /\ Tail(todo[p]) # <<>> => chat'[q] = chat[p] /\ role'[q] = role[p]
      BY <2>1, <2>3, ListFacts DEF FrameAfter
    <3>2. ASSUME Tail(todo[p]) \in Clearing
          PROVE  Head(todo[p]) \in {MarkDistilled, UnmarkDistilled}
      <4>1. Head(todo[p]) \in {MarkPending, ClearPending, BumpFail, ClearFail, MarkDistilled, UnmarkDistilled}
        BY <2>h DEF Updates
      <4>2. Head(todo[p]) \notin {MarkPending, ClearPending, BumpFail, ClearFail}
        <5>1. /\ Head(todo[p]) = MarkPending => Tail(todo[p]) = <<>>
              /\ Head(todo[p]) = ClearPending => Tail(todo[p]) \in {<<>>, <<ClearFail>>}
              /\ Head(todo[p]) = BumpFail => Tail(todo[p]) = <<MarkPending>>
              /\ Head(todo[p]) = ClearFail => Tail(todo[p]) \in {<<>>, <<MarkDistilled, ClearPending>>}
          BY <2>1, ListFacts
        <5>2. {<<>>, <<ClearFail>>, <<MarkPending>>, <<MarkDistilled, ClearPending>>} \cap Clearing = {}
          BY <1>k, Branches
        <5>3. QED
          BY ONLY <3>2, <5>1, <5>2
      <4>3. QED
        BY <4>1, <4>2
    <3>3. CASE Head(todo[p]) = MarkDistilled
      BY <2>r, <2>2, <2>3, <3>1, <3>3, Keys
    <3>4. CASE Head(todo[p]) = UnmarkDistilled
      <4>1. todo[p] \in Unmarking /\ Tail(todo[p]) # <<>>
        BY <2>1, <3>4, ListFacts
      <4>2. queued' = queued
        BY <2>2, <2>r, <3>4, Keys
      <4>3. role'[q] = "resumed" /\ chat'[q] \notin queued'
        BY <2>2, <2>3, <2>c, <3>1, <4>1, <4>2
      <4>4. QED
        BY <3>1, <4>3
    <3>5. QED
      BY ONLY <3>1, <3>2, <3>3, <3>4
  <2>4. CASE q # p
    <3>1. todo'[q] = todo[q] /\ chat'[q] = chat[q] /\ role'[q] = role[q]
      BY <2>1, <2>4 DEF FrameAfter
    <3>2. role[q] = "resumed" => chat[q] # chat[p]
      BY <2>1, <2>2, <2>4, <3>1 DEF Together
    <3>3. role[p] = "resumed" => chat[q] # chat[p]
      BY <2>1, <2>2, <2>4, <3>1 DEF Together
    <3>4. Head(todo[p]) = UnmarkDistilled => role[p] = "resumed"
      BY <2>1, ListFacts
    <3>5. /\ chat[q] \in distilled => chat[q] \in distilled'
          /\ role[q] = "resumed" /\ chat[q] \notin queued => chat[q] \notin queued'
      BY <2>2, <2>r, <3>2, <3>3, <3>4, Keys
    <3>6. q \in unmarked => q \in unmarked'
      BY <2>1, <2>4
    <3>7. QED
      BY <2>2, <2>c, <3>1, <3>5, <3>6
  <2>5. QED
    BY <2>3, <2>4
<1>14. ASSUME NEW p \in Distillers, ReadFails(p) PROVE Ordered'
  BY <1>14 DEF ReadFails, Fault
<1>15. ASSUME NEW p \in Distillers, WriteFails(p) PROVE Ordered'
  <2>1. /\ dpc[p] = "do" /\ todo[p] \in Lists /\ chat[p] \in Chats /\ FrameAfter(p)
        /\ UNCHANGED <<pending, distilled, queued, lostUpdate, mixed>>
        /\ \A q \in Distillers \ {p} : q \in unmarked => q \in unmarked'
        /\ Head(todo[p]) = MarkDistilled /\ dpc'[p] # "idle" => p \in unmarked'
    <3>1. dpc[p] = "do" /\ NextUpdate(p)
      BY ONLY <1>15 DEF WriteFails
    <3>2. todo[p] \in Lists /\ chat[p] \in Chats /\ FrameAfter(p)
      BY ONLY <3>1, DistillTyped, p \in Distillers, FrameFacts
    <3>3. QED
      BY ONLY <3>1, <3>2, <1>15, p \in Distillers DEF WriteFails, distillMeta, Leaves
  <2>2. SUFFICES ASSUME ~lostUpdate, NEW q \in Distillers, chat'[q] \notin mixed
                 PROVE  /\ todo'[q] \in Unmarking => chat'[q] \notin queued
                        /\ todo'[q] \in Clearing =>
                              \/ chat'[q] \in distilled \/ q \in unmarked'
                              \/ role'[q] = "resumed" /\ chat'[q] \notin queued
    BY <2>1
  <2>3. CASE q # p
    BY <2>1, <2>2, <2>3 DEF FrameAfter
  <2>4. CASE q = p
    <3>1. /\ todo'[q] = Tail(todo[p]) /\ Tail(todo[p]) \notin Unmarking
          /\ Tail(todo[p]) # <<>> => chat'[q] = chat[p] /\ role'[q] = role[p] /\ dpc'[p] = dpc[p]
      BY <2>1, <2>4, ListFacts DEF FrameAfter
    <3>2. Head(todo[p]) \in {MarkPending, ClearPending, BumpFail, ClearFail, MarkDistilled, UnmarkDistilled}
      BY <2>1, ListFacts DEF Updates
    <3>3. CASE Head(todo[p]) = MarkDistilled
      BY <2>1, <2>4, <3>1, <3>3
    <3>4. CASE Head(todo[p]) = UnmarkDistilled
      <4>1. todo[p] \in Unmarking /\ Tail(todo[p]) # <<>>
        BY <2>1, <3>4, ListFacts
      <4>2. QED
        BY <2>2, <2>4, <3>1, <4>1
    <3>5. CASE Head(todo[p]) \in {MarkPending, ClearPending, BumpFail, ClearFail}
      <4>1. Tail(todo[p]) \in {<<>>, <<ClearFail>>, <<MarkPending>>, <<MarkDistilled, ClearPending>>}
        BY <2>1, <3>5, ListFacts
      <4>2. {<<>>, <<ClearFail>>, <<MarkPending>>, <<MarkDistilled, ClearPending>>} \cap Clearing = {}
        BY <1>k, Branches
      <4>3. QED
        BY ONLY <3>1, <4>1, <4>2
    <3>6. QED
      BY ONLY <3>2, <3>3, <3>4, <3>5
  <2>5. QED
    BY ONLY <2>3, <2>4
<1>16. ASSUME NEW p \in Distillers, KillDistiller(p) PROVE Ordered'
  BY <1>16 DEF KillDistiller, Fault
<1>17. CASE UNCHANGED distillVars
  BY <1>17 DEF distillVars, distillFrame, distillMeta, distillHist, distillCounts
<1>18. QED
  BY <1>1, <1>2, <1>3, <1>4, <1>5, <1>6, <1>7, <1>8, <1>9, <1>10, <1>11, <1>12, <1>13,
     <1>14, <1>15, <1>16, <1>17 DEF DistillNext

\* The queue loses a session only to the distilled ones.
LEMMA NextNotForgotten ==
  DistillTyped /\ Together /\ FreshCopies /\ Ordered /\ NotForgotten /\ [DistillNext]_distillVars
     => NotForgotten'
<1> SUFFICES ASSUME DistillTyped, Together, FreshCopies, Ordered, NotForgotten, [DistillNext]_distillVars
             PROVE  NotForgotten'
  OBVIOUS
<1> USE DEF NotForgotten, distillMeta, distillHist, distillCounts
<1>1. ASSUME NEW p \in Distillers, NEW s \in Chats, EndChat(p, s) PROVE NotForgotten'
  BY <1>1 DEF EndChat, BeginDistill
<1>2. ASSUME NEW p \in Distillers, NEW s \in Chats, ResumeChat(p, s) PROVE NotForgotten'
  BY <1>2 DEF ResumeChat, BeginDistill
<1>3. ASSUME NEW p \in Distillers, NEW s \in Chats, StartDistill(p, s) PROVE NotForgotten'
  BY <1>3 DEF StartDistill, BeginDistill
<1>4. ASSUME NEW p \in Distillers, NEW s \in Chats, ApplyLive(p, s) PROVE NotForgotten'
  BY <1>4 DEF ApplyLive, BeginDistill
<1>5. ASSUME NEW p \in Distillers, ClaimDistilled(p) PROVE NotForgotten'
  BY <1>5 DEF ClaimDistilled
<1>6. ASSUME NEW p \in Distillers, ClaimChat(p) PROVE NotForgotten'
  BY <1>6 DEF ClaimChat
<1>7. ASSUME NEW p \in Distillers, CheckDistilled(p) PROVE NotForgotten'
  BY <1>7 DEF CheckDistilled
<1>8. ASSUME NEW p \in Distillers, TryDistillLock(p) PROVE NotForgotten'
  BY <1>8 DEF TryDistillLock
<1>9. ASSUME NEW p \in Distillers, CallProvider(p) PROVE NotForgotten'
  BY <1>9 DEF CallProvider
<1>10. ASSUME NEW p \in Distillers, EndCall(p) PROVE NotForgotten'
  BY <1>10 DEF EndCall
<1>11. ASSUME NEW p \in Distillers, NEW s \in Chats, CaptureChat(p, s) PROVE NotForgotten'
  BY <1>11 DEF CaptureChat, BeginDistill
<1>12. ASSUME NEW p \in Distillers, ReadRow(p) PROVE NotForgotten'
  BY <1>12 DEF ReadRow
<1>13. ASSUME NEW p \in Distillers, WriteRow(p) PROVE NotForgotten'
  <2>1. /\ todo[p] \in Lists /\ chat[p] \in Chats /\ dpc[p] = "do" /\ copy[p] # None /\ copy[p] \in RowsRead
        /\ RowsAfter(p, chat[p]) /\ FrameAfter(p)
        /\ outdated' = (outdated \cup {q \in Distillers \ {p} :
                /\ copy[q] # None /\ Head(todo[q])[1] = Head(todo[p])[1]
                /\ Head(todo[p])[1] = "failed" => chat[q] = chat[p]}) \ {p}
        /\ lostUpdate' = (lostUpdate \/ (p \in outdated /\ Head(todo[p])[1] # "failed"))
        /\ dropped' = CASE Head(todo[p]) = ClearPending /\ p \in unmarked -> dropped \cup {chat[p]}
                        [] Head(todo[p]) \in {MarkPending, MarkDistilled} -> dropped \ {chat[p]}
                        [] OTHER -> dropped
        /\ UNCHANGED <<doubled, mixed, requeued, dkills>>
    BY <1>13, WriteFacts DEF WriteRow
  <2>c. ~lostUpdate' => /\ ~lostUpdate
                        /\ Head(todo[p])[1] = "pending" => copy[p].ids = pending
                        /\ Head(todo[p])[1] = "distilled" => copy[p].ids = distilled
    BY <2>1 DEF FreshCopies
  <2>h. Head(todo[p]) \in Updates
    BY <2>1, ListFacts
  <2>r. ~lostUpdate' =>
        /\ pending' = CASE Head(todo[p]) = MarkPending -> pending \cup {chat[p]}
                        [] Head(todo[p]) = ClearPending -> pending \ {chat[p]}
                        [] OTHER -> pending
        /\ distilled' = CASE Head(todo[p]) = MarkDistilled -> distilled \cup {chat[p]}
                          [] Head(todo[p]) = UnmarkDistilled -> distilled \ {chat[p]}
                          [] OTHER -> distilled
        /\ queued' = IF Head(todo[p]) = MarkPending THEN queued \cup {chat[p]} ELSE queued
    BY <2>1, <2>c, <2>h, Keys DEF RowsAfter
  <2>2. SUFFICES ASSUME ~lostUpdate', NEW x \in queued' \ (mixed \cup dropped')
                 PROVE  x \in pending' \cup distilled'
    BY <2>1
  <2>d. Head(todo[p]) \notin {MarkPending, MarkDistilled} \/ x # chat[p] => x \notin dropped
    BY <2>1, <2>2, Keys
  <2>3. ~lostUpdate /\ (x \in queued /\ x \notin dropped => x \in pending \cup distilled)
    BY <2>2, <2>c
  <2>4. CASE Head(todo[p]) = MarkPending
    BY <2>2, <2>3, <2>4, <2>r, <2>d, Keys
  <2>5. CASE Head(todo[p]) = ClearPending
    <3>1. todo[p] \in Clearing
      BY <2>1, <2>5, ListFacts
    <3>2. x = chat[p] => x \in distilled
      <4>1. x \in queued
        BY <2>2, <2>5, <2>r, Keys
      <4>2. x = chat[p] => p \notin unmarked
        BY <2>1, <2>2, <2>5, Keys
      <4>3. QED
        BY <2>1, <2>2, <2>3, <3>1, <4>1, <4>2 DEF Ordered
    <3>3. QED
      BY <2>2, <2>3, <2>5, <2>r, <2>d, <3>2, Keys
  <2>6. CASE Head(todo[p]) = UnmarkDistilled
    <3>1. todo[p] \in Unmarking
      BY <2>1, <2>6, ListFacts
    <3>2. x \in queued
      BY <2>2, <2>6, <2>r, Keys
    <3>3. x # chat[p]
      BY <2>1, <2>2, <2>3, <3>1, <3>2 DEF Ordered
    <3>4. QED
      BY <2>2, <2>3, <2>6, <2>r, <2>d, <3>2, <3>3, Keys
  <2>7. CASE Head(todo[p]) \in {MarkDistilled, BumpFail, ClearFail}
    BY <2>2, <2>3, <2>7, <2>r, <2>d, Keys
  <2>8. QED
    BY ONLY <2>4, <2>5, <2>6, <2>7, <2>h DEF Updates
<1>14. ASSUME NEW p \in Distillers, ReadFails(p) PROVE NotForgotten'
  BY <1>14 DEF ReadFails, Fault
<1>15. ASSUME NEW p \in Distillers, WriteFails(p) PROVE NotForgotten'
  <2>1. /\ dpc[p] = "do" /\ todo[p] \in Lists /\ chat[p] \in Chats /\ FrameAfter(p) /\ dkills' = dkills + 1
        /\ UNCHANGED <<pending, distilled, failed, queued, called, lostUpdate, dropped, doubled, mixed, requeued>>
        /\ outdated' = outdated \ {p}
    BY <1>15, FrameFacts DEF WriteFails, Fault, distillMeta
  <2>2. QED
    BY <2>1 DEF FrameAfter
<1>16. ASSUME NEW p \in Distillers, KillDistiller(p) PROVE NotForgotten'
  BY <1>16 DEF KillDistiller, Fault
<1>17. CASE UNCHANGED distillVars
  BY <1>17 DEF distillVars, distillFrame, distillMeta, distillHist, distillCounts
<1>18. QED
  BY <1>1, <1>2, <1>3, <1>4, <1>5, <1>6, <1>7, <1>8, <1>9, <1>10, <1>11, <1>12, <1>13,
     <1>14, <1>15, <1>16, <1>17 DEF DistillNext

\* No session that was queued is forgotten, whoever is killed and whatever write fails
\* between two updates, unless two updates of a row overlapped or one wrote back a row it
\* could not read, a resumed session was worked on twice at once, or the session was taken
\* out by a capture, or by a distillation that could not mark it, and not put in again.
THEOREM NoneForgotten == DistillSpec => []NotForgotten
<1> DEFINE Inv == DistillTyped /\ Together /\ FreshCopies /\ Ordered /\ NotForgotten
<1>1. DistillInit => Inv
  BY InitDistillTyped, InitTogether, InitOrdered
<1>2. Inv /\ [DistillNext]_distillVars => Inv'
  BY NextDistillTyped, NextTogether, NextFresh, NextOrdered, NextNotForgotten
<1>3. Inv => NotForgotten
  OBVIOUS
<1> HIDE DEF Inv
<1>4. QED
  BY <1>1, <1>2, <1>3, PTL DEF DistillSpec

-----------------------------------------------------------------------------
(* Nobody is asked to distil what is distilled: a distilled session is in   *)
(* the queue only while a process is about to take it out.                  *)

Outgoing == \A s \in (pending \cap distilled) \ (doubled \cup requeued) :
    \E p \in Distillers : chat[p] = s /\ todo[p] \in Clearing \cup Marking \cup Unmarking
Undistilled == \A p \in Distillers :
    /\ chat[p] \notin doubled \cup requeued
    /\ dpc[p] \in {"claim", "lock", "ready", "run"} \/ todo[p] \in Queueing
    => chat[p] \notin distilled
Once == (~lostUpdate /\ dkills = 0) => Outgoing /\ Undistilled

\* The lists are empty at first.
LEMMA InitOnce == DistillInit => Once
  BY Branches DEF DistillInit, Once, Outgoing, Undistilled

\* Whoever queues a session has found it not distilled, and nobody else works on it.
LEMMA NextUndistilled ==
  DistillTyped /\ Together /\ FreshCopies /\ Once /\ [DistillNext]_distillVars
     => ((~lostUpdate /\ dkills = 0) => Undistilled)'
<1> SUFFICES ASSUME DistillTyped, Together, FreshCopies, Once, [DistillNext]_distillVars,
                    ~lostUpdate', dkills' = 0
             PROVE  Undistilled'
  OBVIOUS
<1>t. /\ todo \in [Distillers -> Lists \cup {<<>>}] /\ chat \in [Distillers -> Chats \cup {None}]
      /\ dpc \in [Distillers -> DistillSteps] /\ dkills \in Nat /\ lostUpdate \in BOOLEAN
      /\ \A p \in Distillers : dpc[p] = "do" <=> todo[p] # <<>>
      /\ None \notin Chats
  BY DistillAssumption DEF DistillTyped
<1>k. /\ <<>> \notin Queueing
      /\ {<<ClearPending>>, <<MarkDistilled, ClearPending>>, <<ClearFail, MarkDistilled, ClearPending>>,
          <<MarkDistilled, ClearPending, ClearFail>>, <<UnmarkDistilled, ClearPending>>} \cap Queueing = {}
  BY Branches
<1> USE <1>t, <1>k DEF Once, Undistilled, DistillGoto, Work, Leave, distillMeta, distillHist, distillCounts
<1>1. ASSUME NEW p \in Distillers, NEW s \in Chats, EndChat(p, s) PROVE Undistilled'
  BY <1>1 DEF EndChat, BeginDistill
<1>2. ASSUME NEW p \in Distillers, NEW s \in Chats, ResumeChat(p, s) PROVE Undistilled'
  BY <1>2 DEF ResumeChat, BeginDistill
<1>3. ASSUME NEW p \in Distillers, NEW s \in Chats, StartDistill(p, s) PROVE Undistilled'
  BY <1>3 DEF StartDistill, BeginDistill
<1>4. ASSUME NEW p \in Distillers, NEW s \in Chats, ApplyLive(p, s) PROVE Undistilled'
  BY <1>4 DEF ApplyLive, BeginDistill
<1>5. ASSUME NEW p \in Distillers, ClaimDistilled(p) PROVE Undistilled'
  <2>1. CASE Leave(p)
    BY <1>5, <2>1 DEF ClaimDistilled
  <2>2. CASE DistillGoto(p, "claim") /\ UNCHANGED <<chat, after, role, todo, copy, dlock>>
    BY <1>5, <2>2 DEF ClaimDistilled
  <2>3. QED
    BY ONLY <1>5, <2>1, <2>2 DEF ClaimDistilled
<1>6. ASSUME NEW p \in Distillers, ClaimChat(p) PROVE Undistilled'
  <2>1. CASE Leave(p)
    BY <1>6, <2>1 DEF ClaimChat
  <2>2. CASE Work(p, <<MarkPending>>) /\ UNCHANGED <<chat, after, role, copy, dlock>>
    BY <1>6, <2>2 DEF ClaimChat
  <2>3. QED
    BY ONLY <1>6, <2>1, <2>2 DEF ClaimChat
<1>7. ASSUME NEW p \in Distillers, CheckDistilled(p) PROVE Undistilled'
  <2>1. CASE Work(p, <<MarkPending>>) /\ requeued' = requeued \cup {chat[p]}
    BY <1>7, <2>1 DEF CheckDistilled
  <2>2. CASE Work(p, <<ClearPending>>) /\ UNCHANGED requeued
    BY <1>7, <2>2 DEF CheckDistilled
  <2>3. CASE Work(p, <<MarkDistilled, ClearPending>>) /\ UNCHANGED requeued
    BY <1>7, <2>3 DEF CheckDistilled
  <2>4. CASE DistillGoto(p, "lock") /\ UNCHANGED <<todo, requeued>>
    BY <1>7, <2>4 DEF CheckDistilled
  <2>5. QED
    BY ONLY <1>7, <2>1, <2>2, <2>3, <2>4 DEF CheckDistilled
<1>8. ASSUME NEW p \in Distillers, TryDistillLock(p) PROVE Undistilled'
  <2>1. CASE dlock' = p /\ DistillGoto(p, "ready") /\ UNCHANGED todo
    BY <1>8, <2>1 DEF TryDistillLock
  <2>2. CASE Work(p, <<MarkPending>>) /\ UNCHANGED dlock
    BY <1>8, <2>2 DEF TryDistillLock
  <2>3. QED
    BY ONLY <1>8, <2>1, <2>2 DEF TryDistillLock
<1>9. ASSUME NEW p \in Distillers, CallProvider(p) PROVE Undistilled'
  <2>1. CASE Work(p, <<MarkPending>>) /\ UNCHANGED called
    BY <1>9, <2>1 DEF CallProvider
  <2>2. CASE /\ called' = [called EXCEPT ![chat[p]] = @ + 1]
             /\ DistillGoto(p, "run") /\ UNCHANGED todo
    BY <1>9, <2>2 DEF CallProvider
  <2>3. QED
    BY ONLY <1>9, <2>1, <2>2 DEF CallProvider
<1>10. ASSUME NEW p \in Distillers, EndCall(p) PROVE Undistilled'
  <2>1. CASE Work(p, <<BumpFail, MarkPending>>)
    BY <1>10, <2>1 DEF EndCall
  <2>2. CASE Work(p, <<ClearFail, MarkDistilled, ClearPending>>)
    BY <1>10, <2>2 DEF EndCall
  <2>3. QED
    BY ONLY <1>10, <2>1, <2>2 DEF EndCall
<1>11. ASSUME NEW p \in Distillers, NEW s \in Chats, CaptureChat(p, s) PROVE Undistilled'
  BY <1>11 DEF CaptureChat, BeginDistill
<1>12. ASSUME NEW p \in Distillers, ReadRow(p) PROVE Undistilled'
  BY <1>12 DEF ReadRow
<1>13. ASSUME NEW p \in Distillers, WriteRow(p) PROVE Undistilled'
  <2>1. /\ todo[p] \in Lists /\ chat[p] \in Chats /\ dpc[p] = "do" /\ copy[p] # None /\ copy[p] \in RowsRead
        /\ RowsAfter(p, chat[p]) /\ FrameAfter(p)
        /\ outdated' = (outdated \cup {q \in Distillers \ {p} :
                /\ copy[q] # None /\ Head(todo[q])[1] = Head(todo[p])[1]
                /\ Head(todo[p])[1] = "failed" => chat[q] = chat[p]}) \ {p}
        /\ lostUpdate' = (lostUpdate \/ (p \in outdated /\ Head(todo[p])[1] # "failed"))
        /\ UNCHANGED <<doubled, mixed, requeued, dkills>>
    BY <1>13, WriteFacts DEF WriteRow
  <2>c. ~lostUpdate' => /\ ~lostUpdate
                        /\ Head(todo[p])[1] = "pending" => copy[p].ids = pending
                        /\ Head(todo[p])[1] = "distilled" => copy[p].ids = distilled
    BY <2>1 DEF FreshCopies
  <2>h. Head(todo[p]) \in Updates
    BY <2>1, ListFacts
  <2>r. ~lostUpdate' =>
        /\ pending' = CASE Head(todo[p]) = MarkPending -> pending \cup {chat[p]}
                        [] Head(todo[p]) = ClearPending -> pending \ {chat[p]}
                        [] OTHER -> pending
        /\ distilled' = CASE Head(todo[p]) = MarkDistilled -> distilled \cup {chat[p]}
                          [] Head(todo[p]) = UnmarkDistilled -> distilled \ {chat[p]}
                          [] OTHER -> distilled
        /\ queued' = IF Head(todo[p]) = MarkPending THEN queued \cup {chat[p]} ELSE queued
    BY <2>1, <2>c, <2>h, Keys DEF RowsAfter
  <2>2. SUFFICES ASSUME NEW q \in Distillers, chat'[q] \notin doubled \cup requeued,
                        dpc'[q] \in {"claim", "lock", "ready", "run"} \/ todo'[q] \in Queueing
                 PROVE  chat'[q] \notin distilled'
    BY <2>1
  <2>3. ~lostUpdate /\ dkills = 0
    BY <2>1
  <2>4. CASE q = p
    <3>1. todo'[q] = Tail(todo[p]) /\ Tail(todo[p]) \in Queueing /\ chat'[q] = chat[p]
      BY <2>1, <2>2, <2>4 DEF FrameAfter
    <3>2. Head(todo[p]) = BumpFail
      <4>1. /\ Head(todo[p]) = MarkPending => Tail(todo[p]) = <<>>
            /\ Head(todo[p]) = ClearPending => Tail(todo[p]) \in {<<>>, <<ClearFail>>}
            /\ Head(todo[p]) = ClearFail => Tail(todo[p]) \in {<<>>, <<MarkDistilled, ClearPending>>}
            /\ Head(todo[p]) = MarkDistilled => Tail(todo[p]) \in Clearing
            /\ Head(todo[p]) = UnmarkDistilled => Tail(todo[p]) = <<ClearPending>>
        BY <2>1, ListFacts
      <4>2. ({<<>>, <<ClearFail>>, <<ClearPending>>, <<MarkDistilled, ClearPending>>} \cup Clearing) \cap Queueing = {}
        BY Branches
      <4>3. Head(todo[p]) \notin {MarkPending, ClearPending, ClearFail, MarkDistilled, UnmarkDistilled}
        BY ONLY <3>1, <4>1, <4>2
      <4>4. QED
        BY ONLY <2>h, <4>3 DEF Updates
    <3>3. todo[p] \in Queueing
      BY <2>1, <3>2, ListFacts, Branches
    <3>4. distilled' = distilled
      BY <2>r, <3>2, Keys
    <3>5. QED
      BY <2>2, <2>3, <3>1, <3>3, <3>4
  <2>5. CASE q # p
    <3>1. todo'[q] = todo[q] /\ chat'[q] = chat[q] /\ dpc'[q] = dpc[q]
      BY <2>1, <2>5 DEF FrameAfter
    <3>2. chat[q] \notin distilled
      BY <2>2, <2>3, <3>1
    <3>3. chat[q] # chat[p]
      BY <2>1, <2>2, <2>5, <3>1 DEF Together
    <3>4. QED
      BY <2>r, <3>1, <3>2, <3>3, Keys
  <2>6. QED
    BY <2>4, <2>5
<1>14. ASSUME NEW p \in Distillers, ReadFails(p) PROVE Undistilled'
  BY <1>14 DEF ReadFails, Fault
<1>15. ASSUME NEW p \in Distillers, WriteFails(p) PROVE Undistilled'
  <2>1. /\ dpc[p] = "do" /\ todo[p] \in Lists /\ chat[p] \in Chats /\ FrameAfter(p) /\ dkills' = dkills + 1
        /\ UNCHANGED <<pending, distilled, failed, queued, called, lostUpdate, dropped, doubled, mixed, requeued>>
        /\ outdated' = outdated \ {p}
    BY <1>15, FrameFacts DEF WriteFails, Fault, distillMeta
  <2>2. QED
    BY <2>1 DEF FrameAfter
<1>16. ASSUME NEW p \in Distillers, KillDistiller(p) PROVE Undistilled'
  BY <1>16 DEF KillDistiller, Fault
<1>17. CASE UNCHANGED distillVars
  BY <1>17 DEF distillVars, distillFrame, distillMeta, distillHist, distillCounts
<1>18. QED
  BY <1>1, <1>2, <1>3, <1>4, <1>5, <1>6, <1>7, <1>8, <1>9, <1>10, <1>11, <1>12, <1>13,
     <1>14, <1>15, <1>16, <1>17 DEF DistillNext

\* A process that makes a session distilled, or finds it so, takes it out of the queue.
LEMMA NextOutgoing ==
  DistillTyped /\ Together /\ FreshCopies /\ Once /\ [DistillNext]_distillVars
     => ((~lostUpdate /\ dkills = 0) => Outgoing)'
<1> SUFFICES ASSUME DistillTyped, Together, FreshCopies, Once, [DistillNext]_distillVars,
                    ~lostUpdate', dkills' = 0
             PROVE  Outgoing'
  OBVIOUS
<1>t. /\ todo \in [Distillers -> Lists \cup {<<>>}] /\ chat \in [Distillers -> Chats \cup {None}]
      /\ dkills \in Nat /\ lostUpdate \in BOOLEAN
      /\ \A p \in Distillers : dpc[p] # "do" => todo[p] = <<>>
      /\ \A p \in Distillers : dpc[p] = "idle" => chat[p] = None
      /\ None \notin Chats /\ pending \subseteq Chats
  BY DistillAssumption DEF DistillTyped
<1>k. <<>> \notin Clearing \cup Marking \cup Unmarking
  BY Branches
<1> USE <1>t, <1>k DEF Once, Outgoing, DistillGoto, Work, Leave, distillMeta, distillHist, distillCounts
<1>1. ASSUME NEW p \in Distillers, NEW s \in Chats, EndChat(p, s) PROVE Outgoing'
  BY <1>1 DEF EndChat, BeginDistill
<1>2. ASSUME NEW p \in Distillers, NEW s \in Chats, ResumeChat(p, s) PROVE Outgoing'
  BY <1>2 DEF ResumeChat, BeginDistill
<1>3. ASSUME NEW p \in Distillers, NEW s \in Chats, StartDistill(p, s) PROVE Outgoing'
  BY <1>3 DEF StartDistill, BeginDistill
<1>4. ASSUME NEW p \in Distillers, NEW s \in Chats, ApplyLive(p, s) PROVE Outgoing'
  BY <1>4 DEF ApplyLive, BeginDistill
<1>5. ASSUME NEW p \in Distillers, ClaimDistilled(p) PROVE Outgoing'
  <2>1. CASE Leave(p)
    BY <1>5, <2>1 DEF ClaimDistilled
  <2>2. CASE DistillGoto(p, "claim") /\ UNCHANGED <<chat, after, role, todo, copy, dlock>>
    BY <1>5, <2>2 DEF ClaimDistilled
  <2>3. QED
    BY ONLY <1>5, <2>1, <2>2 DEF ClaimDistilled
<1>6. ASSUME NEW p \in Distillers, ClaimChat(p) PROVE Outgoing'
  <2>1. CASE Leave(p)
    BY <1>6, <2>1 DEF ClaimChat
  <2>2. CASE Work(p, <<MarkPending>>) /\ UNCHANGED <<chat, after, role, copy, dlock>>
    BY <1>6, <2>2 DEF ClaimChat
  <2>3. QED
    BY ONLY <1>6, <2>1, <2>2 DEF ClaimChat
<1>7. ASSUME NEW p \in Distillers, CheckDistilled(p) PROVE Outgoing'
  <2>1. CASE Work(p, <<MarkPending>>) /\ requeued' = requeued \cup {chat[p]}
    BY <1>7, <2>1 DEF CheckDistilled
  <2>2. CASE Work(p, <<ClearPending>>) /\ UNCHANGED requeued
    BY <1>7, <2>2 DEF CheckDistilled
  <2>3. CASE Work(p, <<MarkDistilled, ClearPending>>) /\ UNCHANGED requeued
    BY <1>7, <2>3 DEF CheckDistilled
  <2>4. CASE DistillGoto(p, "lock") /\ UNCHANGED <<todo, requeued>>
    BY <1>7, <2>4 DEF CheckDistilled
  <2>5. QED
    BY ONLY <1>7, <2>1, <2>2, <2>3, <2>4 DEF CheckDistilled
<1>8. ASSUME NEW p \in Distillers, TryDistillLock(p) PROVE Outgoing'
  <2>1. CASE dlock' = p /\ DistillGoto(p, "ready") /\ UNCHANGED todo
    BY <1>8, <2>1 DEF TryDistillLock
  <2>2. CASE Work(p, <<MarkPending>>) /\ UNCHANGED dlock
    BY <1>8, <2>2 DEF TryDistillLock
  <2>3. QED
    BY ONLY <1>8, <2>1, <2>2 DEF TryDistillLock
<1>9. ASSUME NEW p \in Distillers, CallProvider(p) PROVE Outgoing'
  <2>1. CASE Work(p, <<MarkPending>>) /\ UNCHANGED called
    BY <1>9, <2>1 DEF CallProvider
  <2>2. CASE /\ called' = [called EXCEPT ![chat[p]] = @ + 1]
             /\ DistillGoto(p, "run") /\ UNCHANGED todo
    BY <1>9, <2>2 DEF CallProvider
  <2>3. QED
    BY ONLY <1>9, <2>1, <2>2 DEF CallProvider
<1>10. ASSUME NEW p \in Distillers, EndCall(p) PROVE Outgoing'
  <2>1. CASE Work(p, <<BumpFail, MarkPending>>)
    BY <1>10, <2>1 DEF EndCall
  <2>2. CASE Work(p, <<ClearFail, MarkDistilled, ClearPending>>)
    BY <1>10, <2>2 DEF EndCall
  <2>3. QED
    BY ONLY <1>10, <2>1, <2>2 DEF EndCall
<1>11. ASSUME NEW p \in Distillers, NEW s \in Chats, CaptureChat(p, s) PROVE Outgoing'
  BY <1>11 DEF CaptureChat, BeginDistill
<1>12. ASSUME NEW p \in Distillers, ReadRow(p) PROVE Outgoing'
  BY <1>12 DEF ReadRow
<1>13. ASSUME NEW p \in Distillers, WriteRow(p) PROVE Outgoing'
  <2>1. /\ todo[p] \in Lists /\ chat[p] \in Chats /\ dpc[p] = "do" /\ copy[p] # None /\ copy[p] \in RowsRead
        /\ RowsAfter(p, chat[p]) /\ FrameAfter(p)
        /\ outdated' = (outdated \cup {q \in Distillers \ {p} :
                /\ copy[q] # None /\ Head(todo[q])[1] = Head(todo[p])[1]
                /\ Head(todo[p])[1] = "failed" => chat[q] = chat[p]}) \ {p}
        /\ lostUpdate' = (lostUpdate \/ (p \in outdated /\ Head(todo[p])[1] # "failed"))
        /\ UNCHANGED <<doubled, mixed, requeued, dkills>>
    BY <1>13, WriteFacts DEF WriteRow
  <2>c. ~lostUpdate' => /\ ~lostUpdate
                        /\ Head(todo[p])[1] = "pending" => copy[p].ids = pending
                        /\ Head(todo[p])[1] = "distilled" => copy[p].ids = distilled
    BY <2>1 DEF FreshCopies
  <2>h. Head(todo[p]) \in Updates
    BY <2>1, ListFacts
  <2>r. ~lostUpdate' =>
        /\ pending' = CASE Head(todo[p]) = MarkPending -> pending \cup {chat[p]}
                        [] Head(todo[p]) = ClearPending -> pending \ {chat[p]}
                        [] OTHER -> pending
        /\ distilled' = CASE Head(todo[p]) = MarkDistilled -> distilled \cup {chat[p]}
                          [] Head(todo[p]) = UnmarkDistilled -> distilled \ {chat[p]}
                          [] OTHER -> distilled
        /\ queued' = IF Head(todo[p]) = MarkPending THEN queued \cup {chat[p]} ELSE queued
    BY <2>1, <2>c, <2>h, Keys DEF RowsAfter
  <2>2. SUFFICES ASSUME NEW x \in (pending' \cap distilled') \ (doubled \cup requeued)
                 PROVE  \E q \in Distillers : /\ chat'[q] = x
                                              /\ todo'[q] \in Clearing \cup Marking \cup Unmarking
    BY <2>1
  <2>3. ~lostUpdate /\ dkills = 0
    BY <2>1
  <2>4. PICK rest : rest = Tail(todo[p])
    OBVIOUS
  <2>g. /\ todo'[p] = rest /\ (rest # <<>> => chat'[p] = chat[p])
        /\ \A q \in Distillers \ {p} : todo'[q] = todo[q] /\ chat'[q] = chat[q]
    BY <2>1, <2>4 DEF FrameAfter
  <2>e. rest \in Clearing \cup Marking \cup Unmarking /\ x = chat[p]
          => \E q \in Distillers : /\ chat'[q] = x
                                   /\ todo'[q] \in Clearing \cup Marking \cup Unmarking
    BY <1>k, <2>g
  <2>5. CASE Head(todo[p]) = MarkDistilled /\ x = chat[p]
    <3>1. rest \in Clearing
      BY <2>1, <2>4, <2>5, ListFacts
    <3>2. QED
      BY ONLY <2>e, <2>5, <3>1
  <2>6. CASE Head(todo[p]) = MarkPending /\ x = chat[p]
    <3>1. todo[p] \in Queueing
      <4>1. todo[p] = <<MarkPending>>
        BY <2>1, <2>6, ListFacts
      <4>2. QED
        BY ONLY <4>1, Branches
    <3>d. distilled' = distilled
      BY <2>6, <2>r, Keys
    <3>2. chat[p] \notin distilled
      BY <2>2, <2>3, <2>6, <3>1 DEF Undistilled
    <3>3. QED
      BY <2>2, <2>6, <3>d, <3>2
  <2>7. CASE ~(Head(todo[p]) \in {MarkDistilled, MarkPending} /\ x = chat[p])
    <3>1. x \in pending \cap distilled
      BY <2>2, <2>7, <2>r, Keys
    <3>2. PICK q \in Distillers : chat[q] = x /\ todo[q] \in Clearing \cup Marking \cup Unmarking
      BY <2>2, <2>3, <3>1
    <3>3. CASE q # p
      BY <2>g, <3>2, <3>3
    <3>4. CASE q = p
      <4>1. Head(todo[p]) # ClearPending
        BY <2>2, <2>r, <3>2, <3>4, Keys
      <4>2. Head(todo[p]) \notin {MarkDistilled, MarkPending}
        BY <2>7, <3>2, <3>4
      <4>3. todo[p] \notin Queueing /\ todo[p] # <<ClearFail>>
        BY <3>2, <3>4, Branches
      <4>4. CASE Head(todo[p]) = UnmarkDistilled
        <5>1. Tail(todo[p]) = <<ClearPending>>
          BY <2>1, <4>4, ListFacts
        <5>2. <<ClearPending>> \in Clearing
          BY Branches
        <5>3. QED
          BY ONLY <2>e, <2>4, <3>2, <3>4, <5>1, <5>2
      <4>5. CASE Head(todo[p]) = ClearFail
        <5>1. Tail(todo[p]) = <<MarkDistilled, ClearPending>>
          BY <2>1, <4>3, <4>5, ListFacts
        <5>2. <<MarkDistilled, ClearPending>> \in Marking
          BY Branches
        <5>3. QED
          BY ONLY <2>e, <2>4, <3>2, <3>4, <5>1, <5>2
      <4>6. CASE Head(todo[p]) = BumpFail
        <5>1. todo[p] = <<BumpFail, MarkPending>>
          BY <2>1, <4>6, ListFacts
        <5>2. QED
          BY ONLY <4>3, <5>1, Branches
      <4>7. QED
        BY ONLY <2>h, <4>1, <4>2, <4>4, <4>5, <4>6 DEF Updates
    <3>5. QED
      BY <3>3, <3>4
  <2>8. QED
    BY ONLY <2>5, <2>6, <2>7
<1>14. ASSUME NEW p \in Distillers, ReadFails(p) PROVE Outgoing'
  BY <1>14 DEF ReadFails, Fault
<1>15. ASSUME NEW p \in Distillers, WriteFails(p) PROVE Outgoing'
  <2>1. /\ dpc[p] = "do" /\ todo[p] \in Lists /\ chat[p] \in Chats /\ FrameAfter(p) /\ dkills' = dkills + 1
        /\ UNCHANGED <<pending, distilled, failed, queued, called, lostUpdate, dropped, doubled, mixed, requeued>>
        /\ outdated' = outdated \ {p}
    BY <1>15, FrameFacts DEF WriteFails, Fault, distillMeta
  <2>2. QED
    BY <2>1 DEF FrameAfter
<1>16. ASSUME NEW p \in Distillers, KillDistiller(p) PROVE Outgoing'
  BY <1>16 DEF KillDistiller, Fault
<1>17. CASE UNCHANGED distillVars
  BY <1>17 DEF distillVars, distillFrame, distillMeta, distillHist, distillCounts
<1>18. QED
  BY <1>1, <1>2, <1>3, <1>4, <1>5, <1>6, <1>7, <1>8, <1>9, <1>10, <1>11, <1>12, <1>13,
     <1>14, <1>15, <1>16, <1>17 DEF DistillNext

\* When no process is at work, no distilled session is in the queue, unless an update was
\* lost, a process was killed or a statement failed, two worked on the session at once, or
\* a pause queued it.
THEOREM DistilledAskedOnce == DistillSpec => []AskedOnce
<1> DEFINE Inv == DistillTyped /\ Together /\ FreshCopies /\ Once
<1>1. DistillInit => Inv
  BY InitDistillTyped, InitTogether, InitOnce
<1>2. Inv /\ [DistillNext]_distillVars => Once'
  BY NextUndistilled, NextOutgoing DEF Once
<1>3. Inv /\ [DistillNext]_distillVars => Inv'
  BY <1>2, NextDistillTyped, NextTogether, NextFresh
<1>4. Inv => AskedOnce
  <2> SUFFICES ASSUME Inv, ~lostUpdate, dkills = 0, \A p \in Distillers : dpc[p] = "idle",
                      NEW s \in pending \cap distilled, s \notin doubled \cup requeued
               PROVE  FALSE
    BY DEF AskedOnce
  <2>1. PICK p \in Distillers : todo[p] \in Clearing \cup Marking \cup Unmarking
    BY DEF Once, Outgoing
  <2>2. todo[p] = <<>>
    BY DEF DistillTyped
  <2>3. QED
    BY <2>1, <2>2, Branches
<1> HIDE DEF Inv
<1>5. QED
  BY <1>1, <1>3, <1>4, PTL DEF DistillSpec

-----------------------------------------------------------------------------
(* How often the provider is called: each call since the count was reset is *)
(* counted as a failure, but for the one under way and those whose process  *)
(* was killed.                                                              *)

HasDistillLock == \A p \in Distillers :
    dpc[p] \in {"ready", "run"} \/ todo[p] = <<BumpFail, MarkPending>> => dlock = p
CallUnderWay(s) == \E p \in Distillers :
    /\ dlock = p /\ chat[p] = s
    /\ dpc[p] = "run" \/ todo[p] \in {<<BumpFail, MarkPending>>,
                                      <<ClearFail, MarkDistilled, ClearPending>>}
Counted == \A s \in Chats :
    \/ called[s] =< failed[s] + dkills
    \/ CallUnderWay(s) /\ called[s] =< failed[s] + dkills + 1
ReadCount == \A p \in Distillers :
    todo[p] = <<BumpFail, MarkPending>> /\ copy[p] # None
       => \/ called[chat[p]] =< copy[p].fails + dkills + 1
          \/ called[chat[p]] =< failed[chat[p]] + dkills

\* There were no calls at first.
LEMMA InitCounted == DistillInit => HasDistillLock /\ Counted /\ ReadCount /\ DistillCallsBounded
  BY DistillAssumption DEF DistillInit, HasDistillLock, Counted, ReadCount, DistillCallsBounded

\* The provider is called, and its failure counted, under the lock.
LEMMA NextHasDistillLock == DistillTyped /\ HasDistillLock /\ [DistillNext]_distillVars => HasDistillLock'
<1> SUFFICES ASSUME DistillTyped, HasDistillLock, [DistillNext]_distillVars PROVE HasDistillLock'
  OBVIOUS
<1>t. /\ todo \in [Distillers -> Lists \cup {<<>>}] /\ dpc \in [Distillers -> DistillSteps]
      /\ \A p \in Distillers : dpc[p] = "do" <=> todo[p] # <<>>
      /\ dlock \in Distillers \cup {None} /\ None \notin Distillers
  BY DistillAssumption DEF DistillTyped
<1>k. <<BumpFail, MarkPending>> \notin {<<>>, <<ClearPending>>, <<MarkPending>>, <<MarkDistilled, ClearPending>>,
         <<ClearFail, MarkDistilled, ClearPending>>, <<MarkDistilled, ClearPending, ClearFail>>,
         <<UnmarkDistilled, ClearPending>>}
  BY Keys
<1> USE <1>t, <1>k DEF HasDistillLock, DistillGoto, Work, Leave, distillMeta, distillHist, distillCounts
<1>1. ASSUME NEW p \in Distillers, NEW s \in Chats, EndChat(p, s) PROVE HasDistillLock'
  BY <1>1 DEF EndChat, BeginDistill
<1>2. ASSUME NEW p \in Distillers, NEW s \in Chats, ResumeChat(p, s) PROVE HasDistillLock'
  BY <1>2 DEF ResumeChat, BeginDistill
<1>3. ASSUME NEW p \in Distillers, NEW s \in Chats, StartDistill(p, s) PROVE HasDistillLock'
  BY <1>3 DEF StartDistill, BeginDistill
<1>4. ASSUME NEW p \in Distillers, NEW s \in Chats, ApplyLive(p, s) PROVE HasDistillLock'
  BY <1>4 DEF ApplyLive, BeginDistill
<1>5. ASSUME NEW p \in Distillers, ClaimDistilled(p) PROVE HasDistillLock'
  <2>1. CASE Leave(p)
    BY <1>5, <2>1 DEF ClaimDistilled
  <2>2. CASE DistillGoto(p, "claim") /\ UNCHANGED <<chat, after, role, todo, copy, dlock>>
    BY <1>5, <2>2 DEF ClaimDistilled
  <2>3. QED
    BY ONLY <1>5, <2>1, <2>2 DEF ClaimDistilled
<1>6. ASSUME NEW p \in Distillers, ClaimChat(p) PROVE HasDistillLock'
  <2>1. CASE Leave(p)
    BY <1>6, <2>1 DEF ClaimChat
  <2>2. CASE Work(p, <<MarkPending>>) /\ UNCHANGED <<chat, after, role, copy, dlock>>
    BY <1>6, <2>2 DEF ClaimChat
  <2>3. QED
    BY ONLY <1>6, <2>1, <2>2 DEF ClaimChat
<1>7. ASSUME NEW p \in Distillers, CheckDistilled(p) PROVE HasDistillLock'
  <2>1. CASE Work(p, <<MarkPending>>) /\ requeued' = requeued \cup {chat[p]}
    BY <1>7, <2>1 DEF CheckDistilled
  <2>2. CASE Work(p, <<ClearPending>>) /\ UNCHANGED requeued
    BY <1>7, <2>2 DEF CheckDistilled
  <2>3. CASE Work(p, <<MarkDistilled, ClearPending>>) /\ UNCHANGED requeued
    BY <1>7, <2>3 DEF CheckDistilled
  <2>4. CASE DistillGoto(p, "lock") /\ UNCHANGED <<todo, requeued>>
    BY <1>7, <2>4 DEF CheckDistilled
  <2>5. QED
    BY ONLY <1>7, <2>1, <2>2, <2>3, <2>4 DEF CheckDistilled
<1>8. ASSUME NEW p \in Distillers, TryDistillLock(p) PROVE HasDistillLock'
  <2>1. CASE dlock' = p /\ DistillGoto(p, "ready") /\ UNCHANGED todo
    BY <1>8, <2>1 DEF TryDistillLock
  <2>2. CASE Work(p, <<MarkPending>>) /\ UNCHANGED dlock
    BY <1>8, <2>2 DEF TryDistillLock
  <2>3. QED
    BY ONLY <1>8, <2>1, <2>2 DEF TryDistillLock
<1>9. ASSUME NEW p \in Distillers, CallProvider(p) PROVE HasDistillLock'
  <2>1. CASE Work(p, <<MarkPending>>) /\ UNCHANGED called
    BY <1>9, <2>1 DEF CallProvider
  <2>2. CASE /\ called' = [called EXCEPT ![chat[p]] = @ + 1]
             /\ DistillGoto(p, "run") /\ UNCHANGED todo
    BY <1>9, <2>2 DEF CallProvider
  <2>3. QED
    BY ONLY <1>9, <2>1, <2>2 DEF CallProvider
<1>10. ASSUME NEW p \in Distillers, EndCall(p) PROVE HasDistillLock'
  <2>1. CASE Work(p, <<BumpFail, MarkPending>>)
    BY <1>10, <2>1 DEF EndCall
  <2>2. CASE Work(p, <<ClearFail, MarkDistilled, ClearPending>>)
    BY <1>10, <2>2 DEF EndCall
  <2>3. QED
    BY ONLY <1>10, <2>1, <2>2 DEF EndCall
<1>11. ASSUME NEW p \in Distillers, NEW s \in Chats, CaptureChat(p, s) PROVE HasDistillLock'
  BY <1>11 DEF CaptureChat, BeginDistill
<1>12. ASSUME NEW p \in Distillers, ReadRow(p) PROVE HasDistillLock'
  BY <1>12 DEF ReadRow
<1>13. ASSUME NEW p \in Distillers, WriteRow(p) PROVE HasDistillLock'
  <2>1. /\ todo[p] \in Lists /\ chat[p] \in Chats /\ dpc[p] = "do" /\ copy[p] # None /\ copy[p] \in RowsRead
        /\ RowsAfter(p, chat[p]) /\ FrameAfter(p)
        /\ outdated' = (outdated \cup {q \in Distillers \ {p} :
                /\ copy[q] # None /\ Head(todo[q])[1] = Head(todo[p])[1]
                /\ Head(todo[p])[1] = "failed" => chat[q] = chat[p]}) \ {p}
        /\ lostUpdate' = (lostUpdate \/ (p \in outdated /\ Head(todo[p])[1] # "failed"))
        /\ UNCHANGED <<doubled, mixed, requeued, dkills>>
    BY <1>13, WriteFacts DEF WriteRow
  <2>2. PICK rest : rest = Tail(todo[p])
    OBVIOUS
  <2>3. /\ todo'[p] = rest /\ \A q \in Distillers \ {p} : todo'[q] = todo[q]
        /\ copy'[p] = None /\ \A q \in Distillers \ {p} : copy'[q] = copy[q]
        /\ \A q \in Distillers \ {p} : dpc'[q] = dpc[q] /\ chat'[q] = chat[q]
        /\ dlock' = dlock \/ (dlock = p /\ dlock' = None)
        /\ dpc'[p] \in {"do", "begin", "check", "idle"}
    BY <2>1, <2>2, <1>t DEF FrameAfter, DistillTyped
  <2>h. Head(todo[p]) \in Updates
    BY <2>1, ListFacts
  <2>4. rest # <<BumpFail, MarkPending>>
    <3>1. /\ Head(todo[p]) = MarkPending => rest = <<>>
          /\ Head(todo[p]) = BumpFail => rest = <<MarkPending>>
          /\ Head(todo[p]) = ClearPending => rest \in {<<>>, <<ClearFail>>}
          /\ Head(todo[p]) = ClearFail => rest \in {<<>>, <<MarkDistilled, ClearPending>>}
          /\ Head(todo[p]) = MarkDistilled => rest \in Clearing
          /\ Head(todo[p]) = UnmarkDistilled => rest = <<ClearPending>>
      BY <2>1, <2>2, ListFacts
    <3>2. <<BumpFail, MarkPending>> \notin Clearing \cup {<<>>, <<MarkPending>>, <<ClearFail>>,
             <<MarkDistilled, ClearPending>>, <<ClearPending>>}
      <4>1. <<BumpFail, MarkPending>> \notin Clearing
        BY Branches
      <4>2. <<BumpFail, MarkPending>> \notin {<<>>, <<MarkPending>>, <<ClearFail>>,
             <<MarkDistilled, ClearPending>>, <<ClearPending>>}
        BY Keys
      <4>3. QED
        BY ONLY <4>1, <4>2
    <3>3. QED
      BY ONLY <2>h, <3>1, <3>2 DEF Updates
  <2>5. QED
    BY ONLY HasDistillLock, <1>t, <2>3, <2>4, p \in Distillers DEF HasDistillLock
<1>14. ASSUME NEW p \in Distillers, ReadFails(p) PROVE HasDistillLock'
  BY <1>14 DEF ReadFails, Fault
<1>15. ASSUME NEW p \in Distillers, WriteFails(p) PROVE HasDistillLock'
  <2>1. todo[p] \in Lists /\ chat[p] \in Chats /\ FrameAfter(p)
    <3>1. dpc[p] = "do" /\ NextUpdate(p)
      BY ONLY <1>15 DEF WriteFails
    <3>2. QED
      BY ONLY <3>1, DistillTyped, p \in Distillers, FrameFacts
  <2>2. PICK rest : rest = Tail(todo[p])
    OBVIOUS
  <2>3. /\ todo'[p] = rest /\ \A q \in Distillers \ {p} : todo'[q] = todo[q]
        /\ copy'[p] = None /\ \A q \in Distillers \ {p} : copy'[q] = copy[q]
        /\ \A q \in Distillers \ {p} : dpc'[q] = dpc[q] /\ chat'[q] = chat[q]
        /\ dlock' = dlock \/ (dlock = p /\ dlock' = None)
        /\ dpc'[p] \in {"do", "begin", "check", "idle"}
    BY <2>1, <2>2, <1>t DEF FrameAfter, DistillTyped
  <2>h. Head(todo[p]) \in Updates
    BY <2>1, ListFacts
  <2>4. rest # <<BumpFail, MarkPending>>
    <3>1. /\ Head(todo[p]) = MarkPending => rest = <<>>
          /\ Head(todo[p]) = BumpFail => rest = <<MarkPending>>
          /\ Head(todo[p]) = ClearPending => rest \in {<<>>, <<ClearFail>>}
          /\ Head(todo[p]) = ClearFail => rest \in {<<>>, <<MarkDistilled, ClearPending>>}
          /\ Head(todo[p]) = MarkDistilled => rest \in Clearing
          /\ Head(todo[p]) = UnmarkDistilled => rest = <<ClearPending>>
      BY <2>1, <2>2, ListFacts
    <3>2. <<BumpFail, MarkPending>> \notin Clearing \cup {<<>>, <<MarkPending>>, <<ClearFail>>,
             <<MarkDistilled, ClearPending>>, <<ClearPending>>}
      <4>1. <<BumpFail, MarkPending>> \notin Clearing
        BY Branches
      <4>2. <<BumpFail, MarkPending>> \notin {<<>>, <<MarkPending>>, <<ClearFail>>,
             <<MarkDistilled, ClearPending>>, <<ClearPending>>}
        BY Keys
      <4>3. QED
        BY ONLY <4>1, <4>2
    <3>3. QED
      BY ONLY <2>h, <3>1, <3>2 DEF Updates
  <2>5. QED
    BY ONLY HasDistillLock, <1>t, <2>3, <2>4, p \in Distillers DEF HasDistillLock
<1>16. ASSUME NEW p \in Distillers, KillDistiller(p) PROVE HasDistillLock'
  BY <1>16 DEF KillDistiller, Fault
<1>17. CASE UNCHANGED distillVars
  BY <1>17 DEF distillVars, distillFrame, distillMeta, distillHist, distillCounts
<1>18. QED
  BY <1>1, <1>2, <1>3, <1>4, <1>5, <1>6, <1>7, <1>8, <1>9, <1>10, <1>11, <1>12, <1>13,
     <1>14, <1>15, <1>16, <1>17 DEF DistillNext

\* A call stays under way while another process moves on.
LEMMA StaysUnderWay ==
  ASSUME Counted, None \notin Distillers, NEW p \in Distillers,
         dpc[p] # "run", todo[p] = <<>>,
         \A q \in Distillers \ {p} : dpc'[q] = dpc[q] /\ todo'[q] = todo[q] /\ chat'[q] = chat[q],
         dlock \in {p, None} \/ dlock' = dlock,
         called' = called, failed' = failed, dkills' = dkills
  PROVE  Counted'
<1>1. <<>> \notin {<<BumpFail, MarkPending>>, <<ClearFail, MarkDistilled, ClearPending>>}
  OBVIOUS
<1>2. ASSUME NEW s \in Chats, CallUnderWay(s) PROVE CallUnderWay(s)'
  BY <1>1, <1>2 DEF CallUnderWay
<1>3. QED
  BY <1>2 DEF Counted

\* A call is counted, its answer resets the count, it is left out, or it is cut short by a kill.
LEMMA NextCounted ==
  DistillTyped /\ HasDistillLock /\ Counted /\ ReadCount /\ [DistillNext]_distillVars => Counted'
<1> SUFFICES ASSUME DistillTyped, HasDistillLock, Counted, ReadCount, [DistillNext]_distillVars
             PROVE  Counted'
  OBVIOUS
<1>t. /\ todo \in [Distillers -> Lists \cup {<<>>}] /\ dpc \in [Distillers -> DistillSteps]
      /\ chat \in [Distillers -> Chats \cup {None}]
      /\ failed \in [Chats -> Nat] /\ called \in [Chats -> Nat] /\ dkills \in Nat
      /\ \A p \in Distillers : dpc[p] = "do" <=> todo[p] # <<>>
      /\ \A p \in Distillers : dpc[p] = "idle" <=> chat[p] = None
      /\ dlock \in Distillers \cup {None} /\ None \notin Distillers \cup Chats
  BY DistillAssumption DEF DistillTyped
<1> USE <1>t DEF Counted, CallUnderWay, DistillGoto, Work, Leave, distillMeta, distillHist, distillCounts
<1>1. ASSUME NEW p \in Distillers, NEW s \in Chats, EndChat(p, s) PROVE Counted'
  BY <1>1 DEF EndChat, BeginDistill
<1>2. ASSUME NEW p \in Distillers, NEW s \in Chats, ResumeChat(p, s) PROVE Counted'
  BY <1>2 DEF ResumeChat, BeginDistill
<1>3. ASSUME NEW p \in Distillers, NEW s \in Chats, StartDistill(p, s) PROVE Counted'
  BY <1>3 DEF StartDistill, BeginDistill
<1>4. ASSUME NEW p \in Distillers, NEW s \in Chats, ApplyLive(p, s) PROVE Counted'
  BY <1>4 DEF ApplyLive, BeginDistill
<1>5. ASSUME NEW p \in Distillers, ClaimDistilled(p) PROVE Counted'
  <2>1. CASE Leave(p)
    <3>1. dpc[p] # "run" /\ todo[p] = <<>>
      BY <1>5, <1>t DEF ClaimDistilled
    <3>2. /\ \A q \in Distillers \ {p} : dpc'[q] = dpc[q] /\ todo'[q] = todo[q] /\ chat'[q] = chat[q]
          /\ dlock = p \/ dlock' = dlock
          /\ called' = called /\ failed' = failed /\ dkills' = dkills
      BY <1>5, <2>1 DEF ClaimDistilled
    <3>3. QED
      BY <3>1, <3>2, StaysUnderWay
  <2>2. CASE DistillGoto(p, "claim") /\ UNCHANGED <<chat, after, role, todo, copy, dlock>>
    <3>1. dpc[p] # "run" /\ todo[p] = <<>>
      BY <1>5, <1>t DEF ClaimDistilled
    <3>2. /\ \A q \in Distillers \ {p} : dpc'[q] = dpc[q] /\ todo'[q] = todo[q] /\ chat'[q] = chat[q]
          /\ dlock = p \/ dlock' = dlock
          /\ called' = called /\ failed' = failed /\ dkills' = dkills
      BY <1>5, <2>2 DEF ClaimDistilled
    <3>3. QED
      BY <3>1, <3>2, StaysUnderWay
  <2>3. QED
    BY ONLY <1>5, <2>1, <2>2 DEF ClaimDistilled
<1>6. ASSUME NEW p \in Distillers, ClaimChat(p) PROVE Counted'
  <2>1. CASE Leave(p)
    <3>1. dpc[p] # "run" /\ todo[p] = <<>>
      BY <1>6, <1>t DEF ClaimChat
    <3>2. /\ \A q \in Distillers \ {p} : dpc'[q] = dpc[q] /\ todo'[q] = todo[q] /\ chat'[q] = chat[q]
          /\ dlock = p \/ dlock' = dlock
          /\ called' = called /\ failed' = failed /\ dkills' = dkills
      BY <1>6, <2>1 DEF ClaimChat
    <3>3. QED
      BY <3>1, <3>2, StaysUnderWay
  <2>2. CASE Work(p, <<MarkPending>>) /\ UNCHANGED <<chat, after, role, copy, dlock>>
    <3>1. dpc[p] # "run" /\ todo[p] = <<>>
      BY <1>6, <1>t DEF ClaimChat
    <3>2. /\ \A q \in Distillers \ {p} : dpc'[q] = dpc[q] /\ todo'[q] = todo[q] /\ chat'[q] = chat[q]
          /\ dlock = p \/ dlock' = dlock
          /\ called' = called /\ failed' = failed /\ dkills' = dkills
      BY <1>6, <2>2 DEF ClaimChat
    <3>3. QED
      BY <3>1, <3>2, StaysUnderWay
  <2>3. QED
    BY ONLY <1>6, <2>1, <2>2 DEF ClaimChat
<1>7. ASSUME NEW p \in Distillers, CheckDistilled(p) PROVE Counted'
  <2>1. CASE Work(p, <<MarkPending>>) /\ requeued' = requeued \cup {chat[p]}
    <3>1. dpc[p] # "run" /\ todo[p] = <<>>
      BY <1>7, <1>t DEF CheckDistilled
    <3>2. /\ \A q \in Distillers \ {p} : dpc'[q] = dpc[q] /\ todo'[q] = todo[q] /\ chat'[q] = chat[q]
          /\ dlock = p \/ dlock' = dlock
          /\ called' = called /\ failed' = failed /\ dkills' = dkills
      BY <1>7, <2>1 DEF CheckDistilled
    <3>3. QED
      BY <3>1, <3>2, StaysUnderWay
  <2>2. CASE Work(p, <<ClearPending>>) /\ UNCHANGED requeued
    <3>1. dpc[p] # "run" /\ todo[p] = <<>>
      BY <1>7, <1>t DEF CheckDistilled
    <3>2. /\ \A q \in Distillers \ {p} : dpc'[q] = dpc[q] /\ todo'[q] = todo[q] /\ chat'[q] = chat[q]
          /\ dlock = p \/ dlock' = dlock
          /\ called' = called /\ failed' = failed /\ dkills' = dkills
      BY <1>7, <2>2 DEF CheckDistilled
    <3>3. QED
      BY <3>1, <3>2, StaysUnderWay
  <2>3. CASE Work(p, <<MarkDistilled, ClearPending>>) /\ UNCHANGED requeued
    <3>1. dpc[p] # "run" /\ todo[p] = <<>>
      BY <1>7, <1>t DEF CheckDistilled
    <3>2. /\ \A q \in Distillers \ {p} : dpc'[q] = dpc[q] /\ todo'[q] = todo[q] /\ chat'[q] = chat[q]
          /\ dlock = p \/ dlock' = dlock
          /\ called' = called /\ failed' = failed /\ dkills' = dkills
      BY <1>7, <2>3 DEF CheckDistilled
    <3>3. QED
      BY <3>1, <3>2, StaysUnderWay
  <2>4. CASE DistillGoto(p, "lock") /\ UNCHANGED <<todo, requeued>>
    <3>1. dpc[p] # "run" /\ todo[p] = <<>>
      BY <1>7, <1>t DEF CheckDistilled
    <3>2. /\ \A q \in Distillers \ {p} : dpc'[q] = dpc[q] /\ todo'[q] = todo[q] /\ chat'[q] = chat[q]
          /\ dlock = p \/ dlock' = dlock
          /\ called' = called /\ failed' = failed /\ dkills' = dkills
      BY <1>7, <2>4 DEF CheckDistilled
    <3>3. QED
      BY <3>1, <3>2, StaysUnderWay
  <2>5. QED
    BY ONLY <1>7, <2>1, <2>2, <2>3, <2>4 DEF CheckDistilled
<1>8. ASSUME NEW p \in Distillers, TryDistillLock(p) PROVE Counted'
  <2>1. CASE dlock = None /\ dlock' = p /\ DistillGoto(p, "ready") /\ UNCHANGED todo
    <3>1. dpc[p] # "run" /\ todo[p] = <<>>
      BY <1>8, <1>t DEF TryDistillLock
    <3>2. /\ \A q \in Distillers \ {p} : dpc'[q] = dpc[q] /\ todo'[q] = todo[q] /\ chat'[q] = chat[q]
          /\ dlock \in {p, None} \/ dlock' = dlock
          /\ called' = called /\ failed' = failed /\ dkills' = dkills
      BY <1>8, <2>1 DEF TryDistillLock
    <3>3. QED
      BY <3>1, <3>2, StaysUnderWay
  <2>2. CASE Work(p, <<MarkPending>>) /\ UNCHANGED dlock
    <3>1. dpc[p] # "run" /\ todo[p] = <<>>
      BY <1>8, <1>t DEF TryDistillLock
    <3>2. /\ \A q \in Distillers \ {p} : dpc'[q] = dpc[q] /\ todo'[q] = todo[q] /\ chat'[q] = chat[q]
          /\ dlock = p \/ dlock' = dlock
          /\ called' = called /\ failed' = failed /\ dkills' = dkills
      BY <1>8, <2>2 DEF TryDistillLock
    <3>3. QED
      BY <3>1, <3>2, StaysUnderWay
  <2>3. QED
    BY ONLY <1>8, <2>1, <2>2 DEF TryDistillLock
<1>9. ASSUME NEW p \in Distillers, CallProvider(p) PROVE Counted'
  <2>1. CASE Work(p, <<MarkPending>>) /\ UNCHANGED called
    <3>1. dpc[p] # "run" /\ todo[p] = <<>>
      BY <1>9, <1>t DEF CallProvider
    <3>2. /\ \A q \in Distillers \ {p} : dpc'[q] = dpc[q] /\ todo'[q] = todo[q] /\ chat'[q] = chat[q]
          /\ dlock = p \/ dlock' = dlock
          /\ called' = called /\ failed' = failed /\ dkills' = dkills
      BY <1>9, <2>1 DEF CallProvider
    <3>3. QED
      BY <3>1, <3>2, StaysUnderWay
  <2>2. CASE /\ called' = [called EXCEPT ![chat[p]] = @ + 1]
             /\ DistillGoto(p, "run") /\ UNCHANGED todo
    <3>1. /\ dlock = p /\ dpc[p] = "ready" /\ todo[p] = <<>> /\ chat[p] \in Chats
          /\ dlock' = p /\ dpc'[p] = "run" /\ chat' = chat /\ failed' = failed /\ dkills' = dkills
      BY <1>9, <2>2, <1>t DEF CallProvider, HasDistillLock
    <3>2. <<>> \notin {<<BumpFail, MarkPending>>, <<ClearFail, MarkDistilled, ClearPending>>}
      OBVIOUS
    <3>3. \A s \in Chats : ~CallUnderWay(s)
      BY <3>1, <3>2
    <3>4. \A s \in Chats : called[s] =< failed[s] + dkills
      BY <3>3
    <3>5. CallUnderWay(chat[p])'
      BY <3>1
    <3>6. ASSUME NEW s \in Chats
          PROVE  \/ called'[s] =< failed'[s] + dkills'
                 \/ s = chat[p] /\ called'[s] =< failed'[s] + dkills' + 1
      BY <3>1, <3>4, <2>2
    <3>7. QED
      BY <3>1, <3>5, <3>6
  <2>3. QED
    BY ONLY <1>9, <2>1, <2>2 DEF CallProvider
<1>10. ASSUME NEW p \in Distillers, EndCall(p) PROVE Counted'
  <2>1. CASE Work(p, <<BumpFail, MarkPending>>)
    BY <1>10, <2>1 DEF EndCall
  <2>2. CASE Work(p, <<ClearFail, MarkDistilled, ClearPending>>)
    BY <1>10, <2>2 DEF EndCall
  <2>3. QED
    BY ONLY <1>10, <2>1, <2>2 DEF EndCall
<1>11. ASSUME NEW p \in Distillers, NEW s \in Chats, CaptureChat(p, s) PROVE Counted'
  BY <1>11 DEF CaptureChat, BeginDistill
<1>12. ASSUME NEW p \in Distillers, ReadRow(p) PROVE Counted'
  BY <1>12 DEF ReadRow
<1>13. ASSUME NEW p \in Distillers, WriteRow(p) PROVE Counted'
  <2>1. /\ todo[p] \in Lists /\ chat[p] \in Chats /\ dpc[p] = "do" /\ copy[p] # None /\ copy[p] \in RowsRead
        /\ RowsAfter(p, chat[p]) /\ FrameAfter(p)
        /\ outdated' = (outdated \cup {q \in Distillers \ {p} :
                /\ copy[q] # None /\ Head(todo[q])[1] = Head(todo[p])[1]
                /\ Head(todo[p])[1] = "failed" => chat[q] = chat[p]}) \ {p}
        /\ lostUpdate' = (lostUpdate \/ (p \in outdated /\ Head(todo[p])[1] # "failed"))
        /\ UNCHANGED <<doubled, mixed, requeued, dkills>>
    BY <1>13, WriteFacts DEF WriteRow
  <2>2. PICK rest : rest = Tail(todo[p])
    OBVIOUS
  <2>3. /\ todo'[p] = rest /\ \A q \in Distillers \ {p} : todo'[q] = todo[q]
        /\ copy'[p] = None /\ \A q \in Distillers \ {p} : copy'[q] = copy[q]
        /\ \A q \in Distillers \ {p} : dpc'[q] = dpc[q] /\ chat'[q] = chat[q]
        /\ dlock' = dlock \/ (dlock = p /\ dlock' = None)
        /\ dpc'[p] \in {"do", "begin", "check", "idle"}
    BY <2>1, <2>2, <1>t DEF FrameAfter, DistillTyped
  <2>h. Head(todo[p]) \in Updates
    BY <2>1, ListFacts
  <2>4. SUFFICES ASSUME NEW s \in Chats
                 PROVE  \/ called'[s] =< failed'[s] + dkills
                        \/ CallUnderWay(s)' /\ called'[s] =< failed'[s] + dkills + 1
    BY <2>1
  <2>5. CASE s = chat[p] /\ Head(todo[p]) = ClearFail
    BY <2>1, <2>5, Keys DEF RowsAfter
  <2>6. CASE s = chat[p] /\ Head(todo[p]) = BumpFail
    <3>1. todo[p] = <<BumpFail, MarkPending>>
      BY <2>1, <2>6, ListFacts
    <3>2. \/ called[s] =< copy[p].fails + dkills + 1
          \/ called[s] =< failed[s] + dkills
      BY <2>1, <2>6, <3>1 DEF ReadCount
    <3>3. /\ called'[s] = IF copy[p].fails + 1 < failed[s] THEN 0 ELSE called[s]
          /\ failed'[s] = copy[p].fails + 1 /\ copy[p].fails \in Nat
      BY <2>1, <2>6, Keys DEF RowsAfter, RowsRead
    <3>4. CASE copy[p].fails + 1 < failed[s]
      BY <3>3, <3>4
    <3>5. CASE ~(copy[p].fails + 1 < failed[s])
      BY <3>2, <3>3, <3>5, <1>t
    <3>6. QED
      BY <3>4, <3>5
  <2>7. CASE ~(s = chat[p] /\ Head(todo[p]) \in {ClearFail, BumpFail})
    <3>1. called'[s] = called[s] /\ failed'[s] = failed[s]
      BY <2>1, <2>7 DEF RowsAfter
    <3>2. CASE called[s] =< failed[s] + dkills
      BY <3>1, <3>2
    <3>3. CASE CallUnderWay(s) /\ called[s] =< failed[s] + dkills + 1
      <4>1. PICK q \in Distillers : /\ dlock = q /\ chat[q] = s
                                    /\ dpc[q] = "run" \/ todo[q] \in {<<BumpFail, MarkPending>>,
                                          <<ClearFail, MarkDistilled, ClearPending>>}
        BY <3>3
      <4>2. q # p
        <5>1. Head(<<BumpFail, MarkPending>>) = BumpFail
              /\ Head(<<ClearFail, MarkDistilled, ClearPending>>) = ClearFail
          OBVIOUS
        <5>2. QED
          BY <2>1, <2>7, <4>1, <5>1
      <4>3. dlock' = q
        BY <2>3, <4>1, <4>2
      <4>4. CallUnderWay(s)'
        BY <2>3, <4>1, <4>2, <4>3
      <4>5. QED
        BY <3>1, <3>3, <4>4
    <3>4. QED
      BY <3>2, <3>3
  <2>8. QED
    BY <2>5, <2>6, <2>7
<1>14. ASSUME NEW p \in Distillers, ReadFails(p) PROVE Counted'
  <2>1. /\ dkills' = dkills + 1 /\ failed' = failed
        /\ \/ called' = called
           \/ chat[p] \in Chats /\ called' = [called EXCEPT ![chat[p]] = @ + 1]
    <3>1. dkills' = dkills + 1 /\ failed' = failed
      BY <1>14 DEF ReadFails, Fault
    <3>2. \/ called' = called
          \/ dpc[p] = "ready" /\ called' = [called EXCEPT ![chat[p]] = @ + 1]
      BY ONLY <1>14 DEF ReadFails
    <3>3. dpc[p] = "ready" => chat[p] \in Chats
      BY <1>t
    <3>4. QED
      BY ONLY <3>1, <3>2, <3>3
  <2>2. ASSUME NEW s \in Chats PROVE called'[s] =< called[s] + 1 /\ called'[s] \in Nat
    <3>1. called[s] \in Nat
      BY ONLY <1>t, s \in Chats
    <3>2. called'[s] \in {called[s], called[s] + 1}
      BY ONLY <1>t, <2>1, s \in Chats
    <3>3. QED
      BY ONLY <3>1, <3>2
  <2>3. CASE called' = called
    <3>1. \A s \in Chats : called[s] =< failed[s] + dkills + 1
      BY <1>t DEF Counted
    <3>2. QED
      BY <2>1, <2>3, <3>1, <1>t
  <2>4. CASE called' # called
    <3>1. /\ dpc[p] = "ready" /\ dpc'[p] = "run" /\ dlock = p /\ dlock' = p /\ chat' = chat /\ todo[p] = <<>>
      BY <1>14, <2>4, <1>t DEF ReadFails, HasDistillLock
    <3>2. <<>> \notin {<<BumpFail, MarkPending>>, <<ClearFail, MarkDistilled, ClearPending>>}
      OBVIOUS
    <3>3. \A s \in Chats : called[s] =< failed[s] + dkills
      BY <3>1, <3>2 DEF Counted, CallUnderWay
    <3>4. QED
      BY <2>1, <2>2, <3>3, <1>t
  <2>5. QED
    BY ONLY <2>3, <2>4
<1>15. ASSUME NEW p \in Distillers, WriteFails(p) PROVE Counted'
  <2>1. called' = called /\ failed' = failed /\ dkills' = dkills + 1
    BY <1>15 DEF WriteFails, Fault
  <2>2. \A s \in Chats : called[s] =< failed[s] + dkills + 1
    BY <1>t DEF Counted
  <2>3. QED
    BY <2>1, <2>2, <1>t
<1>16. ASSUME NEW p \in Distillers, KillDistiller(p) PROVE Counted'
  BY <1>16 DEF KillDistiller, Fault
<1>17. CASE UNCHANGED distillVars
  BY <1>17 DEF distillVars, distillFrame, distillMeta, distillHist, distillCounts
<1>18. QED
  BY <1>1, <1>2, <1>3, <1>4, <1>5, <1>6, <1>7, <1>8, <1>9, <1>10, <1>11, <1>12, <1>13,
     <1>14, <1>15, <1>16, <1>17 DEF DistillNext

\* What a process has read of the count is not below the calls, but for its own.
LEMMA NextReadCount ==
  DistillTyped /\ HasDistillLock /\ Counted /\ ReadCount /\ [DistillNext]_distillVars => ReadCount'
<1> SUFFICES ASSUME DistillTyped, HasDistillLock, Counted, ReadCount, [DistillNext]_distillVars
             PROVE  ReadCount'
  OBVIOUS
<1>t. /\ todo \in [Distillers -> Lists \cup {<<>>}] /\ dpc \in [Distillers -> DistillSteps]
      /\ chat \in [Distillers -> Chats \cup {None}] /\ copy \in [Distillers -> RowsRead \cup {None}]
      /\ failed \in [Chats -> Nat] /\ called \in [Chats -> Nat] /\ dkills \in Nat
      /\ \A p \in Distillers : dpc[p] = "do" <=> todo[p] # <<>>
      /\ \A p \in Distillers : dpc[p] = "idle" <=> chat[p] = None
      /\ \A p \in Distillers : dpc[p] # "do" => copy[p] = None
      /\ dlock \in Distillers \cup {None} /\ None \notin Distillers \cup Chats
      /\ \A p \in Distillers : copy[p] # None => copy[p].fails \in Nat
  BY DistillAssumption DEF DistillTyped, RowsRead
<1> USE <1>t DEF ReadCount, DistillGoto, Work, Leave, distillMeta, distillHist, distillCounts
<1>1. ASSUME NEW p \in Distillers, NEW s \in Chats, EndChat(p, s) PROVE ReadCount'
  BY <1>1 DEF EndChat, BeginDistill
<1>2. ASSUME NEW p \in Distillers, NEW s \in Chats, ResumeChat(p, s) PROVE ReadCount'
  BY <1>2 DEF ResumeChat, BeginDistill
<1>3. ASSUME NEW p \in Distillers, NEW s \in Chats, StartDistill(p, s) PROVE ReadCount'
  BY <1>3 DEF StartDistill, BeginDistill
<1>4. ASSUME NEW p \in Distillers, NEW s \in Chats, ApplyLive(p, s) PROVE ReadCount'
  BY <1>4 DEF ApplyLive, BeginDistill
<1>5. ASSUME NEW p \in Distillers, ClaimDistilled(p) PROVE ReadCount'
  <2>1. CASE Leave(p)
    BY <1>5, <2>1 DEF ClaimDistilled
  <2>2. CASE DistillGoto(p, "claim") /\ UNCHANGED <<chat, after, role, todo, copy, dlock>>
    BY <1>5, <2>2 DEF ClaimDistilled
  <2>3. QED
    BY ONLY <1>5, <2>1, <2>2 DEF ClaimDistilled
<1>6. ASSUME NEW p \in Distillers, ClaimChat(p) PROVE ReadCount'
  <2>1. CASE Leave(p)
    BY <1>6, <2>1 DEF ClaimChat
  <2>2. CASE Work(p, <<MarkPending>>) /\ UNCHANGED <<chat, after, role, copy, dlock>>
    BY <1>6, <2>2 DEF ClaimChat
  <2>3. QED
    BY ONLY <1>6, <2>1, <2>2 DEF ClaimChat
<1>7. ASSUME NEW p \in Distillers, CheckDistilled(p) PROVE ReadCount'
  <2>1. CASE Work(p, <<MarkPending>>) /\ requeued' = requeued \cup {chat[p]}
    BY <1>7, <2>1 DEF CheckDistilled
  <2>2. CASE Work(p, <<ClearPending>>) /\ UNCHANGED requeued
    BY <1>7, <2>2 DEF CheckDistilled
  <2>3. CASE Work(p, <<MarkDistilled, ClearPending>>) /\ UNCHANGED requeued
    BY <1>7, <2>3 DEF CheckDistilled
  <2>4. CASE DistillGoto(p, "lock") /\ UNCHANGED <<todo, requeued>>
    BY <1>7, <2>4 DEF CheckDistilled
  <2>5. QED
    BY ONLY <1>7, <2>1, <2>2, <2>3, <2>4 DEF CheckDistilled
<1>8. ASSUME NEW p \in Distillers, TryDistillLock(p) PROVE ReadCount'
  <2>1. CASE dlock' = p /\ DistillGoto(p, "ready") /\ UNCHANGED todo
    BY <1>8, <2>1 DEF TryDistillLock
  <2>2. CASE Work(p, <<MarkPending>>) /\ UNCHANGED dlock
    BY <1>8, <2>2 DEF TryDistillLock
  <2>3. QED
    BY ONLY <1>8, <2>1, <2>2 DEF TryDistillLock
<1>9. ASSUME NEW p \in Distillers, CallProvider(p) PROVE ReadCount'
  <2>1. CASE Work(p, <<MarkPending>>) /\ UNCHANGED called
    BY <1>9, <2>1 DEF CallProvider
  <2>2. CASE /\ called' = [called EXCEPT ![chat[p]] = @ + 1]
             /\ DistillGoto(p, "run") /\ UNCHANGED todo
    <3>1. /\ dlock = p /\ dpc[p] # "do" /\ copy' = copy /\ todo' = todo /\ chat' = chat
          /\ dkills' = dkills
      BY <1>9, <2>2 DEF CallProvider, HasDistillLock
    <3>2. \A q \in Distillers : ~(todo[q] = <<BumpFail, MarkPending>> /\ copy[q] # None)
      BY <3>1 DEF HasDistillLock
    <3>3. QED
      BY <3>1, <3>2
  <2>3. QED
    BY ONLY <1>9, <2>1, <2>2 DEF CallProvider
<1>10. ASSUME NEW p \in Distillers, EndCall(p) PROVE ReadCount'
  <2>1. CASE Work(p, <<BumpFail, MarkPending>>)
    BY <1>10, <2>1 DEF EndCall
  <2>2. CASE Work(p, <<ClearFail, MarkDistilled, ClearPending>>)
    BY <1>10, <2>2 DEF EndCall
  <2>3. QED
    BY ONLY <1>10, <2>1, <2>2 DEF EndCall
<1>11. ASSUME NEW p \in Distillers, NEW s \in Chats, CaptureChat(p, s) PROVE ReadCount'
  BY <1>11 DEF CaptureChat, BeginDistill
<1>12. ASSUME NEW p \in Distillers, ReadRow(p) PROVE ReadCount'
  <2>1. /\ copy' = [copy EXCEPT ![p] = Row(Head(todo[p])[1], chat[p])]
        /\ UNCHANGED <<todo, chat, called, failed, dkills>>
    BY <1>12 DEF ReadRow
  <2>2. ASSUME NEW q \in Distillers, todo[q] = <<BumpFail, MarkPending>>, copy'[q] # None
        PROVE  \/ called[chat[q]] =< copy'[q].fails + dkills + 1
               \/ called[chat[q]] =< failed[chat[q]] + dkills
    <3>1. CASE q # p
      BY <2>1, <2>2, <3>1
    <3>2. CASE q = p
      <4>1. Head(todo[p]) = BumpFail /\ BumpFail[1] = "failed"
        BY <2>2, <3>2 DEF BumpFail
      <4>2. copy'[p].fails = failed[chat[p]]
        BY <2>1, <4>1 DEF Row
      <4>3. chat[p] \in Chats
        <5>1. todo[p] # <<>>
          <6>1. <<BumpFail, MarkPending>> # <<>>
            OBVIOUS
          <6>2. QED
            BY <2>2, <3>2, <6>1
        <5>2. QED
          BY <5>1, <1>t
      <4>4. called[chat[p]] =< failed[chat[p]] + dkills + 1
        BY <4>3, <1>t DEF Counted
      <4>5. QED
        BY <3>2, <4>2, <4>4
    <3>3. QED
      BY <3>1, <3>2
  <2>3. QED
    BY <2>1, <2>2
<1>13. ASSUME NEW p \in Distillers, WriteRow(p) PROVE ReadCount'
  <2>1. /\ todo[p] \in Lists /\ chat[p] \in Chats /\ dpc[p] = "do" /\ copy[p] # None /\ copy[p] \in RowsRead
        /\ RowsAfter(p, chat[p]) /\ FrameAfter(p)
        /\ outdated' = (outdated \cup {q \in Distillers \ {p} :
                /\ copy[q] # None /\ Head(todo[q])[1] = Head(todo[p])[1]
                /\ Head(todo[p])[1] = "failed" => chat[q] = chat[p]}) \ {p}
        /\ lostUpdate' = (lostUpdate \/ (p \in outdated /\ Head(todo[p])[1] # "failed"))
        /\ UNCHANGED <<doubled, mixed, requeued, dkills>>
    BY <1>13, WriteFacts DEF WriteRow
  <2>2. PICK rest : rest = Tail(todo[p])
    OBVIOUS
  <2>3. /\ todo'[p] = rest /\ \A q \in Distillers \ {p} : todo'[q] = todo[q]
        /\ copy'[p] = None /\ \A q \in Distillers \ {p} : copy'[q] = copy[q]
        /\ \A q \in Distillers \ {p} : dpc'[q] = dpc[q] /\ chat'[q] = chat[q]
        /\ dlock' = dlock \/ (dlock = p /\ dlock' = None)
        /\ dpc'[p] \in {"do", "begin", "check", "idle"}
    BY <2>1, <2>2, <1>t DEF FrameAfter, DistillTyped
  <2>h. Head(todo[p]) \in Updates
    BY <2>1, ListFacts
  <2>4. rest # <<BumpFail, MarkPending>>
    <3>1. /\ Head(todo[p]) = MarkPending => rest = <<>>
          /\ Head(todo[p]) = BumpFail => rest = <<MarkPending>>
          /\ Head(todo[p]) = ClearPending => rest \in {<<>>, <<ClearFail>>}
          /\ Head(todo[p]) = ClearFail => rest \in {<<>>, <<MarkDistilled, ClearPending>>}
          /\ Head(todo[p]) = MarkDistilled => rest \in Clearing
          /\ Head(todo[p]) = UnmarkDistilled => rest = <<ClearPending>>
      BY <2>1, <2>2, ListFacts
    <3>2. <<BumpFail, MarkPending>> \notin Clearing \cup {<<>>, <<MarkPending>>, <<ClearFail>>,
             <<MarkDistilled, ClearPending>>, <<ClearPending>>}
      <4>1. <<BumpFail, MarkPending>> \notin Clearing
        BY Branches
      <4>2. <<BumpFail, MarkPending>> \notin {<<>>, <<MarkPending>>, <<ClearFail>>,
             <<MarkDistilled, ClearPending>>, <<ClearPending>>}
        BY Keys
      <4>3. QED
        BY ONLY <4>1, <4>2
    <3>3. QED
      BY ONLY <2>h, <3>1, <3>2 DEF Updates
  <2>5. SUFFICES ASSUME NEW q \in Distillers, todo'[q] = <<BumpFail, MarkPending>>, copy'[q] # None
                 PROVE  \/ called'[chat'[q]] =< copy'[q].fails + dkills + 1
                        \/ called'[chat'[q]] =< failed'[chat'[q]] + dkills
    BY <2>1
  <2>6. q # p /\ todo[q] = <<BumpFail, MarkPending>> /\ copy[q] # None /\ chat'[q] = chat[q] /\ copy'[q] = copy[q]
    BY <2>3, <2>4, <2>5
  <2>7. /\ chat[q] \in Chats
        /\ \/ called[chat[q]] =< copy[q].fails + dkills + 1
           \/ called[chat[q]] =< failed[chat[q]] + dkills
    BY <2>6 DEF ReadCount
  <2>8. Head(todo[p]) # BumpFail
    <3>1. Head(todo[p]) = BumpFail => todo[p] = <<BumpFail, MarkPending>>
      BY <2>1, ListFacts
    <3>2. dlock = q /\ (todo[p] = <<BumpFail, MarkPending>> => dlock = p)
      BY <2>6 DEF HasDistillLock
    <3>3. QED
      BY ONLY <3>1, <3>2, <2>6
  <2>9. called'[chat[q]] = 0 \/ (called'[chat[q]] = called[chat[q]] /\ failed'[chat[q]] = failed[chat[q]])
    BY <2>1, <2>7, <2>8 DEF RowsAfter
  <2>10. called'[chat[q]] \in Nat /\ failed[chat[q]] \in Nat /\ copy[q].fails \in Nat
    BY <2>1, <2>6, <2>7 DEF RowsAfter
  <2>11. QED
    BY <2>6, <2>7, <2>9, <2>10
<1>14. ASSUME NEW p \in Distillers, ReadFails(p) PROVE ReadCount'
  <2>1. /\ dkills' = dkills + 1 /\ failed' = failed /\ chat' = chat
    BY <1>14 DEF ReadFails, Fault
  <2>2. SUFFICES ASSUME NEW q \in Distillers, todo'[q] = <<BumpFail, MarkPending>>, copy'[q] # None
                 PROVE  \/ called'[chat[q]] =< copy'[q].fails + dkills' + 1
                        \/ called'[chat[q]] =< failed[chat[q]] + dkills'
    BY <2>1
  <2>3. <<BumpFail, MarkPending>> # <<>> /\ <<BumpFail, MarkPending>> # <<MarkPending>>
    OBVIOUS
  <2>4. todo[q] = <<BumpFail, MarkPending>>
    <3>1. todo' = todo \/ todo' = [todo EXCEPT ![p] = <<MarkPending>>]
      BY ONLY <1>14 DEF ReadFails, Work
    <3>2. QED
      BY <2>2, <2>3, <3>1, <1>t
  <2>5. chat[q] \in Chats /\ dlock = q /\ dpc[q] = "do"
    BY <2>3, <2>4, <1>t DEF HasDistillLock
  <2>6. called' = called
    <3>1. called' = called \/ dpc[p] = "ready"
      BY ONLY <1>14 DEF ReadFails
    <3>2. dpc[p] = "ready" => p = q
      BY <2>5 DEF HasDistillLock
    <3>3. QED
      BY <2>5, <3>1, <3>2
  <2>n. called[chat[q]] \in Nat /\ failed[chat[q]] \in Nat /\ dkills \in Nat
    BY ONLY <2>5, <1>t
  <2>7. CASE copy'[q] = copy[q]
    <3>1. \/ called[chat[q]] =< copy[q].fails + dkills + 1
          \/ called[chat[q]] =< failed[chat[q]] + dkills
      BY ONLY ReadCount, <2>2, <2>4, <2>7, q \in Distillers DEF ReadCount
    <3>2. copy[q].fails \in Nat
      BY ONLY <1>t, <2>2, <2>7, q \in Distillers
    <3>3. QED
      BY ONLY <2>1, <2>6, <2>7, <2>n, <3>1, <3>2
  <2>8. CASE copy'[q] # copy[q]
    <3>1. called[chat[q]] =< failed[chat[q]] + dkills + 1
      BY ONLY <2>5, <2>n, Counted DEF Counted
    <3>2. QED
      BY ONLY <2>1, <2>6, <2>n, <3>1
  <2>9. QED
    BY ONLY <2>7, <2>8
<1>15. ASSUME NEW p \in Distillers, WriteFails(p) PROVE ReadCount'
  <2>1. /\ todo[p] \in Lists /\ chat[p] \in Chats /\ FrameAfter(p) /\ called' = called /\ failed' = failed
        /\ dkills' = dkills + 1
    <3>1. dpc[p] = "do" /\ NextUpdate(p)
      BY ONLY <1>15 DEF WriteFails
    <3>2. todo[p] \in Lists /\ chat[p] \in Chats /\ FrameAfter(p)
      BY ONLY <3>1, DistillTyped, p \in Distillers, FrameFacts
    <3>3. QED
      BY ONLY <3>2, <1>15 DEF WriteFails, Fault, distillMeta
  <2>2. ASSUME NEW q \in Distillers, todo'[q] = <<BumpFail, MarkPending>>, copy'[q] # None
        PROVE  \/ called'[chat'[q]] =< copy'[q].fails + dkills' + 1
               \/ called'[chat'[q]] =< failed'[chat'[q]] + dkills'
    <3>1. q # p /\ todo[q] = <<BumpFail, MarkPending>> /\ copy'[q] = copy[q] /\ chat'[q] = chat[q]
      BY <2>1, <2>2 DEF FrameAfter
    <3>2. chat[q] \in Chats /\ \/ called[chat[q]] =< copy[q].fails + dkills + 1
                               \/ called[chat[q]] =< failed[chat[q]] + dkills
      BY <2>2, <3>1, <1>t
    <3>3. copy[q].fails \in Nat /\ called[chat[q]] \in Nat /\ failed[chat[q]] \in Nat
      BY <2>2, <3>1, <3>2, <1>t
    <3>4. QED
      BY <2>1, <3>1, <3>2, <3>3, <1>t
  <2>3. QED
    BY <2>2
<1>16. ASSUME NEW p \in Distillers, KillDistiller(p) PROVE ReadCount'
  <2>1. /\ todo' = [todo EXCEPT ![p] = <<>>] /\ chat' = [chat EXCEPT ![p] = None]
        /\ copy' = [copy EXCEPT ![p] = None]
        /\ called' = called /\ failed' = failed /\ dkills' = dkills + 1
    BY <1>16 DEF KillDistiller, Fault
  <2>2. ASSUME NEW q \in Distillers, todo'[q] = <<BumpFail, MarkPending>>, copy'[q] # None
        PROVE  \/ called'[chat'[q]] =< copy'[q].fails + dkills' + 1
               \/ called'[chat'[q]] =< failed'[chat'[q]] + dkills'
    <3>1. q # p /\ todo[q] = <<BumpFail, MarkPending>> /\ copy[q] # None
      BY <2>1, <2>2, <1>t
    <3>2. chat[q] \in Chats /\ \/ called[chat[q]] =< copy[q].fails + dkills + 1
                               \/ called[chat[q]] =< failed[chat[q]] + dkills
      BY <3>1, <1>t
    <3>3. copy[q].fails \in Nat /\ called[chat[q]] \in Nat /\ failed[chat[q]] \in Nat
      BY <3>1, <3>2, <1>t
    <3>4. QED
      BY <2>1, <3>1, <3>2, <3>3, <1>t
  <2>3. QED
    BY <2>2
<1>17. CASE UNCHANGED distillVars
  BY <1>17 DEF distillVars, distillFrame, distillMeta, distillHist, distillCounts
<1>18. QED
  BY <1>1, <1>2, <1>3, <1>4, <1>5, <1>6, <1>7, <1>8, <1>9, <1>10, <1>11, <1>12, <1>13,
     <1>14, <1>15, <1>16, <1>17 DEF DistillNext

\* The provider is called when fewer than MaxDistillFails failures are counted.
LEMMA NextDistillCalls ==
  DistillTyped /\ HasDistillLock /\ Counted /\ DistillCallsBounded /\ [DistillNext]_distillVars
     => DistillCallsBounded'
<1> SUFFICES ASSUME DistillTyped, HasDistillLock, Counted, DistillCallsBounded, [DistillNext]_distillVars
             PROVE  DistillCallsBounded'
  OBVIOUS
<1>t. /\ chat \in [Distillers -> Chats \cup {None}] /\ called \in [Chats -> Nat]
      /\ failed \in [Chats -> Nat] /\ dkills \in Nat /\ MaxDistillFails \in Nat
      /\ \A p \in Distillers : dpc[p] = "idle" <=> chat[p] = None
  BY DistillAssumption DEF DistillTyped
<1> USE <1>t DEF DistillCallsBounded, distillMeta, distillHist, distillCounts
<1>1. ASSUME NEW p \in Distillers, NEW s \in Chats, EndChat(p, s) PROVE DistillCallsBounded'
  BY <1>1 DEF EndChat, BeginDistill
<1>2. ASSUME NEW p \in Distillers, NEW s \in Chats, ResumeChat(p, s) PROVE DistillCallsBounded'
  BY <1>2 DEF ResumeChat, BeginDistill
<1>3. ASSUME NEW p \in Distillers, NEW s \in Chats, StartDistill(p, s) PROVE DistillCallsBounded'
  BY <1>3 DEF StartDistill, BeginDistill
<1>4. ASSUME NEW p \in Distillers, NEW s \in Chats, ApplyLive(p, s) PROVE DistillCallsBounded'
  BY <1>4 DEF ApplyLive, BeginDistill
<1>5. ASSUME NEW p \in Distillers, ClaimDistilled(p) PROVE DistillCallsBounded'
  BY <1>5 DEF ClaimDistilled
<1>6. ASSUME NEW p \in Distillers, ClaimChat(p) PROVE DistillCallsBounded'
  BY <1>6 DEF ClaimChat
<1>7. ASSUME NEW p \in Distillers, CheckDistilled(p) PROVE DistillCallsBounded'
  BY <1>7 DEF CheckDistilled
<1>8. ASSUME NEW p \in Distillers, TryDistillLock(p) PROVE DistillCallsBounded'
  BY <1>8 DEF TryDistillLock
<1>9. ASSUME NEW p \in Distillers, CallProvider(p) PROVE DistillCallsBounded'
  <2>1. CASE UNCHANGED called
    BY <1>9, <2>1 DEF CallProvider
  <2>2. CASE failed[chat[p]] < MaxDistillFails /\ called' = [called EXCEPT ![chat[p]] = @ + 1]
    <3>1. dlock = p /\ dpc[p] = "ready" /\ todo[p] = <<>> /\ chat[p] \in Chats /\ dkills' = dkills
      BY <1>9 DEF CallProvider, HasDistillLock, DistillTyped
    <3>2. <<>> \notin {<<BumpFail, MarkPending>>, <<ClearFail, MarkDistilled, ClearPending>>}
      OBVIOUS
    <3>3. ~CallUnderWay(chat[p])
      BY <3>1, <3>2 DEF CallUnderWay
    <3>4. called[chat[p]] =< failed[chat[p]] + dkills
      BY <3>1, <3>3 DEF Counted
    <3>5. called[chat[p]] + 1 =< MaxDistillFails + dkills
      BY <2>2, <3>1, <3>4, <1>t
    <3>6. QED
      BY <2>2, <3>1, <3>5
  <2>3. QED
    BY ONLY <1>9, <2>1, <2>2 DEF CallProvider
<1>10. ASSUME NEW p \in Distillers, EndCall(p) PROVE DistillCallsBounded'
  BY <1>10 DEF EndCall
<1>11. ASSUME NEW p \in Distillers, NEW s \in Chats, CaptureChat(p, s) PROVE DistillCallsBounded'
  BY <1>11 DEF CaptureChat, BeginDistill
<1>12. ASSUME NEW p \in Distillers, ReadRow(p) PROVE DistillCallsBounded'
  BY <1>12 DEF ReadRow
<1>13. ASSUME NEW p \in Distillers, WriteRow(p) PROVE DistillCallsBounded'
  BY <1>13 DEF WriteRow
<1>14. ASSUME NEW p \in Distillers, ReadFails(p) PROVE DistillCallsBounded'
  BY <1>14 DEF ReadFails, Fault
<1>15. ASSUME NEW p \in Distillers, WriteFails(p) PROVE DistillCallsBounded'
  <2>1. /\ dpc[p] = "do" /\ todo[p] \in Lists /\ chat[p] \in Chats /\ FrameAfter(p) /\ dkills' = dkills + 1
        /\ UNCHANGED <<pending, distilled, failed, queued, called, lostUpdate, dropped, doubled, mixed, requeued>>
        /\ outdated' = outdated \ {p}
    BY <1>15, FrameFacts DEF WriteFails, Fault, distillMeta
  <2>2. QED
    BY <2>1 DEF FrameAfter
<1>16. ASSUME NEW p \in Distillers, KillDistiller(p) PROVE DistillCallsBounded'
  BY <1>16 DEF KillDistiller, Fault
<1>17. CASE UNCHANGED distillVars
  BY <1>17 DEF distillVars, distillFrame, distillMeta, distillHist, distillCounts
<1>18. QED
  BY <1>1, <1>2, <1>3, <1>4, <1>5, <1>6, <1>7, <1>8, <1>9, <1>10, <1>11, <1>12, <1>13,
     <1>14, <1>15, <1>16, <1>17 DEF DistillNext

\* Between two resets of the count at most MaxDistillFails calls of the provider are
\* started, and one more for each kill or failed statement, for any number of processes
\* and live answers.
THEOREM DistillCallsAreBounded == DistillSpec => []DistillCallsBounded
<1> DEFINE Inv == DistillTyped /\ HasDistillLock /\ Counted /\ ReadCount /\ DistillCallsBounded
<1>1. DistillInit => Inv
  BY InitDistillTyped, InitCounted
<1>2. Inv /\ [DistillNext]_distillVars => Inv'
  BY NextDistillTyped, NextHasDistillLock, NextCounted, NextReadCount, NextDistillCalls
<1>3. Inv => DistillCallsBounded
  OBVIOUS
<1> HIDE DEF Inv
<1>4. QED
  BY <1>1, <1>2, <1>3, PTL DEF DistillSpec
==============================================================================
