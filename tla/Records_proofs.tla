--------------------------- MODULE Records_proofs ----------------------------
(***************************************************************************)
(* Proofs about the inbox of the telemetry (Inbox), the index of the       *)
(* sessions and its links (SessionIndex) and the retention sweep           *)
(* (Retention), for any number of processes, spans and sessions, and about *)
(* MCRecords, which runs them, harvest and distillation side by side.      *)
(***************************************************************************)
EXTENDS MCRecords, Harvest_proofs, Distill_proofs, TLAPS

-----------------------------------------------------------------------------
(* Inbox. Types, and what they rest on: a process writes a span until it is *)
(* done, and a file that somebody has open under a name is there.           *)

Busy == \A p \in Emitters : npc[p] # "idle" => span[p] \in Spans

Opened == \A p \in Emitters :
    /\ npc[p] = "append" <=> into[p] # None /\ npc[p] # "refill"
    /\ npc[p] = "append" => into[p] \in {"inbox", "gone"}
    /\ npc[p] = "refill" => into[p] # None
    /\ into[p] = "inbox" => inbox # None
    /\ into[p] = "tmp" => spool # None

InboxTyped == InboxTypeOK /\ Busy /\ Opened

\* Nothing is written at first.
LEMMA InitInboxTyped == InboxInit => InboxTyped
<1> SUFFICES ASSUME InboxInit PROVE InboxTyped
  OBVIOUS
<1>1. /\ npc \in [Emitters -> InboxSteps]
      /\ span \in [Emitters -> Spans \cup {None}]
      /\ into \in [Emitters -> {None, "inbox", "tmp", "gone"}]
  BY DEF InboxInit, InboxSteps
<1>2. /\ move \in [Emitters -> SUBSET Spans] /\ remain \in [Emitters -> SUBSET Spans]
      /\ events \in [Spans -> Nat] /\ inboxKills \in 0..InboxKills
  BY InboxAssumption DEF InboxInit
<1>3. InboxTypeOK
  BY <1>1, <1>2 DEF InboxInit, InboxTypeOK
<1>4. Busy /\ Opened
  BY InboxAssumption DEF InboxInit, Busy, Opened
<1>5. QED
  BY <1>3, <1>4 DEF InboxTyped

\* Every step of a hook keeps the types.
LEMMA NextInboxTyped == InboxTyped /\ [InboxNext]_inboxVars => InboxTyped'
<1> SUFFICES ASSUME InboxTyped, [InboxNext]_inboxVars PROVE InboxTyped'
  OBVIOUS
<1> USE InboxAssumption DEF InboxTyped, InboxTypeOK, Busy, Opened, InboxSteps, Resolving,
    InboxGoto, Stop, Added, Orphaned, inboxFiles, inboxHist
<1>1. ASSUME NEW p \in Emitters, Write(p) PROVE InboxTyped'
  BY <1>1 DEF Write
<1>2. ASSUME NEW p \in Emitters, EnsureInbox(p) PROVE InboxTyped'
  BY <1>2 DEF EnsureInbox
<1>3. ASSUME NEW p \in Emitters, OpenInbox(p) PROVE InboxTyped'
  BY <1>3 DEF OpenInbox
<1>4. ASSUME NEW p \in Emitters, AppendInbox(p) PROVE InboxTyped'
  BY <1>4 DEF AppendInbox
<1>5. ASSUME NEW p \in Emitters, AppendEvents(p) PROVE InboxTyped'
  BY <1>5 DEF AppendEvents
<1>6. ASSUME NEW p \in Emitters, ReadInbox(p) PROVE InboxTyped'
  <2>1. CASE inbox = None
    BY <1>6, <2>1 DEF ReadInbox
  <2>2. CASE inbox # None
    <3>1. \E mine \in SUBSET Spans :
             /\ move' = [move EXCEPT ![p] = mine]
             /\ remain' = [remain EXCEPT ![p] = inbox \ mine]
             /\ due' = due \cup mine
      BY <1>6, <2>2 DEF ReadInbox
    <3>2. npc' = [npc EXCEPT ![p] = "move"] /\ raced' \in BOOLEAN
      BY <1>6, <2>2 DEF ReadInbox
    <3>3. UNCHANGED <<span, into, inbox, spool, events, unsent, stored, inboxKills>>
      BY <1>6, <2>2 DEF ReadInbox
    <3>4. /\ move' \in [Emitters -> SUBSET Spans] /\ remain' \in [Emitters -> SUBSET Spans]
          /\ due' \subseteq Spans
      BY <2>2, <3>1
    <3>5. InboxTypeOK'
      BY <3>2, <3>3, <3>4
    <3>6. Busy' /\ Opened'
      BY <1>6, <3>2, <3>3 DEF ReadInbox
    <3>7. QED
      BY <3>5, <3>6
  <2>3. QED
    BY <2>1, <2>2
<1>7. ASSUME NEW p \in Emitters, MoveSpans(p) PROVE InboxTyped'
  BY <1>7 DEF MoveSpans
<1>8. ASSUME NEW p \in Emitters, RemoveInbox(p) PROVE InboxTyped'
  BY <1>8 DEF RemoveInbox
<1>9. ASSUME NEW p \in Emitters, RemoveSpool(p) PROVE InboxTyped'
  BY <1>9 DEF RemoveSpool
<1>10. ASSUME NEW p \in Emitters, EnsureSpool(p) PROVE InboxTyped'
  BY <1>10 DEF EnsureSpool
<1>11. ASSUME NEW p \in Emitters, OpenSpool(p) PROVE InboxTyped'
  BY <1>11 DEF OpenSpool
<1>12. ASSUME NEW p \in Emitters, Refill(p) PROVE InboxTyped'
  BY <1>12 DEF Refill
<1>13. ASSUME NEW p \in Emitters, RenameSpool(p) PROVE InboxTyped'
  BY <1>13 DEF RenameSpool
<1>14. ASSUME NEW p \in Emitters, KillEmitter(p) PROVE InboxTyped'
  BY <1>14 DEF KillEmitter
<1>15. CASE UNCHANGED inboxVars
  BY <1>15 DEF inboxVars
<1>16. QED
  BY <1>1, <1>2, <1>3, <1>4, <1>5, <1>6, <1>7, <1>8, <1>9, <1>10, <1>11, <1>12, <1>13,
     <1>14, <1>15 DEF InboxNext

\* Every variable of the inbox keeps its type, and an open file is there.
THEOREM InboxTyping == InboxSpec => [](InboxTypeOK /\ Opened)
  BY InitInboxTyped, NextInboxTyped, PTL DEF InboxSpec, InboxTyped

-----------------------------------------------------------------------------
(* Inbox. What is stored stays.  Until an append or a second resolver meets *)
(* a resolver there is one at most: all that is in the inbox is in what it  *)
(* has read, what it moves is in the events when it replaces the inbox, and *)
(* what it puts back is in the new file before that gets the name.          *)

Moved == {"replace", "spool", "openTmp", "refill", "rename"}

OneResolver == \A p, q \in Emitters :
    npc[p] \in Resolving /\ npc[q] \in Resolving => p = q
HasRead == \A p \in Emitters :
    npc[p] \in Resolving /\ inbox # None => inbox \subseteq move[p] \cup remain[p]
HasMoved == \A p \in Emitters : npc[p] \in Moved =>
    \A s \in move[p] : events[s] > 0
Refilling == \A p \in Emitters :
    /\ npc[p] = "refill" => into[p] = "tmp"
    /\ npc[p] = "rename" => spool # None /\ remain[p] \subseteq spool

Guarded == OneResolver /\ HasRead /\ HasMoved /\ Refilling
KeepsInv == InboxKeeps /\ (~raced => Guarded)

\* Nothing is stored at first.
LEMMA InitKeeps == InboxInit => KeepsInv
  BY DEF InboxInit, KeepsInv, InboxKeeps, Guarded, OneResolver, HasRead, HasMoved, Refilling,
     Moved, Resolving

\* No step of a hook loses a span, whoever is killed, unless it races a resolver.
LEMMA NextKeeps == InboxTyped /\ KeepsInv /\ [InboxNext]_inboxVars => KeepsInv'
<1> SUFFICES ASSUME InboxTyped, KeepsInv, [InboxNext]_inboxVars PROVE KeepsInv'
  OBVIOUS
<1> USE InboxAssumption DEF InboxTyped, InboxTypeOK, Busy, Opened, Resolving, Moved,
    InboxGoto, Stop, Added, Orphaned, inboxFiles, inboxHist, KeepsInv, InboxKeeps, Guarded,
    OneResolver, HasRead, HasMoved, Refilling
<1>1. ASSUME NEW p \in Emitters, Write(p) PROVE KeepsInv'
  BY <1>1 DEF Write
<1>2. ASSUME NEW p \in Emitters, EnsureInbox(p) PROVE KeepsInv'
  BY <1>2 DEF EnsureInbox
<1>3. ASSUME NEW p \in Emitters, OpenInbox(p) PROVE KeepsInv'
  BY <1>3 DEF OpenInbox
<1>4. ASSUME NEW p \in Emitters, AppendInbox(p) PROVE KeepsInv'
  BY <1>4 DEF AppendInbox
<1>5. ASSUME NEW p \in Emitters, AppendEvents(p) PROVE KeepsInv'
  BY <1>5 DEF AppendEvents
<1>6. ASSUME NEW p \in Emitters, ReadInbox(p) PROVE KeepsInv'
  <2>1. CASE inbox = None
    BY <1>6, <2>1 DEF ReadInbox
  <2>2. CASE inbox # None /\ raced'
    BY <1>6, <2>2 DEF ReadInbox
  <2>3. CASE inbox # None /\ ~raced'
    <3>1. ~raced /\ \A q \in Emitters : npc[q] \notin Resolving
      BY <1>6, <2>3 DEF ReadInbox
    <3>2. npc' = [npc EXCEPT ![p] = "move"]
      BY <1>6, <2>3 DEF ReadInbox
    <3>3. UNCHANGED <<into, inbox, spool, events, stored>>
      BY <1>6, <2>3 DEF ReadInbox
    <3>4. inbox \subseteq move'[p] \cup remain'[p]
      BY <1>6, <2>3 DEF ReadInbox
    <3>5. InboxKeeps'
      BY <3>1, <3>3
    <3>6. OneResolver' /\ HasMoved' /\ Refilling'
      BY <3>1, <3>2
    <3>7. HasRead'
      BY <3>1, <3>2, <3>3, <3>4
    <3>8. QED
      BY <3>5, <3>6, <3>7
  <2>4. QED
    BY <2>1, <2>2, <2>3
<1>7. ASSUME NEW p \in Emitters, MoveSpans(p) PROVE KeepsInv'
  BY <1>7 DEF MoveSpans
<1>8. ASSUME NEW p \in Emitters, RemoveInbox(p) PROVE KeepsInv'
  BY <1>8 DEF RemoveInbox
<1>9. ASSUME NEW p \in Emitters, RemoveSpool(p) PROVE KeepsInv'
  BY <1>9 DEF RemoveSpool
<1>10. ASSUME NEW p \in Emitters, EnsureSpool(p) PROVE KeepsInv'
  BY <1>10 DEF EnsureSpool
<1>11. ASSUME NEW p \in Emitters, OpenSpool(p) PROVE KeepsInv'
  BY <1>11 DEF OpenSpool
<1>12. ASSUME NEW p \in Emitters, Refill(p) PROVE KeepsInv'
  BY <1>12 DEF Refill
<1>13. ASSUME NEW p \in Emitters, RenameSpool(p) PROVE KeepsInv'
  BY <1>13 DEF RenameSpool
<1>14. ASSUME NEW p \in Emitters, KillEmitter(p) PROVE KeepsInv'
  BY <1>14 DEF KillEmitter
<1>15. CASE UNCHANGED inboxVars
  BY <1>15 DEF inboxVars
<1>16. QED
  BY <1>1, <1>2, <1>3, <1>4, <1>5, <1>6, <1>7, <1>8, <1>9, <1>10, <1>11, <1>12, <1>13,
     <1>14, <1>15 DEF InboxNext

\* A span whose write returned is never lost, for any number of processes and kills,
\* unless its append or a second resolver met a resolver.
THEOREM SpansKept == InboxSpec => []InboxKeeps
<1>1. KeepsInv => InboxKeeps
  BY DEF KeepsInv
<1>2. QED
  BY <1>1, InitInboxTyped, NextInboxTyped, InitKeeps, NextKeeps, PTL DEF InboxSpec

-----------------------------------------------------------------------------
(* Inbox. Moved once.  Without races and kills a span is new until it is    *)
(* written, then in the inbox or in the events, and in both only while the  *)
(* resolver that moves it has not replaced the inbox; it replaces it by the *)
(* rest.                                                                    *)

New == {"ensure", "open", "append", "events"}
Unseen(s) ==
    /\ events[s] = 0
    /\ inbox # None => s \notin inbox
    /\ s \notin due
    /\ \A p \in Emitters : s \notin move[p] \cup remain[p]

Apart == \A p \in Emitters :
    /\ span[p] \notin unsent
    /\ \A q \in Emitters : span[p] = span[q] /\ span[p] # None => p = q
NewUnseen ==
    /\ \A s \in unsent : Unseen(s)
    /\ \A p \in Emitters : npc[p] \in New => Unseen(span[p])
AtMostOnce == \A s \in Spans : events[s] =< 1
Waiting == inbox # None => \A s \in inbox :
    events[s] = 0 \/ \E p \in Emitters : npc[p] \in Moved /\ s \in move[p]
Halves == \A p \in Emitters : npc[p] \in Resolving =>
    /\ \A s \in remain[p] : events[s] = 0 /\ s \notin due /\ s \notin move[p]
    /\ npc[p] = "move" => \A s \in move[p] : events[s] = 0
SpoolIsRest == \A p \in Emitters :
    /\ npc[p] = "spool" => spool = None
    /\ npc[p] \in {"openTmp", "refill"} => spool = {}
    /\ npc[p] = "rename" => spool = remain[p]
DueDone == \A s \in due :
    \/ events[s] = 1 /\ (inbox # None => s \notin inbox)
    \/ \E p \in Emitters : npc[p] \in Resolving /\ s \in move[p]

Tidy == /\ Apart /\ NewUnseen /\ AtMostOnce /\ Waiting
        /\ Halves /\ SpoolIsRest /\ DueDone
OnceInv == ~raced /\ inboxKills = 0 => Tidy

\* Every span is new at first.
LEMMA InitMovedOnce == InboxInit => OnceInv
<1> SUFFICES ASSUME InboxInit PROVE Tidy
  BY DEF OnceInv
<1> USE InboxAssumption DEF InboxInit, Resolving
<1>1. Apart /\ NewUnseen /\ AtMostOnce
  BY DEF Apart, NewUnseen, New, Unseen, AtMostOnce
<1>2. Waiting /\ Halves /\ SpoolIsRest /\ DueDone
  BY DEF Waiting, Halves, SpoolIsRest, DueDone
<1>3. QED
  BY <1>1, <1>2 DEF Tidy

Sticky == (raced => raced') /\ inboxKills' >= inboxKills

\* The history only grows.
LEMMA NextSticky == InboxTypeOK /\ [InboxNext]_inboxVars => Sticky
<1> SUFFICES ASSUME InboxTypeOK, [InboxNext]_inboxVars PROVE Sticky
  OBVIOUS
<1> USE DEF InboxTypeOK, inboxFiles, inboxHist, Sticky
<1>1. ASSUME NEW p \in Emitters, Write(p) PROVE Sticky
  BY <1>1 DEF Write
<1>2. ASSUME NEW p \in Emitters, EnsureInbox(p) PROVE Sticky
  BY <1>2 DEF EnsureInbox
<1>3. ASSUME NEW p \in Emitters, OpenInbox(p) PROVE Sticky
  BY <1>3 DEF OpenInbox
<1>4. ASSUME NEW p \in Emitters, AppendInbox(p) PROVE Sticky
  BY <1>4 DEF AppendInbox
<1>5. ASSUME NEW p \in Emitters, AppendEvents(p) PROVE Sticky
  BY <1>5 DEF AppendEvents
<1>6. ASSUME NEW p \in Emitters, ReadInbox(p) PROVE Sticky
  BY <1>6 DEF ReadInbox
<1>7. ASSUME NEW p \in Emitters, MoveSpans(p) PROVE Sticky
  BY <1>7 DEF MoveSpans
<1>8. ASSUME NEW p \in Emitters, RemoveInbox(p) PROVE Sticky
  BY <1>8 DEF RemoveInbox
<1>9. ASSUME NEW p \in Emitters, RemoveSpool(p) PROVE Sticky
  BY <1>9 DEF RemoveSpool
<1>10. ASSUME NEW p \in Emitters, EnsureSpool(p) PROVE Sticky
  BY <1>10 DEF EnsureSpool
<1>11. ASSUME NEW p \in Emitters, OpenSpool(p) PROVE Sticky
  BY <1>11 DEF OpenSpool
<1>12. ASSUME NEW p \in Emitters, Refill(p) PROVE Sticky
  BY <1>12 DEF Refill
<1>13. ASSUME NEW p \in Emitters, RenameSpool(p) PROVE Sticky
  BY <1>13 DEF RenameSpool
<1>14. ASSUME NEW p \in Emitters, KillEmitter(p) PROVE Sticky
  BY <1>14 DEF KillEmitter
<1>15. CASE UNCHANGED inboxVars
  BY <1>15 DEF inboxVars
<1>16. QED
  BY <1>1, <1>2, <1>3, <1>4, <1>5, <1>6, <1>7, <1>8, <1>9, <1>10, <1>11, <1>12, <1>13,
     <1>14, <1>15 DEF InboxNext

\* Every step of a hook keeps the spans apart.
LEMMA NextOnce == InboxTyped /\ KeepsInv /\ OnceInv /\ [InboxNext]_inboxVars => OnceInv'
<1> SUFFICES ASSUME InboxTyped, KeepsInv, OnceInv, [InboxNext]_inboxVars,
                    ~raced', inboxKills' = 0
             PROVE  Tidy'
  BY DEF OnceInv
<1>0. ~raced /\ inboxKills = 0
  BY NextSticky DEF Sticky, InboxTyped, InboxTypeOK
<1> USE <1>0, InboxAssumption DEF InboxTyped, InboxTypeOK, Busy, Opened, Resolving, Moved, New,
    Unseen, InboxGoto, Stop, Added, Orphaned, inboxFiles, inboxHist, KeepsInv, Guarded,
    OneResolver, HasRead, HasMoved, Refilling, OnceInv, Tidy, Apart, NewUnseen, AtMostOnce,
    Waiting, Halves, SpoolIsRest, DueDone
<1>1. ASSUME NEW p \in Emitters, Write(p) PROVE Tidy'
  BY <1>1 DEF Write
<1>2. ASSUME NEW p \in Emitters, EnsureInbox(p) PROVE Tidy'
  BY <1>2 DEF EnsureInbox
<1>3. ASSUME NEW p \in Emitters, OpenInbox(p) PROVE Tidy'
  BY <1>3 DEF OpenInbox
<1>4. ASSUME NEW p \in Emitters, AppendInbox(p) PROVE Tidy'
  BY <1>4 DEF AppendInbox
<1>5. ASSUME NEW p \in Emitters, AppendEvents(p) PROVE Tidy'
  BY <1>5 DEF AppendEvents
<1>6. ASSUME NEW p \in Emitters, ReadInbox(p) PROVE Tidy'
  <2>1. CASE inbox = None
    BY <1>6, <2>1 DEF ReadInbox
  <2>2. CASE inbox # None
    <3>1. \A q \in Emitters : npc[q] \notin Resolving
      BY <1>6, <2>2 DEF ReadInbox
    <3>2. PICK mine \in SUBSET inbox :
             /\ move' = [move EXCEPT ![p] = mine]
             /\ remain' = [remain EXCEPT ![p] = inbox \ mine]
             /\ due' = due \cup mine
      BY <1>6, <2>2 DEF ReadInbox
    <3>3. npc' = [npc EXCEPT ![p] = "move"]
      BY <1>6, <2>2 DEF ReadInbox
    <3>4. UNCHANGED <<span, inbox, spool, events, unsent>>
      BY <1>6, <2>2 DEF ReadInbox
    <3>5. \A s \in inbox : events[s] = 0 /\ s \notin due
      BY <2>2, <3>1
    <3>6. Apart' /\ AtMostOnce'
      BY <3>4
    <3>7. NewUnseen'
      BY <2>2, <3>2, <3>3, <3>4
    <3>8. Waiting'
      BY <3>4, <3>5
    <3>9. Halves'
      BY <3>1, <3>2, <3>3, <3>4, <3>5
    <3>10. SpoolIsRest'
      BY <3>1, <3>3
    <3>11. DueDone'
      BY <2>2, <3>1, <3>2, <3>3, <3>4
    <3>12. QED
      BY <3>6, <3>7, <3>8, <3>9, <3>10, <3>11
  <2>3. QED
    BY <2>1, <2>2
<1>7. ASSUME NEW p \in Emitters, MoveSpans(p) PROVE Tidy'
  BY <1>7 DEF MoveSpans
<1>8. ASSUME NEW p \in Emitters, RemoveInbox(p) PROVE Tidy'
  BY <1>8 DEF RemoveInbox
<1>9. ASSUME NEW p \in Emitters, RemoveSpool(p) PROVE Tidy'
  BY <1>9 DEF RemoveSpool
<1>10. ASSUME NEW p \in Emitters, EnsureSpool(p) PROVE Tidy'
  BY <1>10 DEF EnsureSpool
<1>11. ASSUME NEW p \in Emitters, OpenSpool(p) PROVE Tidy'
  BY <1>11 DEF OpenSpool
<1>12. ASSUME NEW p \in Emitters, Refill(p) PROVE Tidy'
  BY <1>12 DEF Refill
<1>13. ASSUME NEW p \in Emitters, RenameSpool(p) PROVE Tidy'
  BY <1>13 DEF RenameSpool
<1>14. ASSUME NEW p \in Emitters, KillEmitter(p) PROVE Tidy'
  BY <1>14 DEF KillEmitter
<1>15. CASE UNCHANGED inboxVars
  BY <1>15 DEF inboxVars
<1>16. QED
  BY <1>1, <1>2, <1>3, <1>4, <1>5, <1>6, <1>7, <1>8, <1>9, <1>10, <1>11, <1>12, <1>13,
     <1>14, <1>15 DEF InboxNext

\* Without races and kills a span that a resolver of its trace has read is in the
\* events once, and not in the inbox, when everybody is done.
THEOREM SpansMovedOnce == InboxSpec => []MovedOnce
<1>1. OnceInv => MovedOnce
  BY DEF OnceInv, Tidy, AtMostOnce, DueDone, MovedOnce, Resolving
<1>2. QED
  BY <1>1, InitInboxTyped, NextInboxTyped, InitKeeps, NextKeeps, InitMovedOnce, NextOnce, PTL
     DEF InboxSpec

-----------------------------------------------------------------------------
(* SessionIndex. Types, and what a process at work does.                    *)

LinkSteps == {"tmp", "tmpFill", "rename"}
RowSteps == {"list", "prev", "trunc", "fill"}
AtWork == \A p \in Writers : ipc[p] # "idle" =>
    /\ iop[p] \in Operations /\ child[p] \in Ids /\ parent[p] \in Ids
    /\ ipc[p] \in RowSteps <=> iop[p] \in {"Upsert", "Delete"}
    /\ ipc[p] = "prev" => iop[p] = "Upsert"
    /\ ipc[p] = "pend" => iop[p] \in {"NotePending", "ClaimPending"}
    /\ ipc[p] = "link" => iop[p] = "ClaimPending"
    /\ ipc[p] = "load" => iop[p] # "NotePending"
    /\ took[p] # 0 =>
          iop[p] \in {"ClaimPending", "Register"} /\ ipc[p] \in LinkSteps \cup {"link"}
    /\ took[p] = 0 => ~(iop[p] = "ClaimPending" /\ ipc[p] \in LinkSteps \cup {"link"})
Resting == \A p \in Writers : ipc[p] = "idle" => took[p] = 0 /\ content[p] = Empty
IndexTyped == IndexTypeOK /\ AtWork /\ Resting /\ ikills \in Nat

\* The empty document is one, and what is read is one.
LEMMA DocumentFacts ==
    /\ Empty \in Documents /\ NoLinks \in [Ids -> Ids \cup {None}]
    /\ Empty.rows = {} /\ Empty.links = NoLinks /\ Empty.pend = {}
    /\ None \notin Documents /\ Torn \notin Documents /\ None # Torn
    /\ index \in Documents \cup {None, Torn} =>
          /\ Document \in Documents
          /\ index \in Documents => Document = index
          /\ index \in {None, Torn} => Document = Empty
  BY IndexAssumption DEF Empty, NoLinks, Documents, Document, Readable

\* The fields of a document are changed one at a time.
WithRows(d, r) == [d EXCEPT !.rows = r]
WithLink(d, c, r) == [d EXCEPT !.links[c] = r]
WithPend(d, s) == [d EXCEPT !.pend = s]

\* Other rows.
LEMMA RowsIn ==
    ASSUME NEW d \in Documents, NEW r \in SUBSET Ids
    PROVE  /\ WithRows(d, r) \in Documents
           /\ WithRows(d, r).rows = r
           /\ WithRows(d, r).links = d.links
           /\ WithRows(d, r).pend = d.pend
  BY DEF Documents, WithRows

\* Another link.
LEMMA LinkIn ==
    ASSUME NEW d \in Documents, NEW c \in Ids, NEW r \in Ids \cup {None}
    PROVE  /\ WithLink(d, c, r) \in Documents
           /\ WithLink(d, c, r).rows = d.rows
           /\ WithLink(d, c, r).links = [d.links EXCEPT ![c] = r]
           /\ WithLink(d, c, r).pend = d.pend
  BY DEF Documents, WithLink

\* Other spawns.
LEMMA PendIn ==
    ASSUME NEW d \in Documents, NEW s \in SUBSET Spawn
    PROVE  /\ WithPend(d, s) \in Documents
           /\ WithPend(d, s).rows = d.rows
           /\ WithPend(d, s).links = d.links
           /\ WithPend(d, s).pend = s
  BY DEF Documents, WithPend

\* What a document is made of.
LEMMA Fields ==
    ASSUME NEW d \in Documents
    PROVE  d.rows \in SUBSET Ids /\ d.links \in [Ids -> Ids \cup {None}] /\ d.pend \in SUBSET Spawn
  BY DEF Documents

\* What LoadLinks does, by the operation it is for.
Loaded(p) ==
    LET c == child[p]
        link == Document.links[c] IN
    \/ /\ iop[p] = "Register" /\ link = parent[p]
       /\ IndexReturn(p) /\ linked' = [linked EXCEPT ![c] = parent[p]]
    \/ /\ iop[p] = "Register" /\ link # parent[p]
       /\ content' = [content EXCEPT ![p] = WithLink(Document, c, parent[p])]
       /\ IndexGoto(p, "tmp") /\ Hold /\ UNCHANGED linked
    \/ /\ iop[p] \in {"Annotate", "Unregister"} /\ link = None
       /\ IndexReturn(p) /\ UNCHANGED linked
    \/ /\ iop[p] = "Annotate" /\ link # None
       /\ content' = [content EXCEPT ![p] = Document]
       /\ IndexGoto(p, "tmp") /\ Hold /\ UNCHANGED linked
    \/ /\ iop[p] = "Unregister" /\ link # None
       /\ content' = [content EXCEPT ![p] = WithLink(Document, c, None)]
       /\ IndexGoto(p, "tmp") /\ Hold /\ UNCHANGED linked
    \/ /\ iop[p] = "ClaimPending" /\ link # None
       /\ IndexReturn(p) /\ linked' = [linked EXCEPT ![c] = link]
    \/ /\ iop[p] = "ClaimPending" /\ link = None
       /\ IndexGoto(p, "pend") /\ Hold /\ UNCHANGED <<content, linked>>

\* LoadLinks takes one of these branches, and leaves the rest alone.
LEMMA LoadCases ==
    ASSUME IndexTyped, NEW p \in Writers, LoadLinks(p)
    PROVE  /\ Loaded(p) /\ ipc[p] = "load" /\ UNCHANGED claims
           /\ UNCHANGED <<open, docs, index, tmp, spawns, expired, unsaved, overlap, wiped, ikills>>
<1>1. iop[p] \in {"Register", "Annotate", "Unregister", "ClaimPending"}
  BY DEF LoadLinks, IndexTyped, AtWork, Operations, RowSteps
<1>2. ipc[p] = "load" /\ UNCHANGED claims
  BY <1>1 DEF LoadLinks, Report
<1>3. Loaded(p)
  BY <1>1 DEF LoadLinks, Report, Loaded, WithLink
<1>4. QED
  BY <1>2, <1>3 DEF LoadLinks

\* What NotePending writes, and what ClaimPending does with the spawn it takes.
Waits(s) == s.by = None /\ s.n > expired
Noting(pend, r) ==
    {s \in pend : Waits(s)} \cup {[n |-> spawns + 1, parent |-> r, by |-> None]}
Claims(p, s) ==
    /\ s \in Free(Document.pend, child[p])
    /\ ipc[p] = "pend" /\ iop[p] = "ClaimPending"
    /\ parent' = [parent EXCEPT ![p] = s.parent]
    /\ took' = [took EXCEPT ![p] = s.n]
    /\ content' =
          [content EXCEPT ![p] = WithPend(Document, Claimed(Document.pend, s, child[p]))]
    /\ IndexGoto(p, "tmp")
    /\ UNCHANGED <<iop, child, open, docs, index, tmp, spawns, expired, indexHist, iops, ikills>>

\* ClaimPending finds no spawn that is free, or claims one.
LEMMA ClaimCases ==
    ASSUME NEW p \in Writers, ClaimPending(p)
    PROVE  IndexReturn(p) \/ \E s \in Document.pend : Claims(p, s)
  BY DEF ClaimPending, Claims, Free, WithPend

\* What was lost to an overlap stays lost, and kills are only counted up.
LEMMA Sticks == [IndexNext]_indexVars => /\ overlap => overlap'
                                         /\ ikills' = ikills \/ ikills' = ikills + 1
<1> SUFFICES ASSUME [IndexNext]_indexVars
             PROVE  (overlap => overlap') /\ (ikills' = ikills \/ ikills' = ikills + 1)
  OBVIOUS
<1> USE DEF indexHist, IndexReturn
<1>1. ASSUME NEW p \in Writers, BeginOp(p) PROVE (overlap => overlap') /\ (ikills' = ikills \/ ikills' = ikills + 1)
  BY <1>1 DEF BeginOp
<1>2. ASSUME NEW p \in Writers, ListRows(p) PROVE (overlap => overlap') /\ (ikills' = ikills \/ ikills' = ikills + 1)
  BY <1>2 DEF ListRows
<1>3. ASSUME NEW p \in Writers, ListKept(p) PROVE (overlap => overlap') /\ (ikills' = ikills \/ ikills' = ikills + 1)
  BY <1>3 DEF ListKept
<1>4. ASSUME NEW p \in Writers, KeepPrev(p) PROVE (overlap => overlap') /\ (ikills' = ikills \/ ikills' = ikills + 1)
  BY <1>4 DEF KeepPrev
<1>5. ASSUME NEW p \in Writers, TruncateIndex(p) PROVE (overlap => overlap') /\ (ikills' = ikills \/ ikills' = ikills + 1)
  BY <1>5 DEF TruncateIndex
<1>6. ASSUME NEW p \in Writers, FillIndex(p) PROVE (overlap => overlap') /\ (ikills' = ikills \/ ikills' = ikills + 1)
  BY <1>6 DEF FillIndex
<1>7. ASSUME NEW p \in Writers, LoadLinks(p) PROVE (overlap => overlap') /\ (ikills' = ikills \/ ikills' = ikills + 1)
  BY <1>7 DEF LoadLinks
<1>8. ASSUME NEW p \in Writers, NotePending(p) PROVE (overlap => overlap') /\ (ikills' = ikills \/ ikills' = ikills + 1)
  BY <1>8 DEF NotePending
<1>9. ASSUME NEW p \in Writers, ClaimPending(p) PROVE (overlap => overlap') /\ (ikills' = ikills \/ ikills' = ikills + 1)
  BY <1>9 DEF ClaimPending
<1>10. ASSUME NEW p \in Writers, TruncateTmp(p) PROVE (overlap => overlap') /\ (ikills' = ikills \/ ikills' = ikills + 1)
  BY <1>10 DEF TruncateTmp
<1>11. ASSUME NEW p \in Writers, FillTmp(p) PROVE (overlap => overlap') /\ (ikills' = ikills \/ ikills' = ikills + 1)
  BY <1>11 DEF FillTmp
<1>12. ASSUME NEW p \in Writers, RenameTmp(p) PROVE (overlap => overlap') /\ (ikills' = ikills \/ ikills' = ikills + 1)
  BY <1>12 DEF RenameTmp
<1>13. ASSUME NEW p \in Writers, LinkClaim(p) PROVE (overlap => overlap') /\ (ikills' = ikills \/ ikills' = ikills + 1)
  BY <1>13 DEF LinkClaim
<1>14. ASSUME NEW p \in Writers, SaveFails(p) PROVE (overlap => overlap') /\ (ikills' = ikills \/ ikills' = ikills + 1)
  BY <1>14 DEF SaveFails, IndexFault
<1>15. ASSUME NEW p \in Writers, KillWriter(p) PROVE (overlap => overlap') /\ (ikills' = ikills \/ ikills' = ikills + 1)
  BY <1>15 DEF KillWriter, IndexFault
<1>16. CASE Expire
  BY <1>16 DEF Expire
<1>17. CASE UNCHANGED indexVars
  BY <1>17 DEF indexVars
<1>18. QED
  BY <1>1, <1>2, <1>3, <1>4, <1>5, <1>6, <1>7, <1>8, <1>9, <1>10,
     <1>11, <1>12, <1>13, <1>14, <1>15, <1>16, <1>17 DEF IndexNext

\* The operations begin with the types they keep.
LEMMA InitIndexTyped == IndexInit => IndexTyped
<1> SUFFICES ASSUME IndexInit PROVE IndexTyped
  OBVIOUS
<1>1. AtWork /\ Resting
  BY DEF IndexInit, AtWork, Resting
<1>2. /\ content \in [Writers -> Documents] /\ linked \in [Ids -> Ids \cup {None}]
      /\ index \in Documents \cup {None, Torn} /\ tmp \in Documents \cup {None, Torn}
  BY DocumentFacts DEF IndexInit
<1>3. spawns \in 0..MaxSpawns /\ expired \in 0..spawns /\ took \in [Writers -> 0..MaxSpawns]
  BY IndexAssumption DEF IndexInit
<1>4. IndexTypeOK
  BY <1>2, <1>3 DEF IndexInit, IndexTypeOK, IndexSteps
<1>5. QED
  BY <1>1, <1>4 DEF IndexInit, IndexTyped

\* Every step keeps them.
LEMMA NextIndexTyped == IndexTyped /\ [IndexNext]_indexVars => IndexTyped'
<1> SUFFICES ASSUME IndexTyped, [IndexNext]_indexVars PROVE IndexTyped'
  OBVIOUS
<1> USE IndexAssumption
        DEF IndexTyped, IndexTypeOK, AtWork, Resting, IndexSteps, Operations, LinkSteps, RowSteps
<1>0. Document \in Documents /\ Empty \in Documents
  BY DocumentFacts
<1>k. ikills' \in Nat
  BY Sticks
<1> USE <1>k
<1>1. ASSUME NEW p \in Writers, BeginOp(p) PROVE IndexTyped'
  BY <1>1 DEF BeginOp, IndexGoto
<1>2. ASSUME NEW p \in Writers, ListRows(p) PROVE IndexTyped'
  <2> DEFINE rows == (IF index = Torn THEN {} ELSE Listed) \cup {child[p]}
             n == [content[p] EXCEPT !.rows = rows]
  <2>1. /\ ipc[p] = "list" /\ iop[p] = "Upsert" /\ content' = [content EXCEPT ![p] = n]
        /\ ipc' = [ipc EXCEPT ![p] = "prev"]
        /\ UNCHANGED <<iop, child, parent, took, open, docs, index, tmp, spawns, expired, linked,
                       claims, unsaved, overlap, wiped>>
    BY <1>2 DEF ListRows, IndexGoto, Hold, indexHist
  <2>2. rows \in SUBSET Ids
    BY <2>1, Fields DEF Listed
  <2>3. n \in Documents
    BY <2>2, RowsIn DEF WithRows
  <2> HIDE DEF n
  <2>4. QED
    BY <2>1, <2>3
<1>3. ASSUME NEW p \in Writers, ListKept(p) PROVE IndexTyped'
  <2> DEFINE n == [content[p] EXCEPT !.rows = Listed \ {child[p]}]
  <2>1. CASE index = Torn /\ IndexReturn(p)
    BY <1>0, <1>3, <2>1 DEF ListKept, IndexGoto, IndexReturn, indexHist
  <2>2. CASE index # Torn /\ content' = [content EXCEPT ![p] = n] /\ IndexGoto(p, "trunc") /\ Hold
    <3>1. Listed \ {child[p]} \in SUBSET Ids
      BY <2>2, Fields DEF Listed
    <3>2. n \in Documents
      BY <3>1, RowsIn DEF WithRows
    <3> HIDE DEF n
    <3>3. QED
      BY <1>3, <2>2, <3>2 DEF ListKept, IndexGoto, Hold, indexHist
  <2>3. QED
    BY <1>3, <2>1, <2>2 DEF ListKept
<1>4. ASSUME NEW p \in Writers, KeepPrev(p) PROVE IndexTyped'
  <2> DEFINE n == [Document EXCEPT !.rows = content[p].rows]
  <2>1. n \in Documents
    BY <1>0, Fields, RowsIn DEF WithRows
  <2>2. content' = [content EXCEPT ![p] = n]
    BY <1>4 DEF KeepPrev
  <2> HIDE DEF n
  <2>3. QED
    BY <1>4, <2>1, <2>2 DEF KeepPrev, IndexGoto, Hold, indexHist
<1>5. ASSUME NEW p \in Writers, TruncateIndex(p) PROVE IndexTyped'
  BY <1>5 DEF TruncateIndex, IndexGoto, Hold, indexHist
<1>6. ASSUME NEW p \in Writers, FillIndex(p) PROVE IndexTyped'
  <2>1. /\ index' \in Documents \cup {None, Torn} /\ tmp' \in Documents \cup {None, Torn}
        /\ open' = [open EXCEPT ![p] = None]
    BY <1>6 DEF FillIndex, FillOpen, Filled
  <2>2. wiped' \in BOOLEAN
    BY <1>6 DEF FillIndex
  <2>3. QED
    BY <1>0, <1>6, <2>1, <2>2 DEF FillIndex, IndexGoto, IndexReturn
<1>7. ASSUME NEW p \in Writers, LoadLinks(p) PROVE IndexTyped'
  <2>1. /\ Loaded(p) /\ ipc[p] = "load" /\ UNCHANGED claims
        /\ UNCHANGED <<open, docs, index, tmp, spawns, expired, unsaved, overlap, wiped>>
    BY <1>7, LoadCases
  <2>2. ASSUME IndexReturn(p), linked' \in [Ids -> Ids \cup {None}] PROVE IndexTyped'
    BY <1>0, <2>1, <2>2 DEF IndexReturn, IndexGoto
  <2>3. ASSUME NEW n \in Documents, content' = [content EXCEPT ![p] = n], UNCHANGED linked,
               IndexGoto(p, "tmp"), Hold, iop[p] # "ClaimPending", iop[p] # "Upsert",
               iop[p] # "Delete"
        PROVE  IndexTyped'
    BY <2>1, <2>3 DEF IndexGoto, Hold
  <2>4. ASSUME NEW r \in Ids \cup {None}, content' = [content EXCEPT ![p] = WithLink(Document, child[p], r)],
               UNCHANGED linked, IndexGoto(p, "tmp"), Hold, iop[p] \in {"Register", "Unregister"}
        PROVE  IndexTyped'
    BY <1>0, <2>1, <2>3, <2>4, LinkIn
  <2>5. Document.links[child[p]] \in Ids \cup {None}
    BY <1>0, <2>1, Fields
  <2>6. CASE IndexReturn(p)
    BY <2>1, <2>2, <2>5, <2>6 DEF Loaded
  <2>7. CASE iop[p] = "Annotate" /\ ~IndexReturn(p)
    BY <1>0, <2>1, <2>3, <2>7 DEF Loaded
  <2>8. CASE iop[p] = "Register" /\ ~IndexReturn(p)
    BY <2>1, <2>4, <2>8 DEF Loaded
  <2>9. CASE iop[p] = "Unregister" /\ ~IndexReturn(p)
    BY <2>1, <2>4, <2>9 DEF Loaded
  <2>10. CASE iop[p] = "ClaimPending" /\ ~IndexReturn(p)
    <3>1. IndexGoto(p, "pend") /\ Hold /\ UNCHANGED <<content, linked>>
      BY <2>1, <2>10 DEF Loaded
    <3>2. QED
      BY <2>1, <2>10, <3>1 DEF IndexGoto, Hold
  <2>11. QED
    BY <2>1, <2>6, <2>7, <2>8, <2>9, <2>10 DEF Loaded
<1>8. ASSUME NEW p \in Writers, NotePending(p) PROVE IndexTyped'
  <2> DEFINE s == Noting(Document.pend, parent[p])
             n == WithPend(Document, s)
  <2>1. /\ ipc[p] = "pend" /\ iop[p] = "NotePending" /\ content' = [content EXCEPT ![p] = n]
        /\ ipc' = [ipc EXCEPT ![p] = "tmp"] /\ spawns' = spawns + 1 /\ spawns < MaxSpawns
        /\ UNCHANGED <<iop, child, parent, took, open, docs, index, tmp, expired, linked,
                       claims, unsaved, overlap, wiped>>
    BY <1>8 DEF NotePending, IndexGoto, Hold, indexHist, WithPend, Noting, Waits
  <2>2. s \in SUBSET Spawn
    BY <1>0, <2>1, Fields DEF Noting, Spawn
  <2>3. n \in Documents
    BY <1>0, <2>2, PendIn
  <2> HIDE DEF n
  <2>4. spawns' \in 0..MaxSpawns /\ expired' \in 0..spawns'
    BY <2>1
  <2>5. QED
    BY <2>1, <2>3, <2>4
<1>9. ASSUME NEW p \in Writers, ClaimPending(p) PROVE IndexTyped'
  <2>1. CASE IndexReturn(p)
    BY <1>0, <1>9, <2>1 DEF ClaimPending, IndexGoto, IndexReturn, indexHist
  <2>2. ASSUME NEW s \in Document.pend, Claims(p, s) PROVE IndexTyped'
    <3> DEFINE n == WithPend(Document, Claimed(Document.pend, s, child[p]))
    <3>1. s \in Spawn /\ s.n \in 1..MaxSpawns /\ s.parent \in Ids
      BY <1>0, Fields DEF Spawn
    <3>2. Claimed(Document.pend, s, child[p]) \in SUBSET Spawn
      BY <1>0, <2>2, <3>1, Fields DEF Claims, Claimed, Spawn
    <3>3. n \in Documents
      BY <1>0, <3>2, PendIn
    <3> HIDE DEF n
    <3>4. /\ ipc[p] = "pend" /\ iop[p] = "ClaimPending" /\ content' = [content EXCEPT ![p] = n]
          /\ ipc' = [ipc EXCEPT ![p] = "tmp"] /\ parent' = [parent EXCEPT ![p] = s.parent]
          /\ took' = [took EXCEPT ![p] = s.n]
          /\ UNCHANGED <<iop, child, open, docs, index, tmp, spawns, expired, linked, claims,
                         unsaved, overlap, wiped>>
      BY <2>2 DEF Claims, IndexGoto, indexHist, n
    <3>5. s.n \in 0..MaxSpawns /\ s.n # 0
      BY <3>1
    <3>6. QED
      BY <3>1, <3>3, <3>4, <3>5
  <2>3. QED
    BY <1>9, <2>1, <2>2, ClaimCases
<1>10. ASSUME NEW p \in Writers, TruncateTmp(p) PROVE IndexTyped'
  BY <1>10 DEF TruncateTmp, IndexGoto, Hold, indexHist
<1>11. ASSUME NEW p \in Writers, FillTmp(p) PROVE IndexTyped'
  BY <1>11 DEF FillTmp, FillOpen, Filled, IndexGoto, Hold, indexHist
<1>12. ASSUME NEW p \in Writers, RenameTmp(p) PROVE IndexTyped'
  <2>1. /\ ipc[p] = "rename"
        /\ index' \in Documents \cup {None, Torn} /\ tmp' \in Documents \cup {None, Torn}
        /\ open' \in [Writers -> {None, "tmp", "index", "gone"}]
        /\ UNCHANGED <<docs, spawns, expired, unsaved, overlap, wiped>>
    BY <1>12 DEF RenameTmp
  <2>2. CASE iop[p] = "ClaimPending"
    <3>1. IndexGoto(p, "link") /\ Hold /\ UNCHANGED <<content, linked, claims>>
      BY <1>12, <2>2 DEF RenameTmp
    <3>2. QED
      BY <2>1, <2>2, <3>1 DEF IndexGoto, Hold
  <2>3. CASE iop[p] # "ClaimPending"
    <3>1. /\ linked' \in {linked, [linked EXCEPT ![child[p]] = parent[p]],
                          [linked EXCEPT ![child[p]] = None]}
          /\ claims' = claims \cup ClaimTold(p)
          /\ IndexReturn(p)
      BY <1>12, <2>3 DEF RenameTmp
    <3>2. linked' \in [Ids -> Ids \cup {None}]
      BY <2>1, <3>1
    <3>3. claims' \subseteq (1..MaxSpawns) \X Ids
      <4>1. child[p] \in Ids /\ took[p] \in 0..MaxSpawns
        BY <2>1
      <4>2. QED
        BY <3>1, <4>1, IndexAssumption DEF ClaimTold
    <3>4. QED
      BY <1>0, <2>1, <3>1, <3>2, <3>3 DEF IndexReturn, IndexGoto
  <2>4. QED
    BY <2>2, <2>3
<1>13. ASSUME NEW p \in Writers, LinkClaim(p) PROVE IndexTyped'
  <2> DEFINE n == WithLink(Document, child[p], parent[p])
  <2>1. /\ ipc[p] = "link" /\ content' = [content EXCEPT ![p] = n]
        /\ iop' = [iop EXCEPT ![p] = "Register"] /\ ipc' = [ipc EXCEPT ![p] = "tmp"]
        /\ UNCHANGED <<child, parent, took, open, docs, index, tmp, spawns, expired, linked,
                       claims, unsaved, overlap, wiped>>
    BY <1>13 DEF LinkClaim, IndexGoto, indexHist, WithLink
  <2>2. n \in Documents
    BY <1>0, <2>1, LinkIn
  <2> HIDE DEF n
  <2>3. QED
    BY <2>1, <2>2
<1>14. ASSUME NEW p \in Writers, SaveFails(p) PROVE IndexTyped'
  <2>1. /\ ipc[p] \in LinkSteps /\ open' = [open EXCEPT ![p] = None]
        /\ UNCHANGED <<docs, index, tmp, spawns, expired, overlap, wiped>>
    BY <1>14 DEF SaveFails
  <2>2. CASE iop[p] = "ClaimPending"
    <3>1. /\ IndexGoto(p, "link") /\ Hold /\ UNCHANGED <<content, linked, claims>>
          /\ unsaved' = unsaved \cup {took[p]}
      BY <1>14, <2>2 DEF SaveFails
    <3>2. took[p] \in 1..MaxSpawns
      BY <2>1, <2>2
    <3>3. QED
      BY <2>1, <2>2, <3>1, <3>2 DEF IndexGoto, Hold
  <2>3. CASE iop[p] # "ClaimPending"
    <3>1. /\ linked' = IF took[p] = 0 THEN linked ELSE [linked EXCEPT ![child[p]] = parent[p]]
          /\ claims' = claims \cup ClaimTold(p) /\ IndexReturn(p) /\ UNCHANGED unsaved
      BY <1>14, <2>3 DEF SaveFails
    <3>2. linked' \in [Ids -> Ids \cup {None}]
      BY <2>1, <3>1
    <3>3. claims' \subseteq (1..MaxSpawns) \X Ids
      <4>1. child[p] \in Ids /\ took[p] \in 0..MaxSpawns
        BY <2>1
      <4>2. QED
        BY <3>1, <4>1, IndexAssumption DEF ClaimTold
    <3>4. QED
      BY <1>0, <2>1, <3>1, <3>2, <3>3 DEF IndexReturn, IndexGoto
  <2>4. QED
    BY <2>2, <2>3
<1>15. ASSUME NEW p \in Writers, KillWriter(p) PROVE IndexTyped'
  BY <1>0, <1>15 DEF KillWriter, IndexFault, IndexGoto, IndexReturn, indexHist
<1>16. CASE Expire
  BY <1>16 DEF Expire, indexFrame, indexHist
<1>17. CASE UNCHANGED indexVars
  BY <1>17 DEF indexVars, indexFrame, indexHist
<1>18. QED
  BY <1>1, <1>2, <1>3, <1>4, <1>5, <1>6, <1>7, <1>8, <1>9, <1>10, <1>11, <1>12, <1>13, <1>14,
     <1>15, <1>16, <1>17 DEF IndexNext

(* SessionIndex. As long as no two operations overlap, the one at work has  *)
(* the file.                                                                *)

Lone == \A p, q \in Writers : ipc[p] # "idle" /\ ipc[q] # "idle" => p = q
Own == \A p \in Writers :
    /\ ipc[p] = "tmpFill" => tmp = Torn /\ open[p] = "tmp"
    /\ ipc[p] = "rename" => tmp = content[p]
    /\ ipc[p] = "fill" => index = Torn /\ open[p] = "index"
Solo == Lone /\ Own

\* Who is at work stays alone, and what it opened stays its own.
LEMMA NextSolo == ASSUME IndexTyped, ~overlap => Solo, [IndexNext]_indexVars, ~overlap' PROVE Solo'
<1> USE DocumentFacts DEF IndexTyped, IndexTypeOK, AtWork, Resting, Solo, Lone, Own
<1>0. ~overlap /\ Solo
  BY DEF IndexNext, BeginOp, ListRows, ListKept, KeepPrev, TruncateIndex, FillIndex, LoadLinks,
         NotePending, ClaimPending, TruncateTmp, FillTmp, RenameTmp, LinkClaim, SaveFails, IndexFault, KillWriter,
         Expire, indexVars, indexHist
<1>1. ASSUME NEW p \in Writers, BeginOp(p) PROVE Solo'
  <2>1. PICK st \in {"list", "pend", "load"} : ipc' = [ipc EXCEPT ![p] = st]
    BY <1>1 DEF BeginOp, IndexGoto
  <2>2. \A q \in Writers : ipc[q] = "idle"
    BY <1>1 DEF BeginOp
  <2>3. UNCHANGED <<content, open, index, tmp>>
    BY <1>1 DEF BeginOp
  <2>4. QED
    BY <2>1, <2>2, <2>3
<1>2. ASSUME NEW p \in Writers, ListRows(p) PROVE Solo'
  BY <1>0, <1>2 DEF ListRows, Listed, IndexGoto, Hold, indexHist
<1>3. ASSUME NEW p \in Writers, ListKept(p) PROVE Solo'
  BY <1>0, <1>3 DEF ListKept, Listed, IndexGoto, IndexReturn, Hold, indexHist
<1>4. ASSUME NEW p \in Writers, KeepPrev(p) PROVE Solo'
  BY <1>0, <1>4 DEF KeepPrev, IndexGoto, Hold, indexHist
<1>5. ASSUME NEW p \in Writers, TruncateIndex(p) PROVE Solo'
  BY <1>0, <1>5 DEF TruncateIndex, IndexGoto, Hold, indexHist
<1>6. ASSUME NEW p \in Writers, FillIndex(p) PROVE Solo'
  BY <1>0, <1>6 DEF FillIndex, FillOpen, Filled, IndexGoto, IndexReturn
<1>7. ASSUME NEW p \in Writers, LoadLinks(p) PROVE Solo'
  BY <1>0, <1>7 DEF LoadLinks, Report, IndexGoto, IndexReturn, Hold
<1>8. ASSUME NEW p \in Writers, NotePending(p) PROVE Solo'
  BY <1>0, <1>8 DEF NotePending, IndexGoto, Hold, indexHist
<1>9. ASSUME NEW p \in Writers, ClaimPending(p) PROVE Solo'
  BY <1>0, <1>9 DEF ClaimPending, Free, Claimed, IndexGoto, IndexReturn, indexHist
<1>10. ASSUME NEW p \in Writers, TruncateTmp(p) PROVE Solo'
  BY <1>0, <1>10 DEF TruncateTmp, IndexGoto, Hold, indexHist
<1>11. ASSUME NEW p \in Writers, FillTmp(p) PROVE Solo'
  BY <1>0, <1>11 DEF FillTmp, FillOpen, Filled, IndexGoto, Hold, indexHist
<1>12. ASSUME NEW p \in Writers, RenameTmp(p) PROVE Solo'
  BY <1>0, <1>12 DEF RenameTmp, IndexGoto, IndexReturn, Hold
<1>13. ASSUME NEW p \in Writers, LinkClaim(p) PROVE Solo'
  BY <1>0, <1>13 DEF LinkClaim, IndexGoto, indexHist
<1>14. ASSUME NEW p \in Writers, SaveFails(p) PROVE Solo'
  BY <1>0, <1>14 DEF SaveFails, IndexGoto, IndexReturn, Hold
<1>15. ASSUME NEW p \in Writers, KillWriter(p) PROVE Solo'
  BY <1>0, <1>15 DEF KillWriter, IndexFault, IndexGoto, IndexReturn, indexHist
<1>16. CASE Expire
  BY <1>0, <1>16 DEF Expire, indexFrame, indexHist
<1>17. CASE UNCHANGED indexVars
  BY <1>0, <1>17 DEF indexVars, indexFrame, indexHist
<1>18. QED
  BY <1>0, <1>1, <1>2, <1>3, <1>4, <1>5, <1>6, <1>7, <1>8, <1>9, <1>10, <1>11, <1>12, <1>13, <1>14,
     <1>15, <1>16, <1>17 DEF IndexNext

(* SessionIndex. A spawn is claimed once.                                   *)

\* Where pend marks spawn n, it marks it as claimed by c.
Marked(pend, n, c) == \A s \in pend : s.n = n => s.by = c
\* No spawn of the future, none twice, and none free that was claimed.
Sound(pend) ==
    /\ \A s, t \in pend : s.n =< spawns /\ (s.n = t.n => s = t)
    /\ \A x \in claims : x[1] \notin unsaved => Marked(pend, x[1], x[2])
Taking == \A p \in Writers : took[p] # 0 /\ took[p] \notin unsaved =>
    /\ Marked(content[p].pend, took[p], child[p])
    /\ ipc[p] = "link" \/ iop[p] = "Register" => Marked(Document.pend, took[p], child[p])
    /\ \A x \in claims : x[1] # took[p]
ClaimInv ==
    /\ Sound(Document.pend) /\ \A p \in Writers : Sound(content[p].pend)
    /\ \A p \in Writers : took[p] =< spawns
    /\ \A x \in claims : x[1] =< spawns
    /\ Taking
    /\ \A x, y \in claims : x[1] = y[1] /\ x[1] \notin unsaved => x[2] = y[2]

\* No step takes a spawn from who has claimed it.
LEMMA NextClaim ==
    ASSUME IndexTyped, Solo, ClaimInv, [IndexNext]_indexVars, ~overlap' PROVE ClaimInv'
<1> USE DEF IndexTyped, IndexTypeOK, AtWork, Resting, Solo, Lone, Own, ClaimInv, Taking, Marked, Sound,
        LinkSteps, RowSteps
<1>0. /\ Document \in Documents /\ Empty \in Documents /\ Empty.pend = {}
      /\ index' = index => Document' = Document
      /\ index' = Torn => Document' = Empty
      /\ index' \in Documents => Document' = index'
      /\ Document.pend \in SUBSET Spawn
  BY DocumentFacts, Fields DEF Document, Readable
<1>1. ASSUME NEW p \in Writers, BeginOp(p) PROVE ClaimInv'
  BY <1>0, <1>1 DEF BeginOp, IndexGoto
<1>2. ASSUME NEW p \in Writers, ListRows(p) PROVE ClaimInv'
  BY <1>0, <1>2 DEF ListRows, Listed, IndexGoto, Hold, indexHist
<1>3. ASSUME NEW p \in Writers, ListKept(p) PROVE ClaimInv'
  <2>1. UNCHANGED <<index, spawns, claims, unsaved>>
    BY <1>3 DEF ListKept, indexHist
  <2>2. CASE IndexReturn(p)
    BY <1>0, <2>1, <2>2 DEF IndexReturn, IndexGoto
  <2>3. CASE /\ content' = [content EXCEPT ![p].rows = Listed \ {child[p]}]
             /\ IndexGoto(p, "trunc") /\ Hold
    <3>1. content'[p].pend = content[p].pend /\ content[p] \in Documents
      <4>1. content[p] \in Documents /\ content'[p] = [content[p] EXCEPT !.rows = Listed \ {child[p]}]
        BY <2>3
      <4>2. QED
        BY <4>1 DEF Documents
    <3>2. ipc[p] = "list" /\ iop[p] = "Delete"
      BY <1>3 DEF ListKept
    <3>3. QED
      BY <1>0, <2>1, <2>3, <3>1, <3>2 DEF IndexGoto, Hold
  <2>4. QED
    BY <1>3, <2>2, <2>3 DEF ListKept
<1>4. ASSUME NEW p \in Writers, KeepPrev(p) PROVE ClaimInv'
  BY <1>0, <1>4 DEF KeepPrev, IndexGoto, Hold, indexHist
<1>5. ASSUME NEW p \in Writers, TruncateIndex(p) PROVE ClaimInv'
  BY <1>0, <1>5 DEF TruncateIndex, IndexGoto, Hold, indexHist
<1>6. ASSUME NEW p \in Writers, FillIndex(p) PROVE ClaimInv'
  BY <1>0, <1>6 DEF FillIndex, FillOpen, Filled, IndexGoto, IndexReturn
<1>7. ASSUME NEW p \in Writers, LoadLinks(p) PROVE ClaimInv'
  <2>1. /\ Loaded(p) /\ ipc[p] = "load" /\ UNCHANGED <<claims, unsaved, index, spawns>>
    BY <1>7, LoadCases
  <2>2. CASE IndexReturn(p)
    BY <1>0, <2>1, <2>2 DEF IndexReturn, IndexGoto
  <2>3. ASSUME NEW n, n.pend = Document.pend, content' = [content EXCEPT ![p] = n],
               IndexGoto(p, "tmp"), Hold
        PROVE  ClaimInv'
    <3>1. took[p] = 0
      BY <2>1
    <3>2. QED
      BY <1>0, <2>1, <2>3, <3>1 DEF IndexGoto, Hold
  <2>4. CASE \E r \in Ids \cup {None} :
                /\ content' = [content EXCEPT ![p] = WithLink(Document, child[p], r)]
                /\ IndexGoto(p, "tmp") /\ Hold
    <3>1. PICK r \in Ids \cup {None} :
             content' = [content EXCEPT ![p] = WithLink(Document, child[p], r)]
      BY <2>4
    <3>2. child[p] \in Ids
      BY <2>1
    <3>3. WithLink(Document, child[p], r).pend = Document.pend
      <4> HIDE DEF IndexTyped, IndexTypeOK, AtWork, Resting, Solo, ClaimInv
      <4>1. Document \in Documents
        BY <1>0
      <4>2. QED
        BY <3>2, <4>1, LinkIn
    <3>4. QED
      BY <2>3, <2>4, <3>1, <3>3
  <2>5. CASE content' = [content EXCEPT ![p] = Document] /\ IndexGoto(p, "tmp") /\ Hold
    BY <2>3, <2>5
  <2>6. CASE content' = content /\ IndexGoto(p, "pend") /\ Hold
    BY <1>0, <2>1, <2>6 DEF IndexGoto, Hold
  <2>7. QED
    BY <2>1, <2>2, <2>4, <2>5, <2>6 DEF Loaded
<1>8. ASSUME NEW p \in Writers, NotePending(p) PROVE ClaimInv'
  <2>0. PICK new : new = Noting(Document.pend, parent[p])
    OBVIOUS
  <2> DEFINE n == WithPend(Document, new)
  <2>1. /\ ipc[p] = "pend" /\ iop[p] = "NotePending" /\ content' = [content EXCEPT ![p] = n]
        /\ ipc' = [ipc EXCEPT ![p] = "tmp"] /\ spawns' = spawns + 1 /\ spawns < MaxSpawns
        /\ UNCHANGED <<iop, child, parent, took, index, claims, unsaved>>
    BY <1>8, <2>0 DEF NotePending, IndexGoto, Hold, indexHist, WithPend, Noting, Waits
  <2>2. new \in SUBSET Spawn
    BY <1>0, <2>0, <2>1, IndexAssumption DEF Noting, Spawn
  <2>3. n.pend = new
    BY <1>0, <2>2, PendIn
  <2>4. ASSUME NEW pend \in SUBSET Spawn, Sound(pend) PROVE Sound(pend)'
    BY <2>1, <2>4 DEF Spawn
  <2>5. Sound(new)'
    <3>1. ASSUME NEW s \in new, NEW t \in new
          PROVE  s.n =< spawns + 1 /\ (s.n = t.n => s = t)
      BY <1>0, <2>0, <3>1 DEF Noting, Spawn
    <3>2. ASSUME NEW x \in claims, x[1] \notin unsaved, NEW s \in new, s.n = x[1] PROVE s.by = x[2]
      BY <1>0, <2>0, <3>2 DEF Noting
    <3>3. QED
      BY <2>1, <3>1, <3>2
  <2>6. Sound(Document.pend)' /\ \A q \in Writers \ {p} : Sound(content[q].pend)'
    <3>1. Document' = Document
      BY <1>0, <2>1
    <3>2. ASSUME NEW q \in Writers \ {p} PROVE Sound(content[q].pend)'
      <4>1. content'[q] = content[q] /\ content[q].pend \in SUBSET Spawn
        BY <2>1, Fields
      <4>2. Sound(content[q].pend)
        OBVIOUS
      <4>3. QED
        BY <2>1, <4>1, <4>2 DEF Spawn
    <3>3. QED
      BY <1>0, <2>1, <3>1, <3>2 DEF Spawn
  <2>7. content'[p].pend = new
    BY <2>1, <2>3
  <2>8. \A q \in Writers : Sound(content[q].pend)'
    BY <2>5, <2>6, <2>7
  <2>9. took[p] = 0
    BY <2>1
  <2>10. Taking'
    BY <1>0, <2>1, <2>9
  <2>11. QED
    BY <2>1, <2>6, <2>8, <2>10
<1>9. ASSUME NEW p \in Writers, ClaimPending(p) PROVE ClaimInv'
  <2>1. CASE IndexReturn(p)
    BY <1>0, <1>9, <2>1 DEF ClaimPending, IndexGoto, IndexReturn, indexHist
  <2>2. ASSUME NEW s \in Document.pend, Claims(p, s) PROVE ClaimInv'
    <3> DEFINE new == Claimed(Document.pend, s, child[p])
    <3>1. /\ ipc[p] = "pend" /\ iop[p] = "ClaimPending"
          /\ content' = [content EXCEPT ![p] = WithPend(Document, new)]
          /\ ipc' = [ipc EXCEPT ![p] = "tmp"]
          /\ took' = [took EXCEPT ![p] = s.n] /\ s.by = None
          /\ UNCHANGED <<iop, child, index, spawns, claims, unsaved>>
      BY <2>2 DEF Claims, Free, IndexGoto, indexHist
    <3>2. s \in Spawn /\ s.n \in 1..MaxSpawns /\ child[p] \in Ids
      BY <1>0, <3>1 DEF Spawn
    <3>3. new \in SUBSET Spawn
      BY <1>0, <3>2 DEF Claimed, Spawn
    <3>4. content'[p].pend = new
      BY <1>0, <3>1, <3>3, PendIn
    <3>5. s.n \notin unsaved => \A x \in claims : x[1] # s.n
      BY <3>1, IndexAssumption
    <3>6. \A t \in new : \E u \in Document.pend :
             t.n = u.n /\ ((t = u /\ u # s) \/ (u = s /\ t = [s EXCEPT !.by = child[p]]))
      <4>1. [s EXCEPT !.by = child[p]].n = s.n
        BY <3>2 DEF Spawn
      <4>2. SUFFICES ASSUME NEW t \in new
                     PROVE  \E u \in Document.pend :
                        t.n = u.n /\ ((t = u /\ u # s) \/ (u = s /\ t = [s EXCEPT !.by = child[p]]))
        OBVIOUS
      <4>3. CASE t \in Document.pend \ {s}
        BY <4>3
      <4>4. CASE t = [s EXCEPT !.by = child[p]]
        BY <4>1, <4>4
      <4>5. QED
        BY <4>2, <4>3, <4>4 DEF Claimed
    <3>7. Sound(new)
      BY <3>5, <3>6
    <3>8. Marked(new, s.n, child[p])
      BY <3>2, <3>6 DEF Spawn
    <3>9. Taking'
      BY <1>0, <3>1, <3>4, <3>5, <3>8
    <3>10. QED
      BY <1>0, <3>1, <3>4, <3>7, <3>9
  <2>3. QED
    BY <1>9, <2>1, <2>2, ClaimCases
<1>10. ASSUME NEW p \in Writers, TruncateTmp(p) PROVE ClaimInv'
  BY <1>0, <1>10 DEF TruncateTmp, IndexGoto, Hold, indexHist
<1>11. ASSUME NEW p \in Writers, FillTmp(p) PROVE ClaimInv'
  BY <1>0, <1>11 DEF FillTmp, FillOpen, Filled, IndexGoto, Hold, indexHist
<1>12. ASSUME NEW p \in Writers, RenameTmp(p) PROVE ClaimInv'
  <2>1. /\ ipc[p] = "rename" /\ tmp = content[p] /\ content[p] \in Documents
        /\ index' = content[p] /\ spawns' = spawns /\ unsaved' = unsaved
    BY <1>12, DocumentFacts DEF RenameTmp
  <2>2. Document' = content[p]
    BY <1>0, <2>1
  <2>3. CASE iop[p] = "ClaimPending"
    <3>1. IndexGoto(p, "link") /\ Hold /\ UNCHANGED <<content, linked, claims>>
      BY <1>12, <2>3 DEF RenameTmp
    <3>2. QED
      BY <2>1, <2>2, <2>3, <3>1 DEF IndexGoto, Hold
  <2>4. CASE iop[p] # "ClaimPending"
    <3>1. /\ claims' = claims \cup ClaimTold(p)
          /\ IndexReturn(p)
      BY <1>12, <2>4 DEF RenameTmp
    <3>2. /\ ipc' = [ipc EXCEPT ![p] = "idle"] /\ took' = [took EXCEPT ![p] = 0]
          /\ content' = [content EXCEPT ![p] = Empty]
      BY <3>1 DEF IndexReturn, IndexGoto
    <3>3. \A q \in Writers : took'[q] = 0 /\ content'[q] = Empty
      BY <2>1, <3>2
    <3>4. CASE took[p] = 0
      BY <1>0, <2>1, <2>2, <3>1, <3>3, <3>4 DEF ClaimTold
    <3>5. CASE took[p] # 0
      <4>1. iop[p] = "Register"
        BY <2>1, <2>4, <3>5
      <4>2. /\ claims' = claims \cup {<<took[p], child[p]>>}
            /\ took[p] \notin unsaved =>
                  /\ Marked(content[p].pend, took[p], child[p])
                  /\ \A x \in claims : x[1] # took[p]
        BY <3>1, <3>5 DEF ClaimTold
      <4>3. Sound(Document.pend)'
        BY <2>1, <2>2, <4>2
      <4>4. QED
        BY <1>0, <2>1, <3>3, <4>2, <4>3
    <3>6. QED
      BY <3>4, <3>5
  <2>5. QED
    BY <2>3, <2>4
<1>13. ASSUME NEW p \in Writers, LinkClaim(p) PROVE ClaimInv'
  BY <1>0, <1>13 DEF LinkClaim, IndexGoto, indexHist
<1>14. ASSUME NEW p \in Writers, SaveFails(p) PROVE ClaimInv'
  <2>1. ipc[p] \in LinkSteps /\ UNCHANGED <<index, spawns>>
    BY <1>14 DEF SaveFails
  <2>2. CASE iop[p] = "ClaimPending"
    <3>1. /\ IndexGoto(p, "link") /\ Hold /\ UNCHANGED <<content, linked, claims>>
          /\ unsaved' = unsaved \cup {took[p]}
      BY <1>14, <2>2 DEF SaveFails
    <3>2. QED
      BY <1>0, <2>1, <2>2, <3>1 DEF IndexGoto, Hold
  <2>3. CASE iop[p] # "ClaimPending"
    <3>1. claims' = claims \cup ClaimTold(p) /\ IndexReturn(p) /\ UNCHANGED unsaved
      BY <1>14, <2>3 DEF SaveFails
    <3>2. \A q \in Writers : took'[q] = 0 /\ content'[q] = Empty
      BY <2>1, <3>1 DEF IndexReturn, IndexGoto
    <3>3. CASE took[p] = 0
      BY <1>0, <2>1, <3>1, <3>2, <3>3 DEF ClaimTold
    <3>4. CASE took[p] # 0
      <4>1. /\ iop[p] = "Register" /\ claims' = claims \cup {<<took[p], child[p]>>}
        BY <2>1, <2>3, <3>1, <3>4 DEF ClaimTold
      <4>2. took[p] \notin unsaved =>
               /\ Marked(Document.pend, took[p], child[p])
               /\ \A x \in claims : x[1] # took[p]
        BY <3>4, <4>1
      <4>3. Sound(Document.pend)'
        BY <1>0, <2>1, <3>1, <4>1, <4>2
      <4>4. QED
        BY <1>0, <2>1, <3>1, <3>2, <4>1, <4>2, <4>3
    <3>5. QED
      BY <3>3, <3>4
  <2>4. QED
    BY <2>2, <2>3
<1>15. ASSUME NEW p \in Writers, KillWriter(p) PROVE ClaimInv'
  BY <1>0, <1>15 DEF KillWriter, IndexFault, IndexGoto, IndexReturn, indexHist
<1>16. CASE Expire
  BY <1>0, <1>16 DEF Expire, indexFrame, indexHist
<1>17. CASE UNCHANGED indexVars
  BY <1>0, <1>17 DEF indexVars, indexFrame, indexHist
<1>18. QED
  BY <1>0, <1>1, <1>2, <1>3, <1>4, <1>5, <1>6, <1>7, <1>8, <1>9, <1>10, <1>11, <1>12, <1>13, <1>14,
     <1>15, <1>16, <1>17 DEF IndexNext

(* SessionIndex. What the two packages owe each other.                      *)

\* The links that will have been reported when p is done.
Reported(p) ==
    IF iop[p] = "Register" THEN [linked EXCEPT ![child[p]] = parent[p]]
    ELSE IF iop[p] = "Unregister" THEN [linked EXCEPT ![child[p]] = None]
    ELSE linked
\* The file is whole but while rows are written into it.
Intact == index = Torn => \E p \in Writers : ipc[p] = "fill"
\* No row is missing, in the file or in what is about to be written, but the
\* one that is being added.
RowsKept ==
    /\ index # Torn => \A c \in docs :
          c \in Document.rows \/ \E p \in Writers :
             ipc[p] \in {"list", "prev", "trunc"} /\ iop[p] = "Upsert" /\ child[p] = c
    /\ \A p \in Writers : ipc[p] \in {"prev", "trunc", "fill"} \cup LinkSteps =>
          docs \subseteq content[p].rows
    /\ \A p \in Writers : ipc[p] # "idle" /\ iop[p] = "Delete" => child[p] \notin docs
\* No link is missing, in the file or in what is about to be written.
LinksKept == ~wiped =>
    /\ index # Torn => Document.links = linked
    /\ \A p \in Writers :
          /\ ipc[p] \in {"trunc", "fill"} /\ iop[p] = "Upsert" => content[p].links = linked
          /\ ipc[p] \in LinkSteps => content[p].links = Reported(p)
SharedInv == Intact /\ RowsKept /\ LinksKept

\* No step loses a row or a link.
LEMMA NextShared ==
    ASSUME IndexTyped, Solo, SharedInv, [IndexNext]_indexVars, ~overlap', ikills' = 0
    PROVE  SharedInv'
<1> USE DEF IndexTyped, IndexTypeOK, AtWork, Resting, Solo, Lone, Own, SharedInv, Intact, RowsKept,
        LinksKept, Reported, LinkSteps, RowSteps
<1>0. /\ Document \in Documents /\ Empty \in Documents
      /\ index' = index => Document' = Document
      /\ index' = Torn => Document' = Empty
      /\ index' \in Documents => Document' = index'
      /\ Document.rows \in SUBSET Ids /\ Document.links \in [Ids -> Ids \cup {None}]
      /\ None \notin Documents /\ Torn \notin Documents /\ None # Torn
  BY DocumentFacts, Fields DEF Document, Readable
<1>1. ASSUME NEW p \in Writers, BeginOp(p) PROVE SharedInv'
  <2>1. PICK op \in Operations, c \in Ids, r \in Ids :
           /\ iop' = [iop EXCEPT ![p] = op] /\ child' = [child EXCEPT ![p] = c]
           /\ docs' = CASE op = "Upsert" -> docs \cup {c}
                        [] op = "Delete" -> docs \ {c}
                        [] OTHER -> docs
           /\ IndexGoto(p, CASE op \in {"Upsert", "Delete"} -> "list"
                             [] op = "NotePending" -> "pend"
                             [] OTHER -> "load")
    BY <1>1 DEF BeginOp
  <2>2. /\ \A q \in Writers : ipc[q] = "idle"
        /\ UNCHANGED <<content, index, linked, wiped>>
    BY <1>1 DEF BeginOp
  <2>3. index # Torn /\ index' # Torn /\ docs \subseteq Document.rows /\ Document' = Document
    BY <1>0, <2>2
  <2>4. ipc'[p] \in {"list", "pend", "load"} /\ \A q \in Writers \ {p} : ipc'[q] = "idle"
    BY <2>1, <2>2 DEF IndexGoto
  <2>5. CASE op = "Upsert"
    <3>1. docs' = docs \cup {c} /\ ipc'[p] = "list" /\ iop'[p] = "Upsert" /\ child'[p] = c
      BY <2>1, <2>5 DEF IndexGoto
    <3>2. QED
      BY <2>2, <2>3, <2>4, <3>1
  <2>6. CASE op = "Delete"
    <3>1. docs' = docs \ {c} /\ iop'[p] = "Delete" /\ child'[p] = c
      BY <2>1, <2>6
    <3>2. QED
      BY <2>2, <2>3, <2>4, <3>1
  <2>7. CASE op \notin {"Upsert", "Delete"}
    <3>1. docs' = docs /\ iop'[p] # "Delete" /\ iop'[p] # "Upsert"
      BY <2>1, <2>7
    <3>2. QED
      BY <2>2, <2>3, <2>4, <3>1
  <2>8. QED
    BY <2>5, <2>6, <2>7
<1>2. ASSUME NEW p \in Writers, ListRows(p) PROVE SharedInv'
  <2> DEFINE rows == (IF index = Torn THEN {} ELSE Listed) \cup {child[p]}
  <2>1. /\ ipc[p] = "list" /\ iop[p] = "Upsert"
        /\ content' = [content EXCEPT ![p] = WithRows(content[p], rows)]
        /\ ipc' = [ipc EXCEPT ![p] = "prev"]
        /\ UNCHANGED <<iop, child, parent, docs, index, linked, wiped>>
    BY <1>2 DEF ListRows, IndexGoto, Hold, indexHist, WithRows
  <2>2. index # Torn
    BY <2>1
  <2>3. docs \subseteq rows /\ rows \in SUBSET Ids
    <3>1. docs \subseteq Document.rows \cup {child[p]}
      BY <2>1, <2>2
    <3>2. CASE index = None
      BY <2>1, <2>2, <3>1, <3>2, DocumentFacts DEF Listed
    <3>3. CASE index # None
      BY <2>1, <2>2, <3>3, Fields DEF Listed
    <3>4. QED
      BY <3>2, <3>3
  <2>4. content'[p].rows = rows
    <3>1. content[p] \in Documents /\ content'[p] = WithRows(content[p], rows)
      BY <2>1
    <3>2. QED
      BY <2>3, <3>1, RowsIn
  <2> HIDE DEF rows
  <2>5. /\ ipc'[p] = "prev" /\ \A q \in Writers \ {p} : ipc'[q] = "idle"
        /\ index' # Torn /\ Document' = Document
    BY <1>0, <2>1, <2>2
  <2>6. Intact' /\ LinksKept'
    BY <2>1, <2>2, <2>5
  <2>7. RowsKept'
    BY <2>1, <2>2, <2>3, <2>4, <2>5
  <2>8. QED
    BY <2>6, <2>7
<1>3. ASSUME NEW p \in Writers, ListKept(p) PROVE SharedInv'
  <2> DEFINE rows == Listed \ {child[p]}
  <2>1. /\ ipc[p] = "list" /\ iop[p] = "Delete" /\ UNCHANGED <<docs, index, linked, wiped>>
    BY <1>3 DEF ListKept, indexHist
  <2>2. index # Torn
    BY <2>1
  <2>3. /\ content' = [content EXCEPT ![p] = WithRows(content[p], rows)]
        /\ ipc' = [ipc EXCEPT ![p] = "trunc"] /\ UNCHANGED <<iop, child, parent>>
    BY <1>3, <2>2 DEF ListKept, IndexGoto, Hold, WithRows
  <2>4. docs \subseteq rows /\ rows \in SUBSET Ids
    <3>1. docs \subseteq Document.rows /\ child[p] \notin docs
      BY <2>1, <2>2
    <3>2. CASE index = None
      BY <2>1, <2>2, <3>1, <3>2, DocumentFacts DEF Listed
    <3>3. CASE index # None
      BY <2>1, <2>2, <3>1, <3>3, Fields DEF Listed
    <3>4. QED
      BY <3>2, <3>3
  <2>5. content'[p].rows = rows
    <3>1. content[p] \in Documents /\ content'[p] = WithRows(content[p], rows)
      BY <2>3
    <3>2. QED
      BY <2>4, <3>1, RowsIn
  <2> HIDE DEF rows
  <2>6. /\ ipc'[p] = "trunc" /\ \A q \in Writers \ {p} : ipc'[q] = "idle"
        /\ index' # Torn /\ Document' = Document
    BY <1>0, <2>1, <2>2, <2>3
  <2>7. Intact' /\ LinksKept'
    BY <2>1, <2>2, <2>3, <2>6
  <2>8. RowsKept'
    BY <2>1, <2>2, <2>3, <2>4, <2>5, <2>6
  <2>9. QED
    BY <2>7, <2>8
<1>4. ASSUME NEW p \in Writers, KeepPrev(p) PROVE SharedInv'
  BY <1>0, <1>4 DEF KeepPrev, IndexGoto, Hold, indexHist
<1>5. ASSUME NEW p \in Writers, TruncateIndex(p) PROVE SharedInv'
  BY <1>0, <1>5 DEF TruncateIndex, IndexGoto, Hold, indexHist
<1>6. ASSUME NEW p \in Writers, FillIndex(p) PROVE SharedInv'
  <2>1. /\ ipc[p] = "fill" /\ iop[p] \in {"Upsert", "Delete"} /\ index = Torn
        /\ index' = content[p] /\ content[p] \in Documents
        /\ wiped' = (wiped \/ iop[p] = "Delete") /\ UNCHANGED <<docs, linked>>
    BY <1>6 DEF FillIndex, FillOpen, Filled
  <2>2. ipc' = [ipc EXCEPT ![p] = "idle"] /\ \A q \in Writers : ipc'[q] = "idle"
    BY <1>6, <2>1 DEF FillIndex, IndexReturn, IndexGoto
  <2>3. Document' = content[p] /\ index' # Torn
    BY <1>0, <2>1
  <2>4. QED
    BY <2>1, <2>2, <2>3
<1>7. ASSUME NEW p \in Writers, LoadLinks(p) PROVE SharedInv'
  <2>1. /\ Loaded(p) /\ ipc[p] = "load" /\ UNCHANGED <<docs, index, wiped>>
    BY <1>7, LoadCases
  <2>2. /\ index # Torn /\ docs \subseteq Document.rows /\ (~wiped => Document.links = linked)
        /\ Document' = Document /\ index' # Torn
        /\ \A q \in Writers \ {p} : ipc[q] = "idle"
        /\ child[p] \in Ids /\ parent[p] \in Ids
    BY <1>0, <2>1
  <2>0. Document \in Documents
    BY <1>0
  <2>3. CASE IndexReturn(p)
    <3>1. \A q \in Writers : ipc'[q] = "idle"
      BY <2>2, <2>3 DEF IndexReturn, IndexGoto
    <3>2. ~wiped => linked' = linked
      BY <1>0, <2>1, <2>2, <2>3 DEF Loaded
    <3>3. QED
      BY <2>1, <2>2, <3>1, <3>2
  <2>4. ASSUME NEW n, content' = [content EXCEPT ![p] = n], IndexGoto(p, "tmp"), Hold,
               n.rows = Document.rows, ~wiped => n.links = Reported(p), UNCHANGED linked
        PROVE  SharedInv'
    <3>1. /\ ipc'[p] = "tmp" /\ \A q \in Writers \ {p} : ipc'[q] = "idle"
          /\ content'[p] = n /\ Reported(p)' = Reported(p) /\ iop' = iop /\ child' = child
      BY <2>2, <2>4 DEF IndexGoto, Hold
    <3>2. iop[p] # "Delete"
      BY <2>1
    <3>3. Intact'
      BY <2>2
    <3>4. LinksKept'
      <4> HIDE DEF Reported
      <4>1. ~wiped => Document'.links = linked' /\ content'[p].links = Reported(p)'
        BY <2>2, <2>4, <3>1
      <4>2. QED
        BY <2>1, <3>1, <4>1
    <3>5. RowsKept'
      BY <2>1, <2>2, <2>4, <3>1, <3>2
    <3>6. QED
      BY <3>3, <3>4, <3>5
  <2>5. CASE iop[p] = "Register" /\ ~IndexReturn(p)
    <3>0. PICK n : n = WithLink(Document, child[p], parent[p])
      OBVIOUS
    <3>1. /\ content' = [content EXCEPT ![p] = n] /\ IndexGoto(p, "tmp") /\ Hold
          /\ UNCHANGED linked
      BY <2>1, <2>5, <3>0 DEF Loaded
    <3>2. n.rows = Document.rows /\ n.links = [Document.links EXCEPT ![child[p]] = parent[p]]
      BY <2>2, <2>0, <3>0, LinkIn
    <3>3. ~wiped => n.links = Reported(p)
      BY <2>2, <2>5, <3>2
    <3>4. QED
      BY <2>4, <3>1, <3>2, <3>3
  <2>6. CASE iop[p] = "Unregister" /\ ~IndexReturn(p)
    <3>0. PICK n : n = WithLink(Document, child[p], None)
      OBVIOUS
    <3>1. /\ content' = [content EXCEPT ![p] = n] /\ IndexGoto(p, "tmp") /\ Hold
          /\ UNCHANGED linked
      BY <2>1, <2>6, <3>0 DEF Loaded
    <3>2. n.rows = Document.rows /\ n.links = [Document.links EXCEPT ![child[p]] = None]
      <4> HIDE DEF IndexTyped, IndexTypeOK, AtWork, Resting, Solo, SharedInv
      <4>1. None \in Ids \cup {None}
        OBVIOUS
      <4>2. QED
        BY <2>2, <2>0, <3>0, <4>1, LinkIn
    <3>3. ~wiped => n.links = Reported(p)
      BY <2>2, <2>6, <3>2
    <3>4. QED
      BY <2>4, <3>1, <3>2, <3>3
  <2>7. CASE iop[p] = "Annotate" /\ ~IndexReturn(p)
    <3>1. /\ content' = [content EXCEPT ![p] = Document] /\ IndexGoto(p, "tmp") /\ Hold
          /\ UNCHANGED linked
      BY <2>1, <2>7 DEF Loaded
    <3>2. ~wiped => Document.links = Reported(p)
      BY <2>2, <2>7
    <3>3. QED
      BY <2>4, <3>1, <3>2
  <2>8. CASE iop[p] = "ClaimPending" /\ ~IndexReturn(p)
    <3>1. IndexGoto(p, "pend") /\ Hold /\ UNCHANGED <<content, linked>>
      BY <2>1, <2>8 DEF Loaded
    <3>2. /\ ipc'[p] = "pend" /\ \A q \in Writers \ {p} : ipc'[q] = "idle"
          /\ iop'[p] # "Delete"
      BY <2>2, <2>8, <3>1 DEF IndexGoto, Hold
    <3>3. QED
      BY <2>1, <2>2, <3>1, <3>2
  <2>9. QED
    BY <2>1, <2>3, <2>5, <2>6, <2>7, <2>8 DEF Loaded
<1>8. ASSUME NEW p \in Writers, NotePending(p) PROVE SharedInv'
  BY <1>0, <1>8 DEF NotePending, IndexGoto, Hold, indexHist
<1>9. ASSUME NEW p \in Writers, ClaimPending(p) PROVE SharedInv'
  <2>1. CASE IndexReturn(p)
    <3>1. ipc[p] = "pend" /\ UNCHANGED <<docs, index, linked, wiped>>
      BY <1>9 DEF ClaimPending, indexHist
    <3>2. QED
      BY <1>0, <2>1, <3>1 DEF IndexReturn, IndexGoto
  <2>2. ASSUME NEW s \in Document.pend, Claims(p, s) PROVE SharedInv'
    <3> DEFINE new == Claimed(Document.pend, s, child[p])
    <3>1. /\ ipc[p] = "pend" /\ iop[p] = "ClaimPending"
          /\ content' = [content EXCEPT ![p] = WithPend(Document, new)]
          /\ ipc' = [ipc EXCEPT ![p] = "tmp"]
          /\ UNCHANGED <<iop, child, docs, index, linked, wiped>>
      BY <2>2 DEF Claims, IndexGoto, indexHist
    <3>2. new \in SUBSET Spawn
      <4>1. Document.pend \in SUBSET Spawn /\ child[p] \in Ids
        BY <1>0, <3>1, Fields
      <4>2. QED
        BY <4>1 DEF Claimed, Spawn
    <3>3. content'[p].rows = Document.rows /\ content'[p].links = Document.links
      BY <1>0, <3>1, <3>2, PendIn
    <3>4. /\ index # Torn /\ docs \subseteq Document.rows
          /\ \A q \in Writers \ {p} : ipc[q] = "idle"
      BY <3>1
    <3>5. Reported(p)' = linked
      BY <3>1
    <3>6. QED
      BY <1>0, <3>1, <3>3, <3>4, <3>5
  <2>3. QED
    BY <1>9, <2>1, <2>2, ClaimCases
<1>10. ASSUME NEW p \in Writers, TruncateTmp(p) PROVE SharedInv'
  BY <1>0, <1>10 DEF TruncateTmp, IndexGoto, Hold, indexHist
<1>11. ASSUME NEW p \in Writers, FillTmp(p) PROVE SharedInv'
  BY <1>0, <1>11 DEF FillTmp, FillOpen, Filled, IndexGoto, Hold, indexHist
<1>12. ASSUME NEW p \in Writers, RenameTmp(p) PROVE SharedInv'
  <2>1. /\ ipc[p] = "rename" /\ tmp = content[p] /\ content[p] \in Documents
        /\ index' = content[p] /\ UNCHANGED <<docs, wiped>>
        /\ iop[p] # "Upsert" /\ iop[p] # "Delete"
    BY <1>12, DocumentFacts DEF RenameTmp
  <2>2. Document' = content[p] /\ index' # Torn
    BY <1>0, <2>1
  <2>3. linked' = Reported(p) /\ ipc'[p] \in {"idle", "link"}
    BY <1>12 DEF RenameTmp, IndexReturn, IndexGoto
  <2>4. /\ \A q \in Writers \ {p} : ipc'[q] = "idle"
        /\ ipc'[p] # "idle" => iop'[p] = iop[p]
    BY <1>12, <2>1 DEF RenameTmp, IndexReturn, IndexGoto, Hold
  <2>5. docs \subseteq content[p].rows /\ (~wiped => content[p].links = Reported(p))
    BY <2>1
  <2>6. QED
    BY <2>1, <2>2, <2>3, <2>4, <2>5
<1>13. ASSUME NEW p \in Writers, LinkClaim(p) PROVE SharedInv'
  BY <1>0, <1>13 DEF LinkClaim, IndexGoto, indexHist
<1>14. ASSUME NEW p \in Writers, SaveFails(p) PROVE SharedInv'
  BY <1>0, <1>14 DEF SaveFails, IndexFault
<1>15. ASSUME NEW p \in Writers, KillWriter(p) PROVE SharedInv'
  BY <1>0, <1>15 DEF KillWriter, IndexFault, IndexGoto, IndexReturn, indexHist
<1>16. CASE Expire
  BY <1>0, <1>16 DEF Expire, indexFrame, indexHist
<1>17. CASE UNCHANGED indexVars
  BY <1>0, <1>17 DEF indexVars, indexFrame, indexHist
<1>18. QED
  BY <1>0, <1>1, <1>2, <1>3, <1>4, <1>5, <1>6, <1>7, <1>8, <1>9, <1>10, <1>11, <1>12, <1>13, <1>14,
     <1>15, <1>16, <1>17 DEF IndexNext

IndexInv ==
    IndexTyped /\ (~overlap => Solo /\ ClaimInv /\ (ikills = 0 => SharedInv))

\* Nothing is noted, claimed or linked at first.
LEMMA InitIndexInv == IndexInit => IndexInv
<1> SUFFICES ASSUME IndexInit PROVE IndexInv
  OBVIOUS
<1>1. IndexTyped
  BY InitIndexTyped
<1>2. Solo
  BY DEF IndexInit, Solo, Lone, Own
<1>3. Document = Empty /\ Empty.pend = {} /\ Empty.links = NoLinks /\ index # Torn
  BY DocumentFacts DEF IndexInit
<1>4. ClaimInv
  BY <1>3 DEF IndexInit, ClaimInv, Sound, Taking, Marked
<1>5. SharedInv
  BY <1>3 DEF IndexInit, SharedInv, Intact, RowsKept, LinksKept, LinkSteps
<1>6. QED
  BY <1>1, <1>2, <1>4, <1>5 DEF IndexInv

\* Every step keeps the whole of it.
LEMMA NextIndexInv == IndexInv /\ [IndexNext]_indexVars => IndexInv'
<1> SUFFICES ASSUME IndexInv, [IndexNext]_indexVars PROVE IndexInv'
  OBVIOUS
<1>0. ikills \in Nat
  BY DEF IndexInv, IndexTyped
<1>1. /\ ~overlap' => ~overlap
      /\ ikills' = ikills \/ ikills' = ikills + 1
  BY Sticks
<1>2. IndexTyped'
  BY NextIndexTyped DEF IndexInv
<1>3. ~overlap' => Solo' /\ ClaimInv'
  BY <1>1, NextSolo, NextClaim DEF IndexInv
<1>4. ~overlap' /\ ikills' = 0 => SharedInv'
  <2>1. ikills' = 0 => ikills = 0
    BY <1>0, <1>1
  <2>2. QED
    BY <1>1, <2>1, NextShared DEF IndexInv
<1>5. QED
  BY <1>2, <1>3, <1>4 DEF IndexInv

\* Every variable of the index keeps its type: what is in the file, or in the
\* hands of a process, is a whole document or known not to be one.
THEOREM IndexTyping == IndexSpec => []IndexTypeOK
  BY InitIndexTyped, NextIndexTyped, PTL DEF IndexSpec, IndexTyped

\* A spawn gives its parent to one child, whoever is killed and whatever Delete
\* throws away, as long as no two operations on the file overlap and its claim
\* could be saved.
THEOREM SpawnsGoToOne == IndexSpec => []ClaimedOnce
<1>1. IndexInv => ClaimedOnce
  BY DEF IndexInv, ClaimInv, ClaimedOnce
<1>2. QED
  BY <1>1, InitIndexInv, NextIndexInv, PTL DEF IndexSpec

\* The rows and the links outlive each other's writers, as long as no two
\* operations overlap, nobody is killed and no save fails.
THEOREM RowsAndLinksShare == IndexSpec => []IndexShared
<1>1. IndexInv => IndexShared
  <2> SUFFICES ASSUME IndexInv, Quiet, ~overlap, ikills = 0
               PROVE  /\ index # Torn /\ docs \subseteq Document.rows
                      /\ ~wiped => Document.links = linked
    BY DEF IndexShared
  <2>1. QED
    BY DEF IndexInv, SharedInv, Intact, RowsKept, LinksKept, Quiet
<1>2. QED
  BY <1>1, InitIndexInv, NextIndexInv, PTL DEF IndexSpec

-----------------------------------------------------------------------------
(* Retention. Types, and the step a sweep keeps something at.               *)

Deleting == {"delete", "index"}
Picking == {"purge", "diffs", "oldPurge", "oldDiffs"}
SweepShape == \A p \in Sweepers :
    /\ rpc[p] \in Deleting => doomed[p] \in Kept
    /\ rpc[p] \notin Deleting => doomed[p] = None
    /\ rpc[p] \notin Picking => picked[p] = {}
    /\ rpc[p] \in {"idle", "list"} => gone[p] = {}
SweepTyped == SweepTypeOK /\ SweepShape

\* The sweeps begin with the types they keep.
LEMMA InitSweepTyped == SweepInit => SweepTyped
  BY RetentionAssumption
     DEF SweepInit, SweepTyped, SweepTypeOK, SweepShape, SweepSteps, Deleting, Picking

\* Every step keeps them.
LEMMA NextSweepTyped == SweepTyped /\ [SweepNext]_sweepVars => SweepTyped'
<1> SUFFICES ASSUME SweepTyped, [SweepNext]_sweepVars PROVE SweepTyped'
  OBVIOUS
<1> USE RetentionAssumption DEF SweepTyped, SweepTypeOK, SweepShape, SweepSteps, Deleting, Picking
<1>1. ASSUME NEW p \in Sweepers, StartSweep(p) PROVE SweepTyped'
  BY <1>1 DEF StartSweep, sweepRows, sweepHist
<1>2. ASSUME NEW p \in Sweepers, ListSessions(p) PROVE SweepTyped'
  BY <1>2 DEF ListSessions, SweepGoto, sweepRows, sweepHist
<1>3. ASSUME NEW p \in Sweepers, LookAt(p) PROVE SweepTyped'
  BY <1>3 DEF LookAt, SweepGoto, sweepRows, sweepHist
<1>4. ASSUME NEW p \in Sweepers, RemoveDir(p) PROVE SweepTyped'
  BY <1>4 DEF RemoveDir, SweepGoto
<1>5. ASSUME NEW p \in Sweepers, RemoveRow(p) PROVE SweepTyped'
  BY <1>5 DEF RemoveRow, SweepGoto, sweepHist
<1>6. ASSUME NEW p \in Sweepers, PickClosed(p) PROVE SweepTyped'
  BY <1>6 DEF PickClosed, Pick, Closed, SweepGoto, sweepRows, sweepHist
<1>7. ASSUME NEW p \in Sweepers, PurgeClosed(p) PROVE SweepTyped'
  BY <1>7 DEF PurgeClosed, Purge, Closed, SweepGoto
<1>8. ASSUME NEW p \in Sweepers, RemoveClosedDiffs(p) PROVE SweepTyped'
  BY <1>8 DEF RemoveClosedDiffs, RemoveDiffs, SweepGoto, sweepHist
<1>9. ASSUME NEW p \in Sweepers, DropSessionRuns(p) PROVE SweepTyped'
  BY <1>9 DEF DropSessionRuns, DropRuns, SweepGoto, sweepHist
<1>10. ASSUME NEW p \in Sweepers, PickOld(p) PROVE SweepTyped'
  BY <1>10 DEF PickOld, Pick, ClosedOld, Old, SweepGoto, sweepRows, sweepHist
<1>11. ASSUME NEW p \in Sweepers, PurgeOld(p) PROVE SweepTyped'
  BY <1>11 DEF PurgeOld, Purge, ClosedOld, Old, SweepGoto
<1>12. ASSUME NEW p \in Sweepers, RemoveOldDiffs(p) PROVE SweepTyped'
  BY <1>12 DEF RemoveOldDiffs, RemoveDiffs, SweepGoto, sweepHist
<1>13. ASSUME NEW p \in Sweepers, DropOldRuns(p) PROVE SweepTyped'
  BY <1>13 DEF DropOldRuns, DropRuns, Old, SweepGoto, sweepHist
<1>14. ASSUME NEW p \in Sweepers, DropSessionMoments(p) PROVE SweepTyped'
  BY <1>14 DEF DropSessionMoments, DropMoments, SweepGoto, sweepHist
<1>15. ASSUME NEW p \in Sweepers, DropOldMoments(p) PROVE SweepTyped'
  BY <1>15 DEF DropOldMoments, DropMoments, Old, EndSweep, SweepGoto, sweepHist
<1>16. ASSUME NEW p \in Sweepers, StopSweep(p) PROVE SweepTyped'
  BY <1>16 DEF StopSweep, EndSweep, SweepGoto, sweepRows
<1>17. ASSUME NEW p \in Sweepers, FailDelete(p) PROVE SweepTyped'
  BY <1>17 DEF FailDelete, EndSweep, SweepGoto
<1>18. ASSUME NEW p \in Sweepers, SkipHarvest(p) PROVE SweepTyped'
  BY <1>18 DEF SkipHarvest, SweepGoto, sweepRows
<1>19. ASSUME NEW s \in Kept, Active(s) PROVE SweepTyped'
  BY <1>19 DEF Active, Tardy, sweepFrame
<1>20. ASSUME NEW s \in Kept, RowEvent(s) PROVE SweepTyped'
  BY <1>20 DEF RowEvent, Tardy, sweepFrame
<1>21. ASSUME NEW e \in Proposals, ProposalEvent(e) PROVE SweepTyped'
  BY <1>21 DEF ProposalEvent, Tardy, sweepFrame
<1>22. ASSUME NEW e \in Proposals, WriteDiff(e) PROVE SweepTyped'
  BY <1>22 DEF WriteDiff, sweepFrame
<1>23. CASE PassWeek
  BY <1>23 DEF PassWeek, Ages, sweepFrame, sweepHist
<1>24. CASE UNCHANGED sweepVars
  BY <1>24 DEF sweepVars, sweepFrame, sweepRows, sweepHist
<1>25. QED
  BY <1>1, <1>2, <1>3, <1>4, <1>5, <1>6, <1>7, <1>8, <1>9, <1>10, <1>11, <1>12, <1>13, <1>14,
     <1>15, <1>16, <1>17, <1>18, <1>19, <1>20, <1>21, <1>22, <1>23, <1>24 DEF SweepNext

(* Retention. A session is deleted while it is old, or tardily active.      *)

Late == \A p \in Sweepers :
    /\ rpc[p] = "delete" /\ dir[doomed[p]] = "young" => doomed[p] \in tardy
    /\ rpc[p] = "index" /\ dir[doomed[p]] # None => doomed[p] \in tardy
LateInv == Late /\ ActiveKept

\* No step deletes a session that became active before a sweep was at it.
LEMMA NextLate == SweepTyped /\ LateInv /\ [SweepNext]_sweepVars => LateInv'
<1> SUFFICES ASSUME SweepTyped, LateInv, [SweepNext]_sweepVars PROVE LateInv'
  OBVIOUS
<1> USE RetentionAssumption DEF LateInv, Late, ActiveKept, SweepTyped, SweepTypeOK, SweepShape, Deleting
<1>1. ASSUME NEW p \in Sweepers, StartSweep(p) PROVE LateInv'
  BY <1>1 DEF StartSweep, sweepRows, sweepHist
<1>2. ASSUME NEW p \in Sweepers, ListSessions(p) PROVE LateInv'
  BY <1>2 DEF ListSessions, SweepGoto, sweepRows, sweepHist
<1>3. ASSUME NEW p \in Sweepers, LookAt(p) PROVE LateInv'
  BY <1>3 DEF LookAt, SweepGoto, sweepRows, sweepHist
<1>4. ASSUME NEW p \in Sweepers, RemoveDir(p) PROVE LateInv'
  BY <1>4 DEF RemoveDir, SweepGoto
<1>5. ASSUME NEW p \in Sweepers, RemoveRow(p) PROVE LateInv'
  BY <1>5 DEF RemoveRow, SweepGoto, sweepHist
<1>6. ASSUME NEW p \in Sweepers, PickClosed(p) PROVE LateInv'
  BY <1>6 DEF PickClosed, Pick, Closed, SweepGoto, sweepRows, sweepHist
<1>7. ASSUME NEW p \in Sweepers, PurgeClosed(p) PROVE LateInv'
  BY <1>7 DEF PurgeClosed, Purge, Closed, SweepGoto
<1>8. ASSUME NEW p \in Sweepers, RemoveClosedDiffs(p) PROVE LateInv'
  BY <1>8 DEF RemoveClosedDiffs, RemoveDiffs, SweepGoto, sweepHist
<1>9. ASSUME NEW p \in Sweepers, DropSessionRuns(p) PROVE LateInv'
  BY <1>9 DEF DropSessionRuns, DropRuns, SweepGoto, sweepHist
<1>10. ASSUME NEW p \in Sweepers, PickOld(p) PROVE LateInv'
  BY <1>10 DEF PickOld, Pick, ClosedOld, Old, SweepGoto, sweepRows, sweepHist
<1>11. ASSUME NEW p \in Sweepers, PurgeOld(p) PROVE LateInv'
  BY <1>11 DEF PurgeOld, Purge, ClosedOld, Old, SweepGoto
<1>12. ASSUME NEW p \in Sweepers, RemoveOldDiffs(p) PROVE LateInv'
  BY <1>12 DEF RemoveOldDiffs, RemoveDiffs, SweepGoto, sweepHist
<1>13. ASSUME NEW p \in Sweepers, DropOldRuns(p) PROVE LateInv'
  BY <1>13 DEF DropOldRuns, DropRuns, Old, SweepGoto, sweepHist
<1>14. ASSUME NEW p \in Sweepers, DropSessionMoments(p) PROVE LateInv'
  BY <1>14 DEF DropSessionMoments, DropMoments, SweepGoto, sweepHist
<1>15. ASSUME NEW p \in Sweepers, DropOldMoments(p) PROVE LateInv'
  BY <1>15 DEF DropOldMoments, DropMoments, Old, EndSweep, SweepGoto, sweepHist
<1>16. ASSUME NEW p \in Sweepers, StopSweep(p) PROVE LateInv'
  BY <1>16 DEF StopSweep, EndSweep, SweepGoto, sweepRows
<1>17. ASSUME NEW p \in Sweepers, FailDelete(p) PROVE LateInv'
  BY <1>17 DEF FailDelete, EndSweep, SweepGoto
<1>18. ASSUME NEW p \in Sweepers, SkipHarvest(p) PROVE LateInv'
  BY <1>18 DEF SkipHarvest, SweepGoto, sweepRows
<1>19. ASSUME NEW s \in Kept, Active(s) PROVE LateInv'
  BY <1>19 DEF Active, Tardy, Leaving, sweepFrame
<1>20. ASSUME NEW s \in Kept, RowEvent(s) PROVE LateInv'
  BY <1>20 DEF RowEvent, Tardy, Leaving, sweepFrame
<1>21. ASSUME NEW e \in Proposals, ProposalEvent(e) PROVE LateInv'
  BY <1>21 DEF ProposalEvent, Tardy, Leaving, sweepFrame
<1>22. ASSUME NEW e \in Proposals, WriteDiff(e) PROVE LateInv'
  BY <1>22 DEF WriteDiff, sweepFrame
<1>23. CASE PassWeek
  BY <1>23 DEF PassWeek, Ages, sweepFrame, sweepHist
<1>24. CASE UNCHANGED sweepVars
  BY <1>24 DEF sweepVars, sweepFrame, sweepRows, sweepHist
<1>25. QED
  BY <1>1, <1>2, <1>3, <1>4, <1>5, <1>6, <1>7, <1>8, <1>9, <1>10, <1>11, <1>12, <1>13, <1>14,
     <1>15, <1>16, <1>17, <1>18, <1>19, <1>20, <1>21, <1>22, <1>23, <1>24 DEF SweepNext

(* Retention. The files of the proposals.                                   *)

\* What a sweep has selected is closed for good.
Selected == \A p \in Sweepers : \A e \in picked[p] : review[e] \in {"closed", "deleted"}
FilesInv == Selected /\ DiffsMatch

\* No step parts a proposal from its file.
LEMMA NextFiles == SweepTyped /\ FilesInv /\ [SweepNext]_sweepVars => FilesInv'
<1> SUFFICES ASSUME SweepTyped, FilesInv, [SweepNext]_sweepVars PROVE FilesInv'
  OBVIOUS
<1> USE RetentionAssumption DEF FilesInv, Selected, DiffsMatch, SweepTyped, SweepTypeOK, SweepShape, Picking
<1>1. ASSUME NEW p \in Sweepers, StartSweep(p) PROVE FilesInv'
  BY <1>1 DEF StartSweep, sweepRows, sweepHist
<1>2. ASSUME NEW p \in Sweepers, ListSessions(p) PROVE FilesInv'
  BY <1>2 DEF ListSessions, SweepGoto, sweepRows, sweepHist
<1>3. ASSUME NEW p \in Sweepers, LookAt(p) PROVE FilesInv'
  BY <1>3 DEF LookAt, SweepGoto, sweepRows, sweepHist
<1>4. ASSUME NEW p \in Sweepers, RemoveDir(p) PROVE FilesInv'
  BY <1>4 DEF RemoveDir, SweepGoto
<1>5. ASSUME NEW p \in Sweepers, RemoveRow(p) PROVE FilesInv'
  BY <1>5 DEF RemoveRow, SweepGoto, sweepHist
<1>6. ASSUME NEW p \in Sweepers, PickClosed(p) PROVE FilesInv'
  BY <1>6 DEF PickClosed, Pick, Closed, SweepGoto, sweepRows, sweepHist
<1>7. ASSUME NEW p \in Sweepers, PurgeClosed(p) PROVE FilesInv'
  BY <1>7 DEF PurgeClosed, Purge, Closed, SweepGoto
<1>8. ASSUME NEW p \in Sweepers, RemoveClosedDiffs(p) PROVE FilesInv'
  BY <1>8 DEF RemoveClosedDiffs, RemoveDiffs, SweepGoto, sweepHist
<1>9. ASSUME NEW p \in Sweepers, DropSessionRuns(p) PROVE FilesInv'
  BY <1>9 DEF DropSessionRuns, DropRuns, SweepGoto, sweepHist
<1>10. ASSUME NEW p \in Sweepers, PickOld(p) PROVE FilesInv'
  BY <1>10 DEF PickOld, Pick, ClosedOld, Old, SweepGoto, sweepRows, sweepHist
<1>11. ASSUME NEW p \in Sweepers, PurgeOld(p) PROVE FilesInv'
  BY <1>11 DEF PurgeOld, Purge, ClosedOld, Old, SweepGoto
<1>12. ASSUME NEW p \in Sweepers, RemoveOldDiffs(p) PROVE FilesInv'
  BY <1>12 DEF RemoveOldDiffs, RemoveDiffs, SweepGoto, sweepHist
<1>13. ASSUME NEW p \in Sweepers, DropOldRuns(p) PROVE FilesInv'
  BY <1>13 DEF DropOldRuns, DropRuns, Old, SweepGoto, sweepHist
<1>14. ASSUME NEW p \in Sweepers, DropSessionMoments(p) PROVE FilesInv'
  BY <1>14 DEF DropSessionMoments, DropMoments, SweepGoto, sweepHist
<1>15. ASSUME NEW p \in Sweepers, DropOldMoments(p) PROVE FilesInv'
  BY <1>15 DEF DropOldMoments, DropMoments, Old, EndSweep, SweepGoto, sweepHist
<1>16. ASSUME NEW p \in Sweepers, StopSweep(p) PROVE FilesInv'
  BY <1>16 DEF StopSweep, EndSweep, SweepGoto, sweepRows
<1>17. ASSUME NEW p \in Sweepers, FailDelete(p) PROVE FilesInv'
  BY <1>17 DEF FailDelete, EndSweep, SweepGoto
<1>18. ASSUME NEW p \in Sweepers, SkipHarvest(p) PROVE FilesInv'
  BY <1>18 DEF SkipHarvest, SweepGoto, sweepRows
<1>19. ASSUME NEW s \in Kept, Active(s) PROVE FilesInv'
  BY <1>19 DEF Active, Tardy, Leaving, sweepFrame
<1>20. ASSUME NEW s \in Kept, RowEvent(s) PROVE FilesInv'
  BY <1>20 DEF RowEvent, Tardy, Leaving, sweepFrame
<1>21. ASSUME NEW e \in Proposals, ProposalEvent(e) PROVE FilesInv'
  BY <1>21 DEF ProposalEvent, Tardy, Leaving, sweepFrame
<1>22. ASSUME NEW e \in Proposals, WriteDiff(e) PROVE FilesInv'
  BY <1>22 DEF WriteDiff, sweepFrame
<1>23. CASE PassWeek
  BY <1>23 DEF PassWeek, Ages, sweepFrame, sweepHist
<1>24. CASE UNCHANGED sweepVars
  BY <1>24 DEF sweepVars, sweepFrame, sweepRows, sweepHist
<1>25. QED
  BY <1>1, <1>2, <1>3, <1>4, <1>5, <1>6, <1>7, <1>8, <1>9, <1>10, <1>11, <1>12, <1>13, <1>14,
     <1>15, <1>16, <1>17, <1>18, <1>19, <1>20, <1>21, <1>22, <1>23, <1>24 DEF SweepNext

(* Retention. What is left of a session.                                    *)

NoClosed(s) == \A e \in Proposals : SessionOf[e] = s => review[e] # "closed"
Clean(s) == NoClosed(s) /\ run[s] # "done" /\ s \notin moment
PastPurge == {"diffs", "runs"}
PastRuns == {"oldPick", "oldPurge", "oldDiffs", "oldRuns", "memory", "oldMemory"}

\* A session that is off the index is off the disk, ...
Removed == \A s \in Kept \ (row \cup tardy) : dir[s] = None
\* ... one that a sweep has deleted is off the index, ...
OffIndex == \A p \in Sweepers : \A s \in gone[p] \ tardy : s \notin row
\* ... the sweep that has it goes through its rows one table after the other, ...
Cleared == \A p \in Sweepers : \A s \in gone[p] \ (tardy \cup cut) :
    /\ rpc[p] \in PastPurge \cup PastRuns => NoClosed(s)
    /\ rpc[p] \in PastRuns => run[s] # "done"
    /\ rpc[p] = "oldMemory" => s \notin moment
\* ... and one that no sweep has any more has no rows.
Left == \A s \in Kept \ (row \cup tardy \cup cut) : Clean(s) \/ \E p \in Sweepers : s \in gone[p]
LeftInv == Removed /\ OffIndex /\ Cleared /\ Left

\* No step leaves rows of a session behind.
LEMMA NextLeft == SweepTyped /\ Late /\ LeftInv /\ [SweepNext]_sweepVars => LeftInv'
<1> SUFFICES ASSUME SweepTyped, Late, LeftInv, [SweepNext]_sweepVars PROVE LeftInv'
  OBVIOUS
<1> USE RetentionAssumption
        DEF LeftInv, Removed, OffIndex, Cleared, Left, Clean, NoClosed, PastPurge, PastRuns, Late,
            SweepTyped, SweepTypeOK, SweepShape, Deleting, Picking
<1>1. ASSUME NEW p \in Sweepers, StartSweep(p) PROVE LeftInv'
  BY <1>1 DEF StartSweep, sweepRows, sweepHist
<1>2. ASSUME NEW p \in Sweepers, ListSessions(p) PROVE LeftInv'
  BY <1>2 DEF ListSessions, SweepGoto, sweepRows, sweepHist
<1>3. ASSUME NEW p \in Sweepers, LookAt(p) PROVE LeftInv'
  BY <1>3 DEF LookAt, SweepGoto, sweepRows, sweepHist
<1>4. ASSUME NEW p \in Sweepers, RemoveDir(p) PROVE LeftInv'
  BY <1>4 DEF RemoveDir, SweepGoto
<1>5. ASSUME NEW p \in Sweepers, RemoveRow(p) PROVE LeftInv'
  BY <1>5 DEF RemoveRow, SweepGoto, sweepHist
<1>6. ASSUME NEW p \in Sweepers, PickClosed(p) PROVE LeftInv'
  BY <1>6 DEF PickClosed, Pick, Closed, SweepGoto, sweepRows, sweepHist
<1>7. ASSUME NEW p \in Sweepers, PurgeClosed(p) PROVE LeftInv'
  BY <1>7 DEF PurgeClosed, Purge, Closed, SweepGoto
<1>8. ASSUME NEW p \in Sweepers, RemoveClosedDiffs(p) PROVE LeftInv'
  BY <1>8 DEF RemoveClosedDiffs, RemoveDiffs, SweepGoto, sweepHist
<1>9. ASSUME NEW p \in Sweepers, DropSessionRuns(p) PROVE LeftInv'
  BY <1>9 DEF DropSessionRuns, DropRuns, SweepGoto, sweepHist
<1>10. ASSUME NEW p \in Sweepers, PickOld(p) PROVE LeftInv'
  BY <1>10 DEF PickOld, Pick, ClosedOld, Old, SweepGoto, sweepRows, sweepHist
<1>11. ASSUME NEW p \in Sweepers, PurgeOld(p) PROVE LeftInv'
  BY <1>11 DEF PurgeOld, Purge, ClosedOld, Old, SweepGoto
<1>12. ASSUME NEW p \in Sweepers, RemoveOldDiffs(p) PROVE LeftInv'
  BY <1>12 DEF RemoveOldDiffs, RemoveDiffs, SweepGoto, sweepHist
<1>13. ASSUME NEW p \in Sweepers, DropOldRuns(p) PROVE LeftInv'
  BY <1>13 DEF DropOldRuns, DropRuns, Old, SweepGoto, sweepHist
<1>14. ASSUME NEW p \in Sweepers, DropSessionMoments(p) PROVE LeftInv'
  BY <1>14 DEF DropSessionMoments, DropMoments, SweepGoto, sweepHist
<1>15. ASSUME NEW p \in Sweepers, DropOldMoments(p) PROVE LeftInv'
  <2>1. /\ rpc[p] = "oldMemory" /\ rpc' = [rpc EXCEPT ![p] = "idle"]
        /\ gone' = [gone EXCEPT ![p] = {}]
        /\ moment' \subseteq moment
        /\ UNCHANGED <<dir, row, review, run, cut, tardy>>
    BY <1>15 DEF DropOldMoments, DropMoments, EndSweep, SweepGoto, sweepHist
  <2>2. Removed' /\ OffIndex' /\ Cleared'
    BY <2>1
  <2>3. ASSUME NEW s \in Kept \ (row \cup tardy \cup cut)
        PROVE  Clean(s)' \/ \E q \in Sweepers : s \in gone'[q]
    <3>1. CASE Clean(s)
      BY <2>1, <3>1
    <3>2. CASE s \in gone[p]
      BY <2>1, <2>3, <3>2
    <3>3. ASSUME NEW q \in Sweepers \ {p}, s \in gone[q] PROVE s \in gone'[q]
      BY <2>1, <3>3
    <3>4. QED
      BY <2>3, <3>1, <3>2, <3>3
  <2>4. QED
    BY <2>1, <2>2, <2>3
<1>16. ASSUME NEW p \in Sweepers, StopSweep(p) PROVE LeftInv'
  BY <1>16 DEF StopSweep, EndSweep, SweepGoto, sweepRows
<1>17. ASSUME NEW p \in Sweepers, FailDelete(p) PROVE LeftInv'
  BY <1>17 DEF FailDelete, EndSweep, SweepGoto
<1>18. ASSUME NEW p \in Sweepers, SkipHarvest(p) PROVE LeftInv'
  BY <1>18 DEF SkipHarvest, SweepGoto, sweepRows
<1>19. ASSUME NEW s \in Kept, Active(s) PROVE LeftInv'
  BY <1>19 DEF Active, Tardy, Leaving, sweepFrame
<1>20. ASSUME NEW s \in Kept, RowEvent(s) PROVE LeftInv'
  BY <1>20 DEF RowEvent, Tardy, Leaving, sweepFrame
<1>21. ASSUME NEW e \in Proposals, ProposalEvent(e) PROVE LeftInv'
  BY <1>21 DEF ProposalEvent, Tardy, Leaving, sweepFrame
<1>22. ASSUME NEW e \in Proposals, WriteDiff(e) PROVE LeftInv'
  BY <1>22 DEF WriteDiff, sweepFrame
<1>23. CASE PassWeek
  BY <1>23 DEF PassWeek, Ages, sweepFrame, sweepHist
<1>24. CASE UNCHANGED sweepVars
  BY <1>24 DEF sweepVars, sweepFrame, sweepRows, sweepHist
<1>25. QED
  BY <1>1, <1>2, <1>3, <1>4, <1>5, <1>6, <1>7, <1>8, <1>9, <1>10, <1>11, <1>12, <1>13, <1>14,
     <1>15, <1>16, <1>17, <1>18, <1>19, <1>20, <1>21, <1>22, <1>23, <1>24 DEF SweepNext

SweepInv == SweepTyped /\ LateInv /\ FilesInv /\ LeftInv

\* The sweeps begin with nothing deleted.
LEMMA InitSweepInv == SweepInit => SweepInv
<1> SUFFICES ASSUME SweepInit PROVE SweepInv
  OBVIOUS
<1>1. SweepTyped
  BY InitSweepTyped
<1>2. LateInv
  BY DEF SweepInit, LateInv, Late, ActiveKept
<1>3. FilesInv
  BY RetentionAssumption DEF SweepInit, FilesInv, Selected, DiffsMatch
<1>4. LeftInv
  BY DEF SweepInit, LeftInv, Removed, OffIndex, Cleared, Left
<1>5. QED
  BY <1>1, <1>2, <1>3, <1>4 DEF SweepInv

\* Every step keeps the whole of it.
LEMMA NextSweepInv == SweepInv /\ [SweepNext]_sweepVars => SweepInv'
  BY NextSweepTyped, NextLate, NextFiles, NextLeft DEF SweepInv, LateInv

\* Every variable of the sweeps keeps its type.
THEOREM SweepTyping == SweepSpec => []SweepTypeOK
  BY InitSweepTyped, NextSweepTyped, PTL DEF SweepSpec, SweepTyped

\* A session that was active within the week is not deleted, unless it became
\* active while the sweep was at this very session.
THEOREM ActiveSessionsStay == SweepSpec => []ActiveKept
<1>1. SweepInv => ActiveKept
  BY DEF SweepInv, LateInv
<1>2. QED
  BY <1>1, InitSweepInv, NextSweepInv, PTL DEF SweepSpec

\* What is left of a session goes with it.
THEOREM NothingStays == SweepSpec => []NothingLeftBehind
<1>1. SweepInv => NothingLeftBehind
  BY DEF SweepInv, FilesInv, LeftInv, Left, Clean, NoClosed, NothingLeftBehind
<1>2. QED
  BY <1>1, InitSweepInv, NextSweepInv, PTL DEF SweepSpec

-----------------------------------------------------------------------------
(* MCRecords.  A behaviour moves one of the six and rests the others, and no *)
(* two share a variable: it is a behaviour of each, so each keeps in it what *)
(* it keeps alone, and the run and the theorems speak of the same formulas.  *)

\* What moves one of the six is a step or a stutter of each.
LEMMA RecordsProject == RecordsSpec => /\ IndexSpec /\ InboxSpec /\ ApplySpec
                                       /\ QueueSpec /\ DistillSpec /\ SweepSpec
<1>1. RecordsInit => /\ IndexInit /\ InboxInit /\ ApplyInit
                     /\ QueueInit /\ DistillInit /\ SweepInit
  BY DEF RecordsInit
<1>2. [RecordsNext]_recordsVars => /\ [IndexNext]_indexVars /\ [InboxNext]_inboxVars
                                   /\ [ApplyNext]_applyVars /\ [QueueNext]_queueVars
                                   /\ [DistillNext]_distillVars /\ [SweepNext]_sweepVars
  BY DEF RecordsNext, recordsVars
<1>3. QED
  BY <1>1, <1>2, PTL
     DEF RecordsSpec, IndexSpec, InboxSpec, ApplySpec, QueueSpec, DistillSpec, SweepSpec

\* The types of all six hold of the behaviours the run checks.
THEOREM RecordsTyping == RecordsSpec => []RecordsTypeOK
  BY RecordsProject, IndexTyping, InboxTyping, ApplyTyping, QueueTyping, DistillTyping,
     SweepTyping, PTL DEF RecordsTypeOK

\* So does what the six promise, side by side.
THEOREM RecordsKeepAll ==
    RecordsSpec => [](/\ IndexShared /\ ClaimedOnce /\ InboxKeeps /\ MovedOnce
                      /\ AppliedToBase /\ StatusTells /\ CallsBounded /\ NotAskedAgain
                      /\ NotForgotten /\ AskedOnce /\ DistillCallsBounded
                      /\ NothingLeftBehind /\ ActiveKept)
  BY RecordsProject, RowsAndLinksShare, SpawnsGoToOne, SpansKept, SpansMovedOnce,
     DiffsHitTheirBase, StatusTellsTheFile, ProviderCallsBounded, NobodyAskedAgain,
     NoneForgotten, DistilledAskedOnce, DistillCallsAreBounded, NothingStays,
     ActiveSessionsStay, PTL
=============================================================================
