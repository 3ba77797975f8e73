----------------------------- MODULE SessionIndex -----------------------------
(***************************************************************************)
(* sessions/index.json: one file that two packages rewrite, each in its    *)
(* own way and without a common lock.  internal/session keeps the rows of  *)
(* the sessions in it (upsertIndex, Delete; truncate and write), and       *)
(* internal/session/agentlinks the links from a child session to its       *)
(* parent and the spawns no child has claimed yet (Register, Annotate,     *)
(* NotePending, ClaimPending, Unregister; index.json.tmp and rename).      *)
(* The mutex of agentlinks is per process.                                 *)
(***************************************************************************)
EXTENDS Integers, FiniteSets, Absent

CONSTANTS Writers,     \* processes: hooks, finalizers, commands that list
          Ids,         \* session ids
          MaxIndexOps, \* bound: operations started, and faults
          MaxSpawns,   \* bound: spawns noted
          IndexKills,  \* bound: faults, i.e. processes killed and saves failed
          Torn         \* a file that is not a whole document

\* A spawn that was noted.  The list in the file is in the order of n: a spawn
\* is appended with a greater n than any before it.  So a set says the same.
Spawn == [n : 1..MaxSpawns, parent : Ids, by : Ids \cup {None}]
\* What index.json holds when it is whole.
Documents == [rows : SUBSET Ids, links : [Ids -> Ids \cup {None}], pend : SUBSET Spawn]

ASSUME IndexAssumption ==
    /\ None \notin Ids \cup {Torn} /\ {None, Torn} \cap Documents = {}
    /\ MaxSpawns \in Nat

VARIABLES
    ipc,      \* the step each process is at
    iop,      \* its operation
    child,    \* the session, or child session, it is for
    parent,   \* the parent it is for
    took,     \* the spawn it claims
    content,  \* the document it is making
    open,     \* the name its open file has: None, "tmp", "index", or "gone"
    docs,     \* sessions that have a session.json
    index,    \* index.json: None, Torn, or a document
    tmp,      \* index.json.tmp
    spawns,   \* spawns noted so far
    expired,  \* spawns up to this one are older than pendingTTL
    linked,   \* history: the parent that was last reported for each child
    claims,   \* history: <<spawn, child>> where the child was told its parent
    unsaved,  \* history: spawns whose claim could not be saved
    overlap,  \* history: two operations on the file overlapped
    wiped,    \* history: Delete rewrote the file
    iops, ikills

indexFrame == <<ipc, iop, child, parent, took, content>>
indexHist == <<linked, claims, unsaved, overlap, wiped>>
indexVars == <<indexFrame, open, docs, index, tmp, spawns, expired, indexHist, iops, ikills>>

Operations == {"Upsert", "Delete", "Register", "Annotate", "Unregister",
               "NotePending", "ClaimPending"}
IndexSteps == {"idle", "list", "prev", "trunc", "fill", "load", "pend", "tmp",
               "tmpFill", "rename", "link"}
NoLinks == [c \in Ids |-> None]
Empty == [rows |-> {}, links |-> NoLinks, pend |-> {}]

IndexInit ==
    /\ ipc = [p \in Writers |-> "idle"]
    /\ iop = [p \in Writers |-> None]
    /\ child = [p \in Writers |-> None]
    /\ parent = [p \in Writers |-> None]
    /\ took = [p \in Writers |-> 0]
    /\ content = [p \in Writers |-> Empty]
    /\ open = [p \in Writers |-> None]
    /\ docs = {}
    /\ index \in {None, Empty}
    /\ tmp = None
    /\ spawns = 0 /\ expired = 0
    /\ linked = NoLinks
    /\ claims = {} /\ unsaved = {}
    /\ overlap = FALSE /\ wiped = FALSE
    /\ iops = 0 /\ ikills = 0

IndexGoto(p, step) == ipc' = [ipc EXCEPT ![p] = step]
IndexReturn(p) ==
    /\ IndexGoto(p, "idle")
    /\ iop' = [iop EXCEPT ![p] = None]
    /\ child' = [child EXCEPT ![p] = None]
    /\ parent' = [parent EXCEPT ![p] = None]
    /\ took' = [took EXCEPT ![p] = 0]
    /\ content' = [content EXCEPT ![p] = Empty]
Hold == UNCHANGED <<iop, child, parent, took>>

Readable == index \notin {None, Torn}
\* loadLocked and the reads beside it: the empty document for what is not one.
Document == IF Readable THEN index ELSE Empty

-----------------------------------------------------------------------------
(* An operation begins.  Upsert has written session.json (SessionDoc), and  *)
(* Delete has removed the directory, before they read the index.            *)

BeginOp(p) ==
    /\ ipc[p] = "idle"
    /\ iops < MaxIndexOps
    /\ iops' = iops + 1
    /\ overlap' = (overlap \/ \E q \in Writers : ipc[q] # "idle")
    /\ \E op \in Operations, c, r \in Ids :
          /\ iop' = [iop EXCEPT ![p] = op]
          /\ child' = [child EXCEPT ![p] = c]
          /\ parent' = [parent EXCEPT ![p] = IF op \in {"Register", "NotePending"} THEN r ELSE c]
          /\ op = "Register" => c # r
          /\ op = "NotePending" => spawns < MaxSpawns
          /\ op = "Delete" => c \in docs
          /\ docs' = CASE op = "Upsert" -> docs \cup {c}
                       [] op = "Delete" -> docs \ {c}
                       [] OTHER -> docs
          /\ IndexGoto(p, CASE op \in {"Upsert", "Delete"} -> "list"
                           [] op = "NotePending" -> "pend"
                           [] OTHER -> "load")
    /\ UNCHANGED <<took, content, open, index, tmp, spawns, expired, linked, claims, unsaved,
                   wiped, ikills>>

-----------------------------------------------------------------------------
(* Rows.                                                                    *)

\* List: the rows of the file and every session that has a session.json; a
\* missing file lists nothing, and one that does not parse is an error.
Listed == IF index = None THEN {} ELSE index.rows \cup docs

\* upsertIndex takes the error of List for an empty list ...
ListRows(p) ==
    /\ ipc[p] = "list"
    /\ iop[p] = "Upsert"
    /\ content' = [content EXCEPT ![p].rows =
                     (IF index = Torn THEN {} ELSE Listed) \cup {child[p]}]
    /\ IndexGoto(p, "prev")
    /\ Hold
    /\ UNCHANGED <<open, docs, index, tmp, spawns, expired, indexHist, iops, ikills>>

\* ... and Delete returns it.
ListKept(p) ==
    /\ ipc[p] = "list"
    /\ iop[p] = "Delete"
    /\ \/ /\ index = Torn
          /\ IndexReturn(p)
       \/ /\ index # Torn
          /\ content' = [content EXCEPT ![p].rows = Listed \ {child[p]}]
          /\ IndexGoto(p, "trunc")
          /\ Hold
    /\ UNCHANGED <<open, docs, index, tmp, spawns, expired, indexHist, iops, ikills>>

\* Mutant: upsertIndex does not carry the links over.
KeepPrevNot(p) ==
    /\ ipc[p] = "prev"
    /\ IndexGoto(p, "trunc")
    /\ Hold
    /\ UNCHANGED <<content, open, docs, index, tmp, spawns, expired, indexHist, iops, ikills>>

\* upsertIndex reads the file again, for the links and the spawns.
KeepPrev(p) ==
    /\ ipc[p] = "prev"
    /\ content' = [content EXCEPT ![p] = [Document EXCEPT !.rows = content[p].rows]]
    /\ IndexGoto(p, "trunc")
    /\ Hold
    /\ UNCHANGED <<open, docs, index, tmp, spawns, expired, indexHist, iops, ikills>>

\* writeJSON is os.WriteFile on index.json itself.
TruncateIndex(p) ==
    /\ ipc[p] = "trunc"
    /\ index' = Torn
    /\ open' = [open EXCEPT ![p] = "index"]
    /\ IndexGoto(p, "fill")
    /\ Hold
    /\ UNCHANGED <<content, docs, tmp, spawns, expired, indexHist, iops, ikills>>

\* A document written into an open file: where another process has written
\* into the same file meanwhile, the mixture need not be a document.
Filled(old, doc) == {doc} \cup (IF old = Torn THEN {} ELSE {Torn})
FillOpen(p) ==
    /\ index' \in IF open[p] = "index" THEN Filled(index, content[p]) ELSE {index}
    /\ tmp' \in IF open[p] = "tmp" THEN Filled(tmp, content[p]) ELSE {tmp}
    /\ open' = [open EXCEPT ![p] = None]

FillIndex(p) ==
    /\ ipc[p] = "fill"
    /\ FillOpen(p)
    /\ wiped' = (wiped \/ iop[p] = "Delete")
    /\ IndexReturn(p)
    /\ UNCHANGED <<docs, spawns, expired, linked, claims, unsaved, overlap, iops, ikills>>

-----------------------------------------------------------------------------
(* Links and spawns.                                                        *)

Report(p, c, r) ==
    /\ linked' = [linked EXCEPT ![c] = r]
    /\ IndexReturn(p)
    /\ UNCHANGED claims

\* The first load, and what needs no save.
LoadLinks(p) ==
    /\ ipc[p] = "load"
    /\ LET d == Document
           c == child[p] IN
       CASE iop[p] = "Register" /\ d.links[c] = parent[p] -> Report(p, c, parent[p])
         [] iop[p] = "Register" /\ d.links[c] # parent[p] ->
              /\ content' = [content EXCEPT ![p] = [d EXCEPT !.links[c] = parent[p]]]
              /\ IndexGoto(p, "tmp")
              /\ Hold /\ UNCHANGED <<linked, claims>>
         [] iop[p] \in {"Annotate", "Unregister"} /\ d.links[c] = None ->
              IndexReturn(p) /\ UNCHANGED <<linked, claims>>
         [] iop[p] = "Annotate" /\ d.links[c] # None ->
              /\ content' = [content EXCEPT ![p] = d]
              /\ IndexGoto(p, "tmp")
              /\ Hold /\ UNCHANGED <<linked, claims>>
         [] iop[p] = "Unregister" /\ d.links[c] # None ->
              /\ content' = [content EXCEPT ![p] = [d EXCEPT !.links[c] = None]]
              /\ IndexGoto(p, "tmp")
              /\ Hold /\ UNCHANGED <<linked, claims>>
         [] iop[p] = "ClaimPending" /\ d.links[c] # None -> Report(p, c, d.links[c])
         [] OTHER -> IndexGoto(p, "pend") /\ Hold /\ UNCHANGED <<content, linked, claims>>
    /\ UNCHANGED <<open, docs, index, tmp, spawns, expired, unsaved, overlap, wiped, iops, ikills>>

\* NotePending drops what is claimed or expired and adds its spawn.  (The
\* document it goes into is read again by savePendingLocked at once; that
\* read and this one are one step here.)
NotePending(p) ==
    /\ ipc[p] = "pend"
    /\ iop[p] = "NotePending"
    /\ spawns < MaxSpawns
    /\ spawns' = spawns + 1
    /\ LET Waits(s) == s.by = None /\ s.n > expired IN
       content' = [content EXCEPT ![p] = [Document EXCEPT !.pend =
           {s \in @ : Waits(s)} \cup {[n |-> spawns + 1, parent |-> parent[p], by |-> None]}]]
    /\ IndexGoto(p, "tmp")
    /\ Hold
    /\ UNCHANGED <<open, docs, index, tmp, expired, indexHist, iops, ikills>>

\* The spawns a child can claim: not claimed, not expired, not its own.
Free(pend, c) == {s \in pend : s.by = None /\ s.n > expired /\ s.parent # c}
Claimed(pend, s, c) == (pend \ {s}) \cup {[s EXCEPT !.by = c]}

\* Mutant: ClaimPending does not mark the spawn as claimed.
ClaimPendingUnmarked(p) ==
    /\ ipc[p] = "pend"
    /\ iop[p] = "ClaimPending"
    /\ LET free == Free(Document.pend, child[p]) IN
       \/ /\ free = {}
          /\ IndexReturn(p)
       \/ \E s \in free :
             /\ \A t \in free : s.n =< t.n
             /\ parent' = [parent EXCEPT ![p] = s.parent]
             /\ took' = [took EXCEPT ![p] = s.n]
             /\ content' = [content EXCEPT ![p] = Document]
             /\ IndexGoto(p, "tmp")
             /\ UNCHANGED <<iop, child>>
    /\ UNCHANGED <<open, docs, index, tmp, spawns, expired, indexHist, iops, ikills>>

\* ClaimPending takes the oldest spawn that is free.  (Again one step for the
\* two reads of savePendingLocked.)
ClaimPending(p) ==
    /\ ipc[p] = "pend"
    /\ iop[p] = "ClaimPending"
    /\ LET free == Free(Document.pend, child[p]) IN
       \/ /\ free = {}
          /\ IndexReturn(p)
       \/ \E s \in free :
             /\ \A t \in free : s.n =< t.n
             /\ parent' = [parent EXCEPT ![p] = s.parent]
             /\ took' = [took EXCEPT ![p] = s.n]
             /\ content' = [content EXCEPT ![p] =
                              [Document EXCEPT !.pend = Claimed(@, s, child[p])]]
             /\ IndexGoto(p, "tmp")
             /\ UNCHANGED <<iop, child>>
    /\ UNCHANGED <<open, docs, index, tmp, spawns, expired, indexHist, iops, ikills>>

\* saveLocked and savePendingLocked write index.json.tmp, one name for all ...
TruncateTmp(p) ==
    /\ ipc[p] = "tmp"
    /\ tmp' = Torn
    /\ open' = [open EXCEPT ![p] = "tmp"]
    /\ IndexGoto(p, "tmpFill")
    /\ Hold
    /\ UNCHANGED <<content, docs, index, spawns, expired, indexHist, iops, ikills>>

FillTmp(p) ==
    /\ ipc[p] = "tmpFill"
    /\ FillOpen(p)
    /\ IndexGoto(p, "rename")
    /\ Hold
    /\ UNCHANGED <<content, docs, spawns, expired, indexHist, iops, ikills>>

\* What a child is told that ends a claim.
ClaimTold(p) == IF took[p] = 0 THEN {} ELSE {<<took[p], child[p]>>}

\* ... and rename it, unless another process has done so; a claim goes on.
RenameTmp(p) ==
    /\ ipc[p] = "rename"
    /\ IF tmp = None
       THEN UNCHANGED <<index, tmp, open>>
       ELSE /\ index' = tmp
            /\ tmp' = None
            /\ open' = [q \in Writers |-> CASE open[q] = "tmp" -> "index"
                                            [] open[q] = "index" -> "gone"
                                            [] OTHER -> open[q]]
    /\ IF iop[p] = "ClaimPending"
       THEN IndexGoto(p, "link") /\ Hold /\ UNCHANGED <<content, linked, claims>>
       ELSE /\ linked' = IF iop[p] = "Register" THEN [linked EXCEPT ![child[p]] = parent[p]]
                         ELSE IF iop[p] = "Unregister" THEN [linked EXCEPT ![child[p]] = None]
                         ELSE linked
            /\ claims' = claims \cup ClaimTold(p)
            /\ IndexReturn(p)
    /\ UNCHANGED <<docs, spawns, expired, unsaved, overlap, wiped, iops, ikills>>

\* The second half of ClaimPending: load again, add the link, save.
LinkClaim(p) ==
    /\ ipc[p] = "link"
    /\ content' = [content EXCEPT ![p] = [Document EXCEPT !.links[child[p]] = parent[p]]]
    /\ iop' = [iop EXCEPT ![p] = "Register"]
    /\ IndexGoto(p, "tmp")
    /\ UNCHANGED <<child, parent, took, open, docs, index, tmp, spawns, expired,
                   indexHist, iops, ikills>>

-----------------------------------------------------------------------------

\* Three minutes pass.
Expire ==
    /\ expired < spawns
    /\ expired' = spawns
    /\ UNCHANGED <<indexFrame, open, docs, index, tmp, spawns, indexHist, iops, ikills>>

IndexFault ==
    /\ ikills < IndexKills /\ iops < MaxIndexOps
    /\ ikills' = ikills + 1
    /\ iops' = iops + 1

\* saveLocked or savePendingLocked fails.  ClaimPending ignores that, both of
\* the claim and of the link.
SaveFails(p) ==
    /\ ipc[p] \in {"tmp", "tmpFill", "rename"}
    /\ IndexFault
    /\ open' = [open EXCEPT ![p] = None]
    /\ IF iop[p] = "ClaimPending"
       THEN /\ unsaved' = unsaved \cup {took[p]}
            /\ IndexGoto(p, "link")
            /\ Hold /\ UNCHANGED <<content, linked, claims>>
       ELSE /\ linked' = IF took[p] = 0 THEN linked ELSE [linked EXCEPT ![child[p]] = parent[p]]
            /\ claims' = claims \cup ClaimTold(p)
            /\ IndexReturn(p)
            /\ UNCHANGED unsaved
    /\ UNCHANGED <<docs, index, tmp, spawns, expired, overlap, wiped>>

\* Killed, or its write of the rows fails: the file stays as it is.
KillWriter(p) ==
    /\ ipc[p] # "idle"
    /\ IndexFault
    /\ open' = [open EXCEPT ![p] = None]
    /\ IndexReturn(p)
    /\ UNCHANGED <<docs, index, tmp, spawns, expired, indexHist>>

IndexNext ==
    \/ \E p \in Writers :
          \/ BeginOp(p) \/ ListRows(p) \/ ListKept(p) \/ KeepPrev(p)
          \/ TruncateIndex(p) \/ FillIndex(p) \/ LoadLinks(p) \/ NotePending(p)
          \/ ClaimPending(p) \/ TruncateTmp(p) \/ FillTmp(p) \/ RenameTmp(p)
          \/ LinkClaim(p) \/ SaveFails(p) \/ KillWriter(p)
    \/ Expire

IndexSpec == IndexInit /\ [][IndexNext]_indexVars

-----------------------------------------------------------------------------
(* Properties. *)

IndexTypeOK ==
    /\ ipc \in [Writers -> IndexSteps]
    /\ iop \in [Writers -> Operations \cup {None}]
    /\ child \in [Writers -> Ids \cup {None}] /\ parent \in [Writers -> Ids \cup {None}]
    /\ took \in [Writers -> 0..MaxSpawns]
    /\ content \in [Writers -> Documents]
    /\ open \in [Writers -> {None, "tmp", "index", "gone"}]
    /\ docs \subseteq Ids
    /\ index \in Documents \cup {None, Torn} /\ tmp \in Documents \cup {None, Torn}
    /\ spawns \in 0..MaxSpawns /\ expired \in 0..spawns
    /\ linked \in [Ids -> Ids \cup {None}]
    /\ claims \subseteq (1..MaxSpawns) \X Ids /\ unsaved \subseteq 1..MaxSpawns
    /\ overlap \in BOOLEAN /\ wiped \in BOOLEAN

Quiet == \A p \in Writers : ipc[p] = "idle"

\* What the two packages owe each other: as long as their operations do not
\* overlap, nobody is killed and no save fails, every session has its row, whatever links
\* were written since, and the parent reported for a child is the one in the
\* file, whatever rows were written since.  (Delete keeps the first half
\* only: it writes the rows without the links and the spawns of the others.)
IndexShared ==
    (Quiet /\ ~overlap /\ ikills = 0) =>
        /\ index # Torn
        /\ docs \subseteq Document.rows
        /\ ~wiped => Document.links = linked

\* A spawn gives its parent to one child, also across deletions and kills, as
\* long as no two operations overlap (ClaimPending saves the claim before the
\* link) and the claim could be saved.
ClaimedOnce ==
    ~overlap => \A x, y \in claims : x[1] = y[1] /\ x[1] \notin unsaved => x[2] = y[2]
=============================================================================
