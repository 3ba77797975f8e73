---------------------------- MODULE GraphPublish ----------------------------
(***************************************************************************)
(* Publication of one repository's graph database .so/db/so.db             *)
(* (internal/graph/engine/publish.go, lock_unix.go, memory/copy.go), with  *)
(* the other processes that keep rows in the same file: memory capture     *)
(* (memory.OpenRoot) and harvest (harvest.OpenRoot).                       *)
(*                                                                         *)
(* There is no daemon: a builder or a writer is an operating-system        *)
(* process, and what they share is a directory.  A file is an inode: a     *)
(* rename moves a name, and an open handle follows the inode.              *)
(***************************************************************************)
EXTENDS Integers, FiniteSets

CONSTANTS Builders,     \* processes that publish a graph
          Writers,      \* processes that store memory or harvest rows
          MemRows,      \* rows of the memory_* tables
          HarvestRows,  \* rows of the harvest_* tables
          MaxFiles,     \* bound: database files ever created
          CrashSteps,   \* steps at which a builder may be killed
          None

Rows == MemRows \cup HarvestRows
Inodes == 1..MaxFiles

ASSUME PublishAssumption ==
    /\ MaxFiles \in Nat
    /\ None \notin Builders \cup Inodes
    /\ MemRows \cap HarvestRows = {}

VARIABLES
    pc,       \* the step each builder is at
    nb,       \* builder called PublishNonBlocking
    lock,     \* holder of the flock on build.lock
    db,       \* inode named so.db
    prev,     \* inode named so.db.previous
    stage,    \* inode of the builder's .graph-*.db
    had,      \* builder's hadPrior
    files,    \* contents by inode
    next,     \* next inode number
    handle,   \* inode a writer has open
    pub,      \* history: the inode published last
    torn,     \* history: the last swap was left half-way, so.db in its backup
    safe      \* history: rows committed to so.db while no copy of it was under
              \* way, since the last torn swap

vars == <<pc, nb, lock, db, prev, stage, had, files, next, handle, pub, torn, safe>>
gvars == <<pub, torn, safe>>

Held == {"slot", "build", "verify", "copy", "drop", "park", "swap", "clean"}
Steps == {"idle", "lock"} \cup Held

\* graph: the file has the graph tables; ok: Verify accepts it.
File == [graph : BOOLEAN, ok : BOOLEAN, rows : SUBSET Rows]
MaybeInode == Inodes \cup {None}

Init ==
    /\ pc = [b \in Builders |-> "idle"]
    /\ nb = [b \in Builders |-> FALSE]
    /\ lock = None
    /\ db = None
    /\ prev = None
    /\ stage = [b \in Builders |-> None]
    /\ had = [b \in Builders |-> FALSE]
    /\ files = [i \in Inodes |-> [graph |-> FALSE, ok |-> TRUE, rows |-> {}]]
    /\ next = 1
    /\ handle = [w \in Writers |-> None]
    /\ pub = None
    /\ torn = FALSE
    /\ safe = {}

Goto(b, step) == pc' = [pc EXCEPT ![b] = step]

\* The window in which so.db has been renamed away and not yet replaced.
InSwap == \E b \in Builders : pc[b] = "swap"
\* so.db has been read by CopyInto and its replacement is not in place yet.
Copied == \E b \in Builders : pc[b] \in {"drop", "park", "swap"}

-----------------------------------------------------------------------------
(* The build lock. *)

\* A publish begins: Publish or PublishNonBlocking.
Begin(b, n) ==
    /\ pc[b] = "idle"
    /\ next <= MaxFiles
    /\ nb' = [nb EXCEPT ![b] = n]
    /\ Goto(b, "lock")
    /\ UNCHANGED <<lock, db, prev, stage, had, files, next, handle, gvars>>

LockFreeAlways == TRUE
LockFree == lock = None

TakeLock(b) ==
    /\ pc[b] = "lock"
    /\ LockFree
    /\ lock' = b
    /\ Goto(b, "slot")
    /\ UNCHANGED <<nb, db, prev, stage, had, files, next, handle, gvars>>

\* PublishNonBlocking returns ErrBuildInProgress.
LockBusy(b) ==
    /\ pc[b] = "lock"
    /\ nb[b]
    /\ lock # None
    /\ Goto(b, "idle")
    /\ UNCHANGED <<nb, lock, db, prev, stage, had, files, next, handle, gvars>>

\* The deferred unlocks and the removal of the staged file, on every return.
LeaveHolding(b) ==
    /\ stage' = [stage EXCEPT ![b] = None]
    /\ UNCHANGED lock
    /\ Goto(b, "idle")

Leave(b) ==
    /\ stage' = [stage EXCEPT ![b] = None]
    /\ lock' = None
    /\ Goto(b, "idle")

-----------------------------------------------------------------------------
(* Staging, verification, and the copy of the diary. *)

\* A build slot of the pool (module BuildGate): a non-blocking publish gives
\* up when there is none, a blocking one polls until it gets one.
GetSlot(b) ==
    /\ pc[b] = "slot"
    /\ Goto(b, "build")
    /\ UNCHANGED <<nb, lock, db, prev, stage, had, files, next, handle, gvars>>

PoolFull(b) ==
    /\ pc[b] = "slot"
    /\ nb[b]
    /\ Leave(b)
    /\ UNCHANGED <<nb, db, prev, had, files, next, handle, gvars>>

\* The callback writes the staged database; what it leaves may not verify.
Build(b, good) ==
    /\ pc[b] = "build"
    /\ next <= MaxFiles
    /\ files' = [files EXCEPT ![next] = [graph |-> TRUE, ok |-> good, rows |-> {}]]
    /\ stage' = [stage EXCEPT ![b] = next]
    /\ next' = next + 1
    /\ Goto(b, "verify")
    /\ UNCHANGED <<nb, lock, db, prev, had, handle, gvars>>

VerifiesAny(i) == TRUE
Verifies(i) == files[i].ok

Verify(b) ==
    /\ pc[b] = "verify"
    /\ Verifies(stage[b])
    /\ Goto(b, "copy")
    /\ UNCHANGED <<nb, lock, db, prev, stage, had, files, next, handle, gvars>>

\* The pool, the build, opening or verifying the stage, CopyInto, or the rename of
\* so.db to its backup returned an error.
Fail(b) ==
    /\ \/ pc[b] \in {"slot", "build", "copy", "park"}
       \/ pc[b] = "verify" /\ ~Verifies(stage[b])
    /\ Leave(b)
    /\ UNCHANGED <<nb, db, prev, had, files, next, handle, gvars>>

\* CopyInto moves the memory tables of the live file and no others.
CopiedNone(src) == {}
CopiedRows(src) == files[src].rows \cap MemRows

Copy(b) ==
    /\ pc[b] = "copy"
    /\ files' = IF db = None THEN files
                ELSE [files EXCEPT ![stage[b]].rows = CopiedRows(db)]
    /\ Goto(b, "drop")
    /\ UNCHANGED <<nb, lock, db, prev, stage, had, next, handle, gvars>>

-----------------------------------------------------------------------------
(* The swap: drop the old backup, park so.db, rename the stage, clean up. *)

\* removeDatabaseFamily ignores the error of os.Remove.
RemoveBackup == prev' \in {None, prev}

DropBackup(b) ==
    /\ pc[b] = "drop"
    /\ RemoveBackup
    /\ Goto(b, "park")
    /\ UNCHANGED <<nb, lock, db, stage, had, files, next, handle, gvars>>

ParkLosing(b) ==
    /\ pc[b] = "park"
    /\ db' = None
    /\ had' = [had EXCEPT ![b] = db # None]
    /\ Goto(b, "swap")
    /\ UNCHANGED <<nb, lock, prev, stage, files, next, handle, gvars>>

Park(b) ==
    /\ pc[b] = "park"
    /\ db' = None
    /\ prev' = IF db = None THEN prev ELSE db
    /\ had' = [had EXCEPT ![b] = db # None]
    /\ Goto(b, "swap")
    /\ UNCHANGED <<nb, lock, stage, files, next, handle, gvars>>

Swap(b) ==
    /\ pc[b] = "swap"
    /\ db' = stage[b]
    /\ stage' = [stage EXCEPT ![b] = None]
    /\ Goto(b, "clean")
    /\ pub' = stage[b]
    /\ torn' = FALSE
    /\ UNCHANGED <<nb, lock, prev, had, files, next, handle, safe>>

\* What was so.db stays in the backup, under no name a reader opens.
Tear == torn' = TRUE /\ safe' = {}

\* The parked file is renamed back; the error of that rename is ignored.
RestoreNothing(b) == UNCHANGED <<db, prev, torn, safe>>
Restore(b) ==
    \/ /\ had[b]
       /\ db' = prev
       /\ prev' = None
       /\ UNCHANGED <<torn, safe>>
    \/ had[b] /\ Tear /\ UNCHANGED <<db, prev>>
    \/ ~had[b] /\ UNCHANGED <<db, prev, torn, safe>>

\* The rename of the stage fails.
SwapFails(b) ==
    /\ pc[b] = "swap"
    /\ Restore(b)
    /\ Leave(b)
    /\ UNCHANGED <<nb, had, files, next, handle, pub>>

Clean(b) ==
    /\ pc[b] = "clean"
    /\ RemoveBackup
    /\ Leave(b)
    /\ UNCHANGED <<nb, db, had, files, next, handle, gvars>>

\* A builder is killed.  The kernel drops its flocks; names stay as they are
\* and the staged file is left behind under a name nobody uses again.
Crash(b) ==
    /\ pc[b] \in Held \cap CrashSteps
    /\ Leave(b)
    /\ IF pc[b] = "swap" /\ had[b] THEN Tear ELSE UNCHANGED <<torn, safe>>
    /\ UNCHANGED <<nb, db, prev, had, files, next, handle, pub>>

-----------------------------------------------------------------------------
(* Writers.  Opening so.db creates it when the name is absent.  The files   *)
(* are of this release's shape: store.go:295 deletes an older one at open.  *)

Open(w) ==
    /\ handle[w] = None
    /\ IF db # None
       THEN /\ handle' = [handle EXCEPT ![w] = db]
            /\ UNCHANGED <<db, next>>
       ELSE /\ next <= MaxFiles
            /\ db' = next
            /\ next' = next + 1
            /\ handle' = [handle EXCEPT ![w] = next]
    /\ UNCHANGED <<pc, nb, lock, prev, stage, had, files, gvars>>

Commit(w, row) ==
    /\ handle[w] # None
    /\ \A i \in Inodes : row \notin files[i].rows
    /\ files' = [files EXCEPT ![handle[w]].rows = @ \cup {row}]
    /\ safe' = IF handle[w] = db /\ ~Copied THEN safe \cup {row} ELSE safe
    /\ UNCHANGED <<pc, nb, lock, db, prev, stage, had, next, handle, pub, torn>>

Close(w) ==
    /\ handle[w] # None
    /\ handle' = [handle EXCEPT ![w] = None]
    /\ UNCHANGED <<pc, nb, lock, db, prev, stage, had, files, next, gvars>>

Next ==
    \/ \E b \in Builders :
        \/ \E n \in BOOLEAN : Begin(b, n)
        \/ TakeLock(b)
        \/ LockBusy(b)
        \/ GetSlot(b)
        \/ PoolFull(b)
        \/ \E good \in BOOLEAN : Build(b, good)
        \/ Verify(b)
        \/ Fail(b)
        \/ Copy(b)
        \/ DropBackup(b)
        \/ Park(b)
        \/ Swap(b)
        \/ SwapFails(b)
        \/ Clean(b)
        \/ Crash(b)
    \/ \E w \in Writers :
        \/ Open(w)
        \/ \E row \in Rows : Commit(w, row)
        \/ Close(w)

Spec == Init /\ [][Next]_vars

-----------------------------------------------------------------------------
(* Properties. *)

\* Every variable keeps its type, and build.lock is held by nobody but a
\* builder inside publish: no return path and no crash leaves it held.
TypeOK ==
    /\ pc \in [Builders -> Steps]
    /\ nb \in [Builders -> BOOLEAN]
    /\ lock \in {None} \cup {b \in Builders : pc[b] \in Held}
    /\ db \in MaybeInode
    /\ prev \in MaybeInode
    /\ stage \in [Builders -> MaybeInode]
    /\ had \in [Builders -> BOOLEAN]
    /\ files \in [Inodes -> File]
    /\ next \in 1..(MaxFiles + 1)
    /\ handle \in [Writers -> MaybeInode]
    /\ pub \in MaybeInode
    /\ torn \in BOOLEAN
    /\ safe \in SUBSET Rows

\* A graph that never passed Verify is never reachable under so.db or under
\* its backup, whatever fails, crashes or opens the file in between
\* (publish.go: "builds and verifies a database beside the live database").
VerifiedLive ==
    \A i \in {db, prev} \ {None} : files[i].graph => files[i].ok

\* Outside the swap, and unless the last swap was left half-way (a builder died
\* inside it, or its rename back failed as well), so.db is the graph published
\* last: a failed publish leaves the live generation in place.
LiveIsLatest ==
    (pub # None /\ ~InSwap /\ ~torn) => db = pub

\* A memory row committed to so.db before its copy began is in so.db after
\* every publish that follows, and in the parked file during the swap.
SafeRowsKept ==
    LET kept == IF InSwap THEN prev ELSE db
    IN  safe \cap MemRows # {} =>
            /\ kept # None
            /\ safe \cap MemRows \subseteq files[kept].rows

\* The one step after which the graph published last has no name left, until
\* a newer one replaces it, is that of a publish which follows a torn swap: it
\* finds no so.db, or one a writer made, and removes the backup that held graph
\* and diary, or renames over it the so.db it found.
HasName(i) == i \in {db, prev}
OnlyPublishAfterTornSwapLoses ==
    [][(pub # None /\ HasName(pub) /\ ~HasName(pub)') =>
        torn /\ \E b \in Builders : DropBackup(b) \/ Park(b)]_vars

\* The file a reader can reach or recover holds this generation (0: none).
LiveGraph ==
    IF db # None /\ files[db].graph THEN db
    ELSE IF prev # None /\ files[prev].graph THEN prev ELSE 0

Register == INSTANCE GraphRegister WITH live <- LiveGraph

\* publish.go implements a register whose generation only moves forward and
\* is only ever lost in consequence of a torn swap.
ImplementsRegister == Register!Spec

\* docs/configuration.md: open harvest proposals and pending harvest runs are
\* never aged out.  A harvest row that was in so.db with no publish under way
\* is still there when no publish is under way.
HarvestKept ==
    lock = None =>
        \A row \in safe \cap HarvestRows : db # None /\ row \in files[db].rows
=============================================================================
