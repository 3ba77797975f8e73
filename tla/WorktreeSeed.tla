---------------------------- MODULE WorktreeSeed ----------------------------
(***************************************************************************)
(* Seeding the .so directory of a linked git worktree from its parent      *)
(* checkout (internal/graph/engine/worktree_seed.go), by any command of    *)
(* any process that finds the worktree unmanaged, beside so init and the   *)
(* commands that store rows once it is managed (paths.Managed: .so is a    *)
(* directory).  No lock is involved: build.lock lives inside .so.          *)
(***************************************************************************)
EXTENDS Integers, FiniteSets, Absent

CONSTANTS Seeders,    \* processes that run SeedLinkedWorktree or so init
          SeedRows,   \* rows that commands store in the worktree's so.db
          MaxSeeds,   \* bound: calls started
          SeedKills   \* bound: processes killed

ASSUME SeedAssumption == MaxSeeds \in Nat /\ SeedKills \in Nat

VARIABLES
    spc,       \* the step each process is at
    dest,      \* what .so is: "none", "file" or "dir"
    db,        \* .so/db/so.db: "none", "part" (not a whole database) or "full"
    held,      \* the rows in it
    onFile,    \* copiers whose open file is the present so.db
    temps,     \* so-seed-* directories in the worktree
    safe,      \* history: rows stored while no seeder was past its second check
    mixed,     \* history: two copiers wrote one so.db
    cut,       \* history: a process was killed while it filled .so, or gave up on it
    seeds, seedKills

seedVars == <<spc, dest, db, held, onFile, temps, safe, mixed, cut, seeds, seedKills>>
seedCounts == <<cut, seeds, seedKills>>

Filling == {"copy", "write", "init"}             \* .so is being filled
Committed == {"rename", "remove", "copy", "write", "undo"}  \* past the second check
SeedSteps == {"idle", "backup", "recheck"} \cup Filling \cup Committed

SeedInit ==
    /\ spc = [p \in Seeders |-> "idle"]
    /\ dest \in {"none", "file"}
    /\ db = "none"
    /\ held = {}
    /\ onFile = {}
    /\ temps = 0
    /\ safe = {}
    /\ mixed = FALSE
    /\ cut = FALSE
    /\ seeds = 0
    /\ seedKills = 0

SeedGoto(p, step) == spc' = [spc EXCEPT ![p] = step]

-----------------------------------------------------------------------------

\* Unmanaged, and the parent has a graph: a temporary directory appears.
SeedBegin(p) ==
    /\ spc[p] = "idle"
    /\ seeds < MaxSeeds
    /\ dest # "dir"
    /\ seeds' = seeds + 1
    /\ temps' = temps + 1
    /\ SeedGoto(p, "backup")
    /\ UNCHANGED <<dest, db, held, onFile, safe, mixed, cut, seedKills>>

\* VACUUM INTO, else a copy of what has a SQLite header, else nothing: the
\* deferred cleanup removes the temporary directory.
SeedBackup(p) ==
    /\ spc[p] = "backup"
    /\ \/ SeedGoto(p, "recheck") /\ UNCHANGED temps
       \/ SeedGoto(p, "idle") /\ temps' = temps - 1
    /\ UNCHANGED <<dest, db, held, onFile, safe, mixed, seedCounts>>

\* Mutant: the second check is missing.
SeedRecheckMissing(p) ==
    /\ spc[p] = "recheck"
    /\ SeedGoto(p, "rename")
    /\ UNCHANGED <<dest, db, held, onFile, temps, safe, mixed, seedCounts>>

SeedRecheck(p) ==
    /\ spc[p] = "recheck"
    /\ IF dest = "dir"
       THEN SeedGoto(p, "idle") /\ temps' = temps - 1
       ELSE SeedGoto(p, "rename") /\ UNCHANGED temps
    /\ UNCHANGED <<dest, db, held, onFile, safe, mixed, seedCounts>>

\* os.Rename of a directory works where nothing has its new name ...
SeedRename(p) ==
    /\ spc[p] = "rename"
    /\ dest = "none"
    /\ dest' = "dir"
    /\ db' = "full"
    /\ temps' = temps - 1
    /\ SeedGoto(p, "idle")
    /\ UNCHANGED <<held, onFile, safe, mixed, seedCounts>>

\* ... and fails over a file or a directory with something in it: copyDir.
SeedRenameFails(p) ==
    /\ spc[p] = "rename"
    /\ dest # "none"
    /\ SeedGoto(p, "remove")
    /\ UNCHANGED <<dest, db, held, onFile, temps, safe, mixed, seedCounts>>

\* os.RemoveAll(.so): whoever has so.db open writes to a file without a name.
RemoveSo ==
    /\ dest' = "none"
    /\ db' = "none"
    /\ held' = {}
    /\ onFile' = {}

\* copyDir begins with RemoveAll(to).
SeedRemove(p) ==
    /\ spc[p] = "remove"
    /\ RemoveSo
    /\ SeedGoto(p, "copy")
    /\ UNCHANGED <<temps, safe, mixed, seedCounts>>

\* The directory, its .gitignore, and so.db opened with O_TRUNC.
SeedCopy(p) ==
    /\ spc[p] = "copy"
    /\ dest' = "dir"
    /\ db' = "part"
    /\ held' = {}
    /\ onFile' = onFile \cup {p}
    /\ mixed' = (mixed \/ onFile # {})
    /\ SeedGoto(p, "write")
    /\ UNCHANGED <<temps, safe, seedCounts>>

\* The copy is complete; of two that wrote one file, whatever they left.  The
\* temporary directory stays: cleanup is off.
SeedWritten(p) ==
    /\ spc[p] = "write"
    /\ \/ onFile = {p} /\ db' = "full"
       \/ (onFile # {p} \/ mixed) /\ UNCHANGED db
    /\ onFile' = onFile \ {p}
    /\ SeedGoto(p, "idle")
    /\ UNCHANGED <<dest, held, temps, safe, mixed, seedCounts>>

\* A step of copyDir fails.
SeedCopyFails(p) ==
    /\ spc[p] \in {"remove", "copy", "write"}
    /\ onFile' = onFile \ {p}
    /\ SeedGoto(p, "undo")
    /\ UNCHANGED <<dest, db, held, temps, safe, mixed, seedCounts>>

\* Mutant: what a failed copy left stays.
SeedUndoMissing(p) ==
    /\ spc[p] = "undo"
    /\ temps' = temps - 1
    /\ SeedGoto(p, "idle")
    /\ UNCHANGED <<dest, db, held, onFile, safe, mixed, seedCounts>>

\* The error of this RemoveAll is ignored.
SeedUndo(p) ==
    /\ spc[p] = "undo"
    /\ \/ RemoveSo /\ UNCHANGED cut
       \/ dest = "dir" /\ cut' = TRUE /\ UNCHANGED <<dest, db, held, onFile>>
    /\ temps' = temps - 1
    /\ SeedGoto(p, "idle")
    /\ UNCHANGED <<safe, mixed, seeds, seedKills>>

-----------------------------------------------------------------------------
(* The other commands. *)

\* so init makes the directories (Paths.EnsureDirs), managed or not ...
InitDirs(p) ==
    /\ spc[p] = "idle"
    /\ seeds < MaxSeeds
    /\ dest # "file"
    /\ dest' = "dir"
    /\ seeds' = seeds + 1
    /\ SeedGoto(p, "init")
    /\ UNCHANGED <<db, held, onFile, temps, safe, mixed, cut, seedKills>>

\* ... finds so.db there and is done (no --force) ...
InitFinds(p) ==
    /\ spc[p] = "init"
    /\ db # "none"
    /\ SeedGoto(p, "idle")
    /\ UNCHANGED <<dest, db, held, onFile, temps, safe, mixed, seedCounts>>

\* ... or publishes a graph, into directories made again if they are gone ...
InitPublish(p) ==
    /\ spc[p] = "init"
    /\ dest' = "dir"
    /\ db' = "full"
    /\ onFile' = {}
    /\ SeedGoto(p, "idle")
    /\ UNCHANGED <<held, temps, safe, mixed, seedCounts>>

\* ... or returns an error (the .gitignores, the cursor rule, the client, the
\* build), and leaves the directories.
InitFails(p) ==
    /\ spc[p] = "init"
    /\ cut' = (cut \/ (dest = "dir" /\ db = "none"))
    /\ SeedGoto(p, "idle")
    /\ UNCHANGED <<dest, db, held, onFile, temps, safe, mixed, seeds, seedKills>>

\* A command of a managed worktree stores a row.
StoreRow ==
    /\ dest = "dir"
    /\ db = "full"
    /\ \E r \in SeedRows \ held :
          /\ held' = held \cup {r}
          /\ safe' = IF \E p \in Seeders : spc[p] \in Committed
                     THEN safe ELSE safe \cup {r}
    /\ UNCHANGED <<spc, dest, db, onFile, temps, mixed, seedCounts>>

KillSeeder(p) ==
    /\ spc[p] # "idle"
    /\ seedKills < SeedKills
    /\ seedKills' = seedKills + 1
    /\ cut' = (cut \/ spc[p] \in Filling \cup {"undo"})
    /\ onFile' = onFile \ {p}
    /\ SeedGoto(p, "idle")
    /\ UNCHANGED <<dest, db, held, temps, safe, mixed, seeds>>

SeedNext ==
    \/ \E p \in Seeders :
          \/ SeedBegin(p) \/ SeedBackup(p) \/ SeedRecheck(p) \/ SeedRename(p)
          \/ SeedRenameFails(p) \/ SeedRemove(p) \/ SeedCopy(p) \/ SeedWritten(p)
          \/ SeedCopyFails(p) \/ SeedUndo(p) \/ InitDirs(p) \/ InitFinds(p)
          \/ InitPublish(p) \/ InitFails(p) \/ KillSeeder(p)
    \/ StoreRow

SeedSpec == SeedInit /\ [][SeedNext]_seedVars

-----------------------------------------------------------------------------
(* Properties. *)

SeedTypeOK ==
    /\ spc \in [Seeders -> SeedSteps]
    /\ dest \in {"none", "file", "dir"}
    /\ db \in {"none", "part", "full"}
    /\ held \subseteq SeedRows /\ safe \subseteq SeedRows
    /\ onFile \subseteq Seeders
    /\ temps \in 0..MaxSeeds
    /\ mixed \in BOOLEAN /\ cut \in BOOLEAN
    /\ seeds \in 0..MaxSeeds
    /\ seedKills \in 0..SeedKills

\* A seeder never takes away what a managed worktree has: a row stored while
\* no seeder was past its second check of Managed stays, although seeders that
\* found no .so the first time are still under way.  (Between the second check
\* and the rename the code has no protection: copyDir removes what it finds.)
SeedKeepsRows == safe \subseteq held

\* A worktree is not left managed without a whole database, which would keep
\* it from ever being seeded: only while somebody fills .so, after a process
\* that did was killed or gave up (so init returned an error, or the RemoveAll
\* after a failed copy did), or after two copies into one file.
SeedWhole ==
    (dest = "dir" /\ db # "full") =>
        \/ \E p \in Seeders : spc[p] \in Filling \cup {"undo"}
        \/ cut
        \/ mixed
=============================================================================
