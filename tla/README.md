# Superopen: a TLA+ model of its shared state

Superopen (`so`) records coding-agent sessions, keeps a code graph and a memory
diary per repository, and proposes changes from finished sessions. There is no
daemon: hooks, reads, refreshes, finalizers and workers are operating-system
processes that start and end in any order, and what they share is the directory
`.so/` of the repository plus a cache per user. Correctness is a matter of
files: who renames, truncates, counts, stamps and removes them, and when. That
is what is modelled here.

## 1. Inventory

| Component | State | Operations | Meets others through |
|---|---|---|---|
| Graph publication (`graph/engine/publish.go`, `lock_unix.go`, `memory/copy.go`) | `so.db`, `so.db.previous`, staged `.graph-*.db`, `build.lock` | Publish, PublishNonBlocking, CopyInto | file names, flock, open handles of memory and harvest |
| Graph freshness (`freshness.go`, `index_all.go`, `incremental.go`, `watch.go`, `managed.go`, `graph_cmd.go`) | `fingerprint.json`, `file_hashes` of the graph, the working tree | probe, plan, build, stamp; graph reads, `so graph refresh`, watcher | build lock, sidecar |
| Session document (`session/store.go`, `sessions_cmd.go`, `replay/session_map.go`, `memory/capture.go`) | `session.json`, lock directory in the temp directory, finalize flock | Start, UpsertActiveFromSpans, MaterializeFromSpans, UpdateMeta, BuildReplayFromSpans, list repair, summaries | the document, the event log |
| Session event log (`session/trace/store.go`, `session/empty.go`, `filepath.go`) | `events.jsonl` | Write, UpdateUsage, rewrite on materialize, Delete | hooks append while finalize rewrites |
| Build lock and pool (`buildpool`, `build_lock.go`, `worktree_seed.go`) | slot locks and their metadata files | TryAcquire, Acquire, Full, List, seed of a worktree | every repository of the user |
| Harvest (`harvest`) | proposals and runs in `so.db`, target files | MaybeGenerate, Generate, Propose, Apply, Decline | `so.db`, worker lock, provider CLI |
| Distillation (`memory/distill.go`, `horizon.go`) | lists and counters in `memory_meta` | MaybeDistill, Distill, CaptureRoot | worker lock, provider CLI |
| Hook state (`agent/sessionstate`) | state file and lock file per session in the user cache | Load, Save, pending edits, counters, GC | hooks of one session |
| Inbox (`trace/store.go` resolveInbox, `dedup.go`) | `inbox.jsonl` | Write, resolveInbox | hooks of all sessions |
| Agent links and index (`agentlinks`, `index.json`) | pending spawns, links, rows | Register, Unregister, upsertIndex, Delete | every writer of a session |
| Embedding model (`memory/embedworker.go`) | `model.onnx`, its temporary file | FetchModels | every process without a worker |
| Memory embeddings (`memory/store.go`, `embed.go`, `sleep.go`) | `memory_episodes`, `memory_vectors`, the generation in `memory_meta` | open and upgrade, capture, sleep, fade, rescue | `so.db`, the worker |
| Retention (`retention/sweep.go`) | sessions, harvest rows, memory rows | Sweep | the three stores in turn |

Parsing, resolving and ranking (`graph/engine` at large, `memory/search.go`,
`compact`, `guards`, vendor hooks, install) are large but sequential data
transformations; `PROJECT.json` lists them as not modelled with the reason.

What is hard, component by component, is the list `hazards` of `PROJECT.json`,
each at its line. In short:

* publication: a kill between two renames, a failed second rename whose undoing
  may fail as well, handles that follow an inode that lost its name, tables nobody
  copies;
* freshness: a stamp of a tree that is not the tree that was parsed, a stamp
  after a build that did not happen, edits that keep size and mtime, a probe or a
  stamp that fails and is not missed;
* sessions: check and write in different critical sections, whole-document
  rewrites from a copy, truncation before writing, a stale lock directory, a log
  counted and then removed while others append, two session ends at once.

## 2. Plan

1. `GraphPublish` with the abstract `GraphRegister`, and its proofs. **Done.**
2. `GraphFresh`: every reader of a repository depends on it, and its proofs. **Done.**
3. `SessionDoc` and `SessionLog`: the two files of a session. **Done.**
4. `BuildGate` with the abstract `BuildSemaphore`, `WorktreeSeed`, `HookState`;
   run together as `MCGates`. **Done.**
5. `SessionIndex`, `Inbox`, `HarvestApply`, `HarvestQueue`, `Distill`,
   `Retention`; run together as `MCRecords`. **Done.**
6. `ModelFetch` and `EmbedStore`, also in `MCGates`. **Done.**
7. Proofs of every invariant and every action property that a passing run checks,
   of the two refinements, and of what the composed specifications `MCGates` and
   `MCRecords` keep. **Done**, as section 5 says.
8. Candidates after that: an abstract document that `SessionDoc` implements while
   no lock is stolen, and an abstract mailbox for `Inbox`; the live phase of a
   session (`session/state.go`), the start of the embedding worker, the recovery
   store of the compactor (`compact/engine/ccr/store_sqlite.go`).

Modules meant for proof contain no RECURSIVE operator; parameters are constants
with a named assumption; every operation is one action.

## 3. Modules and how they correspond to the code

A *process* of a model is a slot that runs one `so` command after another. A
*file* is an inode: names are variables that hold an inode, a rename or a remove
changes the name, and an open handle keeps its inode. A kill can happen at any
step where something is held or half done: the kernel drops flocks, names stay.
Calls that fail are steps too. Where the code returns the error, the step ends the
operation there, with what was done left as it is; where the code ignores it (`_ =`,
or `d, _ :=`), the step goes on without the effect.

### GraphPublish, GraphRegister

`GraphPublish` follows `publish` (publish.go:31-130) step by step: flock
(`TakeLock`, `LockBusy`), pool slot (`GetSlot`, `PoolFull`), the callback of
`publishDevelopmentGraph` (`Build`), `Verify`, `CopyInto` (`Copy`),
`removeDatabaseFamily` of the backup (`DropBackup`), rename to the backup
(`Park`), rename of the stage (`Swap`), `Clean`. When that rename fails
(`SwapFails`), `Restore` renames the parked file back, and that may fail too:
publish.go:121 ignores the error, so.db is then missing and graph and rows are in
the backup only, as after a kill inside the swap. Both set `torn` (`Tear`).
`RemoveBackup` may leave the backup, since `removeDatabaseFamily` ignores the
errors of its removals. `Leave` is the deferred unlocks and the removal of the
stage on every return. `Fail` is every other return with an error.
Writers are memory and harvest processes: `Open` creates `so.db` when the name
is absent (as SQLite does), `Commit` adds a row through the handle, `Close`.
A database file is whether it has the graph tables, whether `Verify` accepts it,
and its rows; rows are of memory or of harvest.

`GraphRegister` is what that adds up to: a generation that moves forward at
once, and is lost only after a swap was left half-way. `LiveGraph`
maps a directory to the generation a reader can reach under `so.db` or recover
from the backup; `ImplementsRegister` is the refinement.

### GraphFresh

One file stands for the working tree: a content (what a digest identifies) and a
stamp (size and mtime). Without `KeepStamp` every edit changes the stamp; with
it an edit may keep it. `graph` is the content the published graph was built
from (its `file_hashes`), `fp` the sidecar. `IndexAllDevelopment` is `PlanDb`,
`PlanTree` (unchanged or not), `Parse`, `TakeLock` / `Busy`, `Install`, `Stamp`;
publication is one step, since `GraphPublish` opens it up. Callers: a read
(`Probe`, `ReadReturn`, `Wait`, `GiveUp`, `Reprobe`, `Answer`: managed.go:55-137),
a refresher (`Return` stamps again after a finished build), the watcher (`Tick`,
and `Return` stamps after every call without error).
The budgets of time (12 s read, slot deadline) are `Fail` and `GiveUp`: they may
happen at any moment in which the code could notice them. A first probe that fails
lets the read answer without refresh and without header (`ProbeFails`,
managed.go:63-66, res `noprobe`); a probe after the refresh that fails sets the
header (`Answer`). Nobody looks at the error of WriteFingerprint: `StampFails` and
`ReturnUnstamped` go on with the sidecar as it was, or truncated, which is no
sidecar. The background refresh
that a timed out read spawns is any refresher. Git revisions are left out except
that a plan that is not from a probe may rebuild a tree of the same content.

### SessionDoc

Time is a counter: a span or an end of the session takes the next tick.
`writeDocument` is `Mkdir`, `Read`, `Truncate`, `WriteOut`, `Unlock`, with
`SeesStale` / `Steal` for a lock directory whose maker is dead and `TimesOut`
after two seconds. A read that fails counts as an empty document (`ReadFails`:
`d, _ := s.ReadDocument`); a write that fails, before or after it has truncated the
file, ends the call (`WriteFails`). `Write(p, call, change)` starts it on behalf of
`Start`, the final write of `MaterializeFromSpans`, `UpdateMeta`, the
`BuildReplayFromSpans` that follows it in finalize and refresh, or the `UpdateMeta`
of a capture; `Unlock` returns into the caller. The replay puts its own part into the
document as it was read, so its metadata is that of the copy; every other call
brings its metadata. Hooks are `SpanEnds`, `Store`, `Upsert`; `Repair` is the stamp
that `sessions list` gives a nested session; `Capture` is writeSessionSummary
(capture.go:146-157), which reads the metadata without the lock and writes all of it
back with a summary; finalize is `Load`, `Claim` / `ClaimBusy`, `Skip` / `Check`,
`Materialize`, `Finish`; refresh enters at Start. After the replay neither of the two
writes the document again: checkpoint, ingest and distill write elsewhere.
A document is its status, end and footprint (the set of spans it was built
from). `Upsert`, `Repair`, `Check` and `Load` of a refresh read the document for
the sticky merge in the same step as the decision, which makes the window of
`EndedKept` smaller than the code's, never larger.

### SessionLog

`events.jsonl` as a bag of spans per file. Hooks: `Record` (EnsureJSONL), `Open`
(without O_CREATE), `Append`. Rewriters: `Load`, `Delete` (identity spans only),
`Claim`, `NothingLater`, `Proceed`, UpdateUsage as `Scan` and `Rename`, and the
rewrite as `Keep` / `Rewrite` (count), `Remove`, `Recreate`, `Reopen`, `Encode`
(one line at a time), `Finish`. How often a file may hold a span has no bound:
a span that a rewriter writes back may be in the new log already, and be loaded
twice by the next. The host (`vendor`) decides who reloads under
the claim, who fills in usage and who runs `sessions refresh` (codex only).
When finalize finds the session ended (`NothingLater`) is nondeterministic here;
`SessionDoc` decides it.

### BuildGate, BuildSemaphore

What is in front of a build: the flock on `build.lock` (`TakeLock`, `RefuseLock`,
`FreeLock`) and a slot of the pool that all repositories of the user share
(`TakeSlot`, `PassSlot`, `Retry`: TryAcquire and Acquire, pool.go:47-86), with its
`.meta` file (`TruncateMeta`, `FillMeta`, `ClearMeta`). A process makes one call
after another: `init` waits for both gates, `try` waits for neither, `tick`
probes both first, which takes each gate for a moment (`FindFree`, `DropLock`,
and a `TryAcquire` with `probing` set), `probe` asks only for the lock, `list` is
`so graph builds status` (`ListTake`, `ListDrop`, `ListHeld`, `ListRead`). Each
process has its own number of slots, since the number comes from its environment;
0 is no limit. A kill releases the flocks and leaves the `.meta` file with the
pid of a process that is gone.

`BuildSemaphore` is what the two gates add up to: a build begins only where no
other build of the repository runs, and of the processes that have at most n
slots at most n build. `Builds` maps a process to its build from `hold` on.

### WorktreeSeed

`SeedLinkedWorktree` (worktree_seed.go:17-74) by several processes, beside
`so init` and commands that store rows once the worktree is managed. `.so` is
absent, a file, or a directory; its `so.db` is absent, part or whole, with rows.
`SeedBegin`, `SeedBackup`, `SeedRecheck` are the path to the rename, `SeedRename`
works where nothing has the name and `SeedRenameFails` leads to `copyDir`
(`SeedRemove`, `SeedCopy`, `SeedWritten`), which may fail and be undone by a
RemoveAll that may fail unnoticed. `so init` makes the directories, managed or not
(`InitDirs`), finds a so.db there (`InitFinds`) or publishes one into directories
that it makes again (`InitPublish`), or returns an error in between and leaves the
directories (`InitFails`, main.go:371-403).

### HookState

The state file that hooks of one session share. Load and Save are one step each
and lock separately, so an operation is two steps with whatever others do in
between. Claude Code's hooks supply the protocol: `PreToolUse` stashes an edit,
`PostToolUse` takes it and counts an accept, the next prompt (which also stands
for the end of the session, handle.go:99 and 134 do the same) drains the rest and
counts rejects one by one. `other` is any operation that rewrites the file for
other fields. GC looks at the age of the file and removes it in two steps.
`RunHook` lets the host start hooks as it does: tools in parallel, a prompt when
no tool hook runs, a tool hook only for an edit that was announced.
The comment of AddPendingEdit (sessionstate.go:442-444) says new entries are
dropped at the cap; the code drops the oldest, and so does `WithEdit`.

The type of the state file bounds the pending edits by the cap and nothing else:
counters only grow, and a stale save can bring back edits that were decided, to
be counted again, so the number of hooks does not bound them.

### SessionIndex

`index.json`, rewritten whole by two packages. `Upsert` and `Delete` list the
rows (`ListRows`, `ListKept`), read the file again for links and spawns
(`KeepPrev`; Delete does not), truncate and write (`TruncateIndex`, `FillIndex`).
The operations of agentlinks load, change, write `index.json.tmp` under one fixed
name and rename it (`LoadLinks`, `NotePending`, `ClaimPending`, `TruncateTmp`,
`FillTmp`, `RenameTmp`, `LinkClaim`). A file is a document (rows, links, spawns)
or torn. The spawns are a set: each is appended with a greater number than all
before it, so the number gives the order of the list, and `ClaimPending` takes the
free spawn with the least. Two processes that write into one open file may leave
either. A save that fails (`SaveFails`) is returned by Register and ignored by
ClaimPending (agentlinks.go:506), which tells the child its parent all the same;
`unsaved` has those spawns.

### Inbox

A span without a session goes to `inbox.jsonl` (`EnsureInbox`, `OpenInbox`,
`AppendInbox`), one with a session to its events (`AppendEvents`), after which
the inbox is read (`ReadInbox`), the spans of the same trace are appended to the
events (`MoveSpans`), and the inbox is removed or replaced by a rewritten one
(`RemoveInbox`, or `RemoveSpool` to `RenameSpool`). An open file keeps its inode.

### HarvestApply

`Propose`, `InsertProposal`; `CheckOpen`, `CaptureProposal`, `ReadTarget`,
`CheckTarget`, `TruncateTarget`, `FillTarget`, `MarkApplied` (apply.go:12-109);
`Decline`; edits of the target by others. Each SQL statement and each file operation
is a step. The target is a version and the set of diffs in it; a hash identifies
both. Apply reads the file twice, for its text (`ReadTarget`, apply.go:44) and for
its hash (`CheckTarget`, line 53), and what it writes is made of the first. Refusals
(force, a diff that does not apply, protected regions) are one nondeterministic
outcome of `CheckLive`; the status of a refusal is set by a statement whose error is
ignored (`Mark`). `BreakOff` is a kill or a call that fails, a WriteFile that has
truncated the target and the SetStatus after it included (apply.go:101-106). The
history variable `written` is the target at the moment of the write, not what was
read. Proposals with a suggestion and no diff are left out, and nobody removes the
target.

### HarvestQueue

Rows of `harvest_runs` by kind: `waiting` (pending, no provider: detached, busy,
no credentials), `failing` (pending, with the provider's name: these count
towards the limit), `proposed`, `skipped`. `Finalize` is MaybeGenerate, `Scan` is
`so harvest scan`, `LiveAnswer` is skip and propose by the live agent.
ResolvePending is two statements without a transaction: an UPDATE of the pending rows
(`ResolveProposed`, `ResolveRun`, harvest/store.go:188) and, if it found none, an
INSERT (`RecordProposed`, `RecordRun`, line 197), with whatever others insert in
between. A statement whose error the code ignores may fail (`ResolveFails`; a pending
row that is lost so ends its process as a kill there does, `KillHarvester`).

### Distill

Each branch of `distill.go` ends in a fixed list of updates of `memory_meta`
(`todo`), and every update is a read of a row and a write of it (`ReadRow`,
`WriteRow`). `EndChat` and `ResumeChat` are finalize (the finalize lock keeps two
of one session apart), `StartDistill` is the detached process or the command,
`ApplyLive` the live agent, and `CaptureChat` a summary stored by `so memory capture`
or a promoted correction, which takes the session out of the queue without marking
it (capture.go:139-142). The errors of these statements are ignored throughout: a
list that could not be read is taken as empty and written back so (`ReadFails`,
memory/store.go:559), and an update that could not be written is followed by the
next (`WriteFails`, for instance MarkDistilled before ClearPending, distill.go:200).

### Retention

`Sweep` statement by statement: list, look at each session, remove its
directory, rewrite the index, then the closed proposals and resolved runs of
these sessions and of the week before, with a select, a delete and the removal of
files each, then the diary. Beside it: activity, proposals inserted and closed,
rows captured, weeks that pass, statements that fail, kills.

### ModelFetch

`downloadFile` (embedworker.go:575-608) by several processes at once: all of them
write `<dest>.tmp` without a lock. `EnsurePinned` is the sum of what is there,
`OpenTmp` truncates, `CopyPiece` writes what it is sent (the pinned file or
another), `DropTmp` and `RenameTmp` remove and rename the name, whoever's file
has it by then. `met` and `doubt` record that two downloads wrote at once.

### EmbedStore

The embeddings in `so.db`, statement by statement. `StartUser` is
EnsureEmbedWorker, once in a process: no worker, a worker, or one that did not
say which model it is. `EnsureEmbedder` is the decision at every open (`Stamp`,
refuse, or `Wipe`, `Mark`, `Stamp` of the upgrade). `Capture`, `Insert`,
`WriteVector`, `ClearPending` are storeEpisode and upsertEpisode; `FindByHash` is
a capture of a text that is there. `Sleep`, `SelectPending`, `Flush` embed what
is pending. `Hint` is Fade, Rescue and Pin. `KillUser` also stands for a
statement that fails, and `MisreadStamp` for the one whose error is ignored.
Vectors carry the generation of the process that wrote them; the text, the
passages and near duplicates of teachings are left out.

### MCGates, MCRecords

Components that share no file are run together in one instance: a variable
`part` is chosen at the start and says which one moves, the others rest in their
initial states. The state space is the sum of theirs, not the product, and no
behaviour of a component is lost, since none reads what another writes.

## 4. Runs

| Run | Expect | What it shows |
|---|---|---|
| graph_publish | pass | types and lock, VerifiedLive, LiveIsLatest, SafeRowsKept, OnlyPublishAfterTornSwapLoses, refinement of GraphRegister |
| graph_publish_harvest | violation | HarvestKept: a publish drops the harvest rows |
| graph_fresh | pass | CleanIsFresh, RefreshHeals, FreshOrFlagged, ReadsEnd in default mode |
| graph_fresh_hash | pass | WatcherConverges in hash mode with stamp-preserving edits |
| graph_fresh_watch | violation | FreshOrFlagged: the watcher stamps after a refused build |
| session_doc | pass | FootprintKept, FinalizeCovers |
| session_doc_ended | violation | EndedKept: a hook reactivates an ended session |
| session_log | pass | SafeSpansKept |
| session_log_shorter | violation | NeverShorter: a span appended between count and removal is dropped |
| gates | pass | BuildGate: ListedHeld, CallsEnd, refinement of BuildSemaphore. WorktreeSeed: SeedKeepsRows, SeedWhole. HookState: HookCounts. ModelFetch: ModelWhole. EmbedStore: EmbeddedFound |
| records | pass | SessionIndex: IndexShared, ClaimedOnce. Inbox: InboxKeeps, MovedOnce. HarvestApply: AppliedToBase, StatusTells. HarvestQueue: CallsBounded, NotAskedAgain. Distill: NotForgotten, AskedOnce, DistillCallsBounded. Retention: NothingLeftBehind (with DiffsMatch), ActiveKept |
| harvest_apply_memory | violation | MemoryWhenApplied: a refused proposal has its memory text stored |

The five violations are disagreements between the code and its documents or
comments; `findings` in `PROJECT.json` quotes both sides.

**Bounds, and why they are enough.** `MaxFiles = 4` database files: three
publishes, or two and a file a writer creates inside the swap, which is what a
torn swap followed by a publish needs, whether a kill or a failed rename back tore
it. Two builders are needed for the lock, a third would wait; one writer keeps a
handle across publishes. Freshness: two
contents and two edits (there and back), one failure (of a build, a probe or a
stamp) or kill, one read and one process that refreshes or builds, so a read
overlaps a build of each kind and an edit falls into every gap. `MaxTime = 3` ticks: a span, an end, a later span, or two ends; one kill or failed
read or write of the document. The log has
one identity span and two with activity, three files (original, usage copy,
rewrite), one kill. Builders, processes and spans with activity are symmetric;
symmetry is used in runs that check no liveness.

In `gates`: two processes and three calls, in one repository or two, with 0, 1 or
2 slots each, so that a build waits for the lock, for a slot, is refused, meets a
probe and a listing, and leaves a `.meta` file behind when it is killed. Three
seeders and four starts: one past its second check, one that undoes, one that
finds what they left. Two hooks, five events, two edits and a cap of one, so that
the cap is met. Two downloads at a time and three in all, of a file of two pieces,
so that one writes over the other's pieces and a third repairs what they left. Two
users of a store of two episodes, two opens, two writes and one failure, from a
new store or a store of either generation: a capture, a sleep of a batch or a
rescue on each side of an upgrade and inside it. Without any one of the clauses of
`strayed` the property fails within these bounds. In `records`: two processes everywhere. The index has three
sessions, three operations and a spawn: a write of each package with a kill or an
operation in between. Four spans in two traces: what is moved, what remains and
what is appended meanwhile. Two proposals of one file, two edits, three reviews.
One finished session and a limit of two failures, four starts. Two chats and a
limit of one failure, three operations. One session with a proposal, two sweeps,
three events, one week. The processes of `records` and the two chats are
symmetric, and the run has invariants only. The two proposals have two titles;
`harvest_apply_memory` has two of one title with different targets.

**Deadlock** is not checked for GraphPublish, SessionDoc, SessionLog, gates and
records, where the bounds on files, ticks, calls and events end every behaviour,
and is checked for GraphFresh. That no process of BuildGate is stuck in a call is
`CallsEnd`.

**Fairness** is assumed in GraphFresh and BuildGate. In BuildGate it is weak for
the steps of a process that is in a call: a process that can run is run, and a
build ends. Nobody is obliged to start a call. With the bound on calls no endless
stream of builds overtakes one that waits, so `CallsEnd` shows that no call hangs
on a gate nobody holds, not that waiting is fair: neither flock nor the polling
`Acquire` promises that. In GraphFresh it is weak for the steps of a build, a read
and a return: a process that can run is run. Weak for `Tick`: the ticker fires
for as long as `so dev` runs. Strong for the watcher's `TakeLock`: it comes back
at every tick, and it finds the lock or a slot taken by others who give them
back. Strong for `GiveUp`: a read that comes back to waiting again and again
meets its deadline, which is a wall clock. Nobody is obliged to edit, read or
refresh. `WatcherConverges` runs with no refresher and no failure, so that the
watcher is what makes it true.

## 5. Proofs

`GraphPublish_proofs` proves for all builders, writers, rows, bounds and sets of
crash steps, from `PublishAssumption` alone (the bound is a natural number, None
is none of the others, the two kinds of rows are disjoint):

* `Typing`: `Spec => []TypeOK`; `LiveVerified`, `LatestIsLive`, `RowsSurvive`
  for the three safety invariants of the run;
* `LossNeedsTornSwap`: the published graph loses its last name only at a publish
  that follows a torn swap, when it removes the backup or renames over it;
  `PublishIsRegister`: the refinement. In all of them the rename back after a failed
  swap may fail, and so may every removal.

None of the safety invariants is inductive. The strengthening is layered:

1. `StageInv`: who is past the flock holds it (`Exclusive`), every name, handle
   and stage is a file that exists (`Created`), a stage is nobody else's file
   (`Private`), files to come have no graph (`Blank`), and a stage that passed
   Verify is good (`Checked`). With it `VerifiedLive` is inductive.
2. `LiveInv`: `LiveIsLatest` and what it is during the swap: before `Swap` the
   published graph is in the backup (`Parked`), the backup is gone when the
   park begins (`Dropped`), and `Clean` sees the new graph (`Cleaning`).
3. `RowsInv`: `SafeRowsKept`, that the stage holds what was safe when it was
   copied (`CopyHolds`), and that the builder remembers a file it parked
   (`SwapRemembers`), without which a failed swap would not even try to put it back.
   A `Restore` that fails leaves nothing safe, and says so (`torn`).
4. `GenInv`: names are older than stages (`Older`), the published file is a
   graph (`Published`), and what a writer creates in the window of the swap has
   no graph (`Window`). It makes the generation of the register monotone.

Each layer has an `Init` lemma, a `Next` lemma with one step per action, and a
theorem that combines them by temporal logic.

`GraphFresh_proofs` proves for all contents, readers, refreshers, watchers, jobs
and bounds, from `FreshAssumption` alone: `Typing`, and

* `Heals`: `RefreshHeals` when `Exact`, that is in hash mode, or when an edit
  always renews size or mtime. A job whose own stamp fails is not `quiet`; a stamp of
  another that fails may leave no sidecar, which the property allows;
* `CleanFresh` and `Fresh`: `CleanIsFresh` and `FreshOrFlagged` when `Trusted`,
  that is in hash mode, or when `Exact` and there is no watcher. `Fresh` is about
  reads whose first probe did not fail, whatever fails later. The watcher is
  excluded in stamp mode because its tick stamps after a build that was busy:
  the run `graph_fresh_watch` shows what comes of it.

These hold at one step of a process but depend on what it did several steps
earlier, and on what others did in between. The inductive invariant follows a
job through its steps: `StampInv` (a stamp that matches vouches for the content,
so a plan from the probe is as good as one from the files), `RaceInv` (from plan
to stamp a job agrees with the tree until an edit races a build, even if other
builds publish in between), `QuietInv` (the same for one undisturbed job,
whatever happened before), `CleanInv`, and `FreshInv` (the contents that a read
has seen include the present one).

`Gates_proofs` proves about the five parts that `MCGates` composes. BuildGate, for
all processes, repositories, numbers of slots per process, calls and kills, from
`GateAssumption` (bounds are natural numbers, None is none of the others):

* `GateTyping`; `StatusIsTrue`: `ListedHeld`; `GatesAreSemaphore`: the refinement
  of `BuildSemaphore`.

The flock and the slots are held by whom the steps say (`HoldsLock`,
`HoldsSlot`), and a `.meta` file with a pid is written by the holder of its slot
alone (`MetaOwn`); a listing that has seen a slot taken and then reads a live pid
has therefore read the pid of a holder. The bound of the pool is a counting
argument: the map from a process to its slot is injective on those who build, and
its values are slots that every one of them counts (`Bounded`, `Capped`).

WorktreeSeed, for all seeders and bounds, from `SeedAssumption`: `SeedTyping`,
`SafeRowsStay` (`SeedKeepsRows`), `NoHalfWorktree` (`SeedWhole`). A temporary
directory has an owner (`Owners`, by cardinality); what a seeder saw at its second
check still holds while nobody else is past it (`Undisturbed`); whoever writes a
database is on record until it is whole (`Writing`, `Alone`, `Named`, `Attended`), or
has given up and said so (`cut`).

HookState, for all hooks, caps and deaths, from `HookAssumption`: `HookTyping`,
`EditsAreCounted` (`HookCounts`). A prompt comes when no tool hook runs and an edit
has one hook at a time (`Apart`). While nothing is lost, a view that is not stale
is the file (`FreshView`), and the counters with the hooks that are about to count
add up to the edits decided (`Tally`, by cardinality), no edit is decided twice
(`Undecided`), and the list of pending edits has the others (`Remaining`).

ModelFetch, for all processes, lengths and bounds, from `FetchAssumption`:
`FetchTyping`, `ModelIsWhole` (`ModelWhole`). A download that met no other has the
temporary name to itself, and the file there holds what it has been sent
(`NamesApart`, `SentBefore`, `CopiesAlone`); so the sum it was checked by is the sum
of the file that is renamed, as long as nothing is in doubt (`NoDoubt`).

EmbedStore, for all processes, episodes and kills, from `StoreAssumption`:
`StoreTyping`, `EpisodesAreFound` (`EmbeddedFound`). A store has its stamp before it
has a row (`StampFirst`). Once an upgrade has marked the rows, one that is not
pending has a neural vector, a writer about to give it one, or strayed, faded rows
included, since a rescue brings them back (`RowsEmbedded`, `DoneEmbedded`).

That a behaviour of `GatesSpec` is a behaviour of each part is `GatesProject`; the
type invariant of the run (`GatesTyping`) and all the invariants together
(`GatesKeepAll`) follow for the composition from the parts.

`Records_proofs` does the same for Inbox, SessionIndex and Retention, and for the
composition of `MCRecords`. Inbox, for all spans, traces, processes and kills, from
`InboxAssumption`: `InboxTyping`, `SpansKept` (`InboxKeeps`), `SpansMovedOnce`
(`MovedOnce`). While nothing has raced, one process at a time is in the resolver
(`OneResolver`), what it has read is the inbox (`HasRead`), what it takes out it
has appended to the events (`HasMoved`), and what it puts back is the rest
(`Refilling`). Without kills `Tidy` adds that nothing is in both files except
inside a resolver.

SessionIndex, for all processes, sessions, spawns and kills, from
`IndexAssumption`: `IndexTyping`, `SpawnsGoToOne` (`ClaimedOnce`),
`RowsAndLinksShare` (`IndexShared`). While no two operations overlap, one process is
at work and what it opened is its own (`Lone`, `Own`). A spawn that was claimed is
marked with its child wherever the index is, in the file or in a process, and so is
the one that a process has just taken (`Sound`, `Taking`). Without kills the file is
whole but while it is written (`Intact`), and the rows and links that were reported
are in it and in what is about to replace it (`RowsKept`, `LinksKept`). A claim that
could not be saved marks nothing, so `Sound` and `Taking` are about the others
(`unsaved`).

Retention, for all sessions, sweeps and kills, from `RetentionAssumption`:
`SweepTyping`, `ActiveSessionsStay` (`ActiveKept`), `NothingStays`
(`NothingLeftBehind`). A sweep that is at an active session has found it old, and
the session is on record as tardy (`LateInv`). A session off the index is off the
disk, one that a sweep has deleted is off the index, the sweep that has it goes
through its rows one table after the other, and one that no sweep has any more has
no rows (`Removed`, `OffIndex`, `Cleared`, `Left`).

`RecordsProject`, `RecordsTyping` and `RecordsKeepAll` carry them, together with
the theorems of `Harvest_proofs` and `Distill_proofs`, to `RecordsSpec`.

`SessionLog_proofs`, for all spans, rewriters, lines and kills, from
`LogAssumption`: `LogTyping`, `SafeSpansStay` (`SafeSpansKept`). While there is a
safe span, a single process rewrites (`OneRewriter`), and the safe spans are in the
log, in the copy, in what the rewriter has loaded, or partly in the new log and
partly in what is left to write to it (`InLog`, `InCopy`, `InHand`, `OnTheWay`). A
process whose load has not all of them has loaded fewer lines than there are
(`Outgrown`), so that the check for a log that has grown stops it. That needs a
sum over the spans of a file to grow when one of its terms does. Such a sum is a
recursive function on finite sets, and facts about it need induction, which the
library states with an operator as parameter. The module proves them instead from
the least element of a set of numbers (`LeastNumber`, `Induction`,
`SpanInduction`, `SumExists`, `CountMore`, `CountMonotone`): what is to be shown of
every size is the complement of a set of sizes, and a set needs no parameter.

`Harvest_proofs` proves about both components of harvest. For all proposals,
files, edits, callers and kills, from `ApplyAssumption`: `ApplyTyping`,
`DiffsHitTheirBase` (`AppliedToBase`), `StatusTellsTheFile` (`StatusTells`). A
version of a file is never used twice, and a proposal with a base has a file that
nobody removes (`Fresh`, `OneProposer`, `FileStays`, `NoBase`); so a caller that is
about to write, and has missed no change since its first read, has the base of its
proposal in front of it (`OverBase`), however many others wrote before that read.
`Faithful` follows an apply through its write and its status: a
caller that is about to write will set the status (`Doomed`), and what a caller
has read is still so (`Holds`) while the run is calm. For all sessions,
processes, tries and kills, from `QueueAssumption`: `QueueTyping`,
`ProviderCallsBounded` (`CallsBounded`), `NobodyAskedAgain` (`NotAskedAgain`).
The bound on calls needs the lock (`HasLock`) and an account of them: every call
since the last resolve has left a failing row, but for the one under way and
those cut short by a kill or a lost row (`Recorded`, `UnderWay`); the bound itself is
checked against the rows alone and is not inductive. `Warned` says that after a
resolve with a proposal, its second statement included, there is no pending row and
only a process that had passed its check before can still write one.

`Distill_proofs`, for all sessions, processes, limits and kills, from
`DistillAssumption`: `DistillTyping`, and the three properties of the queue. A
branch of the code is a list of updates and a process may be anywhere in it, so
the type invariant lists the lists and their remainders (`Lists`). What a process
has read is the row as it is unless the row was written since or the read failed
(`FreshCopies`), two processes at one session are on record (`Together`).

* `NoneForgotten` (`NotForgotten`): who takes a session out of the queue has put
  it among the distilled ones, is known not to have (`unmarked`: a capture, or a
  MarkDistilled that failed), or resumed it when it was in neither list (`Ordered`),
  which is why the order of the updates matters.
* `DistilledAskedOnce` (`AskedOnce`): whoever queues a session has found it not
  distilled and works on it alone (`Undistilled`), and a distilled session is in
  the queue only while a process is about to take it out (`Outgoing`).
* `DistillCallsAreBounded` (`DistillCallsBounded`): a call is counted under the
  lock (`HasDistillLock`, `Counted`), and the count a process has read before it
  adds its failure is not below the calls but for its own (`ReadCount`), although
  a live answer resets the count without the lock.

`SessionDoc_proofs`, for all hooks, finalizers, refreshes, repairs, captures, clocks,
crashes and failures, from `DocAssumption`: `Typing`, which includes that the finalize flock is
held by a finalizer past its claim and by nobody else, and `FootprintStays`
(`FootprintKept`). Whoever is inside `writeDocument` has the lock unless a
directory was removed under a live holder (`Exclusive`); and, while that did not
happen and no write was cut off or began with a failed read, the copy of the holder
has the footprint of the last materialization, an absent document has none, and a torn
document has its writer (`Kept`). Without the last conjunct a hook that finds the
document unreadable would start one with an empty footprint.

`FinalizeCoversAll` (`FinalizeCovers`), from the same assumption, follows a finalize
through its passes. Spans and ends are numbered from one clock and no number is
used twice (`Apart`); the steps say who holds the claim and who materializes, and
one does unless a refresh got in between (`Crew`); what a materializer was asked
for it will have done (`Asks`); the footprint that goes with an end covers every
span stored by then, and a span stored afterwards is after the end or on record as
late (`Covering`), also for the copy that a replay is about to write back and for the
status and end that a capture read without the lock; and a finalize that ran alone is
the only one at work (`Solitary`), through its replay.

Model-checked only: the three liveness properties (`ReadsEnd`, `WatcherConverges`,
`CallsEnd`), which with fairness and ENABLED are out of the prover's reach, and what
the runs that expect a violation show. Every invariant and action property of a
passing run and both refinements are theorems.

## 6. What is not claimed

* `SafeRowsKept` is about rows committed while no copy is under way. A row that
  is committed after `CopyInto` read the live file and before the swap is lost
  with the backup; that is how the code is.
* After a torn swap the diary may be lost with the graph: `torn` resets `safe`. A
  swap is torn by a kill between the renames, or when the rename of the stage fails
  and the rename back does as well, which the code does not notice (publish.go:121).
  `LiveIsLatest` and `SafeRowsKept` stop there; `VerifiedLive`, the refinement and
  `OnlyPublishAfterTornSwapLoses` do not.
* A database of an older release is deleted when it is opened, with the sessions
  beside it (`ResetStaleStore`, memory/store.go:295, paths.go:98-113). The models
  start with a database of this release or none.
* `CleanIsFresh` and `FreshOrFlagged` hold while no edit fell between a plan or
  parse and its stamp (`raced`). In that race the code does leave a clean probe
  over a stale graph; the next change of the file ends it. `FreshOrFlagged` also
  leaves out a read whose first probe failed: the code takes that for a clean one
  (managed.go:63-66) and may answer from an old graph without the header of
  docs/graph.md:23. A stamp that fails leaves an older sidecar or none, after which
  the probe is dirty.
* `FootprintKept` holds while no lock directory was removed under a live holder
  (`stolen`), no process died or failed between truncating and writing, and none
  wrote after a read that had failed (`lost`).
  A live holder that stalls for more than 30 seconds is not modelled.
* `FinalizeCovers` is about a finalize that ran alone, with no overlap of a
  refresh with it or with another refresh (`mixed`), and leaves out spans stored
  after an end they precede (`late`). A capture that overlaps a finalize may write the
  status and end it read before over those of the finalize; a capture that ran before
  may not, and that is in the property. SessionDoc leaves out the codex rules of
  finalize (reload under the claim, new spans without activity) and the copilot
  usage that makes it materialize again.
* `SeedKeepsRows` is about rows stored while no seeder is past its second look at
  the worktree. From there to the rename nothing protects them. `SeedWhole` leaves out
  (`cut`) a process that was killed while it filled `.so`, a `so init` that returned an
  error after it had made the directories, and a failed copy whose RemoveAll failed:
  each leaves a worktree that counts as managed and is not seeded again.
* `HookCounts` holds while no Save comes from a view that another Save has
  overtaken, `IndexShared` and `ClaimedOnce` while operations on the index do not
  overlap, `InboxKeeps` while nothing is appended to the inbox between the read
  and the replacement, `NotForgotten` and `AskedOnce` while no two updates of one
  list overlap, `IndexShared` moreover while no save fails. In each case the code loses
  an update there. These conditions are
  history variables that say exactly when it happened, so the properties hold in
  every other interleaving, and across kills where the property does not say
  otherwise.
* `AppliedToBase` leaves out a diff whose process had not seen the last change of the
  file (`unseen`): from the read of the text (apply.go:44) over the hash (53) to the
  write (101) nothing keeps others away, and what they wrote is lost. It says nothing
  of proposals without a base hash, which are not compared.
* `StatusTells` is not claimed once an operation broke off: after a kill or an error
  between the write of the target and the status the proposal stays open, and the
  retry ends as stale or noop.
* `NotAskedAgain` leaves out the sessions in `asksAgain`: a pending row of a process
  that had passed its check before the resolve, or one inserted between the UPDATE of
  the resolve, which found no row, and its INSERT.
* `NotForgotten` leaves out updates that were lost to an overlap or to a list that was
  read with an error and written back (`lostUpdate`), and the sessions that a capture
  took out, or a distillation whose MarkDistilled failed (`dropped`): those are in
  neither list although nobody distilled them, until they are queued again.
* `ClaimedOnce` leaves out the spawns whose claim could not be saved (`unsaved`): the
  next child of that parent may be told the same one.
* `CallsBounded` allows one more run of the provider for each run that was killed, or
  whose row could not be inserted (`_, _ = InsertRun`), before it was recorded, and
  `DistillCallsBounded` one for each process that was killed before it could count, or
  could not read or write the count.
* `ModelWhole` is about downloads that did not meet. Two that do may leave a file
  that is not the pinned one under the name of the model; the next process without
  a worker finds the wrong sum and fetches it again.
* `EmbeddedFound` leaves out the episodes in `strayed`, each of which the code does
  lose to the semantic search: those whose row was inserted as embedded by a process
  that stopped before it wrote the vector, those a process of the hash wrote after
  another had upgraded the store, those whose write an upgrade split, those that were
  faded at an upgrade and rescued later. The comment of EmbedText (embed.go:57-59)
  says that hash geometry is never mixed into a neural store; it is, by a process that
  opened the store before the upgrade. docs/configuration.md:175 says that search
  still works with hash embeddings when Python never starts; a store that was upgraded
  once refuses every process of the hash (store.go:396, `EnsureEmbedder`).
* A retention sweep that stops half-way leaves rows of sessions it has deleted;
  no later sweep names them again, and they go when they are a week old.
* SQLite's `-wal` and `-shm`, the `.key` file, the merge of identity fields and
  the dedup of equal spans are outside the models.
* Windows lock files (`lock_windows.go`) are outside; flock semantics is assumed.

## 7. Not modelled

Most lines of the repository are in parts that keep no shared state and take no
decision that depends on an order of events: the parsers, resolvers and symbol
tables of `graph/engine` (some 40,000 lines with `compact` and the vendor hooks),
ranking and search in `memory`, output layout, the installers, and the
translation of each vendor's payloads into spans. What could be stated about them
is that an output equals a function of an input, and the function is the code
itself: a model would be a transliteration. They are listed in `PROJECT.json` as
not modelled, and it is why the share of lines that the models stand for stays
small although every file that processes share is modelled. Left for later, and
small: the live phase file (`session/state.go`), the start of the helper process
for embeddings (spawnDefaultWorker in `memory/embedworker.go`), and the recovery
store of the compactor.
