------------------------------ MODULE BuildGate ------------------------------
(***************************************************************************)
(* The two gates in front of a graph build (internal/graph/engine/         *)
(* build_lock.go, lock_unix.go, publish.go, internal/graph/buildpool):     *)
(* the flock on the repository's build.lock, then one of the slots of a    *)
(* pool that all repositories of the user share.  A slot is a flock on a   *)
(* file of build-slots/ and a .meta file beside it that says who holds it. *)
(* The kernel drops a flock with its process; the .meta file stays.        *)
(*                                                                         *)
(* What a build does once it has both gates is GraphPublish.               *)
(***************************************************************************)
EXTENDS Integers, FiniteSets, Absent

CONSTANTS GateProcs,   \* processes that build, probe or list
          Repos,       \* repositories
          Homes,       \* the repositories the processes may work in
          SlotCounts,  \* values of SUPEROPEN_BUILD_SLOTS; 0: no limit
          MaxCalls,    \* bound: calls started
          GateKills,   \* bound: processes killed
          Dead         \* pid of a process that is gone

ASSUME GateAssumption ==
    /\ SlotCounts \subseteq Nat
    /\ Homes \subseteq [GateProcs -> Repos]
    /\ None \notin GateProcs \cup [pid : GateProcs \cup {Dead, None}]
    /\ None \notin [repo : Repos, slots : SlotCounts]
    /\ Dead \notin GateProcs \cup {None}
    /\ MaxCalls \in Nat /\ GateKills \in Nat

Slots == UNION {1..n : n \in SlotCounts}

VARIABLES
    gpc,       \* the step each process is at
    call,      \* what it does, one of Calls
    probing,   \* it is inside Full(), not inside a build
    repo,      \* the repository it does it for
    count,     \* SlotCount() of its environment
    at,        \* the slot it is trying or holds
    buildLock, \* holder of the flock on a repository's build.lock
    slot,      \* holder of the flock on a slot
    meta,      \* the slot's .meta file
    listed,    \* what List has appended so far, with the holder (history)
    calls,     \* bound: calls started so far
    gateKills  \* bound: kills so far

frame == <<call, count, probing, at, listed>>
gateVars == <<gpc, frame, repo, buildLock, slot, meta, calls, gateKills>>

\* init: so init and so graph build (Publish); try: so graph refresh and reads
\* (PublishNonBlocking); tick: the watcher and refresh --detach, which probe
\* both gates first; probe: a read that gave up, which asks BuildBusy before it
\* starts a refresh; list: so graph builds status.
Calls == {"init", "try", "tick", "probe", "list"}
SlotSteps == {"truncate", "fill", "hold", "clear", "unslot"}
GateSteps == {"idle", "busy", "drop", "lock", "scan", "sleep", "unlock",
              "list", "listDrop", "listRead"} \cup SlotSteps

\* A .meta file that exists: truncated (pid None) or complete.
Meta == [pid : GateProcs \cup {Dead, None}]
Entry == [slot : Slots, pid : GateProcs \cup {None}, by : GateProcs \cup {None}]

GateInit ==
    /\ gpc = [p \in GateProcs |-> "idle"]
    /\ call = [p \in GateProcs |-> "list"]
    /\ probing = [p \in GateProcs |-> FALSE]
    /\ repo \in Homes
    /\ count = [p \in GateProcs |-> 0]
    /\ at = [p \in GateProcs |-> 1]
    /\ buildLock = [r \in Repos |-> None]
    /\ slot = [i \in Slots |-> None]
    /\ meta = [i \in Slots |-> None]
    /\ listed = [p \in GateProcs |-> {}]
    /\ calls = 0
    /\ gateKills = 0

GateGoto(p, step) == gpc' = [gpc EXCEPT ![p] = step]

\* The call is over and its frame is gone.
GateReturn(p) ==
    /\ GateGoto(p, "idle")
    /\ call' = [call EXCEPT ![p] = "list"]
    /\ count' = [count EXCEPT ![p] = 0]
    /\ probing' = [probing EXCEPT ![p] = FALSE]
    /\ at' = [at EXCEPT ![p] = 1]
    /\ listed' = [listed EXCEPT ![p] = {}]

-----------------------------------------------------------------------------
(* Calls begin. *)

\* A command or a watcher tick of a process with n slots in its environment.
StartCall(p) ==
    /\ gpc[p] = "idle"
    /\ calls < MaxCalls
    /\ \E c \in Calls, n \in SlotCounts :
          /\ call' = [call EXCEPT ![p] = c]
          /\ count' = [count EXCEPT ![p] = n]
          /\ GateGoto(p, CASE c \in {"tick", "probe"} -> "busy"
                           [] c = "list" -> "list"
                           [] OTHER      -> "lock")
    /\ calls' = calls + 1
    /\ UNCHANGED <<probing, at, listed, repo, buildLock, slot, meta,
                   gateKills>>

-----------------------------------------------------------------------------
(* BuildBusy, and the build lock. *)

\* BuildBusy finds the lock held: the tick, or the detached refresh, is over.
FindBusy(p) ==
    /\ gpc[p] = "busy"
    /\ buildLock[repo[p]] # None
    /\ GateReturn(p)
    /\ UNCHANGED <<repo, buildLock, slot, meta, calls, gateKills>>

\* BuildBusy takes the lock for a moment ...
FindFree(p) ==
    /\ gpc[p] = "busy"
    /\ buildLock[repo[p]] = None
    /\ buildLock' = [buildLock EXCEPT ![repo[p]] = p]
    /\ GateGoto(p, "drop")
    /\ UNCHANGED <<frame, repo, slot, meta, calls, gateKills>>

\* ... and gives it back; Full comes next, unless there is no limit.
DropLock(p) ==
    /\ gpc[p] = "drop"
    /\ buildLock' = [buildLock EXCEPT ![repo[p]] = None]
    /\ \/ call[p] = "probe" /\ GateReturn(p)
       \/ /\ call[p] # "probe" /\ count[p] = 0
          /\ GateGoto(p, "lock")
          /\ UNCHANGED frame
       \/ /\ call[p] # "probe" /\ count[p] > 0
          /\ GateGoto(p, "scan")
          /\ probing' = [probing EXCEPT ![p] = TRUE]
          /\ UNCHANGED <<call, count, at, listed>>
    /\ UNCHANGED <<repo, slot, meta, calls, gateKills>>

\* acquireBuildLock waits, tryAcquireBuildLock does not.  Without a limit the
\* pool lets the build through.
TakeLock(p) ==
    /\ gpc[p] = "lock"
    /\ buildLock[repo[p]] = None
    /\ buildLock' = [buildLock EXCEPT ![repo[p]] = p]
    /\ GateGoto(p, IF count[p] = 0 THEN "hold" ELSE "scan")
    /\ UNCHANGED <<frame, repo, slot, meta, calls, gateKills>>

\* ErrBuildInProgress.
RefuseLock(p) ==
    /\ gpc[p] = "lock"
    /\ call[p] # "init"
    /\ buildLock[repo[p]] # None
    /\ GateReturn(p)
    /\ UNCHANGED <<repo, buildLock, slot, meta, calls, gateKills>>

-----------------------------------------------------------------------------
(* TryAcquire: the slots in order, the first free one wins. *)

\* Mutant: the flock of a slot is shared.
TakeSlotShared(p) ==
    /\ gpc[p] = "scan"
    /\ slot' = [slot EXCEPT ![at[p]] = p]
    /\ GateGoto(p, "truncate")
    /\ UNCHANGED <<frame, repo, buildLock, meta, calls, gateKills>>

TakeSlot(p) ==
    /\ gpc[p] = "scan"
    /\ slot[at[p]] = None
    /\ slot' = [slot EXCEPT ![at[p]] = p]
    /\ GateGoto(p, "truncate")
    /\ UNCHANGED <<frame, repo, buildLock, meta, calls, gateKills>>

\* Mutant: ErrFull returns without the deferred unlock of the build lock.
PassSlotKeepsLock(p) ==
    /\ gpc[p] = "scan"
    /\ slot[at[p]] # None
    /\ at[p] = count[p]
    /\ GateReturn(p)
    /\ UNCHANGED <<repo, buildLock, slot, meta, calls, gateKills>>

\* tryLockSlot fails: the next slot, or ErrFull.  Full then says full, the
\* waiting Acquire sleeps, and PublishNonBlocking gives up.
PassSlot(p) ==
    /\ gpc[p] = "scan"
    /\ slot[at[p]] # None
    /\ \/ /\ at[p] < count[p]
          /\ at' = [at EXCEPT ![p] = @ + 1]
          /\ UNCHANGED <<gpc, call, count, probing, listed>>
       \/ /\ at[p] = count[p]
          /\ probing[p]
          /\ GateReturn(p)
       \/ /\ at[p] = count[p]
          /\ ~probing[p]
          /\ GateGoto(p, IF call[p] = "init" THEN "sleep" ELSE "unlock")
          /\ at' = [at EXCEPT ![p] = 1]
          /\ UNCHANGED <<call, count, probing, listed>>
    /\ UNCHANGED <<repo, buildLock, slot, meta, calls, gateKills>>

\* Acquire tries again after 100 ms.
Retry(p) ==
    /\ gpc[p] = "sleep"
    /\ GateGoto(p, "scan")
    /\ UNCHANGED <<frame, repo, buildLock, slot, meta, calls, gateKills>>

\* writeMeta is os.WriteFile: the file is truncated, then written.
TruncateMeta(p) ==
    /\ gpc[p] = "truncate"
    /\ meta' = [meta EXCEPT ![at[p]] = [pid |-> None]]
    /\ GateGoto(p, "fill")
    /\ UNCHANGED <<frame, repo, buildLock, slot, calls, gateKills>>

\* Full gives the slot back at once.
FillMeta(p) ==
    /\ gpc[p] = "fill"
    /\ meta' = [meta EXCEPT ![at[p]] = [pid |-> p]]
    /\ GateGoto(p, IF probing[p] THEN "clear" ELSE "hold")
    /\ UNCHANGED <<frame, repo, buildLock, slot, calls, gateKills>>

\* The build ends, well or badly; its deferred calls run, the slot's first.
EndBuild(p) ==
    /\ gpc[p] = "hold"
    /\ GateGoto(p, IF count[p] = 0 THEN "unlock" ELSE "clear")
    /\ UNCHANGED <<frame, repo, buildLock, slot, meta, calls,
                   gateKills>>

\* Mutant: unlock does not clear the file.
ClearMetaSkipped(p) ==
    /\ gpc[p] = "clear"
    /\ GateGoto(p, "unslot")
    /\ UNCHANGED <<frame, repo, buildLock, slot, meta, calls, gateKills>>

ClearMeta(p) ==
    /\ gpc[p] = "clear"
    /\ meta' = [meta EXCEPT ![at[p]] = None]
    /\ GateGoto(p, "unslot")
    /\ UNCHANGED <<frame, repo, buildLock, slot, calls, gateKills>>

\* Full is false: the tick goes on to its build call.
FreeSlot(p) ==
    /\ gpc[p] = "unslot"
    /\ slot' = [slot EXCEPT ![at[p]] = None]
    /\ GateGoto(p, IF probing[p] THEN "lock" ELSE "unlock")
    /\ probing' = [probing EXCEPT ![p] = FALSE]
    /\ at' = [at EXCEPT ![p] = 1]
    /\ UNCHANGED <<call, count, listed, repo, buildLock, meta,
                   calls, gateKills>>

FreeLock(p) ==
    /\ gpc[p] = "unlock"
    /\ buildLock' = [buildLock EXCEPT ![repo[p]] = None]
    /\ GateReturn(p)
    /\ UNCHANGED <<repo, slot, meta, calls, gateKills>>

-----------------------------------------------------------------------------
(* List, for so graph builds status. *)

ListEnd(p) ==
    /\ gpc[p] = "list"
    /\ at[p] > count[p]
    /\ GateReturn(p)
    /\ UNCHANGED <<repo, buildLock, slot, meta, calls, gateKills>>

\* A slot whose flock can be had is not occupied; it is had for a moment.
ListTake(p) ==
    /\ gpc[p] = "list"
    /\ at[p] =< count[p]
    /\ slot[at[p]] = None
    /\ slot' = [slot EXCEPT ![at[p]] = p]
    /\ GateGoto(p, "listDrop")
    /\ UNCHANGED <<frame, repo, buildLock, meta, calls, gateKills>>

ListDrop(p) ==
    /\ gpc[p] = "listDrop"
    /\ slot' = [slot EXCEPT ![at[p]] = None]
    /\ at' = [at EXCEPT ![p] = @ + 1]
    /\ GateGoto(p, "list")
    /\ UNCHANGED <<call, count, probing, listed, repo, buildLock, meta,
                   calls, gateKills>>

ListHeld(p) ==
    /\ gpc[p] = "list"
    /\ at[p] =< count[p]
    /\ slot[at[p]] # None
    /\ GateGoto(p, "listRead")
    /\ UNCHANGED <<frame, repo, buildLock, slot, meta, calls,
                   gateKills>>

\* Mutant: List does not ask whether the process lives.
ListReadDead(p) ==
    /\ gpc[p] = "listRead"
    /\ listed' = [listed EXCEPT ![p] = @ \cup
          {[slot |-> at[p], by |-> slot[at[p]],
            pid |-> IF meta[at[p]] = None THEN None ELSE meta[at[p]].pid]}]
    /\ at' = [at EXCEPT ![p] = @ + 1]
    /\ GateGoto(p, "list")
    /\ UNCHANGED <<call, count, probing, repo, buildLock, slot, meta,
                   calls, gateKills>>

\* readMeta: the slot of a process that is gone is left out; a missing or an
\* unfinished .meta file makes an entry without a process.
ListRead(p) ==
    /\ gpc[p] = "listRead"
    /\ LET m == meta[at[p]]
           pid == IF m = None THEN None ELSE m.pid
       IN listed' = [listed EXCEPT ![p] =
             IF pid = Dead THEN @
             ELSE @ \cup {[slot |-> at[p], pid |-> pid, by |-> slot[at[p]]]}]
    /\ at' = [at EXCEPT ![p] = @ + 1]
    /\ GateGoto(p, "list")
    /\ UNCHANGED <<call, count, probing, repo, buildLock, slot, meta,
                   calls, gateKills>>

-----------------------------------------------------------------------------

\* A kill releases the flocks and leaves the .meta files.
KillCall(p) ==
    /\ gpc[p] # "idle"
    /\ gateKills < GateKills
    /\ gateKills' = gateKills + 1
    /\ buildLock' = [r \in Repos |-> IF buildLock[r] = p THEN None ELSE buildLock[r]]
    /\ slot' = [i \in Slots |-> IF slot[i] = p THEN None ELSE slot[i]]
    /\ meta' = [i \in Slots |-> IF meta[i] = [pid |-> p] THEN [pid |-> Dead]
                                                         ELSE meta[i]]
    /\ GateReturn(p)
    /\ UNCHANGED <<repo, calls>>

GateStep(p) ==
    \/ FindBusy(p) \/ FindFree(p) \/ DropLock(p) \/ TakeLock(p) \/ RefuseLock(p)
    \/ TakeSlot(p) \/ PassSlot(p) \/ Retry(p) \/ TruncateMeta(p) \/ FillMeta(p)
    \/ EndBuild(p) \/ ClearMeta(p) \/ FreeSlot(p) \/ FreeLock(p)
    \/ ListEnd(p) \/ ListTake(p) \/ ListDrop(p) \/ ListHeld(p) \/ ListRead(p)

GateNext == \E p \in GateProcs : StartCall(p) \/ GateStep(p) \/ KillCall(p)

\* A process that is in a call goes on with it; nobody has to start one.
GateFairness == \A p \in GateProcs : WF_gateVars(GateStep(p))
GateSpec == GateInit /\ [][GateNext]_gateVars

-----------------------------------------------------------------------------
(* Properties. *)

GateTypeOK ==
    /\ gpc \in [GateProcs -> GateSteps]
    /\ call \in [GateProcs -> Calls]
    /\ probing \in [GateProcs -> BOOLEAN]
    /\ repo \in [GateProcs -> Repos]
    /\ count \in [GateProcs -> SlotCounts \cup {0}]
    /\ at \in [GateProcs -> Nat \ {0}]
    /\ buildLock \in [Repos -> GateProcs \cup {None}]
    /\ slot \in [Slots -> GateProcs \cup {None}]
    /\ meta \in [Slots -> Meta \cup {None}]
    /\ listed \in [GateProcs -> SUBSET Entry]
    /\ calls \in 0..MaxCalls
    /\ gateKills \in 0..GateKills

\* What so graph builds status shows of a slot with a process is that the
\* process held that slot when the file was read: List may miss a build whose
\* predecessor was killed, but never shows one that is over, or under the slot
\* of another (TryAcquire's unlock clears the .meta file before the flock).
ListedHeld ==
    \A p \in GateProcs : \A e \in listed[p] : e.pid # None => e.by = e.pid

\* The two gates keep the promise of BuildSemaphore: no two builds of one
\* repository, and no more than n builds in processes that run with at most n
\* slots, whatever probes, kills and differing limits there are.
Semaphore == INSTANCE BuildSemaphore WITH
    building <- [p \in GateProcs |-> IF gpc[p] = "hold"
                                     THEN [repo |-> repo[p], slots |-> count[p]]
                                     ELSE None]
ImplementsSemaphore == Semaphore!SemaphoreSpec

\* Every call ends: so init waits for the lock and polls for a slot, and no
\* return path and no kill of another process leaves either taken for good.
CallsEnd == \A p \in GateProcs : gpc[p] # "idle" ~> gpc[p] = "idle"
=============================================================================
