------------------------------- MODULE MCGates -------------------------------
(***************************************************************************)
(* An instance for TLC of the five components that processes meet at and   *)
(* that share no file with one another: the gates of a build (BuildGate),  *)
(* the seeding of a worktree (WorktreeSeed), the state file of the hooks   *)
(* (HookState), the model of the embedding worker (ModelFetch) and the     *)
(* embeddings of the memory store (EmbedStore).  A behaviour is a          *)
(* behaviour of one of them, and the others rest: part says which moves.   *)
(***************************************************************************)
EXTENDS BuildGate, WorktreeSeed, HookState, ModelFetch, EmbedStore

CONSTANTS p1, p2, p3, r1, r2, w1, d1, d2

VARIABLE part
gatesVars == <<part, gateVars, seedVars, hookVars, fetchVars, storeVars>>

\* Two processes of one repository, or of two.
TwoHomes == {[p \in GateProcs |-> r1],
             [p \in GateProcs |-> IF p = p1 THEN r1 ELSE r2]}

GatesInit ==
    /\ part \in {"gate", "seed", "hook", "fetch", "store"}
    /\ GateInit /\ SeedInit /\ HookInit /\ FetchInit /\ StoreInit
    /\ part # "gate" => \A p \in GateProcs : repo[p] = r1
    /\ part # "seed" => dest = "none"
    /\ part # "fetch" => model = None
    /\ part # "store" => stamp = None

GatesNext ==
    /\ UNCHANGED part
    /\ \/ part = "gate" /\ GateNext /\ UNCHANGED <<seedVars, hookVars, fetchVars, storeVars>>
       \/ part = "seed" /\ SeedNext /\ UNCHANGED <<gateVars, hookVars, fetchVars, storeVars>>
       \/ part = "hook" /\ HookNext /\ UNCHANGED <<gateVars, seedVars, fetchVars, storeVars>>
       \/ part = "fetch" /\ FetchNext /\ UNCHANGED <<gateVars, seedVars, hookVars, storeVars>>
       \/ part = "store" /\ StoreNext /\ UNCHANGED <<gateVars, seedVars, hookVars, fetchVars>>

GatesSpec == GatesInit /\ [][GatesNext]_gatesVars /\ GateFairness

\* The state of each of the five is of its type.
GatesTypeOK == GateTypeOK /\ SeedTypeOK /\ HookTypeOK /\ FetchTypeOK /\ StoreTypeOK
=============================================================================
