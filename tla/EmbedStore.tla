------------------------------ MODULE EmbedStore ------------------------------
(***************************************************************************)
(* The embeddings of the memory store (internal/memory: store.go, embed.go,*)
(* sleep.go).  A store is of one generation of embeddings, hash or bge,    *)
(* and search sees the vectors of the generation of its process only.  The *)
(* first process with a worker turns a hash store into a bge store: it     *)
(* discards the vectors and leaves every episode to the next sleep.  Each  *)
(* statement is a transaction of its own, and any process may have the     *)
(* store open in between.                                                  *)
(***************************************************************************)
EXTENDS Integers, FiniteSets, Absent

CONSTANTS Users,       \* processes that open the store
          Episodes,    \* texts that may be remembered
          MaxOpens,    \* bound: stores opened
          MaxWrites,   \* bound: captures, sleeps, fades and rescues
          StoreKills   \* bound: processes killed, or statements that fail

ASSUME StoreAssumption == None \notin Users \cup Episodes \cup {"hash", "bge"}

VARIABLES
    upc,       \* the step each process is at
    worker,    \* it has found the embedding worker
    gen,       \* activeEmbedderID of the process
    batch,      \* the episodes its sleep still has to embed
    text,      \* the episode it writes
    stamp,     \* the embedder of memory_meta, or None
    life,      \* absent, live, fading or faded: the row of each episode
    pending,   \* embedding_pending
    vector,    \* the generation of the vector of each episode, or None
    strayed,   \* history: episodes that the upgrade or the sleeps may not reach
    opens, writes, storeKills

\* An episode strays when its vector was written by a process of the hash after
\* an upgrade or during one; when an upgrade came between two statements of its
\* write, or found it faded; when a write, or an upgrade, stopped between two
\* statements; or when a process stamped the store although another had done so.
userState == <<upc, worker, gen, batch, text>>
rowState == <<life, pending, vector>>
storeVars == <<userState, stamp, rowState, strayed, opens, writes, storeKills>>

Generations == {"hash", "bge"}
Rows == {e \in Episodes : life[e] # "absent"}
Unfaded == {e \in Rows : life[e] # "faded"}
\* Rows that a process is between two statements about.
InHand == {text[u] : u \in Users}
Upgrading == {u \in Users : upc[u] \in {"wipe", "mark", "upgraded"}}

\* A new store, or one of either generation whose episodes have their vectors.
StoreInit ==
    /\ upc = [u \in Users |-> "idle"]
    /\ worker = [u \in Users |-> FALSE] /\ gen = [u \in Users |-> "hash"]
    /\ batch = [u \in Users |-> {}] /\ text = [u \in Users |-> None]
    /\ stamp \in Generations \cup {None}
    /\ life \in [Episodes -> {"absent", "live", "faded"}]
    /\ stamp = None => Rows = {}
    /\ pending = {} /\ vector = [e \in Episodes |-> IF e \in Rows THEN stamp ELSE None]
    /\ strayed = {}
    /\ opens = 0 /\ writes = 0 /\ storeKills = 0

StoreGoto(u, step) == upc' = [upc EXCEPT ![u] = step]
CountsWrite ==
    /\ writes < MaxWrites /\ writes' = writes + 1
    /\ UNCHANGED <<opens, storeKills>>
storeCounts == <<opens, writes, storeKills>>

-----------------------------------------------------------------------------
(* Opening the store. *)

\* EnsureEmbedWorker, once in a process: no worker; a worker; or a worker that
\* answered the first health request and not the second, which names its model.
StartUser(u) ==
    /\ upc[u] = "idle"
    /\ opens < MaxOpens /\ opens' = opens + 1
    /\ \E found \in BOOLEAN, named \in BOOLEAN :
          /\ named => found
          /\ worker' = [worker EXCEPT ![u] = found]
          /\ gen' = [gen EXCEPT ![u] = IF named THEN "bge" ELSE "hash"]
    /\ StoreGoto(u, "read")
    /\ UNCHANGED <<batch, text, stamp, rowState, strayed, writes, storeKills>>

\* The process opens it again.
Reopen(u) ==
    /\ upc[u] = "open"
    /\ opens < MaxOpens /\ opens' = opens + 1
    /\ StoreGoto(u, "read")
    /\ UNCHANGED <<worker, gen, batch, text, stamp, rowState, strayed, writes, storeKills>>

\* Mutant: the process that upgrades a store stamps it and no more.
EnsureEmbedderStamps(u) ==
    /\ upc[u] = "read"
    /\ StoreGoto(u, IF stamp = None THEN "stamp"
                    ELSE IF stamp = gen[u] THEN "open"
                    ELSE IF stamp = "hash" THEN "upgraded"
                    ELSE "idle")
    /\ UNCHANGED <<worker, gen, batch, text, stamp, rowState, strayed, storeCounts>>

\* ensureEmbedder: the first, one of the generation, one that upgrades, or refused.
EnsureEmbedder(u) ==
    /\ upc[u] = "read"
    /\ StoreGoto(u, IF stamp = None THEN "stamp"
                    ELSE IF stamp = gen[u] THEN "open"
                    ELSE IF stamp = "hash" THEN "wipe"
                    ELSE "idle")
    /\ UNCHANGED <<worker, gen, batch, text, stamp, rowState, strayed, storeCounts>>

\* The read fails, and the store is taken for a new one.
MisreadStamp(u) ==
    /\ upc[u] = "read"
    /\ storeKills < StoreKills /\ storeKills' = storeKills + 1
    /\ StoreGoto(u, "stamp")
    /\ UNCHANGED <<worker, gen, batch, text, stamp, rowState, strayed, opens, writes>>

\* upgradeHashStore: DELETE FROM memory_vectors.
Wipe(u) ==
    /\ upc[u] = "wipe"
    /\ vector' = [e \in Episodes |-> None]
    /\ StoreGoto(u, "mark")
    /\ UNCHANGED <<worker, gen, batch, text, stamp, life, pending, strayed, storeCounts>>

\* UPDATE memory_episodes SET embedding_pending=1 WHERE faded=0.
Mark(u) ==
    /\ upc[u] = "mark"
    /\ pending' = pending \cup Unfaded
    /\ strayed' = strayed \cup (Rows \ Unfaded) \cup (InHand \ {None})
    /\ StoreGoto(u, "upgraded")
    /\ UNCHANGED <<worker, gen, batch, text, stamp, life, vector, storeCounts>>

Stamp(u) ==
    /\ upc[u] \in {"stamp", "upgraded"}
    /\ stamp' = gen[u]
    /\ strayed' = IF upc[u] = "stamp" /\ stamp \notin {None, gen[u]}
                  THEN strayed \cup Rows ELSE strayed
    /\ StoreGoto(u, "open")
    /\ UNCHANGED <<worker, gen, batch, text, rowState, storeCounts>>

-----------------------------------------------------------------------------
(* Writing. *)

\* EmbedText: what it answers, and the generation the process is of afterwards;
\* None is the zero vector of a worker that does not answer.
Embeddings(u) == IF worker[u] THEN {"bge", None} ELSE {"hash"}
GenAfter(u, v) == IF v = "bge" THEN "bge" ELSE gen[u]

\* storeEpisode: the text is embedded before the row is inserted; an episode that is
\* there is left alone when its hash was found, and brought back when it was forgotten.
Capture(u, e, v) ==
    /\ upc[u] = "open" /\ CountsWrite
    /\ v \in Embeddings(u)
    /\ gen' = [gen EXCEPT ![u] = GenAfter(u, v)]
    /\ text' = [text EXCEPT ![u] = e]
    /\ StoreGoto(u, IF v = None THEN "insertZero" ELSE "insert")
    /\ UNCHANGED <<worker, batch, stamp, rowState, strayed>>

\* upsertEpisode: a new row is pending unless its vector follows; the vector of the
\* same span is written over the one that is there.
Insert(u) ==
    /\ upc[u] \in {"insert", "insertZero"}
    /\ LET e == text[u] IN
          /\ life' = [life EXCEPT ![e] = IF @ = "absent" THEN "live" ELSE @]
          /\ pending' = IF life[e] = "absent" /\ upc[u] = "insertZero"
                        THEN pending \cup {e} ELSE pending
          /\ StoreGoto(u, IF upc[u] = "insert" THEN "vector" ELSE "open")
          /\ text' = [text EXCEPT ![u] = IF upc[u] = "insert" THEN e ELSE None]
    /\ UNCHANGED <<worker, gen, batch, stamp, vector, strayed, storeCounts>>

\* A capture of a text that is there, under another uid: Rescue when it is faded.
FindByHash(u) ==
    /\ upc[u] \in {"insert", "insertZero"} /\ text[u] \in Rows
    /\ life' = [life EXCEPT ![text[u]] = IF @ = "faded" THEN "live" ELSE @]
    /\ text' = [text EXCEPT ![u] = None]
    /\ StoreGoto(u, "open")
    /\ UNCHANGED <<worker, gen, batch, stamp, pending, vector, strayed, storeCounts>>

Strays(u) == gen[u] = "hash" /\ (stamp = "bge" \/ Upgrading # {})

WriteVector(u) ==
    /\ upc[u] = "vector"
    /\ vector' = [vector EXCEPT ![text[u]] = gen[u]]
    /\ strayed' = IF Strays(u) THEN strayed \cup {text[u]} ELSE strayed \ {text[u]}
    /\ StoreGoto(u, "done")
    /\ UNCHANGED <<worker, gen, batch, text, stamp, life, pending, storeCounts>>

ClearPending(u) ==
    /\ upc[u] = "done"
    /\ pending' = pending \ {text[u]}
    /\ text' = [text EXCEPT ![u] = None]
    /\ StoreGoto(u, IF batch[u] = {} THEN "open" ELSE "flush")
    /\ UNCHANGED <<worker, gen, batch, stamp, life, vector, strayed, storeCounts>>

\* Sleep: what fades is faded (eraseHinted) ...
Sleep(u) ==
    /\ upc[u] = "open" /\ CountsWrite
    /\ life' = [e \in Episodes |-> IF life[e] = "fading" THEN "faded" ELSE life[e]]
    /\ StoreGoto(u, "select")
    /\ UNCHANGED <<worker, gen, batch, text, stamp, pending, vector, strayed>>

\* ... and what is pending is embedded, one by one (flushPendingEmbeddings).
SelectPending(u) ==
    /\ upc[u] = "select"
    /\ batch' = [batch EXCEPT ![u] = pending \cap Unfaded]
    /\ StoreGoto(u, IF batch'[u] = {} THEN "open" ELSE "flush")
    /\ UNCHANGED <<worker, gen, text, stamp, rowState, strayed, storeCounts>>

Flush(u, v) ==
    /\ upc[u] = "flush"
    /\ v \in Embeddings(u)
    /\ gen' = [gen EXCEPT ![u] = GenAfter(u, v)]
    /\ \E e \in batch[u] :
          /\ batch' = [batch EXCEPT ![u] = @ \ {e}]
          /\ IF v = None
             THEN /\ StoreGoto(u, IF batch[u] = {e} THEN "open" ELSE "flush")
                  /\ UNCHANGED text
             ELSE StoreGoto(u, "vector") /\ text' = [text EXCEPT ![u] = e]
    /\ UNCHANGED <<worker, stamp, rowState, strayed, storeCounts>>

\* Fade, and Rescue or Pin: one statement each.
Hint(u, e) ==
    /\ upc[u] = "open" /\ CountsWrite
    /\ e \in Rows
    /\ \E to \in {"fading", "live"} : life' = [life EXCEPT ![e] = to]
    /\ UNCHANGED <<userState, stamp, pending, vector, strayed>>

Leave(u) ==
    /\ StoreGoto(u, "idle")
    /\ worker' = [worker EXCEPT ![u] = FALSE] /\ gen' = [gen EXCEPT ![u] = "hash"]
    /\ batch' = [batch EXCEPT ![u] = {}] /\ text' = [text EXCEPT ![u] = None]

End(u) ==
    /\ upc[u] = "open"
    /\ Leave(u)
    /\ UNCHANGED <<stamp, rowState, strayed, storeCounts>>

\* It is killed, or a statement fails and it gives up.
KillUser(u) ==
    /\ upc[u] \notin {"idle", "open"}
    /\ storeKills < StoreKills /\ storeKills' = storeKills + 1
    /\ Leave(u)
    /\ strayed' = strayed \cup (IF upc[u] = "mark" THEN Rows ELSE {})
                          \cup (IF upc[u] = "vector" THEN {text[u]} ELSE {})
    /\ UNCHANGED <<stamp, rowState, opens, writes>>

StoreNext ==
    \E u \in Users :
        \/ StartUser(u) \/ Reopen(u) \/ EnsureEmbedder(u) \/ Wipe(u) \/ Mark(u) \/ Stamp(u)
        \/ Insert(u) \/ FindByHash(u) \/ WriteVector(u) \/ ClearPending(u) \/ Sleep(u)
        \/ SelectPending(u) \/ MisreadStamp(u) \/ End(u) \/ KillUser(u)
        \/ \E e \in Episodes : Hint(u, e)
        \/ \E v \in Generations \cup {None} : Flush(u, v) \/ \E e \in Episodes : Capture(u, e, v)

StoreSpec == StoreInit /\ [][StoreNext]_storeVars

-----------------------------------------------------------------------------
(* Properties. *)

StoreTypeOK ==
    /\ upc \in [Users -> {"idle", "read", "stamp", "wipe", "mark", "upgraded", "open",
                          "insert", "insertZero", "vector", "done", "select", "flush"}]
    /\ worker \in [Users -> BOOLEAN] /\ gen \in [Users -> Generations]
    /\ batch \in [Users -> SUBSET Episodes] /\ text \in [Users -> Episodes \cup {None}]
    /\ stamp \in Generations \cup {None}
    /\ life \in [Episodes -> {"absent", "live", "fading", "faded"}]
    /\ pending \subseteq Rows
    /\ vector \in [Episodes -> Generations \cup {None}]
    /\ strayed \subseteq Episodes

\* In a bge store an episode that no process is writing is pending or has a bge
\* vector, so that the search finds it or the next sleep embeds it, whichever
\* processes upgraded the store, captured and slept at the same time, unless it
\* strayed.
EmbeddedFound ==
    (stamp = "bge" /\ \A u \in Users : upc[u] # "mark") =>
        \A e \in Unfaded \ (pending \cup InHand \cup strayed) : vector[e] = "bge"
=============================================================================
