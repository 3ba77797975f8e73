------------------------------ MODULE ModelFetch ------------------------------
(***************************************************************************)
(* The download of a pinned model file (internal/memory/embedworker.go:    *)
(* ensurePinnedFile, downloadFile).  Every process that finds no embedding *)
(* worker, so install and the worker itself fetch the model into the same  *)
(* directory of the user, under the same temporary name, without a lock.   *)
(*                                                                         *)
(* A file is an inode: the rename moves the name, and a process goes on    *)
(* writing to the file that it opened.                                     *)
(***************************************************************************)
EXTENDS Integers, FiniteSets, Absent

CONSTANTS Fetchers,    \* processes that call FetchModels
          ModelLen,    \* bound: pieces of the file that are written one by one
          MaxFetches,  \* bound: downloads
          MaxInodes,   \* bound: temporary files created
          FetchKills   \* bound: processes killed

ASSUME FetchAssumption ==
    /\ ModelLen \in Nat \ {0} /\ MaxInodes \in Nat \ {0}
    /\ None \notin Fetchers \cup Nat

VARIABLES
    fpc,      \* the step each process is at
    fd,       \* the file it has open
    sent,     \* pieces that it has been sent
    sound,    \* they are those of the pinned file
    data,     \* pieces of the pinned file that each file holds
    tmp,      \* the file named <dest>.tmp
    model,    \* the file named dest
    inodes,   \* files created
    met,      \* history: downloads that met another
    doubt,    \* history: one of them may have left its mark on dest
    fetches, fetchKills

fetchLocal == <<fpc, fd, sent, sound>>
fetchFiles == <<data, tmp, model, inodes>>
fetchVars == <<fetchLocal, fetchFiles, met, doubt, fetches, fetchKills>>

Pieces == 1..ModelLen
Inodes == 1..MaxInodes
Busy(p) == fpc[p] # "idle"
Meets(p) == {q \in Fetchers \ {p} : fpc[q] \in {"copy", "close"}}

\* The directory may hold a file of another release.
FetchInit ==
    /\ fpc = [p \in Fetchers |-> "idle"]
    /\ fd = [p \in Fetchers |-> None]
    /\ sent = [p \in Fetchers |-> 0]
    /\ sound = [p \in Fetchers |-> TRUE]
    /\ data = [i \in Inodes |-> {}]
    /\ tmp = None
    /\ \/ model = None /\ inodes = 0 /\ doubt = FALSE
       \/ model = 1 /\ inodes = 1 /\ doubt = TRUE
    /\ met = {}
    /\ fetches = 0 /\ fetchKills = 0

FetchGoto(p, step) == fpc' = [fpc EXCEPT ![p] = step]

\* It returns, with an error or without.
FetchLeave(p) ==
    /\ FetchGoto(p, "idle")
    /\ fd' = [fd EXCEPT ![p] = None]
    /\ sent' = [sent EXCEPT ![p] = 0]
    /\ sound' = [sound EXCEPT ![p] = TRUE]

Whole(i) == i # None /\ data[i] = Pieces

-----------------------------------------------------------------------------
\* fileSHA256: what is there and whole is not fetched again.
EnsurePinned(p) ==
    /\ fpc[p] = "idle"
    /\ fetches < MaxFetches /\ ~Whole(model)
    /\ fetches' = fetches + 1
    /\ FetchGoto(p, "open")
    /\ UNCHANGED <<fd, sent, sound, fetchFiles, met, doubt, fetchKills>>

\* O_CREATE and O_TRUNC, after the request was answered.
OpenTmp(p) ==
    /\ fpc[p] = "open"
    /\ IF tmp = None
       THEN /\ inodes < MaxInodes
            /\ inodes' = inodes + 1 /\ tmp' = inodes + 1
       ELSE UNCHANGED <<inodes, tmp>>
    /\ data' = [data EXCEPT ![tmp'] = {}]
    /\ fd' = [fd EXCEPT ![p] = tmp']
    /\ FetchGoto(p, "copy")
    /\ met' = IF Meets(p) = {} THEN met \ {p} ELSE met \cup {p} \cup Meets(p)
    /\ doubt' = (doubt \/ Meets(p) # {})
    /\ UNCHANGED <<sent, sound, model, fetches, fetchKills>>

\* No answer, or one that is not 200.
NoAnswer(p) ==
    /\ fpc[p] = "open"
    /\ FetchLeave(p)
    /\ UNCHANGED <<fetchFiles, met, doubt, fetches, fetchKills>>

\* io.Copy writes where it is in its own file; what it is sent may be another file.
CopyPiece(p, good) ==
    /\ fpc[p] = "copy" /\ sent[p] < ModelLen
    /\ LET i == sent[p] + 1 IN
          /\ sent' = [sent EXCEPT ![p] = i]
          /\ data' = [data EXCEPT ![fd[p]] = IF good THEN @ \cup {i} ELSE @ \ {i}]
    /\ sound' = [sound EXCEPT ![p] = @ /\ good]
    /\ UNCHANGED <<fpc, fd, tmp, model, inodes, met, doubt, fetches, fetchKills>>

EndCopy(p) ==
    /\ fpc[p] = "copy" /\ sent[p] = ModelLen
    /\ FetchGoto(p, "close")
    /\ UNCHANGED <<fd, sent, sound, fetchFiles, met, doubt, fetches, fetchKills>>

\* The connection breaks, or the sum is not the pinned one: the name is removed.
DropTmp(p) ==
    /\ \/ fpc[p] = "copy"
       \/ fpc[p] = "close" /\ ~sound[p]
    /\ tmp' = None
    /\ FetchLeave(p)
    /\ UNCHANGED <<data, model, inodes, met, doubt, fetches, fetchKills>>

\* Mutant: the sum is not compared.
SumIsRightUnchecked(p) == TRUE

\* The sum is that of what was sent.
SumIsRight(p) == sound[p]

\* The rename fails when the name is gone.
RenameTmp(p) ==
    /\ fpc[p] = "close" /\ SumIsRight(p)
    /\ IF tmp = None
       THEN UNCHANGED <<tmp, model>>
       ELSE model' = tmp /\ tmp' = None
    /\ doubt' = (doubt /\ (p \in met \/ tmp = None \/ Meets(p) # {}))
    /\ FetchLeave(p)
    /\ UNCHANGED <<data, inodes, met, fetches, fetchKills>>

KillFetcher(p) ==
    /\ Busy(p)
    /\ fetchKills < FetchKills
    /\ fetchKills' = fetchKills + 1
    /\ FetchLeave(p)
    /\ UNCHANGED <<fetchFiles, met, doubt, fetches>>

FetchNext ==
    \E p \in Fetchers :
        \/ EnsurePinned(p) \/ OpenTmp(p) \/ NoAnswer(p) \/ EndCopy(p) \/ DropTmp(p)
        \/ RenameTmp(p) \/ KillFetcher(p)
        \/ \E good \in BOOLEAN : CopyPiece(p, good)

FetchSpec == FetchInit /\ [][FetchNext]_fetchVars

-----------------------------------------------------------------------------
(* Properties. *)

FetchTypeOK ==
    /\ fpc \in [Fetchers -> {"idle", "open", "copy", "close"}]
    /\ fd \in [Fetchers -> Inodes \cup {None}]
    /\ sent \in [Fetchers -> 0..ModelLen] /\ sound \in [Fetchers -> BOOLEAN]
    /\ data \in [Inodes -> SUBSET Pieces]
    /\ {tmp, model} \subseteq Inodes \cup {None} /\ inodes \in 0..MaxInodes
    /\ met \subseteq Fetchers /\ doubt \in BOOLEAN

\* A file under the name of the model is the pinned one, whoever was killed while
\* it fetched it and whatever it was sent, unless two downloads met: they write
\* to one file and either may rename it.  A later download that meets no other
\* makes it good again.
ModelWhole == ~doubt /\ model # None => Whole(model)
=============================================================================
