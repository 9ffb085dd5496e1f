------------------------------- MODULE Downloader ------------------------------
(***************************************************************************)
(* MbDownloader::download_latest (src/musicbrainz/downloader.rs) for one   *)
(* version of the dump: run after run, with the process killed or the      *)
(* power lost at any moment, against a server that may fail in every way.  *)
(*                                                                         *)
(* A version is a directory, and a later version another one.  An entity   *)
(* is its place in MB_ENTITIES.  What a GET waits for and retries by       *)
(* itself is in PoliteHttp.tla: here it answers or fails.                  *)
(***************************************************************************)
EXTENDS Naturals

CONSTANTS EntityCount,     \* length of MB_ENTITIES
          MaxAttempts      \* MB_MAX_DOWNLOAD_RETRIES

ASSUME DownloaderAssumption == {EntityCount, MaxAttempts} \subseteq Nat \ {0}

VARIABLES
  pc,         \* the next step of the run, "idle" when there is none
  listed,     \* the entities that SHA256SUMS has a line for
  entity,     \* the entity under way
  attempt,    \* the attempt at it
  body,       \* what the server sends: "genuine" bytes have the listed digest
  dirs,       \* per entity: its final path and its .tmp sibling
  removals,   \* whether every removal of a .tmp of this run has worked
  result      \* what the last run of this process returned

progress == <<listed, entity, attempt, body>>
vars     == <<pc, progress, dirs, removals, result>>

INSTANCE FileSystem WITH Contents <- {"whole", "bad"}

Entities == 1 .. EntityCount

TypeOK ==
  /\ pc \in {"idle", "index", "sums", "entity", "get", "open", "write", "sync",
             "verify", "rename", "syncDir"}
  /\ listed \in SUBSET Entities
  /\ entity \in 1 .. EntityCount + 1
  /\ attempt \in 1 .. MaxAttempts
  /\ body \in {"none", "genuine", "corrupt"}
  /\ dirs \in [Entities -> Dir]
  /\ removals \in BOOLEAN
  /\ result \in {"none", "current", "downloaded", "error", "exhausted"}

Init ==
  /\ pc = "idle"
  /\ listed = {} /\ entity = 1 /\ attempt = 1 /\ body = "none"
  /\ dirs = [e \in Entities |-> EmptyDir]
  /\ removals = TRUE
  /\ result = "none"

--------------------------------------------------------------------------------
(***************************************************************************)
(* A run, up to the download of an entity                                  *)
(***************************************************************************)

\* entity_is_complete: the final file exists.
IsComplete(e) == dirs[e].final # NoFile

Start ==
  /\ pc = "idle"
  /\ pc' = "index"
  /\ removals' = TRUE /\ result' = "none"
  /\ UNCHANGED <<progress, dirs>>

\* The locals of the run are dropped, here as values that no later step reads.
Return(value) ==
  /\ pc' = "idle"
  /\ result' = value
  /\ listed' = {} /\ entity' = 1 /\ attempt' = 1 /\ body' = "none"

\* The index names this version as the latest one.
FetchIndex ==
  /\ pc = "index"
  /\ IF \A e \in Entities : IsComplete(e)
       THEN Return("current")
       ELSE pc' = "sums" /\ UNCHANGED <<progress, result>>
  /\ UNCHANGED <<dirs, removals>>

\* The version directory is made once the checksums are there.
FetchSums ==
  /\ pc = "sums"
  /\ listed' \in SUBSET Entities
  /\ entity' = 1
  /\ pc' = "entity"
  /\ UNCHANGED <<attempt, body, dirs, removals, result>>

\* The index or the checksums do not come, are empty, or the directory cannot
\* be made.
PreludeFails ==
  /\ pc \in {"index", "sums"}
  /\ Return("error")
  /\ UNCHANGED <<dirs, removals>>

\* Mutant: a file that was begun counts as one that is there.
SkipBegun ==
  /\ pc = "entity" /\ entity \in Entities
  /\ IsComplete(entity) \/ dirs[entity].tmp # NoFile
  /\ entity' = entity + 1
  /\ UNCHANGED <<pc, listed, attempt, body, dirs, removals, result>>

SkipComplete ==
  /\ pc = "entity" /\ entity \in Entities
  /\ IsComplete(entity)
  /\ entity' = entity + 1
  /\ UNCHANGED <<pc, listed, attempt, body, dirs, removals, result>>

BeginEntity ==
  /\ pc = "entity" /\ entity \in Entities
  /\ ~IsComplete(entity)
  /\ IF entity \in listed
       THEN pc' = "get" /\ attempt' = 1 /\ UNCHANGED <<listed, entity, body, result>>
       ELSE Return("error")
  /\ UNCHANGED <<dirs, removals>>

AllDone ==
  /\ pc = "entity" /\ entity \notin Entities
  /\ Return("downloaded")
  /\ UNCHANGED <<dirs, removals>>

--------------------------------------------------------------------------------
(***************************************************************************)
(* stream_download_verify_extract                                          *)
(***************************************************************************)

Step(label) == pc' = label /\ UNCHANGED <<progress, removals, result>>

SetDir(d) == dirs' = [dirs EXCEPT ![entity] = d]

\* The .tmp is removed if it exists; that the removal failed is ignored.
RemoveTmp ==
  \/ SetDir(Removed(dirs[entity])) /\ UNCHANGED removals
  \/ /\ dirs[entity].tmp # NoFile
     /\ removals' = FALSE
     /\ UNCHANGED dirs

\* Mutant: an attempt that failed is not counted.
NextAttemptUncounted ==
  /\ pc' = "get"
  /\ UNCHANGED <<progress, result>>

\* The attempt has failed: the next one, or the end of the run.
NextAttempt ==
  IF attempt < MaxAttempts
    THEN /\ pc' = "get" /\ attempt' = attempt + 1 /\ body' = "none"
         /\ UNCHANGED <<listed, entity, result>>
    ELSE Return("exhausted")

\* An attempt but the first clears what the one before has left.
CleanBefore ==
  IF attempt > 1 THEN RemoveTmp ELSE UNCHANGED <<dirs, removals>>

Get ==
  /\ pc = "get"
  /\ CleanBefore
  /\ body' \in {"genuine", "corrupt"}
  /\ pc' = "open"
  /\ UNCHANGED <<listed, entity, attempt, result>>

\* No response, or one whose status is not a success.
GetFails ==
  /\ pc = "get"
  /\ CleanBefore
  /\ NextAttempt

\* mbdump/<entity> is found in the archive, and the .tmp created or truncated.
OpenTmp ==
  /\ pc = "open"
  /\ SetDir(Created(dirs[entity]))
  /\ Step("write")

\* Everything is encoded.  The encoder takes bytes that the server has got wrong
\* as well, unless the decoder of the archive stumbles over them.
WriteTmp ==
  /\ pc = "write"
  /\ SetDir(Written(dirs[entity], IF body = "genuine" THEN "whole" ELSE "bad"))
  /\ Step("sync")

\* Mutant: the file is not synced.
SyncSkipped ==
  /\ pc = "sync"
  /\ Step("verify")
  /\ UNCHANGED dirs

SyncTmp ==
  /\ pc = "sync"
  /\ SetDir(Synced(dirs[entity]))
  /\ Step("verify")

\* Mutant: the rest of the stream is not read into the digest.
VerifyUndrained ==
  /\ pc = "verify"
  /\ Step("rename")
  /\ UNCHANGED dirs

\* The rest of the stream is drained through the digest, and the digest compared.
Verify ==
  /\ pc = "verify"
  /\ body = "genuine"
  /\ Step("rename")
  /\ UNCHANGED dirs

Publish ==
  /\ pc = "rename"
  /\ SetDir(Renamed(dirs[entity]))
  /\ Step("syncDir")

\* The sync of the directory is tried, and its failure ignored.
SyncDir ==
  /\ pc = "syncDir"
  /\ dirs' \in {dirs, [dirs EXCEPT ![entity] = DirSynced(@)]}
  /\ entity' = entity + 1
  /\ pc' = "entity"
  /\ UNCHANGED <<listed, attempt, body, removals, result>>

\* Mutant: what an attempt has written is left to the next one.
AttemptLeavesTmp ==
  /\ pc \in {"open", "write", "sync", "verify", "rename"}
  /\ NextAttempt
  /\ UNCHANGED <<dirs, removals>>

\* The stream breaks or stalls, the archive is malformed or lacks the entity, a
\* write, the sync or the rename fails, or the digest is another one.
AttemptFails ==
  /\ pc \in {"open", "write", "sync", "verify", "rename"}
  /\ RemoveTmp
  /\ NextAttempt

\* The blocking task panics: the run ends at once, with the .tmp in place.
TaskPanics ==
  /\ pc \in {"open", "write", "sync", "verify"}
  /\ Return("error")
  /\ UNCHANGED <<dirs, removals>>

--------------------------------------------------------------------------------
(***************************************************************************)
(* The process and the machine                                             *)
(***************************************************************************)

Gone == Return("none") /\ removals' = TRUE

Kill == Gone /\ UNCHANGED dirs

PowerLoss ==
  /\ Gone
  /\ dirs' \in [Entities -> UNION {AfterPowerLoss(dirs[e]) : e \in Entities}]
  /\ \A e \in Entities : dirs'[e] \in AfterPowerLoss(dirs[e])

RunStep ==
  \/ FetchIndex \/ FetchSums \/ PreludeFails \/ SkipComplete \/ BeginEntity \/ AllDone
  \/ Get \/ GetFails \/ OpenTmp \/ WriteTmp \/ SyncTmp \/ Verify \/ Publish \/ SyncDir
  \/ AttemptFails \/ TaskPanics

Next == Start \/ RunStep \/ Kill \/ PowerLoss

\* A run goes on: a connection or a read that stalls ends in a timeout.
Fairness == WF_vars(RunStep)

Spec == Init /\ [][Next]_vars /\ Fairness

--------------------------------------------------------------------------------
(***************************************************************************)
(* Properties                                                              *)
(***************************************************************************)

\* A file at its final path is the entity, whole and with the listed digest,
\* whatever failed, was killed or lost its power: its existence is all that
\* entity_is_complete and discover_mb_dump_files look at.
FinalIsVerified == \A e \in Entities : dirs[e].final.content \in {None, "whole"}

\* A run that reports success has all entities of the version in place.
VersionIsWhole ==
  result \in {"current", "downloaded"} =>
    \A e \in Entities : dirs[e].final.content = "whole"

\* A run that gives up an entity leaves no .tmp of it, neither its own nor one that
\* a killed run has left before, unless a removal has failed.
NoPartialLeft ==
  [][result' = "exhausted" /\ removals' => dirs'[entity].tmp = NoFile]_vars

\* A run ends, however the server behaves.
DownloadEnds == pc # "idle" ~> pc = "idle"

Published(e) == INSTANCE AtomicFile WITH
  Values   <- {"whole"},
  Absent   <- None,
  value    <- dirs[e].final.content,
  possible <- {file.content : file \in dirs[e].kept}

\* Each entity appears at its final path at once; from then on no run and no
\* crash takes it away, a power loss only until its directory was synced.
EntityIsAtomic ==
  /\ \A e \in Entities : Published(e)!Init
  /\ [][\A e \in Entities : [Published(e)!Next]_(Published(e)!vars)]_vars
================================================================================
