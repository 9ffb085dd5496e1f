------------------------------- MODULE MarkerFile ------------------------------
(***************************************************************************)
(* StateMarker::save (src/state_marker.rs) on its file system: the steps   *)
(* of one save after another, each of which may fail, with the process     *)
(* killed or the power lost between any two.  A load reads the path.       *)
(* Extraction.tla takes a save for one step and a kill for any moment.     *)
(***************************************************************************)
CONSTANT Markers       \* what the markers saved one after the other hold

VARIABLES
  pc,        \* the next step of the save under way, "ready" when there is none
  new,       \* the marker that it writes
  dir,       \* the marker's path and its .json.tmp
  result     \* what the last save returned

vars == <<pc, new, dir, result>>

INSTANCE FileSystem WITH Contents <- Markers

ASSUME MarkersAssumption == {None, Torn} \cap Markers = {}

TypeOK ==
  /\ pc \in {"ready", "create", "write", "sync", "rename", "syncDir"}
  /\ new \in Markers \cup {None}
  /\ dir \in Dir
  /\ result \in {"none", "ok", "error"}

Init ==
  /\ pc = "ready"
  /\ new = None
  /\ dir = EmptyDir
  /\ result = "none"

Save(marker) ==
  /\ pc = "ready"
  /\ pc' = "create"
  /\ new' = marker
  /\ result' = "none"
  /\ UNCHANGED dir

\* Mutant: the marker is written in place, and what the file held is gone.
CreateInPlace ==
  /\ pc = "create"
  /\ dir' = [Created(dir) EXCEPT !.final = [content |-> Torn, synced |-> FALSE]]
  /\ pc' = "write"
  /\ UNCHANGED <<new, result>>

Create ==
  /\ pc = "create"
  /\ dir' = Created(dir)
  /\ pc' = "write"
  /\ UNCHANGED <<new, result>>

Write ==
  /\ pc = "write"
  /\ dir' = Written(dir, new)
  /\ pc' = "sync"
  /\ UNCHANGED <<new, result>>

\* Mutant: the file is closed without a sync.
SyncSkipped ==
  /\ pc = "sync"
  /\ pc' = "rename"
  /\ UNCHANGED <<new, dir, result>>

Sync ==
  /\ pc = "sync"
  /\ dir' = Synced(dir)
  /\ pc' = "rename"
  /\ UNCHANGED <<new, result>>

Rename ==
  /\ pc = "rename"
  /\ dir' = Renamed(dir)
  /\ pc' = "syncDir"
  /\ UNCHANGED <<new, result>>

\* The sync of the directory is tried, and its failure ignored.
SyncDir ==
  /\ pc = "syncDir"
  /\ dir' \in {dir, DirSynced(dir)}
  /\ pc' = "ready"
  /\ result' = "ok"
  /\ UNCHANGED new

\* The temporary file is left behind, for the next save to truncate.
SaveFails ==
  /\ pc \in {"create", "write", "sync", "rename"}
  /\ pc' = "ready"
  /\ result' = "error"
  /\ UNCHANGED <<new, dir>>

\* The process ends, and the next one has not saved anything.
Gone == pc' = "ready" /\ new' = None /\ result' = "none"

Kill == Gone /\ UNCHANGED dir

PowerLoss == Gone /\ dir' \in AfterPowerLoss(dir)

Next ==
  \/ \E marker \in Markers : Save(marker)
  \/ Create \/ Write \/ Sync \/ Rename \/ SyncDir \/ SaveFails
  \/ Kill \/ PowerLoss

Spec == Init /\ [][Next]_vars

--------------------------------------------------------------------------------
(***************************************************************************)
(* Properties                                                              *)
(***************************************************************************)

\* The path never holds a truncated marker, also after a power loss: load takes
\* such a marker for none and would have the whole version delivered again.
NeverTorn == dir.final.content # Torn

Marked == INSTANCE AtomicFile WITH
  Values   <- Markers,
  Absent   <- None,
  value    <- dir.final.content,
  possible <- {file.content : file \in dir.kept}

\* The steps of a save, its failures and the crashes between them are one atomic
\* replacement at most, and a marker whose directory was synced is never lost.
SaveIsAtomic == Marked!Spec
================================================================================
