-------------------------- MODULE ExtractionInvariant --------------------------
(***************************************************************************)
(* The inductive invariant of Extraction.  The properties of the saved     *)
(* marker speak of the disk alone; they are kept because of how the marker *)
(* in memory, the one on the disk and the locals of the run are related at *)
(* every point of a run, which is what the parts below say.                *)
(***************************************************************************)
EXTENDS Extraction

BeforeLoad == {"idle", "download", "discover", "load"}
BeforeStart == {"download", "discover", "load", "connect", "start"}
AfterStart == {"map", "loop", "pipeline", "fileComplete", "mark", "announce", "finalize"}
InFile     == {"pipeline", "fileComplete", "mark"}

\* Of a marker, given what was delivered and signalled by now: it claims only
\* what the broker accepted, and its phase, start and counter go together.
SoundMarker(m, delivered, signalled, time) ==
  /\ \A f \in CompletedFiles(m) :
       /\ delivered[f].run >= m.startedAt
       /\ signalled[f] >= m.startedAt
       /\ delivered[f].records = m.progress[f].records
  /\ m.download = "Pending"
  /\ m.processing \in {"Pending", "InProgress", "Completed"}
  /\ m.startedAt <= time
  /\ m.processing = "Pending" => m.startedAt = 0 /\ CompletedFiles(m) = {}
  /\ m.processing # "Pending" => m.startedAt > 0
  /\ m.processing = "Completed" <=> m.overall = "Completed"
  /\ m.filesProcessed = Cardinality(CompletedFiles(m))

MarkersSound ==
  /\ SoundMarker(mem, rows, fileCompletes, now)
  /\ SoundMarker(disk, rows, fileCompletes, now)

\* The marker in memory is new or the saved one until the phase is entered, and
\* from then on equals the saved one but for the count of the file under way.
MemoryAndDisk ==
  /\ pc \in BeforeLoad => mem = NoMarker
  /\ pc \in {"connect", "start"} =>
       /\ mem \in Marker
       /\ mem.overall # "Completed"
       /\ mem = NewMarker \/ (mem = disk /\ ~forced)
  /\ pc \in AfterStart =>
       /\ mem \in Marker /\ disk \in Marker
       /\ mem.processing = "InProgress" /\ disk.processing = "InProgress"
       /\ disk.startedAt = mem.startedAt
       /\ disk.filesProcessed = mem.filesProcessed
       /\ CompletedFiles(disk) = CompletedFiles(mem)
       /\ \A f \in CompletedFiles(mem) : disk.progress[f] = mem.progress[f]
       /\ forced => mem.startedAt = now

\* The file under way is open in both markers, and what the run believes of it
\* has happened.
FileUnderWay ==
  /\ pc \in InFile => /\ cur \in todo
                      /\ mem.progress[cur].status = "InProgress"
                      /\ disk.progress[cur].status = "InProgress"
                      /\ success => fileOk
  /\ pc = "fileComplete" => rows[cur] = [run |-> now, records |-> total]
  /\ pc = "mark" /\ fileOk => /\ rows[cur] = [run |-> now, records |-> total]
                              /\ fileCompletes[cur] = now

\* While nothing has failed, every file behind the loop is completed and counted.
LoopSoFar ==
  /\ pc \in AfterStart \ {"map"} /\ success =>
       \A f \in Files \ todo : /\ f \in CompletedFiles(mem)
                               /\ counts[f] = rows[f].records
  /\ pc \in {"announce", "finalize"} /\ success => todo = {}
  /\ pc = "finalize" /\ success =>
       \A t \in DataTypes :
         extractionCompletes[t] = [startedAt |-> mem.startedAt, counts |-> counts]

\* Nothing was sent in a run to come; nothing in this one before its start.
SentInThePast ==
  /\ now <= MaxRuns
  /\ \A f \in Files : rows[f].run <= now /\ fileCompletes[f] <= now
  /\ pc \in BeforeStart =>
       /\ disk.startedAt < now
       /\ \A f \in Files : rows[f].run < now /\ fileCompletes[f] < now

\* Inductive: it holds initially and every action keeps it.  A broken step of
\* any action of a run shows here first, before a file is wrongly claimed.
IInv ==
  /\ TypeOK
  /\ MarkersSound
  /\ MemoryAndDisk
  /\ FileUnderWay
  /\ LoopSoFar
  /\ SentInThePast
  /\ CompletedIsAnnounced
  /\ PurgeSparesDelivered
================================================================================
