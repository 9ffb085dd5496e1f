------------------------------- MODULE Extraction ------------------------------
(***************************************************************************)
(* process_musicbrainz_data (src/musicbrainz/mod.rs): one run after the    *)
(* other over the dump files of a version, with the durable marker, the    *)
(* broker that accepts the events, failures of every step, shutdown        *)
(* requests, and a process that may die and be restarted anywhere.         *)
(*                                                                         *)
(* Time is the number of runs begun: what the properties compare is the    *)
(* order of runs, and within a run the order is that of the program.  The  *)
(* bytes of a dump file are identified with the number of records in it.   *)
(* The record pipeline of a file is seen from here as batches taken,       *)
(* checkpoints written and an outcome; Pipeline.tla models it record by    *)
(* record.                                                                 *)
(***************************************************************************)
EXTENDS StateMarker

CONSTANTS DataTypes,      \* the entity types, each with an exchange of its own
          Artists,        \* the type whose file is read for the Discogs map
          Images,         \* the record counts that a dump file may have
          SaveInterval,   \* records between two checkpoints
          MaxRuns         \* bound on the number of runs

\* A dump has at most one file per data type, so files are named by their type.
ASSUME ExtractionAssumption ==
  /\ IsFiniteSet(DataTypes)
  /\ Files \subseteq DataTypes
  /\ Images \subseteq Nat
  /\ SaveInterval \in Nat \ {0}
  /\ MaxRuns \in Nat

VARIABLES
  pc,             \* where the run stands; "idle" between two runs
  now,            \* number of runs begun
  shutdown,       \* the AtomicBool that the run polls
  \* local variables of the run
  forced, mem, todo, cur, taken, total, fileOk, success, counts,
  result,         \* what the last run returned, "none" while one is under way
  \* ExtractorState, behind the RwLock
  status, progress, completedFiles,
  \* the data root
  disk,           \* the saved marker, or NoMarker
  dump,           \* the bytes of every dump file
  \* what the broker has accepted
  rows,           \* the last delivery of all the records of a file
  fileCompletes,  \* the run whose file_complete was last accepted for a file
  extractionCompletes   \* the extraction_complete last accepted per exchange

locals  == <<forced, mem, todo, cur, taken, total, fileOk, success, counts>>
service == <<status, progress, completedFiles>>
broker  == <<rows, fileCompletes, extractionCompletes>>
vars    == <<pc, now, shutdown, locals, result, service, disk, dump, broker>>

NoMarker == [NewMarker EXCEPT !.overall = "Absent"]
NoFile   == "no file"
NoCount  == -1      \* a type that record_counts has no key for
NoCounts == [f \in Files |-> NoCount]
NoEvent  == [startedAt |-> 0, counts |-> NoCounts]

Steps == {"idle", "download", "discover", "load", "connect", "start", "map",
          "loop", "pipeline", "fileComplete", "mark", "announce", "finalize"}

Count == Nat \cup {NoCount}

TypeOK ==
  /\ pc \in Steps
  /\ now \in Nat
  /\ shutdown \in BOOLEAN
  /\ forced \in BOOLEAN
  /\ mem \in Marker \cup {NoMarker}
  /\ todo \subseteq Files
  /\ cur \in Files \cup {NoFile}
  /\ taken \in Nat
  /\ total \in Nat
  /\ fileOk \in BOOLEAN
  /\ success \in BOOLEAN
  /\ counts \in [Files -> Count]
  /\ result \in {"none", "true", "false", "error"}
  /\ status \in {"Idle", "Running", "Completed", "Failed"}
  /\ progress \in [Files -> Nat]
  /\ completedFiles \subseteq Files
  /\ disk \in Marker \cup {NoMarker}
  /\ dump \in [Files -> Images]
  /\ rows \in [Files -> [run : Nat, records : Nat]]
  /\ fileCompletes \in [Files -> Nat]
  /\ extractionCompletes \in
       [DataTypes -> [startedAt : Nat, counts : [Files -> Count]]]

--------------------------------------------------------------------------------

ResetLocals ==
  /\ forced' = FALSE
  /\ mem' = NoMarker
  /\ todo' = {}
  /\ cur' = NoFile
  /\ taken' = 0
  /\ total' = 0
  /\ fileOk' = FALSE
  /\ success' = FALSE
  /\ counts' = NoCounts

Init ==
  /\ pc = "idle"
  /\ now = 0
  /\ shutdown = FALSE
  /\ forced = FALSE
  /\ mem = NoMarker
  /\ todo = {}
  /\ cur = NoFile
  /\ taken = 0
  /\ total = 0
  /\ fileOk = FALSE
  /\ success = FALSE
  /\ counts = NoCounts
  /\ result = "none"
  /\ status = "Idle"
  /\ progress = [f \in Files |-> 0]
  /\ completedFiles = {}
  /\ disk = NoMarker
  /\ dump \in [Files -> Images]
  /\ rows = [f \in Files |-> [run |-> 0, records |-> 0]]
  /\ fileCompletes = [f \in Files |-> 0]
  /\ extractionCompletes = [t \in DataTypes |-> NoEvent]

\* The end of a run: its value is handed to the caller, its locals are dropped.
Return(value) ==
  /\ pc' = "idle"
  /\ result' = value
  /\ ResetLocals

\* A call under a requested shutdown leaves at once and changes no state.
RefuseToStart ==
  /\ pc = "idle" /\ shutdown
  /\ result' = "false"
  /\ UNCHANGED <<pc, now, shutdown, locals, service, disk, dump, broker>>

\* The initial run, a periodic check or a trigger; force is the caller's flag.
Begin(force) ==
  /\ pc = "idle" /\ ~shutdown
  /\ now < MaxRuns
  /\ pc' = "download"
  /\ now' = now + 1
  /\ forced' = force
  /\ status' = "Running"
  /\ progress' = [f \in Files |-> 0]
  /\ completedFiles' = {}
  /\ result' = "none"
  /\ UNCHANGED <<shutdown, mem, todo, cur, taken, total, fileOk, success, counts,
                 disk, dump, broker>>

\* download_latest keeps a complete version and fetches a file that is missing,
\* which may come back with other bytes.  A shutdown that arrived meanwhile
\* stops the run with its status still Running.
Download(bytes) ==
  /\ pc = "download"
  /\ dump' = bytes
  /\ IF shutdown
       THEN Return("false")
       ELSE pc' = "discover" /\ UNCHANGED <<locals, result>>
  /\ UNCHANGED <<now, shutdown, service, disk, broker>>

DownloadLatest ==
  \/ Download(dump)
  \/ \E f \in Files, n \in Images : Download([dump EXCEPT ![f] = n])

\* Any of the calls whose error the run passes on with ?: the download, the
\* discovery, the connection, an exchange, the artist map.
PrerequisiteFails ==
  /\ \/ pc \in {"download", "discover", "connect"}
     \/ pc = "map" /\ Artists \in Files
  /\ Return("error")
  /\ UNCHANGED <<now, shutdown, service, disk, dump, broker>>

Discover ==
  /\ pc = "discover"
  /\ pc' = "load"
  /\ UNCHANGED <<now, shutdown, locals, result, service, disk, dump, broker>>

\* The version directory was emptied between the download and the discovery.
DiscoverNothing ==
  /\ pc = "discover"
  /\ status' = "Completed"
  /\ Return("true")
  /\ UNCHANGED <<now, shutdown, progress, completedFiles, disk, dump, broker>>

\* Mutant: the force flag is not consulted.
LoadedIgnoringForce(readable) ==
  IF ~readable \/ disk = NoMarker THEN NewMarker ELSE disk

\* The marker that the run starts from.  A forced run never reads the disk; a
\* marker that is absent or unreadable counts as a new one.
Loaded(readable) ==
  IF forced \/ ~readable \/ disk = NoMarker THEN NewMarker ELSE disk

\* load and should_process.  Skip ends the run as a success; Reprocess drops
\* what was loaded.
LoadMarker(readable) ==
  LET loaded   == Loaded(readable)
      decision == ShouldProcess(loaded)
  IN  /\ pc = "load"
      /\ IF decision = "Skip"
           THEN /\ status' = "Completed"
                /\ Return("true")
           ELSE /\ pc' = "connect"
                /\ mem' = IF decision = "Reprocess" THEN NewMarker ELSE loaded
                /\ UNCHANGED <<forced, todo, cur, taken, total, fileOk, success,
                               counts, result, status>>
      /\ UNCHANGED <<now, shutdown, progress, completedFiles, disk, dump, broker>>

\* The broker connection and the four exchange declarations.
Connect ==
  /\ pc = "connect"
  /\ pc' = "start"
  /\ UNCHANGED <<now, shutdown, locals, result, service, disk, dump, broker>>

\* Mutant: a resumed phase is started like a fresh one, counters reset.
RestartPhase(m) ==
  [m EXCEPT !.processing = "InProgress", !.filesTotal = Cardinality(Files),
            !.filesProcessed = 0, !.overall = "InProgress",
            !.startedAt = IF @ = 0 THEN now ELSE @]

\* The marker with which the processing phase is entered: started now, or
\* resumed with the file total of this run and everything else kept.
EnterPhase(m) ==
  IF m.processing = "Pending"
    THEN StartProcessing(m, Cardinality(Files), now)
    ELSE [m EXCEPT !.filesTotal = Cardinality(Files)]

\* Mutant: the progress of completed files is not taken over.
NotRehydrated(m) == progress

\* A resumed run counts the completed files into the progress it reports.
Rehydrated(m) ==
  [f \in Files |-> IF m.processing = "InProgress" /\ f \in CompletedFiles(m)
                     THEN progress[f] + m.progress[f].records
                     ELSE progress[f]]

StartPhase ==
  /\ pc = "start"
  /\ mem' = EnterPhase(mem)
  /\ disk' = mem'
  /\ progress' = Rehydrated(mem)
  /\ pc' = "map"
  /\ UNCHANGED <<now, shutdown, forced, todo, cur, taken, total, fileOk, success,
                 counts, result, status, completedFiles, dump, broker>>

\* Mutant: the start of this run, resumed or not.
RunStartedAt == now

\* The start that extraction_complete will carry: the one in the marker.
ProcessingStartedAt == IF mem.startedAt = 0 THEN now ELSE mem.startedAt

\* The first pass over the artist file, then the loop's local variables.
BuildArtistMap ==
  /\ pc = "map"
  /\ todo' = Files
  /\ success' = TRUE
  /\ pc' = "loop"
  /\ UNCHANGED <<now, shutdown, forced, mem, cur, taken, total, fileOk, counts,
                 result, service, disk, dump, broker>>

\* The shutdown check at the head of every iteration of the file loop.
StopBetweenFiles ==
  /\ pc = "loop" /\ todo # {} /\ shutdown
  /\ success' = FALSE
  /\ pc' = "announce"
  /\ UNCHANGED <<now, shutdown, forced, mem, todo, cur, taken, total, fileOk,
                 counts, result, service, disk, dump, broker>>

\* Mutant: a skipped file is left out of record_counts.
SkipCompletedUncounted(f) ==
  /\ pc = "loop" /\ ~shutdown
  /\ f \in todo \cap CompletedFiles(mem)
  /\ todo' = todo \ {f}
  /\ UNCHANGED <<pc, now, shutdown, forced, mem, cur, taken, total, fileOk,
                 success, counts, result, service, disk, dump, broker>>

\* The iteration order is that of a hash map: any file may be next.
SkipCompletedFile(f) ==
  /\ pc = "loop" /\ ~shutdown
  /\ f \in todo \cap CompletedFiles(mem)
  /\ todo' = todo \ {f}
  /\ counts' = [counts EXCEPT ![f] = mem.progress[f].records]
  /\ UNCHANGED <<pc, now, shutdown, forced, mem, cur, taken, total, fileOk,
                 success, result, service, disk, dump, broker>>

\* Mutant: the restarted file is not saved before its pipeline runs.
StartFileUnsaved(f) ==
  /\ pc = "loop" /\ ~shutdown
  /\ f \in todo \ CompletedFiles(mem)
  /\ mem' = StartFileProcessing(mem, f)
  /\ cur' = f
  /\ taken' = 0
  /\ fileOk' = TRUE
  /\ pc' = "pipeline"
  /\ UNCHANGED <<now, shutdown, forced, todo, total, success, counts, result,
                 service, disk, dump, broker>>

StartFile(f) ==
  /\ pc = "loop" /\ ~shutdown
  /\ f \in todo \ CompletedFiles(mem)
  /\ mem' = StartFileProcessing(mem, f)
  /\ disk' = mem'
  /\ cur' = f
  /\ taken' = 0
  /\ fileOk' = TRUE
  /\ pc' = "pipeline"
  /\ UNCHANGED <<now, shutdown, forced, todo, total, success, counts, result,
                 service, dump, broker>>

\* update_file_progress and a save whose failure is only logged.
Checkpoint(records) ==
  /\ mem' = UpdateFileProgress(mem, cur, records)
  /\ disk' \in {disk, mem'}

\* The batcher takes the next record, and writes a checkpoint at the interval.
TakeRecord ==
  /\ pc = "pipeline"
  /\ taken < dump[cur]
  /\ taken' = taken + 1
  /\ progress' = [progress EXCEPT ![cur] = @ + 1]
  /\ IF taken' % SaveInterval = 0
       THEN Checkpoint(taken')
       ELSE UNCHANGED <<mem, disk>>
  /\ UNCHANGED <<pc, now, shutdown, forced, todo, cur, total, fileOk, success,
                 counts, result, status, completedFiles, dump, broker>>

\* All three tasks ended well: the broker confirmed every record of the file.
PipelineSucceeds ==
  /\ pc = "pipeline"
  /\ taken = dump[cur]
  /\ Checkpoint(taken)
  /\ total' = dump[cur]
  /\ rows' = [rows EXCEPT ![cur] = [run |-> now, records |-> dump[cur]]]
  /\ pc' = "fileComplete"
  /\ UNCHANGED <<now, shutdown, forced, todo, cur, taken, fileOk, success, counts,
                 result, service, dump, fileCompletes, extractionCompletes>>

\* Mutant: only the success of the whole run is cleared, not that of the file.
PipelineFailsRunOnly ==
  /\ pc = "pipeline"
  /\ Checkpoint(taken) \/ UNCHANGED <<mem, disk>>
  /\ total' \in 0 .. dump[cur]
  /\ success' = FALSE
  /\ pc' = "mark"
  /\ UNCHANGED <<now, shutdown, forced, todo, cur, taken, fileOk, counts, result,
                 service, dump, broker>>

\* A task failed.  The batcher wrote its last checkpoint or not, and the parser
\* counted any part of the file, or nothing if the error was its own.
PipelineFails ==
  /\ pc = "pipeline"
  /\ Checkpoint(taken) \/ UNCHANGED <<mem, disk>>
  /\ total' \in 0 .. dump[cur]
  /\ fileOk' = FALSE
  /\ success' = FALSE
  /\ pc' = "mark"
  /\ UNCHANGED <<now, shutdown, forced, todo, cur, taken, counts, result, service,
                 dump, broker>>

\* Mutant: a failed send_file_complete does not clear the success of the file.
SendFileCompleteUnchecked(accepted, confirmed) ==
  /\ pc = "fileComplete"
  /\ confirmed => accepted
  /\ fileCompletes' = IF accepted THEN [fileCompletes EXCEPT ![cur] = now]
                                  ELSE fileCompletes
  /\ success' = (success /\ confirmed)
  /\ pc' = "mark"
  /\ UNCHANGED <<now, shutdown, forced, mem, todo, cur, taken, total, fileOk,
                 counts, result, service, disk, dump, rows, extractionCompletes>>

\* The broker confirms the event, or the call fails; a call that failed may
\* have been accepted all the same, the confirm being late or lost.
SendFileComplete(accepted, confirmed) ==
  /\ pc = "fileComplete"
  /\ confirmed => accepted
  /\ fileCompletes' = IF accepted THEN [fileCompletes EXCEPT ![cur] = now]
                                  ELSE fileCompletes
  /\ fileOk' = confirmed
  /\ success' = (success /\ confirmed)
  /\ pc' = "mark"
  /\ UNCHANGED <<now, shutdown, forced, mem, todo, cur, taken, total, counts,
                 result, service, disk, dump, rows, extractionCompletes>>

\* The marker is saved either way, and changed only for a file that succeeded.
MarkFile ==
  /\ pc = "mark"
  /\ mem' = IF fileOk THEN CompleteFileProcessing(mem, cur, total) ELSE mem
  /\ disk' = mem'
  /\ completedFiles' = IF fileOk THEN completedFiles \cup {cur} ELSE completedFiles
  /\ counts' = [counts EXCEPT ![cur] = total]
  /\ todo' = todo \ {cur}
  /\ cur' = NoFile
  /\ taken' = 0 /\ total' = 0 /\ fileOk' = FALSE
  /\ pc' = "loop"
  /\ UNCHANGED <<now, shutdown, forced, success, result, status, progress, dump,
                 broker>>

FilesDone ==
  /\ pc = "loop" /\ todo = {}
  /\ pc' = "announce"
  /\ UNCHANGED <<now, shutdown, locals, result, service, disk, dump, broker>>

\* Mutant: one exchange that confirms is taken for all of them.
AnnounceToAny(accepted, confirmed) ==
  /\ pc = "announce" /\ success
  /\ confirmed \subseteq accepted
  /\ extractionCompletes' =
       [t \in DataTypes |->
          IF t \in accepted THEN [startedAt |-> ProcessingStartedAt, counts |-> counts]
                            ELSE extractionCompletes[t]]
  /\ success' = (confirmed # {})
  /\ pc' = "finalize"
  /\ UNCHANGED <<now, shutdown, forced, mem, todo, cur, taken, total, fileOk,
                 counts, result, service, disk, dump, rows, fileCompletes>>

\* One event to every exchange, each attempted whatever the others returned.
SendExtractionComplete(accepted, confirmed) ==
  /\ pc = "announce" /\ success
  /\ confirmed \subseteq accepted
  /\ extractionCompletes' =
       [t \in DataTypes |->
          IF t \in accepted THEN [startedAt |-> ProcessingStartedAt, counts |-> counts]
                            ELSE extractionCompletes[t]]
  /\ success' = (confirmed = DataTypes)
  /\ pc' = "finalize"
  /\ UNCHANGED <<now, shutdown, forced, mem, todo, cur, taken, total, fileOk,
                 counts, result, service, disk, dump, rows, fileCompletes>>

SkipExtractionComplete ==
  /\ pc = "announce" /\ ~success
  /\ pc' = "finalize"
  /\ UNCHANGED <<now, shutdown, locals, result, service, disk, dump, broker>>

\* Mutant: the marker is saved before it is completed.
FinalizeEarlySave ==
  /\ pc = "finalize"
  /\ disk' = mem
  /\ status' = IF success THEN "Completed" ELSE "Failed"
  /\ Return(IF success THEN "true" ELSE "false")
  /\ UNCHANGED <<now, shutdown, progress, completedFiles, dump, broker>>

\* Mutant: a run with failures ends like one that went through.
FinalizeCompleted ==
  /\ pc = "finalize"
  /\ disk' = IF success THEN CompleteExtraction(mem) ELSE mem
  /\ status' = "Completed"
  /\ Return(IF success THEN "true" ELSE "false")
  /\ UNCHANGED <<now, shutdown, progress, completedFiles, dump, broker>>

Finalize ==
  /\ pc = "finalize"
  /\ disk' = IF success THEN CompleteExtraction(mem) ELSE mem
  /\ status' = IF success THEN "Completed" ELSE "Failed"
  /\ Return(IF success THEN "true" ELSE "false")
  /\ UNCHANGED <<now, shutdown, progress, completedFiles, dump, broker>>

\* A save that the run passes on with ? fails before its rename: the old marker
\* stays, and the run ends where it stands.
SaveFails ==
  /\ \/ pc \in {"start", "mark", "finalize"}
     \/ pc = "loop" /\ ~shutdown /\ todo \ CompletedFiles(mem) # {}
  /\ Return("error")
  /\ UNCHANGED <<now, shutdown, service, disk, dump, broker>>

\* SIGTERM or SIGINT, as the run sees it.
RequestShutdown ==
  /\ ~shutdown
  /\ shutdown' = TRUE
  /\ UNCHANGED <<pc, now, locals, result, service, disk, dump, broker>>

\* The process ends, by a crash or by exit, and is started again: what is left
\* is the disk and what the broker accepted.
Restart ==
  /\ pc' = "idle"
  /\ shutdown' = FALSE
  /\ ResetLocals
  /\ result' = "none"
  /\ status' = "Idle"
  /\ progress' = [f \in Files |-> 0]
  /\ completedFiles' = {}
  /\ UNCHANGED <<now, disk, dump, broker>>

RunStep ==
  \/ RefuseToStart
  \/ \E force \in BOOLEAN : Begin(force)
  \/ DownloadLatest
  \/ PrerequisiteFails
  \/ Discover
  \/ DiscoverNothing
  \/ \E readable \in BOOLEAN : LoadMarker(readable)
  \/ Connect
  \/ StartPhase
  \/ BuildArtistMap
  \/ StopBetweenFiles
  \/ \E f \in Files : SkipCompletedFile(f)
  \/ \E f \in Files : StartFile(f)
  \/ TakeRecord
  \/ PipelineSucceeds
  \/ PipelineFails
  \/ \E accepted, confirmed \in BOOLEAN : SendFileComplete(accepted, confirmed)
  \/ MarkFile
  \/ FilesDone
  \/ \E accepted, confirmed \in SUBSET DataTypes :
       SendExtractionComplete(accepted, confirmed)
  \/ SkipExtractionComplete
  \/ Finalize
  \/ SaveFails

Next == RunStep \/ RequestShutdown \/ Restart

Spec == Init /\ [][Next]_vars

--------------------------------------------------------------------------------
(***************************************************************************)
(* Properties                                                              *)
(***************************************************************************)

\* A file that the saved marker claims Completed has been delivered whole, and
\* its file_complete accepted, since the processing start that the marker holds;
\* and the marker has the count that was delivered.  (Order of the pipeline,
\* send_file_complete, complete_file_processing and save, under every failure.)
CompletedIsDelivered ==
  \A f \in CompletedFiles(disk) :
    /\ rows[f].run >= disk.startedAt
    /\ fileCompletes[f] >= disk.startedAt
    /\ rows[f].records = disk.progress[f].records

\* A version whose saved summary is Completed, and which every later run will
\* skip, has each of its files Completed and the extraction_complete with its
\* start and its counts accepted on every exchange.
CompletedIsAnnounced ==
  disk.overall = "Completed" =>
    /\ CompletedFiles(disk) = Files
    /\ \A t \in DataTypes :
         extractionCompletes[t] = [startedAt |-> disk.startedAt,
                                   counts    |-> [f \in Files |-> rows[f].records]]

\* No extraction_complete that was ever accepted has a start later than the last
\* delivery of a file: the consumers purge the rows older than started_at, so a
\* resumed run must send the start of the marker and not its own.
PurgeSparesDelivered ==
  \A t \in DataTypes, f \in Files :
    /\ rows[f].run >= extractionCompletes[t].startedAt
    /\ fileCompletes[f] >= extractionCompletes[t].startedAt

\* An extraction_complete carries the count of every file, the ones skipped by
\* a resumed run included, and it is the count that was delivered.
AnnouncedCountsAreDelivered ==
  [][\A t \in DataTypes :
       extractionCompletes'[t] # extractionCompletes[t] =>
         extractionCompletes'[t].counts = [f \in Files |-> rows[f].records]]_vars

\* files_processed is the number of completed files across any number of
\* resumed runs, failed saves and restarts.
FilesProcessedIsExact ==
  disk.filesProcessed = Cardinality(CompletedFiles(disk))

\* The rows of a file are never rewritten under a saved marker that still
\* claims the file Completed: the marker is saved before the pipeline starts.
MarkerReopenedBeforeDelivery ==
  [][\A f \in Files : rows'[f] # rows[f] => disk.progress[f].status = "InProgress"]_vars

\* A run that returns true leaves a marker that later runs will skip, unless it
\* found no dump file at all.
SuccessIsDurable ==
  [][result' = "true" /\ pc \notin {"idle", "discover"} => disk'.overall = "Completed"]_vars

\* When a run completes the version, the per-type progress that /health reports
\* is the number of records of each file, whether the run parsed the file or
\* took it over from an interrupted one.
ReportedProgressIsTotal ==
  [][pc = "finalize" /\ status' = "Completed" =>
       \A f \in Files : progress[f] = rows[f].records]_vars

\* A forced run that succeeds has delivered every file again in that run,
\* whatever the saved marker claimed.
ForcedRunRedelivers ==
  [][forced /\ result' = "true" /\ pc \notin {"idle", "discover"} =>
       \A f \in Files : rows[f].run = now /\ fileCompletes[f] = now]_vars

\* What a caller may rely on between two runs: an error leaves the status at
\* Running, a success at Completed, and a false at Failed unless a shutdown cut
\* the run short.  ControlLoop.tla is built on it.
OutcomeContract ==
  pc = "idle" =>
    /\ result = "error" => status = "Running"
    /\ result = "true"  => status = "Completed"
    /\ result = "false" => status = "Failed" \/ shutdown

\* What docs/state-marker-system.md says of a file whose verified bytes change:
\* its completed processing is invalidated, so a run that returns true has
\* processed the bytes that are on the disk.
SuccessCoversCurrentBytes ==
  [][result' = "true" /\ pc \notin {"idle", "discover"} =>
       \A f \in Files : disk'.progress[f].records = dump[f]]_vars

--------------------------------------------------------------------------------
(***************************************************************************)
(* The runs, with their failures and restarts, keep the promise of         *)
(* Delivery: what the next run will skip is what the saved marker says.    *)
(***************************************************************************)
Promise == INSTANCE Delivery WITH
  Times     <- 0 .. MaxRuns,
  Counts    <- Images,
  epoch     <- disk.startedAt,
  claimed   <- CompletedFiles(disk),
  closed    <- disk.overall = "Completed",
  signalled <- fileCompletes,
  announced <- extractionCompletes

\* Every step of the extraction is a step of Delivery or leaves what Delivery
\* speaks of unchanged.
KeepsPromise == Promise!Spec
================================================================================
