---------------------------- MODULE ExtractionProofs ---------------------------
(***************************************************************************)
(* Proofs about Extraction for every value of its constants: typing, the   *)
(* inductive invariant of ExtractionInvariant, what follows from it, and   *)
(* the refinement of Delivery.                                             *)
(***************************************************************************)
EXTENDS ExtractionInvariant, FiniteSetTheorems, TLAPS

USE ExtractionAssumption

--------------------------------------------------------------------------------
(***************************************************************************)
(* The operators of StateMarker                                            *)
(***************************************************************************)

\* StateMarker::new makes a marker that claims nothing and is not completed.
LEMMA NewMarkerFacts ==
  /\ NewMarker \in Marker
  /\ NoMarker \notin Marker
  /\ CompletedFiles(NewMarker) = {}
  /\ CompletedFiles(NoMarker) = {}
BY DEF NewMarker, NoMarker, Marker, NoEntry, FileProgress, PhaseStatus, CompletedFiles

\* Only a new marker, or one whose processing is open, goes on to be processed.
LEMMA ShouldProcessFacts ==
  ASSUME NEW m \in Marker, m.download = "Pending"
  PROVE  /\ ShouldProcess(m) \in {"Skip", "Continue"}
         /\ ShouldProcess(m) = "Skip" <=>
              m.processing \notin {"Failed", "InProgress"} /\ m.overall = "Completed"
BY DEF ShouldProcess, Marker, PhaseStatus

\* start_processing opens the phase at the given time and claims no file.
LEMMA StartProcessingFacts ==
  ASSUME NEW m \in Marker, NEW n \in Nat, NEW time \in Nat,
         NEW new, new = StartProcessing(m, n, time)
  PROVE  /\ new \in Marker
         /\ new.download = m.download
         /\ new.processing = "InProgress" /\ new.overall = "InProgress"
         /\ new.startedAt = time
         /\ new.filesProcessed = 0
         /\ new.progress = m.progress
         /\ CompletedFiles(new) = CompletedFiles(m)
BY DEF StartProcessing, Marker, PhaseStatus, CompletedFiles

\* Entering the phase keeps an open phase as it was, but for the file total.
LEMMA EnterPhaseFacts ==
  ASSUME NEW m \in Marker, NEW time \in Nat, now = time,
         NEW new, new = EnterPhase(m)
  PROVE  /\ new \in Marker
         /\ new.download = m.download
         /\ new.progress = m.progress
         /\ CompletedFiles(new) = CompletedFiles(m)
         /\ m.processing = "Pending" =>
              /\ new.processing = "InProgress" /\ new.overall = "InProgress"
              /\ new.startedAt = time
              /\ new.filesProcessed = 0
         /\ m.processing # "Pending" =>
              /\ new.processing = m.processing /\ new.overall = m.overall
              /\ new.startedAt = m.startedAt
              /\ new.filesProcessed = m.filesProcessed
<1>1. IsFiniteSet(Files) /\ Cardinality(Files) \in Nat
  BY FS_Subset, FS_CardinalityType
<1>2. CASE m.processing = "Pending"
  BY <1>1, <1>2 DEF EnterPhase, StartProcessing, Marker, PhaseStatus, CompletedFiles
<1>3. CASE m.processing # "Pending"
  BY <1>1, <1>3 DEF EnterPhase, Marker, CompletedFiles
<1> QED BY <1>2, <1>3

\* start_file_processing opens one entry and touches no other.
LEMMA StartFileFacts ==
  ASSUME NEW m \in Marker, NEW f \in Files,
         NEW new, new = StartFileProcessing(m, f)
  PROVE  /\ new \in Marker
         /\ new.download = m.download
         /\ new.processing = m.processing /\ new.overall = m.overall
         /\ new.startedAt = m.startedAt /\ new.filesProcessed = m.filesProcessed
         /\ new.progress[f].status = "InProgress"
         /\ \A g \in Files \ {f} : new.progress[g] = m.progress[g]
         /\ CompletedFiles(new) = CompletedFiles(m) \ {f}
BY DEF StartFileProcessing, Marker, FileProgress, PhaseStatus, CompletedFiles

\* A checkpoint changes the count of one entry and no status.
LEMMA UpdateFacts ==
  ASSUME NEW m \in Marker, NEW f \in Files, NEW n \in Nat,
         NEW new, new = UpdateFileProgress(m, f, n)
  PROVE  /\ new \in Marker
         /\ new.download = m.download
         /\ new.processing = m.processing /\ new.overall = m.overall
         /\ new.startedAt = m.startedAt /\ new.filesProcessed = m.filesProcessed
         /\ new.progress[f].status = m.progress[f].status
         /\ \A g \in Files \ {f} : new.progress[g] = m.progress[g]
         /\ CompletedFiles(new) = CompletedFiles(m)
BY DEF UpdateFileProgress, Marker, FileProgress, PhaseStatus, CompletedFiles

\* complete_file_processing completes an entry that exists, with its count.
LEMMA CompleteFileFacts ==
  ASSUME NEW m \in Marker, NEW f \in Files, NEW n \in Nat,
         m.progress[f].status # "Absent",
         NEW new, new = CompleteFileProcessing(m, f, n)
  PROVE  /\ new \in Marker
         /\ new.download = m.download
         /\ new.processing = m.processing /\ new.overall = m.overall
         /\ new.startedAt = m.startedAt
         /\ new.filesProcessed = m.filesProcessed + 1
         /\ new.progress[f].status = "Completed" /\ new.progress[f].records = n
         /\ \A g \in Files \ {f} : new.progress[g] = m.progress[g]
         /\ CompletedFiles(new) = CompletedFiles(m) \cup {f}
<1> DEFINE entry == [status |-> "Completed", records |-> n]
<1>1. new = [m EXCEPT !.progress = [m.progress EXCEPT ![f] = entry],
                  !.filesProcessed = m.filesProcessed + 1]
  BY DEF CompleteFileProcessing, Marker
<1>2. entry \in FileProgress
  BY DEF FileProgress, PhaseStatus
<1>3. new \in Marker
  <2>1. [m.progress EXCEPT ![f] = entry] \in [Files -> FileProgress]
    <3> HIDE DEF entry
    <3> QED BY <1>2 DEF Marker
  <2>2. m.filesProcessed + 1 \in Nat
    BY DEF Marker
  <2> HIDE DEF entry
  <2> QED BY <1>1, <2>1, <2>2 DEF Marker
<1>4. /\ new.progress[f] = entry
      /\ \A g \in Files \ {f} : new.progress[g] = m.progress[g]
  BY <1>1 DEF Marker
<1>5. CompletedFiles(new) = CompletedFiles(m) \cup {f}
  BY <1>4 DEF CompletedFiles
<1> QED BY <1>1, <1>3, <1>4, <1>5 DEF Marker

\* Whatever the entry was, the result is a marker.
LEMMA CompleteFileTyped ==
  ASSUME NEW m \in Marker, NEW f \in Files, NEW n \in Nat
  PROVE  CompleteFileProcessing(m, f, n) \in Marker
<1>1. CASE m.progress[f].status = "Absent"
  <2>1. CompleteFileProcessing(m, f, n)
          = [m EXCEPT !.progress = [m.progress EXCEPT ![f] = m.progress[f]],
                  !.filesProcessed = m.filesProcessed + 1]
    BY <1>1 DEF CompleteFileProcessing
  <2>2. [m.progress EXCEPT ![f] = m.progress[f]] \in [Files -> FileProgress]
    BY DEF Marker
  <2>3. m.filesProcessed + 1 \in Nat
    BY DEF Marker
  <2> QED BY <2>1, <2>2, <2>3 DEF Marker
<1>2. CASE m.progress[f].status # "Absent"
  BY <1>2, CompleteFileFacts
<1> QED BY <1>1, <1>2

\* complete_processing and complete_extraction close the phase and the version,
\* and leave the files, the start and the counter as they are.
LEMMA CompleteExtractionFacts ==
  ASSUME NEW m \in Marker,
         NEW new, new = CompleteExtraction(m)
  PROVE  /\ new \in Marker
         /\ new.download = m.download
         /\ new.processing = "Completed" /\ new.overall = "Completed"
         /\ new.startedAt = m.startedAt /\ new.filesProcessed = m.filesProcessed
         /\ new.progress = m.progress
         /\ CompletedFiles(new) = CompletedFiles(m)
BY DEF CompleteExtraction, Marker, PhaseStatus, CompletedFiles

--------------------------------------------------------------------------------
(***************************************************************************)
(* Typing                                                                  *)
(***************************************************************************)

\* TypeOK is not inductive alone: that a step may work on the marker in memory
\* or on the current file depends on where the run stands.
Typed ==
  /\ TypeOK
  /\ pc \in BeforeLoad => mem = NoMarker
  /\ pc \notin BeforeLoad => mem \in Marker
  /\ pc \in InFile => cur \in Files

\* The record counts that a dump file may have are natural numbers.
LEMMA ImagesAreCounts == Images \subseteq Nat
BY ExtractionAssumption

\* The values that stand for no count and no event have the types of the real ones.
LEMMA NoneValues ==
  /\ NoCounts \in [Files -> Count]
  /\ NoEvent \in [startedAt : Nat, counts : [Files -> Count]]
  /\ Nat \subseteq Count
BY DEF NoCounts, NoEvent, Count, NoCount

\* Before the first run nothing is loaded, saved or sent.
LEMMA InitTyped == Init => Typed
<1> SUFFICES ASSUME Init PROVE Typed
  OBVIOUS
<1>1. TypeOK
  BY NoneValues DEF Init, TypeOK, Steps
<1> QED BY <1>1 DEF Init, Typed, BeforeLoad, InFile

\* Whatever a run was doing, its return drops the locals.
LEMMA ReturnTyped ==
  ASSUME NEW value \in {"none", "true", "false", "error"}, Typed, Return(value)
  PROVE  /\ pc' \in Steps /\ pc' = "idle"
         /\ result' \in {"none", "true", "false", "error"}
         /\ forced' \in BOOLEAN /\ fileOk' \in BOOLEAN /\ success' \in BOOLEAN
         /\ mem' = NoMarker
         /\ todo' \subseteq Files /\ cur' \in Files \cup {NoFile}
         /\ taken' \in Nat /\ total' \in Nat
         /\ counts' \in [Files -> Count]
BY NoneValues DEF Return, ResetLocals, Steps

\* Every step keeps the typing.
LEMMA NextTyped == Typed /\ [Next]_vars => Typed'
<1> SUFFICES ASSUME Typed, [Next]_vars PROVE Typed'
  OBVIOUS
<1> USE ImagesAreCounts, NewMarkerFacts
<1>1. CASE RefuseToStart
  BY <1>1 DEF RefuseToStart, locals, service, broker, Typed, TypeOK
<1>2. ASSUME NEW force \in BOOLEAN, Begin(force) PROVE Typed'
  BY <1>2 DEF Begin, broker, Typed, TypeOK, Steps, BeforeLoad, InFile
<1>3. CASE DownloadLatest
  <2>1. PICK bytes \in [Files -> Images] : Download(bytes)
    BY <1>3 DEF DownloadLatest, Typed, TypeOK
  <2>2. CASE shutdown
    BY <2>1, <2>2, ReturnTyped
       DEF Download, service, broker, Typed, TypeOK, BeforeLoad, InFile
  <2>3. CASE ~shutdown
    BY <2>1, <2>3
       DEF Download, locals, service, broker, Typed, TypeOK, Steps, BeforeLoad, InFile
  <2> QED BY <2>2, <2>3
<1>4. CASE PrerequisiteFails
  BY <1>4, ReturnTyped
     DEF PrerequisiteFails, service, broker, Typed, TypeOK, BeforeLoad, InFile
<1>5. CASE Discover
  BY <1>5 DEF Discover, locals, service, broker, Typed, TypeOK, Steps, BeforeLoad, InFile
<1>6. CASE DiscoverNothing
  BY <1>6, ReturnTyped DEF DiscoverNothing, broker, Typed, TypeOK, BeforeLoad, InFile
<1>7. ASSUME NEW readable \in BOOLEAN, LoadMarker(readable) PROVE Typed'
  <2> DEFINE loaded == Loaded(readable)
  <2>1. loaded \in Marker
    BY DEF Loaded, Typed, TypeOK
  <2>2. CASE ShouldProcess(loaded) = "Skip"
    BY <1>7, <2>2, ReturnTyped DEF LoadMarker, broker, Typed, TypeOK, BeforeLoad, InFile
  <2>3. CASE ShouldProcess(loaded) # "Skip"
    <3> HIDE DEF loaded
    <3> QED BY <1>7, <2>1, <2>3
            DEF LoadMarker, broker, loaded, Typed, TypeOK, Steps, BeforeLoad, InFile
  <2> QED BY <2>2, <2>3
<1>8. CASE Connect
  BY <1>8 DEF Connect, locals, service, broker, Typed, TypeOK, Steps, BeforeLoad, InFile
<1>9. CASE StartPhase
  <2>1. mem \in Marker /\ now \in Nat
    BY <1>9 DEF StartPhase, Typed, TypeOK, BeforeLoad
  <2>2. EnterPhase(mem) \in Marker
    BY <2>1, EnterPhaseFacts
  <2>3. Rehydrated(mem) \in [Files -> Nat]
    BY <2>1 DEF Rehydrated, Marker, FileProgress, CompletedFiles, Typed, TypeOK
  <2> QED BY <1>9, <2>2, <2>3
          DEF StartPhase, broker, Typed, TypeOK, Steps, BeforeLoad, InFile
<1>10. CASE BuildArtistMap
  BY <1>10 DEF BuildArtistMap, service, broker, Typed, TypeOK, Steps, BeforeLoad, InFile
<1>11. CASE StopBetweenFiles
  BY <1>11 DEF StopBetweenFiles, service, broker, Typed, TypeOK, Steps, BeforeLoad, InFile
<1>12. ASSUME NEW f \in Files, SkipCompletedFile(f) PROVE Typed'
  <2>1. mem.progress[f].records \in Count
    BY <1>12 DEF SkipCompletedFile, Marker, FileProgress, Count, Typed, TypeOK, BeforeLoad
  <2> QED BY <1>12, <2>1
          DEF SkipCompletedFile, service, broker, Typed, TypeOK, BeforeLoad, InFile
<1>13. ASSUME NEW f \in Files, StartFile(f) PROVE Typed'
  <2>1. StartFileProcessing(mem, f) \in Marker
    BY <1>13, StartFileFacts DEF StartFile, Typed, BeforeLoad
  <2> QED BY <1>13, <2>1
          DEF StartFile, service, broker, Typed, TypeOK, Steps, BeforeLoad, InFile
<1>14. ASSUME NEW n \in Nat, pc = "pipeline"
       PROVE  UpdateFileProgress(mem, cur, n) \in Marker
  BY <1>14, UpdateFacts DEF Typed, BeforeLoad, InFile
<1>15. CASE TakeRecord
  <2>1. mem' \in Marker /\ disk' \in Marker \cup {NoMarker} /\ taken' \in Nat
    <3>1. taken' \in Nat
      BY <1>15 DEF TakeRecord, Typed, TypeOK
    <3>2. UpdateFileProgress(mem, cur, taken') \in Marker
      BY <1>14, <1>15, <3>1 DEF TakeRecord
    <3> QED BY <1>15, <3>1, <3>2 DEF TakeRecord, Checkpoint, Typed, TypeOK, BeforeLoad
  <2>2. progress' \in [Files -> Nat]
    <3>1. cur \in Files /\ progress \in [Files -> Nat]
      BY <1>15 DEF TakeRecord, Typed, TypeOK, InFile
    <3>2. progress' = [progress EXCEPT ![cur] = progress[cur] + 1]
      BY <1>15 DEF TakeRecord
    <3> QED BY <3>1, <3>2
  <2> QED BY <1>15, <2>1, <2>2 DEF TakeRecord, broker, Typed, TypeOK, BeforeLoad, InFile
<1>16. CASE PipelineSucceeds
  <2>1. cur \in Files /\ dump[cur] \in Nat /\ taken \in Nat /\ now \in Nat
    BY <1>16 DEF PipelineSucceeds, Typed, TypeOK, InFile
  <2>2. mem' \in Marker /\ disk' \in Marker \cup {NoMarker}
    BY <1>14, <1>16, <2>1 DEF PipelineSucceeds, Checkpoint, Typed, TypeOK
  <2>3. rows' \in [Files -> [run : Nat, records : Nat]]
    BY <1>16, <2>1 DEF PipelineSucceeds, Typed, TypeOK
  <2> QED BY <1>16, <2>1, <2>2, <2>3
          DEF PipelineSucceeds, service, Typed, TypeOK, Steps, BeforeLoad, InFile
<1>17. CASE PipelineFails
  <2>1. cur \in Files /\ dump[cur] \in Nat /\ taken \in Nat
    BY <1>17 DEF PipelineFails, Typed, TypeOK, InFile
  <2>2. mem' \in Marker /\ disk' \in Marker \cup {NoMarker}
    BY <1>14, <1>17, <2>1 DEF PipelineFails, Checkpoint, Typed, TypeOK, BeforeLoad
  <2>3. total' \in Nat
    BY <1>17, <2>1 DEF PipelineFails
  <2> QED BY <1>17, <2>1, <2>2, <2>3
          DEF PipelineFails, service, broker, Typed, TypeOK, Steps, BeforeLoad, InFile
<1>18. ASSUME NEW accepted \in BOOLEAN, NEW confirmed \in BOOLEAN,
          SendFileComplete(accepted, confirmed)
       PROVE  Typed'
  <2>1. fileCompletes' \in [Files -> Nat]
    BY <1>18 DEF SendFileComplete, Typed, TypeOK
  <2> QED BY <1>18, <2>1
          DEF SendFileComplete, service, Typed, TypeOK, Steps, BeforeLoad, InFile
<1>19. CASE MarkFile
  <2>1. cur \in Files /\ mem \in Marker /\ total \in Nat
    BY <1>19 DEF MarkFile, Typed, TypeOK, InFile, BeforeLoad
  <2>2. mem' \in Marker
    <3>1. CompleteFileProcessing(mem, cur, total) \in Marker
      BY <2>1, CompleteFileTyped
    <3> QED BY <1>19, <2>1, <3>1 DEF MarkFile
  <2>3. counts' \in [Files -> Count]
    BY <1>19, <2>1 DEF MarkFile, Count, Typed, TypeOK
  <2> QED BY <1>19, <2>1, <2>2, <2>3
          DEF MarkFile, broker, Typed, TypeOK, Steps, BeforeLoad, InFile
<1>20. CASE FilesDone
  BY <1>20 DEF FilesDone, locals, service, broker, Typed, TypeOK, Steps, BeforeLoad, InFile
<1>21. ASSUME NEW accepted \in SUBSET DataTypes, NEW confirmed \in SUBSET DataTypes,
          SendExtractionComplete(accepted, confirmed)
       PROVE  Typed'
  <2>1. ProcessingStartedAt \in Nat
    BY <1>21 DEF SendExtractionComplete, ProcessingStartedAt, Marker, Typed, TypeOK, BeforeLoad
  <2>2. extractionCompletes' \in [DataTypes -> [startedAt : Nat, counts : [Files -> Count]]]
    BY <1>21, <2>1 DEF SendExtractionComplete, Typed, TypeOK
  <2> QED BY <1>21, <2>2
          DEF SendExtractionComplete, service, Typed, TypeOK, Steps, BeforeLoad, InFile
<1>22. CASE SkipExtractionComplete
  BY <1>22 DEF SkipExtractionComplete, locals, service, broker, Typed, TypeOK, Steps,
           BeforeLoad, InFile
<1>23. CASE Finalize
  <2>1. disk' \in Marker
    BY <1>23, CompleteExtractionFacts DEF Finalize, Typed, BeforeLoad
  <2>2. status' \in {"Idle", "Running", "Completed", "Failed"}
    BY <1>23 DEF Finalize
  <2>3. Return("true") \/ Return("false")
    BY <1>23 DEF Finalize
  <2> QED BY <1>23, <2>1, <2>2, <2>3, ReturnTyped
          DEF Finalize, broker, Typed, TypeOK, BeforeLoad, InFile
<1>24. CASE SaveFails
  BY <1>24, ReturnTyped DEF SaveFails, service, broker, Typed, TypeOK, BeforeLoad, InFile
<1>25. CASE RequestShutdown
  BY <1>25 DEF RequestShutdown, locals, service, broker, Typed, TypeOK
<1>26. CASE Restart
  BY <1>26, NoneValues
     DEF Restart, ResetLocals, broker, Typed, TypeOK, Steps, BeforeLoad, InFile
<1>27. CASE UNCHANGED vars
  BY <1>27 DEF vars, locals, service, broker, Typed, TypeOK
<1> QED BY <1>1, <1>2, <1>3, <1>4, <1>5, <1>6, <1>7, <1>8, <1>9, <1>10, <1>11, <1>12,
           <1>13, <1>15, <1>16, <1>17, <1>18, <1>19, <1>20, <1>21, <1>22, <1>23, <1>24,
           <1>25, <1>26, <1>27
        DEF Next, RunStep

\* Every variable keeps its type in every behaviour of the extraction.
THEOREM TypeCorrect == Spec => []TypeOK
<1>1. Typed => TypeOK
  BY DEF Typed
<1> QED BY <1>1, InitTyped, NextTyped, PTL DEF Spec

--------------------------------------------------------------------------------
(***************************************************************************)
(* What keeps a marker sound                                               *)
(***************************************************************************)

\* NoMarker is a new marker that was never made; the facts both share.
LEMMA UnprocessedFacts ==
  ASSUME NEW m \in {NewMarker, NoMarker}
  PROVE  /\ m.processing = "Pending" /\ m.download = "Pending"
         /\ m.overall # "Completed"
         /\ m.startedAt = 0 /\ m.filesProcessed = 0
         /\ CompletedFiles(m) = {}
BY DEF NewMarker, NoMarker, NoEntry, CompletedFiles

\* A marker that claims no file and has not started is sound, whatever was sent.
LEMMA UnprocessedSound ==
  ASSUME NEW m \in {NewMarker, NoMarker}, NEW r, NEW s, NEW t \in Nat
  PROVE  SoundMarker(m, r, s, t)
BY UnprocessedFacts, FS_EmptySet DEF SoundMarker

\* The fields of a marker are of the types that the class of markers gives them.
LEMMA MarkerFields ==
  ASSUME NEW m \in Marker \cup {NoMarker}
  PROVE  m.startedAt \in Nat /\ m.filesProcessed \in Nat /\ CompletedFiles(m) \subseteq Files
BY UnprocessedFacts DEF Marker, CompletedFiles

\* A delivery of another file, a later signal and the passing of time leave a
\* sound marker sound.
LEMMA SoundKept ==
  ASSUME NEW m \in Marker \cup {NoMarker},
         NEW r1 \in [Files -> [run : Nat, records : Nat]], NEW s1 \in [Files -> Nat],
         NEW r2 \in [Files -> [run : Nat, records : Nat]], NEW s2 \in [Files -> Nat],
         NEW t1 \in Nat, NEW t2 \in Nat, t1 <= t2,
         \A f \in CompletedFiles(m) : r2[f] = r1[f] /\ s2[f] >= s1[f],
         SoundMarker(m, r1, s1, t1)
  PROVE  SoundMarker(m, r2, s2, t2)
<1>1. m.startedAt \in Nat /\ CompletedFiles(m) \subseteq Files
  BY MarkerFields
<1>2. \A f \in CompletedFiles(m) :
        /\ r2[f].run >= m.startedAt /\ s2[f] >= m.startedAt
        /\ r2[f].records = m.progress[f].records
  BY <1>1 DEF SoundMarker
<1>3. m.startedAt <= t2
  BY <1>1 DEF SoundMarker
<1> QED BY <1>2, <1>3 DEF SoundMarker

\* start_file_processing keeps a marker sound: it only opens a file.
LEMMA SoundStartFile ==
  ASSUME NEW m \in Marker, NEW f \in Files \ CompletedFiles(m),
         NEW r, NEW s, NEW t, SoundMarker(m, r, s, t)
  PROVE  SoundMarker(StartFileProcessing(m, f), r, s, t)
<1>1. CompletedFiles(StartFileProcessing(m, f)) = CompletedFiles(m)
  <2>1. CompletedFiles(StartFileProcessing(m, f)) = CompletedFiles(m) \ {f}
    BY StartFileFacts
  <2> QED BY <2>1
<1>2. CompletedFiles(m) \subseteq Files \ {f}
  BY DEF CompletedFiles
<1> QED BY <1>1, <1>2, StartFileFacts DEF SoundMarker

\* A checkpoint of a file that is not Completed keeps a marker sound.
LEMMA SoundUpdate ==
  ASSUME NEW m \in Marker, NEW f \in Files \ CompletedFiles(m), NEW n \in Nat,
         NEW r, NEW s, NEW t, SoundMarker(m, r, s, t)
  PROVE  SoundMarker(UpdateFileProgress(m, f, n), r, s, t)
<1> DEFINE new == UpdateFileProgress(m, f, n)
<1>1. CompletedFiles(m) \subseteq Files \ {f}
  BY DEF CompletedFiles
<1>2. /\ CompletedFiles(new) = CompletedFiles(m)
      /\ \A g \in CompletedFiles(m) : new.progress[g] = m.progress[g]
      /\ new.download = m.download /\ new.processing = m.processing
      /\ new.overall = m.overall /\ new.startedAt = m.startedAt
      /\ new.filesProcessed = m.filesProcessed
  BY <1>1, UpdateFacts
<1>3. \A g \in CompletedFiles(new) :
        /\ r[g].run >= new.startedAt /\ s[g] >= new.startedAt
        /\ r[g].records = new.progress[g].records
  BY <1>2 DEF SoundMarker
<1> QED BY <1>2, <1>3 DEF SoundMarker

\* The counter counts a file that was not completed, once.
LEMMA SoundComplete ==
  ASSUME NEW m \in Marker, NEW f \in Files \ CompletedFiles(m), NEW n \in Nat,
         m.progress[f].status # "Absent"
  PROVE  \A r, s, t :
           /\ SoundMarker(m, r, s, t)
           /\ m.processing = "InProgress"
           /\ r[f].run >= m.startedAt /\ s[f] >= m.startedAt /\ r[f].records = n
           => SoundMarker(CompleteFileProcessing(m, f, n), r, s, t)
<1> DEFINE new == CompleteFileProcessing(m, f, n)
<1>1. CompletedFiles(m) \subseteq Files \ {f}
  BY DEF CompletedFiles
<1>2. /\ CompletedFiles(new) = CompletedFiles(m) \cup {f}
      /\ new.progress[f].records = n
      /\ new.download = m.download /\ new.processing = m.processing
      /\ new.overall = m.overall /\ new.startedAt = m.startedAt
      /\ new.filesProcessed = m.filesProcessed + 1
  BY CompleteFileFacts
<1>3. \A g \in CompletedFiles(m) : new.progress[g] = m.progress[g]
  BY <1>1, CompleteFileFacts
<1>4. Cardinality(CompletedFiles(new)) = Cardinality(CompletedFiles(m)) + 1
  <2>1. IsFiniteSet(Files)
    BY FS_Subset
  <2>2. IsFiniteSet(CompletedFiles(m)) /\ f \notin CompletedFiles(m)
    BY <1>1, <2>1, FS_Subset
  <2> QED BY <1>2, <2>2, FS_AddElement
<1> SUFFICES ASSUME NEW r, NEW s, NEW t,
                SoundMarker(m, r, s, t),
                m.processing = "InProgress",
                r[f].run >= m.startedAt, s[f] >= m.startedAt, r[f].records = n
         PROVE  SoundMarker(new, r, s, t)
  OBVIOUS
<1> HIDE DEF new
<1>5. \A g \in CompletedFiles(new) :
        /\ r[g].run >= new.startedAt /\ s[g] >= new.startedAt
        /\ r[g].records = new.progress[g].records
  BY <1>2, <1>3 DEF SoundMarker
<1> QED BY <1>2, <1>4, <1>5 DEF SoundMarker

\* Entering the phase keeps a marker sound: one that is new starts now, one that
\* is resumed keeps its start.
LEMMA SoundEnterPhase ==
  ASSUME NEW m \in Marker, m.overall # "Completed", now \in Nat, now > 0,
         NEW r, NEW s, SoundMarker(m, r, s, now)
  PROVE  /\ SoundMarker(EnterPhase(m), r, s, now)
         /\ EnterPhase(m).processing = "InProgress"
<1>1. CASE m.processing = "Pending"
  <2>1. CompletedFiles(EnterPhase(m)) = {}
    BY <1>1, EnterPhaseFacts DEF SoundMarker
  <2> QED BY <1>1, <2>1, EnterPhaseFacts, FS_EmptySet DEF SoundMarker
<1>2. CASE m.processing # "Pending"
  BY <1>2, EnterPhaseFacts DEF SoundMarker
<1> QED BY <1>1, <1>2

\* Closing the phase and the version keeps a marker sound.
LEMMA SoundCompleteExtraction ==
  ASSUME NEW m \in Marker, NEW r, NEW s, NEW t, SoundMarker(m, r, s, t),
         m.processing = "InProgress"
  PROVE  SoundMarker(CompleteExtraction(m), r, s, t)
BY CompleteExtractionFacts DEF SoundMarker

--------------------------------------------------------------------------------
(***************************************************************************)
(* The inductive invariant                                                 *)
(***************************************************************************)

\* The invariant contains the typing that the lemmas on steps ask for.
LEMMA InvTyped == IInv => Typed
BY DEF IInv, Typed, TypeOK, MemoryAndDisk, FileUnderWay, BeforeLoad, InFile, AfterStart, Steps

\* The service starts in the invariant: nothing is saved and nothing was sent.
LEMMA InitInv == Init => IInv
<1> SUFFICES ASSUME Init PROVE IInv
  OBVIOUS
<1>1. TypeOK /\ now \in Nat
  BY InitTyped DEF Typed, TypeOK
<1>2. MarkersSound
  BY <1>1, UnprocessedSound DEF Init, MarkersSound
<1>3. /\ MemoryAndDisk /\ FileUnderWay /\ LoopSoFar
  BY DEF Init, MemoryAndDisk, FileUnderWay, LoopSoFar, BeforeLoad, AfterStart, InFile
<1>4. SentInThePast /\ PurgeSparesDelivered
  BY DEF Init, SentInThePast, PurgeSparesDelivered, BeforeStart, NoEvent
<1>5. CompletedIsAnnounced
  BY UnprocessedFacts DEF Init, CompletedIsAnnounced
<1> QED BY <1>1, <1>2, <1>3, <1>4, <1>5 DEF IInv

\* What speaks of the markers and the broker alone holds as long as they stay.
LEMMA QuietKept ==
  ASSUME IInv, UNCHANGED <<now, mem, disk, broker>>
  PROVE  MarkersSound' /\ CompletedIsAnnounced' /\ PurgeSparesDelivered'
BY DEF IInv, MarkersSound, CompletedIsAnnounced, PurgeSparesDelivered, broker

\* A run that ends, however it ends, leaves a sound disk behind.
LEMMA EndKept ==
  ASSUME IInv, Typed', pc' = "idle", mem' = NoMarker, UNCHANGED <<now, disk, broker>>
  PROVE  IInv'
<1>1. MarkersSound'
  <2>1. now \in Nat
    BY DEF IInv, TypeOK
  <2>2. SoundMarker(NoMarker, rows, fileCompletes, now)
    BY <2>1, UnprocessedSound
  <2> QED BY <2>2 DEF IInv, MarkersSound, broker
<1>2. CompletedIsAnnounced' /\ PurgeSparesDelivered'
  BY DEF IInv, CompletedIsAnnounced, PurgeSparesDelivered, broker
<1>3. MemoryAndDisk' /\ FileUnderWay' /\ LoopSoFar'
  BY DEF MemoryAndDisk, FileUnderWay, LoopSoFar, BeforeLoad, AfterStart, InFile
<1>4. SentInThePast'
  BY DEF IInv, SentInThePast, BeforeStart, broker
<1> QED BY <1>1, <1>2, <1>3, <1>4 DEF IInv, Typed

\* A checkpoint, saved or not, or none at all: the markers agree as before and
\* the file under way stays open in both.
LEMMA CheckpointKept ==
  ASSUME IInv, pc = "pipeline",
         \/ UNCHANGED <<mem, disk>>
         \/ \E n \in Nat : /\ mem' = UpdateFileProgress(mem, cur, n)
                           /\ disk' \in {disk, mem'}
  PROVE  /\ cur \in todo /\ cur \in Files /\ cur \notin CompletedFiles(mem)
         /\ SoundMarker(mem', rows, fileCompletes, now)
         /\ SoundMarker(disk', rows, fileCompletes, now)
         /\ mem' \in Marker /\ disk' \in Marker
         /\ mem'.processing = "InProgress" /\ disk'.processing = "InProgress"
         /\ mem'.startedAt = mem.startedAt /\ disk'.startedAt = mem.startedAt
         /\ disk'.filesProcessed = mem'.filesProcessed
         /\ CompletedFiles(mem') = CompletedFiles(mem)
         /\ CompletedFiles(disk') = CompletedFiles(mem)
         /\ \A f \in CompletedFiles(mem) : disk'.progress[f] = mem'.progress[f]
         /\ mem'.progress[cur].status = "InProgress"
         /\ disk'.progress[cur].status = "InProgress"
         /\ disk'.overall # "Completed"
<1>1. /\ mem \in Marker /\ disk \in Marker /\ cur \in todo /\ cur \in Files
      /\ mem.processing = "InProgress" /\ disk.processing = "InProgress"
      /\ disk.startedAt = mem.startedAt /\ disk.filesProcessed = mem.filesProcessed
      /\ CompletedFiles(disk) = CompletedFiles(mem)
      /\ \A f \in CompletedFiles(mem) : disk.progress[f] = mem.progress[f]
      /\ mem.progress[cur].status = "InProgress"
      /\ disk.progress[cur].status = "InProgress"
      /\ SoundMarker(mem, rows, fileCompletes, now)
      /\ SoundMarker(disk, rows, fileCompletes, now)
  BY InvTyped
     DEF IInv, Typed, MemoryAndDisk, FileUnderWay, MarkersSound, AfterStart, InFile
<1>2. cur \notin CompletedFiles(mem)
  BY <1>1 DEF CompletedFiles
<1>3. CASE UNCHANGED <<mem, disk>>
  <2>1. disk.overall # "Completed"
    BY <1>1 DEF SoundMarker
  <2> QED BY <1>1, <1>2, <1>3, <2>1
<1>4. ASSUME NEW n \in Nat,
         mem' = UpdateFileProgress(mem, cur, n), disk' \in {disk, mem'}
      PROVE  /\ SoundMarker(mem', rows, fileCompletes, now)
             /\ SoundMarker(disk', rows, fileCompletes, now)
             /\ mem' \in Marker /\ disk' \in Marker
             /\ mem'.processing = "InProgress" /\ disk'.processing = "InProgress"
             /\ mem'.startedAt = mem.startedAt /\ disk'.startedAt = mem.startedAt
             /\ disk'.filesProcessed = mem'.filesProcessed
             /\ CompletedFiles(mem') = CompletedFiles(mem)
             /\ CompletedFiles(disk') = CompletedFiles(mem)
             /\ \A f \in CompletedFiles(mem) : disk'.progress[f] = mem'.progress[f]
             /\ mem'.progress[cur].status = "InProgress"
             /\ disk'.progress[cur].status = "InProgress"
             /\ disk'.overall # "Completed"
  <2>1. SoundMarker(mem', rows, fileCompletes, now)
    BY <1>1, <1>2, <1>4, SoundUpdate
  <2>2. /\ mem' \in Marker
        /\ mem'.processing = mem.processing /\ mem'.startedAt = mem.startedAt
        /\ mem'.filesProcessed = mem.filesProcessed
        /\ CompletedFiles(mem') = CompletedFiles(mem)
        /\ mem'.progress[cur].status = mem.progress[cur].status
        /\ \A f \in Files \ {cur} : mem'.progress[f] = mem.progress[f]
    BY <1>1, <1>4, UpdateFacts
  <2>3. \A f \in CompletedFiles(mem) : mem'.progress[f] = mem.progress[f]
    BY <1>2, <2>2 DEF CompletedFiles
  <2>4. CASE disk' = disk
    BY <1>1, <2>1, <2>2, <2>3, <2>4 DEF SoundMarker
  <2>5. CASE disk' = mem'
    BY <1>1, <2>1, <2>2, <2>3, <2>5 DEF SoundMarker
  <2> QED BY <1>4, <2>4, <2>5
<1> QED BY <1>1, <1>2, <1>3, <1>4

\* Every step keeps the invariant.
LEMMA NextInv == IInv /\ [Next]_vars => IInv'
<1> SUFFICES ASSUME IInv, [Next]_vars PROVE IInv'
  OBVIOUS
<1>a. Typed /\ Typed' /\ TypeOK'
  BY InvTyped, NextTyped DEF Typed
<1> USE <1>a
<1> USE DEF BeforeLoad, BeforeStart, AfterStart, InFile
<1>1. CASE RefuseToStart
  <2>1. UNCHANGED <<now, mem, disk, broker>>
    BY <1>1 DEF RefuseToStart, locals
  <2> QED BY <1>1, <2>1, QuietKept
          DEF RefuseToStart, locals, broker, IInv, MemoryAndDisk, FileUnderWay,
              LoopSoFar, SentInThePast
<1>2. ASSUME NEW force \in BOOLEAN, Begin(force) PROVE IInv'
  <2>1. now \in Nat /\ now' = now + 1 /\ now' <= MaxRuns /\ mem' = NoMarker
    BY <1>2 DEF Begin, IInv, TypeOK, MemoryAndDisk
  <2>2. MarkersSound'
    <3>1. SoundMarker(disk, rows, fileCompletes, now')
      <4>1. /\ disk \in Marker \cup {NoMarker}
            /\ rows \in [Files -> [run : Nat, records : Nat]]
            /\ fileCompletes \in [Files -> Nat]
            /\ now' \in Nat /\ now <= now'
            /\ SoundMarker(disk, rows, fileCompletes, now)
        BY <2>1 DEF IInv, MarkersSound, TypeOK
      <4>2. \A f \in CompletedFiles(disk) : fileCompletes[f] >= fileCompletes[f]
        BY <4>1, MarkerFields
      <4> QED BY <2>1, <4>1, <4>2, SoundKept
    <3>2. SoundMarker(NoMarker, rows, fileCompletes, now')
      BY <2>1, UnprocessedSound
    <3> QED BY <1>2, <2>1, <3>1, <3>2 DEF Begin, broker, MarkersSound
  <2>3. CompletedIsAnnounced' /\ PurgeSparesDelivered'
    BY <1>2 DEF Begin, broker, IInv, CompletedIsAnnounced, PurgeSparesDelivered
  <2>4. MemoryAndDisk' /\ FileUnderWay' /\ LoopSoFar'
    BY <1>2, <2>1 DEF Begin, MemoryAndDisk, FileUnderWay, LoopSoFar
  <2>5. SentInThePast'
    <3>1. disk.startedAt \in Nat /\ disk.startedAt <= now
      BY MarkerFields DEF IInv, MarkersSound, SoundMarker, TypeOK
    <3>2. \A f \in Files : /\ rows[f].run \in Nat /\ rows[f].run <= now
                           /\ fileCompletes[f] \in Nat /\ fileCompletes[f] <= now
      BY DEF IInv, SentInThePast, TypeOK
    <3> QED BY <1>2, <2>1, <3>1, <3>2 DEF Begin, broker, SentInThePast
  <2> QED BY <2>2, <2>3, <2>4, <2>5 DEF IInv
<1>3. CASE DownloadLatest
  <2>1. PICK bytes : Download(bytes)
    BY <1>3 DEF DownloadLatest
  <2>2. CASE shutdown
    <3>1. pc' = "idle" /\ mem' = NoMarker /\ UNCHANGED <<now, disk, broker>>
      BY <2>1, <2>2 DEF Download, Return, ResetLocals
    <3> QED BY <3>1, EndKept
  <2>3. CASE ~shutdown
    <3>1. UNCHANGED <<now, mem, disk, broker>>
      BY <2>1, <2>3 DEF Download, locals
    <3> QED BY <2>1, <2>3, <3>1, QuietKept
            DEF Download, locals, broker, IInv, MemoryAndDisk, FileUnderWay, LoopSoFar,
                SentInThePast
  <2> QED BY <2>2, <2>3
<1>4. CASE PrerequisiteFails
  BY <1>4, EndKept DEF PrerequisiteFails, Return, ResetLocals
<1>5. CASE Discover
  <2>1. UNCHANGED <<now, mem, disk, broker>>
    BY <1>5 DEF Discover, locals
  <2> QED BY <1>5, <2>1, QuietKept
          DEF Discover, locals, broker, IInv, MemoryAndDisk, FileUnderWay, LoopSoFar,
              SentInThePast
<1>6. CASE DiscoverNothing
  BY <1>6, EndKept DEF DiscoverNothing, Return, ResetLocals
<1>7. ASSUME NEW readable \in BOOLEAN, LoadMarker(readable) PROVE IInv'
  <2> DEFINE loaded == Loaded(readable)
  <2>1. /\ loaded \in Marker
        /\ loaded = NewMarker \/ (loaded = disk /\ ~forced)
    BY NewMarkerFacts DEF Loaded, IInv, TypeOK
  <2>2. SoundMarker(loaded, rows, fileCompletes, now)
    <3>1. SoundMarker(NewMarker, rows, fileCompletes, now)
      BY UnprocessedSound DEF IInv, TypeOK
    <3> QED BY <2>1, <3>1 DEF IInv, MarkersSound
  <2> HIDE DEF loaded
  <2>3. CASE ShouldProcess(loaded) = "Skip"
    BY <1>7, <2>3, EndKept DEF LoadMarker, Return, ResetLocals, loaded
  <2>4. CASE ShouldProcess(loaded) # "Skip"
    <3>1. ShouldProcess(loaded) = "Continue" /\ loaded.overall # "Completed"
      BY <2>1, <2>2, <2>4, ShouldProcessFacts DEF SoundMarker
    <3>2. /\ pc = "load" /\ pc' = "connect" /\ mem' = loaded
          /\ UNCHANGED <<now, forced, disk, broker>>
      BY <1>7, <2>4, <3>1 DEF LoadMarker, loaded
    <3>3. MarkersSound' /\ CompletedIsAnnounced' /\ PurgeSparesDelivered'
      BY <2>2, <3>2
         DEF broker, IInv, MarkersSound, CompletedIsAnnounced, PurgeSparesDelivered
    <3>4. MemoryAndDisk' /\ FileUnderWay' /\ LoopSoFar'
      BY <2>1, <3>1, <3>2 DEF MemoryAndDisk, FileUnderWay, LoopSoFar
    <3>5. SentInThePast'
      BY <3>2 DEF broker, IInv, SentInThePast
    <3> QED BY <3>3, <3>4, <3>5 DEF IInv
  <2> QED BY <2>3, <2>4
<1>8. CASE Connect
  <2>1. UNCHANGED <<now, mem, disk, broker>>
    BY <1>8 DEF Connect, locals
  <2> QED BY <1>8, <2>1, QuietKept
          DEF Connect, locals, broker, IInv, MemoryAndDisk, FileUnderWay, LoopSoFar,
              SentInThePast
<1>9. CASE StartPhase
  <2>1. /\ pc = "start" /\ pc' = "map"
        /\ mem' = EnterPhase(mem) /\ disk' = EnterPhase(mem)
        /\ UNCHANGED <<now, forced, broker>>
    BY <1>9 DEF StartPhase
  <2>2. /\ mem \in Marker /\ now \in Nat /\ now > 0 /\ mem.overall # "Completed"
        /\ SoundMarker(mem, rows, fileCompletes, now)
    <3>1. disk.startedAt \in Nat /\ disk.startedAt < now /\ now \in Nat
      BY <2>1, MarkerFields DEF IInv, SentInThePast, TypeOK
    <3> QED BY <2>1, <3>1 DEF IInv, MemoryAndDisk, MarkersSound
  <2>3. /\ EnterPhase(mem) \in Marker
        /\ SoundMarker(EnterPhase(mem), rows, fileCompletes, now)
        /\ EnterPhase(mem).processing = "InProgress"
    BY <2>2, EnterPhaseFacts, SoundEnterPhase
  <2>4. EnterPhase(mem).overall # "Completed"
    BY <2>3 DEF SoundMarker
  <2>5. forced => EnterPhase(mem).startedAt = now
    BY <2>1, <2>2, EnterPhaseFacts, UnprocessedFacts DEF IInv, MemoryAndDisk
  <2>6. MarkersSound'
    BY <2>1, <2>3 DEF MarkersSound, broker
  <2>7. CompletedIsAnnounced' /\ PurgeSparesDelivered'
    BY <2>1, <2>4 DEF IInv, CompletedIsAnnounced, PurgeSparesDelivered, broker
  <2>8. MemoryAndDisk' /\ FileUnderWay' /\ LoopSoFar'
    BY <2>1, <2>3, <2>5 DEF MemoryAndDisk, FileUnderWay, LoopSoFar
  <2>9. SentInThePast'
    BY <2>1 DEF IInv, SentInThePast, broker
  <2> QED BY <2>6, <2>7, <2>8, <2>9 DEF IInv
<1>10. CASE BuildArtistMap
  <2>1. UNCHANGED <<now, mem, disk, broker>>
    BY <1>10 DEF BuildArtistMap
  <2> QED BY <1>10, <2>1, QuietKept
          DEF BuildArtistMap, broker, IInv, MemoryAndDisk, FileUnderWay, LoopSoFar,
              SentInThePast
<1>11. CASE StopBetweenFiles
  <2>1. UNCHANGED <<now, mem, disk, broker>>
    BY <1>11 DEF StopBetweenFiles
  <2> QED BY <1>11, <2>1, QuietKept
          DEF StopBetweenFiles, broker, IInv, MemoryAndDisk, FileUnderWay, LoopSoFar,
              SentInThePast
<1>12. ASSUME NEW f \in Files, SkipCompletedFile(f) PROVE IInv'
  <2>1. UNCHANGED <<now, mem, disk, broker>>
    BY <1>12 DEF SkipCompletedFile
  <2>2. MemoryAndDisk' /\ FileUnderWay' /\ SentInThePast'
    BY <1>12, <2>1
       DEF SkipCompletedFile, broker, IInv, MemoryAndDisk, FileUnderWay, SentInThePast
  <2>3. LoopSoFar'
    <3>1. /\ f \in CompletedFiles(mem)
          /\ rows[f].records = mem.progress[f].records
          /\ counts' = [counts EXCEPT ![f] = mem.progress[f].records]
          /\ todo' = todo \ {f}
          /\ pc = "loop" /\ UNCHANGED <<pc, success>>
          /\ counts \in [Files -> Count]
      BY <1>12 DEF SkipCompletedFile, IInv, MarkersSound, SoundMarker, TypeOK
    <3> QED BY <2>1, <3>1 DEF broker, IInv, LoopSoFar
  <2> QED BY <2>1, <2>2, <2>3, QuietKept DEF IInv
<1>13. ASSUME NEW f \in Files, StartFile(f) PROVE IInv'
  <2>1. /\ pc = "loop" /\ pc' = "pipeline"
        /\ f \in todo /\ f \notin CompletedFiles(mem) /\ cur' = f
        /\ mem \in Marker
        /\ mem' = StartFileProcessing(mem, f) /\ disk' = StartFileProcessing(mem, f)
        /\ fileOk' = TRUE
        /\ UNCHANGED <<now, forced, todo, success, counts, broker>>
    BY <1>13 DEF StartFile, IInv, MemoryAndDisk
  <2>2. /\ mem' \in Marker /\ mem'.processing = mem.processing
        /\ mem'.overall = mem.overall /\ mem'.startedAt = mem.startedAt
        /\ mem'.progress[f].status = "InProgress"
        /\ CompletedFiles(mem') = CompletedFiles(mem) \ {f}
    BY <2>1, StartFileFacts
  <2>3. CompletedFiles(mem') = CompletedFiles(mem)
    BY <2>1, <2>2
  <2>4. MarkersSound'
    <3>1. SoundMarker(mem', rows, fileCompletes, now)
      BY <2>1, SoundStartFile DEF IInv, MarkersSound
    <3> QED BY <2>1, <3>1 DEF MarkersSound, broker
  <2>5. CompletedIsAnnounced' /\ PurgeSparesDelivered'
    <3>1. disk'.overall # "Completed"
      BY <2>1, <2>2 DEF IInv, MemoryAndDisk, MarkersSound, SoundMarker
    <3> QED BY <2>1, <3>1 DEF IInv, CompletedIsAnnounced, PurgeSparesDelivered, broker
  <2>6. MemoryAndDisk' /\ FileUnderWay'
    BY <2>1, <2>2 DEF IInv, MemoryAndDisk, FileUnderWay
  <2>7. LoopSoFar'
    BY <2>1, <2>3 DEF IInv, LoopSoFar, broker
  <2>8. SentInThePast'
    BY <2>1 DEF IInv, SentInThePast, broker
  <2> QED BY <2>4, <2>5, <2>6, <2>7, <2>8 DEF IInv
<1>15. CASE TakeRecord
  <2>1. /\ pc = "pipeline" /\ pc' = pc
        /\ UNCHANGED <<now, forced, todo, cur, fileOk, success, counts, broker>>
    BY <1>15 DEF TakeRecord
  <2>2. \/ UNCHANGED <<mem, disk>>
        \/ \E n \in Nat : /\ mem' = UpdateFileProgress(mem, cur, n)
                          /\ disk' \in {disk, mem'}
    BY <1>15 DEF TakeRecord, Checkpoint, TypeOK
  <2> QED BY <2>1, <2>2, CheckpointKept
          DEF broker, IInv, MarkersSound, MemoryAndDisk, FileUnderWay, LoopSoFar,
              SentInThePast, CompletedIsAnnounced, PurgeSparesDelivered
<1>16. CASE PipelineSucceeds
  <2>1. /\ pc = "pipeline" /\ pc' = "fileComplete"
        /\ cur \in Files /\ now \in Nat /\ total' = dump[cur]
        /\ rows' = [rows EXCEPT ![cur] = [run |-> now, records |-> dump[cur]]]
        /\ UNCHANGED <<now, forced, todo, cur, fileOk, success, counts,
                       fileCompletes, extractionCompletes>>
    BY <1>16 DEF PipelineSucceeds, Typed, TypeOK
  <2>2. \E n \in Nat : mem' = UpdateFileProgress(mem, cur, n) /\ disk' \in {disk, mem'}
    BY <1>16 DEF PipelineSucceeds, Checkpoint, Typed, TypeOK
  <2>3. /\ cur \in todo /\ cur \notin CompletedFiles(mem)
        /\ SoundMarker(mem', rows, fileCompletes, now)
        /\ SoundMarker(disk', rows, fileCompletes, now)
        /\ mem' \in Marker /\ disk' \in Marker
        /\ mem'.processing = "InProgress" /\ disk'.processing = "InProgress"
        /\ mem'.startedAt = mem.startedAt /\ disk'.startedAt = mem.startedAt
        /\ disk'.filesProcessed = mem'.filesProcessed
        /\ CompletedFiles(mem') = CompletedFiles(mem)
        /\ CompletedFiles(disk') = CompletedFiles(mem)
        /\ \A f \in CompletedFiles(mem) : disk'.progress[f] = mem'.progress[f]
        /\ mem'.progress[cur].status = "InProgress"
        /\ disk'.progress[cur].status = "InProgress"
        /\ disk'.overall # "Completed"
    BY <2>1, <2>2, CheckpointKept
  <2>4. /\ rows \in [Files -> [run : Nat, records : Nat]]
        /\ rows' \in [Files -> [run : Nat, records : Nat]]
        /\ fileCompletes \in [Files -> Nat]
        /\ extractionCompletes \in [DataTypes -> [startedAt : Nat, counts : [Files -> Count]]]
    BY DEF Typed, TypeOK
  <2>5. /\ rows'[cur].run = now /\ rows'[cur].records = dump[cur]
        /\ rows'[cur] = [run |-> now, records |-> dump[cur]]
        /\ \A f \in Files \ {cur} : rows'[f] = rows[f]
    BY <2>1, <2>4
  <2>6. MarkersSound'
    <3>1. now \in Nat /\ now <= now
      BY <2>1
    <3>2. /\ \A f \in CompletedFiles(mem') : rows'[f] = rows[f]
          /\ \A f \in CompletedFiles(disk') : rows'[f] = rows[f]
          /\ \A f \in Files : fileCompletes[f] >= fileCompletes[f]
      BY <2>3, <2>4, <2>5 DEF CompletedFiles
    <3>3. /\ \A f \in CompletedFiles(mem') : fileCompletes[f] >= fileCompletes[f]
          /\ \A f \in CompletedFiles(disk') : fileCompletes[f] >= fileCompletes[f]
      BY <3>2 DEF CompletedFiles
    <3> HIDE <1>a
    <3>4. SoundMarker(mem', rows', fileCompletes, now)
      BY <2>3, <2>4, <3>1, <3>2, <3>3, SoundKept
    <3>5. SoundMarker(disk', rows', fileCompletes, now)
      BY <2>3, <2>4, <3>1, <3>2, <3>3, SoundKept
    <3> QED BY <2>1, <3>4, <3>5 DEF MarkersSound
  <2>7. MemoryAndDisk'
    BY <2>1, <2>3 DEF IInv, MemoryAndDisk
  <2>8. FileUnderWay'
    BY <2>1, <2>3, <2>5 DEF IInv, FileUnderWay
  <2>9. LoopSoFar'
    BY <2>1, <2>3, <2>5 DEF IInv, LoopSoFar
  <2>10. SentInThePast'
    BY <2>1, <2>5 DEF IInv, SentInThePast
  <2>11. CompletedIsAnnounced'
    BY <2>3 DEF CompletedIsAnnounced
  <2>12. PurgeSparesDelivered'
    <3>1. \A t \in DataTypes : extractionCompletes[t].startedAt <= now
      <4>1. \A t \in DataTypes : /\ rows[cur].run >= extractionCompletes[t].startedAt
                                 /\ rows[cur].run <= now
        BY <2>1 DEF IInv, PurgeSparesDelivered, SentInThePast
      <4> QED BY <2>1, <2>4, <4>1
    <3> QED BY <2>1, <2>4, <2>5, <3>1 DEF IInv, PurgeSparesDelivered
  <2> QED BY <2>6, <2>7, <2>8, <2>9, <2>10, <2>11, <2>12 DEF IInv
<1>17. CASE PipelineFails
  <2>1. /\ pc = "pipeline" /\ pc' = "mark" /\ ~fileOk' /\ ~success'
        /\ UNCHANGED <<now, forced, todo, cur, counts, broker>>
    BY <1>17 DEF PipelineFails
  <2>2. \/ UNCHANGED <<mem, disk>>
        \/ \E n \in Nat : /\ mem' = UpdateFileProgress(mem, cur, n)
                          /\ disk' \in {disk, mem'}
    BY <1>17 DEF PipelineFails, Checkpoint, TypeOK, Typed
  <2> QED BY <2>1, <2>2, CheckpointKept
          DEF broker, IInv, MarkersSound, MemoryAndDisk, FileUnderWay, LoopSoFar,
              SentInThePast, CompletedIsAnnounced, PurgeSparesDelivered
<1>18. ASSUME NEW accepted \in BOOLEAN, NEW confirmed \in BOOLEAN,
          SendFileComplete(accepted, confirmed)
       PROVE  IInv'
  <2>1. /\ pc = "fileComplete" /\ pc' = "mark" /\ (confirmed => accepted)
        /\ cur \in Files /\ now \in Nat
        /\ fileCompletes' = IF accepted THEN [fileCompletes EXCEPT ![cur] = now]
                                        ELSE fileCompletes
        /\ fileOk' = confirmed /\ success' = (success /\ confirmed)
        /\ UNCHANGED <<now, forced, mem, todo, cur, total, counts, disk, rows,
                       extractionCompletes>>
    BY <1>18 DEF SendFileComplete, Typed, TypeOK
  <2>2. /\ mem \in Marker /\ disk \in Marker
        /\ rows \in [Files -> [run : Nat, records : Nat]]
        /\ fileCompletes \in [Files -> Nat] /\ fileCompletes' \in [Files -> Nat]
        /\ extractionCompletes \in [DataTypes -> [startedAt : Nat, counts : [Files -> Count]]]
    BY <2>1 DEF Typed, TypeOK, IInv, MemoryAndDisk
  <2>3. \A f \in Files : fileCompletes'[f] >= fileCompletes[f] /\ fileCompletes'[f] <= now
    BY <2>1, <2>2 DEF IInv, SentInThePast
  <2>4. MarkersSound'
    <3>1. CompletedFiles(mem) \subseteq Files /\ CompletedFiles(disk) \subseteq Files
      BY DEF CompletedFiles
    <3>2. SoundMarker(mem, rows, fileCompletes', now)
      BY <2>1, <2>2, <2>3, <3>1, SoundKept DEF IInv, MarkersSound
    <3>3. SoundMarker(disk, rows, fileCompletes', now)
      BY <2>1, <2>2, <2>3, <3>1, SoundKept DEF IInv, MarkersSound
    <3> QED BY <2>1, <3>2, <3>3 DEF MarkersSound
  <2>5. MemoryAndDisk'
    BY <2>1 DEF IInv, MemoryAndDisk
  <2>6. FileUnderWay'
    BY <2>1, <2>2 DEF IInv, FileUnderWay
  <2>7. LoopSoFar'
    BY <2>1 DEF IInv, LoopSoFar
  <2>8. SentInThePast'
    BY <2>1, <2>3 DEF IInv, SentInThePast
  <2>9. CompletedIsAnnounced'
    BY <2>1 DEF IInv, CompletedIsAnnounced
  <2>10. PurgeSparesDelivered'
    BY <2>1, <2>2, <2>3 DEF IInv, PurgeSparesDelivered
  <2> QED BY <2>4, <2>5, <2>6, <2>7, <2>8, <2>9, <2>10 DEF IInv
<1>19. CASE MarkFile
  <2>1. /\ pc = "mark" /\ pc' = "loop"
        /\ cur \in Files /\ cur \in todo /\ total \in Nat /\ now \in Nat
        /\ mem \in Marker /\ disk' = mem'
        /\ counts \in [Files -> Count]
        /\ counts' = [counts EXCEPT ![cur] = total]
        /\ todo' = todo \ {cur} /\ todo \subseteq Files
        /\ mem.processing = "InProgress" /\ mem.progress[cur].status = "InProgress"
        /\ UNCHANGED <<now, forced, success, broker>>
    BY <1>19 DEF MarkFile, Typed, TypeOK, IInv, MemoryAndDisk, FileUnderWay
  <2>2. cur \notin CompletedFiles(mem)
    BY <2>1 DEF CompletedFiles
  <2>3. /\ mem' \in Marker
        /\ SoundMarker(mem', rows, fileCompletes, now)
        /\ mem'.processing = "InProgress" /\ mem'.startedAt = mem.startedAt
        /\ success => CompletedFiles(mem') = CompletedFiles(mem) \cup {cur}
        /\ success => total = rows[cur].records
    <3>1. CASE ~fileOk
      BY <1>19, <2>1, <3>1 DEF MarkFile, IInv, MarkersSound, FileUnderWay
    <3>2. CASE fileOk
      <4>1. mem' = CompleteFileProcessing(mem, cur, total)
        BY <1>19, <3>2 DEF MarkFile
      <4>2. /\ mem' \in Marker
            /\ mem'.processing = "InProgress" /\ mem'.startedAt = mem.startedAt
            /\ CompletedFiles(mem') = CompletedFiles(mem) \cup {cur}
        BY <2>1, <4>1, CompleteFileFacts
      <4>3. /\ SoundMarker(mem, rows, fileCompletes, now)
            /\ rows[cur].run = now /\ rows[cur].records = total
            /\ fileCompletes[cur] = now
        BY <2>1, <3>2 DEF IInv, MarkersSound, FileUnderWay
      <4>4. mem.startedAt \in Nat /\ mem.startedAt <= now
        BY <2>1, <4>3 DEF SoundMarker, Marker
      <4>5. SoundMarker(CompleteFileProcessing(mem, cur, total), rows, fileCompletes, now)
        BY <2>1, <2>2, <4>3, <4>4, SoundComplete
      <4> QED BY <4>1, <4>2, <4>3, <4>5
    <3> QED BY <3>1, <3>2
  <2>4. mem'.overall # "Completed"
    BY <2>3 DEF SoundMarker
  <2>5. MarkersSound'
    BY <2>1, <2>3 DEF MarkersSound, broker
  <2>6. MemoryAndDisk'
    BY <2>1, <2>3 DEF IInv, MemoryAndDisk
  <2>7. FileUnderWay'
    BY <2>1 DEF FileUnderWay
  <2>8. LoopSoFar'
    BY <2>1, <2>3 DEF IInv, LoopSoFar, broker
  <2>9. SentInThePast'
    BY <2>1 DEF IInv, SentInThePast, broker
  <2>10. CompletedIsAnnounced' /\ PurgeSparesDelivered'
    BY <2>1, <2>4 DEF IInv, CompletedIsAnnounced, PurgeSparesDelivered, broker
  <2> QED BY <2>5, <2>6, <2>7, <2>8, <2>9, <2>10 DEF IInv
<1>20. CASE FilesDone
  <2>1. UNCHANGED <<now, mem, disk, broker>>
    BY <1>20 DEF FilesDone, locals
  <2> QED BY <1>20, <2>1, QuietKept
          DEF FilesDone, locals, broker, IInv, MemoryAndDisk, FileUnderWay, LoopSoFar,
              SentInThePast
<1>21. ASSUME NEW accepted \in SUBSET DataTypes, NEW confirmed \in SUBSET DataTypes,
          SendExtractionComplete(accepted, confirmed)
       PROVE  IInv'
  <2>1. /\ pc = "announce" /\ pc' = "finalize" /\ success /\ confirmed \subseteq accepted
        /\ success' = (confirmed = DataTypes)
        /\ UNCHANGED <<now, forced, mem, todo, cur, total, fileOk, counts, disk, rows,
                       fileCompletes>>
    BY <1>21 DEF SendExtractionComplete
  <2>2. /\ mem \in Marker /\ mem.startedAt \in Nat /\ mem.startedAt > 0
        /\ ProcessingStartedAt = mem.startedAt
        /\ disk.overall # "Completed"
    <3>1. /\ mem \in Marker /\ mem.processing = "InProgress"
          /\ disk.processing = "InProgress"
          /\ SoundMarker(mem, rows, fileCompletes, now)
          /\ SoundMarker(disk, rows, fileCompletes, now)
      BY <2>1 DEF IInv, MemoryAndDisk, MarkersSound
    <3> QED BY <3>1 DEF SoundMarker, Marker, ProcessingStartedAt
  <2> DEFINE event == [startedAt |-> mem.startedAt, counts |-> counts]
  <2>3. /\ extractionCompletes' =
             [t \in DataTypes |-> IF t \in accepted THEN event ELSE extractionCompletes[t]]
        /\ event.startedAt = mem.startedAt
    BY <1>21, <2>2 DEF SendExtractionComplete
  <2>4. MarkersSound' /\ MemoryAndDisk' /\ FileUnderWay' /\ SentInThePast'
    BY <2>1 DEF IInv, MarkersSound, MemoryAndDisk, FileUnderWay, SentInThePast
  <2>5. LoopSoFar'
    <3>1. success' => \A t \in DataTypes : extractionCompletes'[t] = event
      BY <2>1, <2>3
    <3> QED BY <2>1, <3>1 DEF IInv, LoopSoFar
  <2>6. CompletedIsAnnounced'
    BY <2>1, <2>2 DEF CompletedIsAnnounced
  <2>7. PurgeSparesDelivered'
    <3>1. \A f \in Files : /\ rows[f].run >= mem.startedAt
                           /\ fileCompletes[f] >= mem.startedAt
      BY <2>1 DEF IInv, LoopSoFar, MarkersSound, SoundMarker
    <3> HIDE DEF event
    <3>2. \A t \in DataTypes :
             extractionCompletes'[t].startedAt \in {mem.startedAt, extractionCompletes[t].startedAt}
      BY <2>3
    <3> QED BY <2>1, <3>1, <3>2 DEF IInv, PurgeSparesDelivered
  <2> QED BY <2>4, <2>5, <2>6, <2>7 DEF IInv
<1>22. CASE SkipExtractionComplete
  <2>1. UNCHANGED <<now, mem, disk, broker>>
    BY <1>22 DEF SkipExtractionComplete, locals
  <2> QED BY <1>22, <2>1, QuietKept
          DEF SkipExtractionComplete, locals, broker, IInv, MemoryAndDisk, FileUnderWay,
              LoopSoFar, SentInThePast
<1>23. CASE Finalize
  <2>1. /\ pc = "finalize" /\ pc' = "idle" /\ mem' = NoMarker
        /\ disk' = IF success THEN CompleteExtraction(mem) ELSE mem
        /\ UNCHANGED <<now, broker>> /\ now \in Nat
    BY <1>23 DEF Finalize, Return, ResetLocals, Typed, TypeOK
  <2>2. /\ mem \in Marker /\ mem.processing = "InProgress"
        /\ SoundMarker(mem, rows, fileCompletes, now)
    BY <2>1 DEF IInv, MemoryAndDisk, MarkersSound
  <2>3. SoundMarker(disk', rows, fileCompletes, now)
    BY <2>1, <2>2, SoundCompleteExtraction
  <2>4. MarkersSound'
    <3>1. SoundMarker(NoMarker, rows, fileCompletes, now)
      BY <2>1, UnprocessedSound
    <3> QED BY <2>1, <2>3, <3>1 DEF MarkersSound, broker
  <2>5. MemoryAndDisk' /\ FileUnderWay' /\ LoopSoFar' /\ SentInThePast'
    BY <2>1 DEF IInv, MemoryAndDisk, FileUnderWay, LoopSoFar, SentInThePast, broker
  <2>6. PurgeSparesDelivered'
    BY <2>1 DEF IInv, PurgeSparesDelivered, broker
  <2>7. CompletedIsAnnounced'
    <3>1. CASE ~success
      BY <2>1, <2>2, <3>1 DEF SoundMarker, CompletedIsAnnounced
    <3>2. CASE success
      <4>1. /\ disk'.startedAt = mem.startedAt
            /\ CompletedFiles(disk') = CompletedFiles(mem)
        BY <2>1, <2>2, <3>2, CompleteExtractionFacts
      <4>2. CompletedFiles(mem) = Files
        BY <2>1, <3>2 DEF IInv, LoopSoFar, CompletedFiles
      <4>3. counts = [f \in Files |-> rows[f].records]
        <5>1. \A f \in Files : counts[f] = rows[f].records
          BY <2>1, <3>2 DEF IInv, LoopSoFar
        <5>2. counts \in [Files -> Count]
          BY DEF IInv, TypeOK
        <5> QED BY <5>1, <5>2
      <4>4. \A t \in DataTypes :
              extractionCompletes[t] = [startedAt |-> mem.startedAt, counts |-> counts]
        BY <2>1, <3>2 DEF IInv, LoopSoFar
      <4> QED BY <2>1, <4>1, <4>2, <4>3, <4>4 DEF CompletedIsAnnounced, broker
    <3> QED BY <3>1, <3>2
  <2> QED BY <2>4, <2>5, <2>6, <2>7 DEF IInv
<1>24. CASE SaveFails
  BY <1>24, EndKept DEF SaveFails, Return, ResetLocals
<1>25. CASE RequestShutdown
  <2>1. UNCHANGED <<now, mem, disk, broker>>
    BY <1>25 DEF RequestShutdown, locals
  <2> QED BY <1>25, <2>1, QuietKept
          DEF RequestShutdown, locals, broker, IInv, MemoryAndDisk, FileUnderWay,
              LoopSoFar, SentInThePast
<1>26. CASE Restart
  BY <1>26, EndKept DEF Restart, ResetLocals
<1>27. CASE UNCHANGED vars
  <2>1. UNCHANGED <<now, mem, disk, broker>>
    BY <1>27 DEF vars, locals
  <2> QED BY <1>27, <2>1, QuietKept
          DEF vars, locals, broker, IInv, MemoryAndDisk, FileUnderWay, LoopSoFar,
              SentInThePast
<1> QED BY <1>1, <1>2, <1>3, <1>4, <1>5, <1>6, <1>7, <1>8, <1>9, <1>10, <1>11, <1>12,
           <1>13, <1>15, <1>16, <1>17, <1>18, <1>19, <1>20, <1>21, <1>22, <1>23, <1>24,
           <1>25, <1>26, <1>27
        DEF Next, RunStep

--------------------------------------------------------------------------------
(***************************************************************************)
(* The results                                                             *)
(***************************************************************************)

\* IInv holds in every state of every behaviour, for any number of runs, files
\* and exchanges.
THEOREM Invariance == Spec => []IInv
<1> QED BY InitInv, NextInv, PTL DEF Spec

\* What the saved marker claims Completed was delivered and signalled since the
\* start that the marker holds, with the count that it holds.
THEOREM CompletedDelivered == Spec => []CompletedIsDelivered
<1>1. IInv => CompletedIsDelivered
  BY DEF IInv, MarkersSound, SoundMarker, CompletedIsDelivered
<1> QED BY <1>1, Invariance, PTL

\* A version that later runs skip is announced on every exchange.
THEOREM CompletedAnnounced == Spec => []CompletedIsAnnounced
<1>1. IInv => CompletedIsAnnounced
  BY DEF IInv
<1> QED BY <1>1, Invariance, PTL

\* A consumer that purges what is older than started_at keeps every delivery.
THEOREM PurgeSafe == Spec => []PurgeSparesDelivered
<1>1. IInv => PurgeSparesDelivered
  BY DEF IInv
<1> QED BY <1>1, Invariance, PTL

\* files_processed counts the completed files, whatever failed on the way.
THEOREM FilesProcessedExact == Spec => []FilesProcessedIsExact
<1>1. IInv => FilesProcessedIsExact
  BY DEF IInv, MarkersSound, SoundMarker, FilesProcessedIsExact
<1> QED BY <1>1, Invariance, PTL

\* Which step may deliver a file, and which may announce the end.
LEMMA BrokerSteps ==
  ASSUME [Next]_vars
  PROVE  /\ rows' # rows => PipelineSucceeds
         /\ extractionCompletes' # extractionCompletes =>
              \E accepted, confirmed \in SUBSET DataTypes :
                SendExtractionComplete(accepted, confirmed)
<1>1. \/ UNCHANGED rows
      \/ PipelineSucceeds
  BY DEF Next, RunStep, vars, broker, RefuseToStart, Begin, DownloadLatest,
         Download, PrerequisiteFails, Discover, DiscoverNothing, LoadMarker, Connect,
         StartPhase, BuildArtistMap, StopBetweenFiles, SkipCompletedFile, StartFile,
         TakeRecord, PipelineFails, SendFileComplete, MarkFile, FilesDone,
         SendExtractionComplete, SkipExtractionComplete, Finalize, SaveFails,
         RequestShutdown, Restart
<1>2. \/ UNCHANGED extractionCompletes
      \/ \E accepted, confirmed \in SUBSET DataTypes :
           SendExtractionComplete(accepted, confirmed)
  BY DEF Next, RunStep, vars, broker, RefuseToStart, Begin, DownloadLatest,
         Download, PrerequisiteFails, Discover, DiscoverNothing, LoadMarker, Connect,
         StartPhase, BuildArtistMap, StopBetweenFiles, SkipCompletedFile, StartFile,
         TakeRecord, PipelineSucceeds, PipelineFails, SendFileComplete, MarkFile,
         FilesDone, SkipExtractionComplete, Finalize, SaveFails, RequestShutdown, Restart
<1> QED BY <1>1, <1>2

\* While a run is under way its result is not known.
ResultPending == pc # "idle" => result = "none"

\* A run has no result before it returns.
LEMMA ResultPendingHolds == Spec => []ResultPending
<1>1. Init => ResultPending
  BY DEF Init, ResultPending
<1>2. ResultPending /\ [Next]_vars => ResultPending'
  BY DEF ResultPending, Next, RunStep, vars, locals, service, broker, RefuseToStart, Begin,
         DownloadLatest, Download, PrerequisiteFails, Discover, DiscoverNothing, LoadMarker,
         Connect, Return, StartPhase, BuildArtistMap, StopBetweenFiles, SkipCompletedFile,
         StartFile, TakeRecord, PipelineSucceeds, PipelineFails, SendFileComplete, MarkFile,
         FilesDone, SendExtractionComplete, SkipExtractionComplete, Finalize, SaveFails,
         RequestShutdown, Restart
<1> QED BY <1>1, <1>2, PTL DEF Spec

\* Past the discovery, a run returns true when the marker says Skip, or at its end.
LEMMA SuccessSteps ==
  ASSUME [Next]_vars, ResultPending, result' = "true", pc \notin {"idle", "discover"}
  PROVE  \/ Finalize /\ success
         \/ \E readable \in BOOLEAN :
              LoadMarker(readable) /\ ShouldProcess(Loaded(readable)) = "Skip"
<1>1. result # "true"
  BY DEF ResultPending
<1>2. \/ Finalize \/ \E readable \in BOOLEAN : LoadMarker(readable)
  BY <1>1
     DEF Next, RunStep, vars, locals, service, broker, RefuseToStart, Begin,
         DownloadLatest, Download, PrerequisiteFails, Discover, DiscoverNothing, Connect,
         Return, StartPhase, BuildArtistMap, StopBetweenFiles, SkipCompletedFile,
         StartFile, TakeRecord, PipelineSucceeds, PipelineFails, SendFileComplete, MarkFile,
         FilesDone, SendExtractionComplete, SkipExtractionComplete, SaveFails,
         RequestShutdown, Restart
<1>3. Finalize => success
  BY DEF Finalize, Return
<1>4. ASSUME NEW readable \in BOOLEAN, LoadMarker(readable)
      PROVE  ShouldProcess(Loaded(readable)) = "Skip"
  BY <1>1, <1>4 DEF LoadMarker
<1> QED BY <1>2, <1>3, <1>4

\* While the counts of the run stand for success, they are those delivered.
LEMMA CountsSoFar ==
  ASSUME IInv, pc \in {"announce", "finalize"}, success
  PROVE  /\ CompletedFiles(mem) = Files
         /\ counts = [f \in Files |-> rows[f].records]
<1>1. \A f \in Files : f \in CompletedFiles(mem) /\ counts[f] = rows[f].records
  BY DEF IInv, LoopSoFar, AfterStart
<1>2. counts \in [Files -> Count]
  BY DEF IInv, TypeOK
<1>3. counts = [f \in Files |-> rows[f].records]
  BY <1>1, <1>2
<1> QED BY <1>1, <1>3 DEF CompletedFiles

\* No step rewrites the rows of a file that the saved marker has not reopened.
THEOREM ReopenedBeforeDelivery == Spec => MarkerReopenedBeforeDelivery
<1> DEFINE Step == \A f \in Files : rows'[f] # rows[f] =>
                                      disk.progress[f].status = "InProgress"
<1>1. IInv /\ [Next]_vars => Step
  <2> SUFFICES ASSUME IInv, [Next]_vars, NEW f \in Files, rows'[f] # rows[f]
               PROVE  disk.progress[f].status = "InProgress"
    OBVIOUS
  <2>1. PipelineSucceeds
    BY BrokerSteps
  <2>2. /\ pc = "pipeline" /\ rows \in [Files -> [run : Nat, records : Nat]]
        /\ rows' = [rows EXCEPT ![cur] = [run |-> now, records |-> dump[cur]]]
    BY <2>1 DEF PipelineSucceeds, IInv, TypeOK
  <2>3. f = cur
    BY <2>2
  <2> QED BY <2>2, <2>3 DEF IInv, FileUnderWay, InFile
<1> QED BY <1>1, Invariance, PTL DEF MarkerReopenedBeforeDelivery, Spec

\* An announcement has the count of every file, and it is the count delivered.
THEOREM AnnouncedCounts == Spec => AnnouncedCountsAreDelivered
<1> DEFINE Step == \A t \in DataTypes :
                     extractionCompletes'[t] # extractionCompletes[t] =>
                       extractionCompletes'[t].counts = [f \in Files |-> rows[f].records]
<1>1. IInv /\ [Next]_vars => Step
  <2> SUFFICES ASSUME IInv, [Next]_vars, NEW t \in DataTypes,
                      extractionCompletes'[t] # extractionCompletes[t]
               PROVE  extractionCompletes'[t].counts = [f \in Files |-> rows[f].records]
    OBVIOUS
  <2>1. PICK accepted, confirmed \in SUBSET DataTypes :
           SendExtractionComplete(accepted, confirmed)
    BY BrokerSteps
  <2>2. pc = "announce" /\ success
    BY <2>1 DEF SendExtractionComplete
  <2>3. extractionCompletes'[t].counts = counts
    BY <2>1 DEF SendExtractionComplete
  <2> QED BY <2>2, <2>3, CountsSoFar
<1> QED BY <1>1, Invariance, PTL DEF AnnouncedCountsAreDelivered, Spec

\* A forced run that returns true has delivered and signalled every file itself.
THEOREM ForcedRedelivers == Spec => ForcedRunRedelivers
<1> DEFINE Step == forced /\ result' = "true" /\ pc \notin {"idle", "discover"} =>
                     \A f \in Files : rows[f].run = now /\ fileCompletes[f] = now
<1>1. IInv /\ ResultPending /\ [Next]_vars => Step
  <2> SUFFICES ASSUME IInv, ResultPending, [Next]_vars, forced, result' = "true",
                      pc \notin {"idle", "discover"}, NEW f \in Files
               PROVE  rows[f].run = now /\ fileCompletes[f] = now
    OBVIOUS
  <2>1. ASSUME NEW readable \in BOOLEAN PROVE ShouldProcess(Loaded(readable)) # "Skip"
    <3>1. Loaded(readable) = NewMarker
      BY DEF Loaded
    <3> QED BY <3>1, NewMarkerFacts, UnprocessedFacts, ShouldProcessFacts
  <2>2. pc = "finalize" /\ success
    BY <2>1, SuccessSteps DEF Finalize
  <2>3. f \in CompletedFiles(mem) /\ mem.startedAt = now
    BY <2>2, CountsSoFar DEF IInv, MemoryAndDisk, AfterStart
  <2>4. rows[f].run >= now /\ fileCompletes[f] >= now
    BY <2>3 DEF IInv, MarkersSound, SoundMarker
  <2>5. /\ rows[f].run <= now /\ fileCompletes[f] <= now
        /\ rows[f].run \in Nat /\ fileCompletes[f] \in Nat /\ now \in Nat
    BY DEF IInv, SentInThePast, TypeOK
  <2> QED BY <2>4, <2>5
<1> QED BY <1>1, Invariance, ResultPendingHolds, PTL DEF ForcedRunRedelivers, Spec

\* A run that returns true leaves a marker that the next run will skip.
THEOREM SuccessDurable == Spec => SuccessIsDurable
<1> DEFINE Step == result' = "true" /\ pc \notin {"idle", "discover"} =>
                     disk'.overall = "Completed"
<1>1. IInv /\ ResultPending /\ [Next]_vars => Step
  <2> SUFFICES ASSUME IInv, ResultPending, [Next]_vars, result' = "true",
                      pc \notin {"idle", "discover"}
               PROVE  disk'.overall = "Completed"
    OBVIOUS
  <2>1. CASE Finalize /\ success
    <3>1. mem \in Marker
      BY <2>1 DEF Finalize, IInv, MemoryAndDisk, AfterStart
    <3> QED BY <2>1, <3>1, CompleteExtractionFacts DEF Finalize
  <2>2. ASSUME NEW readable \in BOOLEAN, LoadMarker(readable),
               ShouldProcess(Loaded(readable)) = "Skip"
        PROVE  disk'.overall = "Completed"
    <3>1. Loaded(readable) \in Marker /\ Loaded(readable).download = "Pending"
      BY NewMarkerFacts, UnprocessedFacts
         DEF Loaded, IInv, TypeOK, MarkersSound, SoundMarker
    <3>2. Loaded(readable).overall = "Completed"
      BY <2>2, <3>1, ShouldProcessFacts
    <3>3. Loaded(readable) = disk
      BY <3>2, UnprocessedFacts DEF Loaded
    <3> QED BY <2>2, <3>2, <3>3 DEF LoadMarker
  <2> QED BY <2>1, <2>2, SuccessSteps
<1> QED BY <1>1, Invariance, ResultPendingHolds, PTL DEF SuccessIsDurable, Spec

\* A run that has not returned has left the status at Running.
StatusPending == pc # "idle" => status = "Running"

OutcomeInv == StatusPending /\ OutcomeContract

LEMMA NextOutcomeInv == OutcomeInv /\ [Next]_vars => OutcomeInv'
<1> SUFFICES ASSUME OutcomeInv, [Next]_vars PROVE OutcomeInv'
  OBVIOUS
<1> USE DEF OutcomeInv, StatusPending, OutcomeContract
<1>1. CASE Finalize
  BY <1>1 DEF Finalize, Return
<1>2. CASE \E readable \in BOOLEAN : LoadMarker(readable)
  BY <1>2 DEF LoadMarker, Return
<1>3. CASE DiscoverNothing
  BY <1>3 DEF DiscoverNothing, Return
<1>4. CASE PrerequisiteFails \/ SaveFails
  BY <1>4 DEF PrerequisiteFails, SaveFails, Return, service
<1>5. CASE DownloadLatest
  BY <1>5 DEF DownloadLatest, Download, Return, service, locals
<1>6. CASE RefuseToStart \/ RequestShutdown \/ Restart
  BY <1>6 DEF RefuseToStart, RequestShutdown, Restart, service, locals
<1>7. CASE \E force \in BOOLEAN : Begin(force)
  BY <1>7 DEF Begin
<1>8. CASE pc # "idle" /\ pc' # "idle" /\ UNCHANGED status
  BY <1>8
<1>9. CASE UNCHANGED vars
  BY <1>9 DEF vars, service
<1> QED
  BY <1>1, <1>2, <1>3, <1>4, <1>5, <1>6, <1>7, <1>8, <1>9
     DEF Next, RunStep, service, Discover, Connect, StartPhase, BuildArtistMap,
         StopBetweenFiles, SkipCompletedFile, StartFile, TakeRecord, PipelineSucceeds,
         PipelineFails, SendFileComplete, MarkFile, FilesDone, SendExtractionComplete,
         SkipExtractionComplete

\* What process_musicbrainz_data returns and the status it leaves agree, however
\* the run ends: the control loop relies on it.
THEOREM OutcomeKept == Spec => []OutcomeContract
<1>1. Init => OutcomeInv
  BY DEF Init, OutcomeInv, StatusPending, OutcomeContract
<1>2. OutcomeInv => OutcomeContract
  BY DEF OutcomeInv
<1> QED BY <1>1, <1>2, NextOutcomeInv, PTL DEF Spec

\* The progress that the run reports goes with its marker: a completed file has
\* the count of its entry, the file under way what was taken, any other none.
ProgressFollowsMarker ==
  /\ pc \in BeforeStart => \A f \in Files : progress[f] = 0
  /\ pc \in AfterStart /\ (pc = "map" \/ success) =>
       /\ \A f \in CompletedFiles(mem) : progress[f] = mem.progress[f].records
       /\ \A f \in Files \ CompletedFiles(mem) : (pc \in InFile => f # cur) => progress[f] = 0
       /\ pc = "pipeline" => progress[cur] = taken
       /\ pc \in {"fileComplete", "mark"} => progress[cur] = total

\* A checkpoint of the file under way leaves the completed entries alone.
LEMMA CheckpointProgress ==
  ASSUME IInv, pc = "pipeline", NEW n \in Nat, mem' = UpdateFileProgress(mem, cur, n)
  PROVE  /\ CompletedFiles(mem') = CompletedFiles(mem)
         /\ cur \in Files \ CompletedFiles(mem)
         /\ \A f \in CompletedFiles(mem) : mem'.progress[f] = mem.progress[f]
<1>1. mem \in Marker /\ cur \in Files /\ mem.progress[cur].status = "InProgress"
  BY DEF IInv, TypeOK, MemoryAndDisk, FileUnderWay, AfterStart, InFile
<1>2. cur \notin CompletedFiles(mem)
  BY <1>1 DEF CompletedFiles
<1>3. CompletedFiles(mem) \subseteq Files
  BY DEF CompletedFiles
<1> QED BY <1>1, <1>2, <1>3, UpdateFacts

LEMMA NextProgress == IInv /\ ProgressFollowsMarker /\ [Next]_vars => ProgressFollowsMarker'
<1> SUFFICES ASSUME IInv, ProgressFollowsMarker, [Next]_vars PROVE ProgressFollowsMarker'
  OBVIOUS
<1> USE DEF ProgressFollowsMarker, BeforeStart, AfterStart, InFile
<1>1. CASE pc' = "idle"
  BY <1>1
<1>2. ASSUME NEW force \in BOOLEAN, Begin(force) PROVE ProgressFollowsMarker'
  BY <1>2 DEF Begin
<1>3. CASE pc \in BeforeStart /\ pc' \in BeforeStart /\ UNCHANGED progress
  BY <1>3
<1>4. CASE StartPhase
  <2>1. /\ mem \in Marker /\ now \in Nat /\ pc = "start" /\ pc' = "map"
        /\ mem' = EnterPhase(mem) /\ progress' = Rehydrated(mem)
    BY <1>4 DEF StartPhase, IInv, MemoryAndDisk, TypeOK
  <2>2. CompletedFiles(mem') = CompletedFiles(mem) /\ mem'.progress = mem.progress
    BY <2>1, EnterPhaseFacts
  <2>3. mem.processing = "InProgress" \/ CompletedFiles(mem) = {}
    BY <2>1 DEF IInv, MemoryAndDisk, MarkersSound, SoundMarker
  <2>4. \A f \in Files :
          /\ f \in CompletedFiles(mem) => progress'[f] = mem.progress[f].records
          /\ f \notin CompletedFiles(mem) => progress'[f] = 0
    <3> SUFFICES ASSUME NEW f \in Files
                 PROVE  /\ f \in CompletedFiles(mem) => progress'[f] = mem.progress[f].records
                        /\ f \notin CompletedFiles(mem) => progress'[f] = 0
      OBVIOUS
    <3>1. progress[f] = 0 /\ mem.progress[f].records \in Nat
      BY <2>1 DEF Marker, FileProgress
    <3> QED BY <2>1, <2>3, <3>1 DEF Rehydrated
  <2>5. \A f \in CompletedFiles(mem') : progress'[f] = mem'.progress[f].records
    <3>1. \A f \in CompletedFiles(mem) : f \in Files
      BY DEF CompletedFiles
    <3> QED BY <2>2, <2>4, <3>1
  <2>6. \A f \in Files \ CompletedFiles(mem') : progress'[f] = 0
    BY <2>2, <2>4
  <2> QED BY <2>1, <2>5, <2>6
<1>5. CASE /\ pc \in AfterStart \ {"pipeline"}
           /\ pc' \in AfterStart \ {"map", "pipeline", "fileComplete"}
           /\ pc' = "mark" <=> pc \in InFile
           /\ success' => success \/ pc = "map"
           /\ UNCHANGED <<mem, cur, taken, total, progress>>
  BY <1>5
<1>6. ASSUME NEW f \in Files, StartFile(f) PROVE ProgressFollowsMarker'
  <2>1. /\ pc = "loop" /\ pc' = "pipeline" /\ cur' = f /\ taken' = 0
        /\ f \notin CompletedFiles(mem) /\ mem \in Marker
        /\ mem' = StartFileProcessing(mem, f) /\ UNCHANGED <<progress, success>>
    BY <1>6 DEF StartFile, service, IInv, MemoryAndDisk
  <2>2. /\ CompletedFiles(mem') = CompletedFiles(mem)
        /\ \A g \in Files \ {f} : mem'.progress[g] = mem.progress[g]
    <3>1. /\ CompletedFiles(mem') = CompletedFiles(mem) \ {f}
          /\ \A g \in Files \ {f} : mem'.progress[g] = mem.progress[g]
      BY <2>1, StartFileFacts
    <3> QED BY <2>1, <3>1
  <2>3. CompletedFiles(mem) \subseteq Files
    BY DEF CompletedFiles
  <2> QED BY <2>1, <2>2, <2>3
<1>7. CASE TakeRecord
  <2>1. /\ pc = "pipeline" /\ pc' = pc /\ taken' = taken + 1 /\ taken' \in Nat
        /\ progress' = [progress EXCEPT ![cur] = progress[cur] + 1]
        /\ progress \in [Files -> Nat]
        /\ mem' = mem \/ mem' = UpdateFileProgress(mem, cur, taken')
        /\ UNCHANGED <<cur, success>>
    BY <1>7 DEF TakeRecord, Checkpoint, IInv, TypeOK
  <2>2. cur \in Files \ CompletedFiles(mem)
    BY <2>1 DEF IInv, TypeOK, FileUnderWay, CompletedFiles
  <2>3. /\ CompletedFiles(mem') = CompletedFiles(mem)
        /\ \A f \in CompletedFiles(mem) : mem'.progress[f] = mem.progress[f]
    BY <2>1, CheckpointProgress
  <2>4. CompletedFiles(mem) \subseteq Files
    BY DEF CompletedFiles
  <2> QED BY <2>1, <2>2, <2>3, <2>4
<1>8. CASE PipelineSucceeds
  <2>1. /\ pc = "pipeline" /\ pc' = "fileComplete" /\ taken = dump[cur] /\ total' = dump[cur]
        /\ mem' = UpdateFileProgress(mem, cur, taken) /\ taken \in Nat
        /\ UNCHANGED <<cur, success, progress>>
    BY <1>8 DEF PipelineSucceeds, Checkpoint, service, IInv, TypeOK
  <2>2. /\ CompletedFiles(mem') = CompletedFiles(mem)
        /\ \A f \in CompletedFiles(mem) : mem'.progress[f] = mem.progress[f]
    BY <2>1, CheckpointProgress
  <2> QED BY <2>1, <2>2
<1>9. CASE pc = "pipeline" /\ pc' = "mark" /\ ~success'
  BY <1>9
<1>10. CASE MarkFile
  <2>1. /\ pc = "mark" /\ pc' = "loop" /\ mem \in Marker /\ cur \in Files /\ total \in Nat
        /\ mem.progress[cur].status = "InProgress"
        /\ success => mem' = CompleteFileProcessing(mem, cur, total)
        /\ UNCHANGED <<success, progress>>
    BY <1>10 DEF MarkFile, IInv, TypeOK, MemoryAndDisk, FileUnderWay
  <2>2. CASE success
    <3>1. /\ CompletedFiles(mem') = CompletedFiles(mem) \cup {cur}
          /\ mem'.progress[cur].records = total
          /\ \A g \in Files \ {cur} : mem'.progress[g] = mem.progress[g]
      BY <2>1, <2>2, CompleteFileFacts
    <3>2. CompletedFiles(mem) \subseteq Files /\ cur \notin CompletedFiles(mem)
      BY <2>1 DEF CompletedFiles
    <3> QED BY <2>1, <2>2, <3>1, <3>2
  <2> QED BY <2>1, <2>2
<1>11. CASE UNCHANGED <<pc, success, mem, cur, taken, total, progress>>
  BY <1>11
<1> QED
  <2>1. CASE UNCHANGED vars
    BY <1>11, <2>1 DEF vars, locals, service
  <2>2. CASE RefuseToStart \/ RequestShutdown
    BY <1>11, <2>2 DEF RefuseToStart, RequestShutdown, locals, service
  <2>3. CASE \/ PrerequisiteFails \/ DiscoverNothing \/ Finalize \/ SaveFails \/ Restart
    BY <1>1, <2>3 DEF PrerequisiteFails, DiscoverNothing, Finalize, SaveFails, Restart, Return
  <2>4. CASE DownloadLatest \/ Discover \/ Connect
    BY <1>1, <1>3, <2>4
       DEF DownloadLatest, Download, Discover, Connect, Return, service
  <2>5. ASSUME NEW readable \in BOOLEAN, LoadMarker(readable) PROVE ProgressFollowsMarker'
    BY <1>1, <1>3, <2>5 DEF LoadMarker, Return
  <2>6. CASE \/ BuildArtistMap \/ StopBetweenFiles \/ FilesDone \/ SkipExtractionComplete
             \/ \E f \in Files : SkipCompletedFile(f)
             \/ \E accepted, confirmed \in SUBSET DataTypes :
                  SendExtractionComplete(accepted, confirmed)
    BY <1>5, <2>6
       DEF BuildArtistMap, StopBetweenFiles, FilesDone, SkipExtractionComplete,
           SkipCompletedFile, SendExtractionComplete, locals, service
  <2>7. ASSUME NEW accepted \in BOOLEAN, NEW confirmed \in BOOLEAN,
               SendFileComplete(accepted, confirmed)
        PROVE  ProgressFollowsMarker'
    BY <1>5, <2>7 DEF SendFileComplete, service
  <2>8. CASE PipelineFails
    BY <1>9, <2>8 DEF PipelineFails
  <2> QED BY <1>2, <1>4, <1>6, <1>7, <1>8, <1>10, <2>1, <2>2, <2>3, <2>4, <2>5, <2>6, <2>7,
             <2>8 DEF Next, RunStep

\* A run that completes the version reports, for every type, the records that
\* were delivered of it, by this run or by those it resumed.
THEOREM ProgressIsTotal == Spec => ReportedProgressIsTotal
<1> DEFINE Step == pc = "finalize" /\ status' = "Completed" =>
                     \A f \in Files : progress[f] = rows[f].records
<1>1. Init => ProgressFollowsMarker
  BY DEF Init, ProgressFollowsMarker, BeforeStart, AfterStart
<1>2. Spec => []ProgressFollowsMarker
  BY <1>1, NextProgress, Invariance, PTL DEF Spec
<1>3. IInv /\ ProgressFollowsMarker /\ OutcomeInv /\ [Next]_vars => Step
  <2> SUFFICES ASSUME IInv, ProgressFollowsMarker, OutcomeInv, [Next]_vars,
                      pc = "finalize", status' = "Completed", NEW f \in Files
               PROVE  progress[f] = rows[f].records
    OBVIOUS
  <2>1. status = "Running"
    BY DEF OutcomeInv, StatusPending
  <2>2. Finalize
    BY <2>1
       DEF Next, RunStep, vars, service, RefuseToStart, Begin, DownloadLatest, Download,
           PrerequisiteFails, Discover, DiscoverNothing, LoadMarker, Connect, StartPhase,
           BuildArtistMap, StopBetweenFiles, SkipCompletedFile, StartFile, TakeRecord,
           PipelineSucceeds, PipelineFails, SendFileComplete, MarkFile, FilesDone,
           SendExtractionComplete, SkipExtractionComplete, SaveFails, RequestShutdown, Restart
  <2>3. success
    BY <2>2 DEF Finalize
  <2>4. f \in CompletedFiles(mem)
    BY <2>3, CountsSoFar
  <2>5. rows[f].records = mem.progress[f].records
    BY <2>4 DEF IInv, MarkersSound, SoundMarker
  <2> QED BY <2>3, <2>4, <2>5 DEF ProgressFollowsMarker, AfterStart
<1>4. Spec => []OutcomeInv
  <2>1. Init => OutcomeInv
    BY DEF Init, OutcomeInv, StatusPending, OutcomeContract
  <2> QED BY <2>1, NextOutcomeInv, PTL DEF Spec
<1> QED BY <1>2, <1>3, <1>4, Invariance, PTL DEF ReportedProgressIsTotal, Spec

--------------------------------------------------------------------------------
(***************************************************************************)
(* The extraction implements Delivery: its initial states map to initial   *)
(* states, and each of its steps to a step of Delivery or to a stutter.    *)
(***************************************************************************)

\* The image of a state: all that Delivery speaks of.
Image == <<disk.startedAt, CompletedFiles(disk), disk.overall = "Completed",
           rows, fileCompletes, extractionCompletes>>

\* A step that leaves the image alone is a stutter of Delivery.
LEMMA StutterKeeps ==
  ASSUME UNCHANGED <<rows, fileCompletes, extractionCompletes>>,
         disk'.startedAt = disk.startedAt,
         CompletedFiles(disk') = CompletedFiles(disk),
         (disk'.overall = "Completed") <=> (disk.overall = "Completed")
  PROVE  UNCHANGED Promise!vars
BY DEF Promise!vars, CompletedFiles

\* In particular a step that leaves the disk and the broker alone.
LEMMA SilentKeeps ==
  ASSUME UNCHANGED <<disk, broker>>
  PROVE  UNCHANGED Promise!vars
BY DEF Promise!vars, CompletedFiles, broker

\* Nothing claimed, nothing sent.
LEMMA PromiseInit == Init => Promise!Init
<1> SUFFICES ASSUME Init PROVE Promise!Init
  OBVIOUS
<1>1. disk = NoMarker /\ CompletedFiles(disk) = {} /\ disk.startedAt = 0
      /\ disk.overall # "Completed"
  BY UnprocessedFacts DEF Init
<1> QED BY <1>1 DEF Init, Promise!Init, NoEvent

\* Between the start of the phase and the end of the run both markers are open.
LEMMA OpenWhileRunning ==
  ASSUME IInv, pc \in AfterStart
  PROVE  /\ mem \in Marker /\ disk \in Marker
         /\ mem.processing = "InProgress" /\ disk.processing = "InProgress"
         /\ mem.overall # "Completed" /\ disk.overall # "Completed"
         /\ disk.startedAt = mem.startedAt /\ mem.startedAt > 0
         /\ CompletedFiles(disk) = CompletedFiles(mem)
         /\ mem.startedAt \in Nat /\ mem.startedAt <= now /\ now \in 0 .. MaxRuns
         /\ pc \in InFile => cur \in Files /\ cur \notin CompletedFiles(mem)
<1>1. /\ mem \in Marker /\ disk \in Marker
      /\ mem.processing = "InProgress" /\ disk.processing = "InProgress"
      /\ disk.startedAt = mem.startedAt
      /\ CompletedFiles(disk) = CompletedFiles(mem)
      /\ SoundMarker(mem, rows, fileCompletes, now)
      /\ SoundMarker(disk, rows, fileCompletes, now)
  BY DEF IInv, MemoryAndDisk, MarkersSound
<1>2. now \in 0 .. MaxRuns
  BY DEF IInv, TypeOK, SentInThePast
<1>3. pc \in InFile => cur \in Files /\ cur \notin CompletedFiles(mem)
  BY DEF IInv, TypeOK, FileUnderWay, CompletedFiles
<1>4. mem.startedAt \in Nat
  BY <1>1 DEF Marker
<1> QED BY <1>1, <1>2, <1>3, <1>4 DEF SoundMarker

\* Each step of a run is a step of Delivery, or none.
LEMMA PromiseNext == IInv /\ [Next]_vars => [Promise!Next]_(Promise!vars)
<1> SUFFICES ASSUME IInv, [Next]_vars
             PROVE  Promise!Next \/ UNCHANGED Promise!vars
  OBVIOUS
<1>1. CASE UNCHANGED <<disk, broker>>
  BY <1>1, SilentKeeps
<1>2. CASE StartPhase
  <2>1. /\ pc = "start" /\ disk' = EnterPhase(mem)
        /\ UNCHANGED <<now, rows, fileCompletes, extractionCompletes>>
    BY <1>2 DEF StartPhase, broker
  <2>2. /\ mem \in Marker /\ mem.overall # "Completed"
        /\ mem = NewMarker \/ mem = disk
        /\ SoundMarker(mem, rows, fileCompletes, now)
        /\ now \in Nat /\ now <= MaxRuns
        /\ disk.startedAt \in Nat /\ disk.startedAt < now
        /\ \A f \in Files : rows[f].run < now /\ fileCompletes[f] < now
    BY <2>1, MarkerFields
       DEF IInv, MemoryAndDisk, MarkersSound, SentInThePast, TypeOK, BeforeStart
  <2>3. CASE mem.processing = "Pending"
    <3>1. /\ disk'.startedAt = now /\ CompletedFiles(disk') = {}
          /\ disk'.overall # "Completed"
      BY <2>1, <2>2, <2>3, EnterPhaseFacts DEF SoundMarker
    <3>2. \A f \in Files : /\ now > rows[f].run /\ now > fileCompletes[f]
      BY <2>2
    <3>3. Promise!OpenEpoch(now)
      BY <2>1, <2>2, <3>1, <3>2 DEF Promise!OpenEpoch, CompletedFiles
    <3>4. now \in 0 .. MaxRuns
      BY <2>2
    <3> QED BY <3>3, <3>4 DEF Promise!Next
  <2>4. CASE mem.processing # "Pending"
    <3>1. mem = disk
      BY <2>2, <2>4, UnprocessedFacts
    <3>2. /\ disk'.startedAt = disk.startedAt /\ disk'.overall = disk.overall
          /\ CompletedFiles(disk') = CompletedFiles(disk)
      BY <2>1, <2>2, <2>4, <3>1, EnterPhaseFacts
    <3> QED BY <2>1, <3>2, StutterKeeps
  <2> QED BY <2>3, <2>4
<1>3. ASSUME NEW f \in Files, StartFile(f) PROVE UNCHANGED Promise!vars
  <2>1. /\ pc = "loop" /\ f \notin CompletedFiles(mem)
        /\ disk' = StartFileProcessing(mem, f)
        /\ UNCHANGED <<rows, fileCompletes, extractionCompletes>>
    BY <1>3 DEF StartFile, broker
  <2>2. /\ disk'.startedAt = mem.startedAt /\ disk'.overall = mem.overall
        /\ CompletedFiles(disk') = CompletedFiles(mem) \ {f}
    BY <2>1, OpenWhileRunning, StartFileFacts DEF AfterStart
  <2>3. CompletedFiles(disk') = CompletedFiles(mem)
    BY <2>1, <2>2
  <2> QED BY <2>1, <2>2, <2>3, OpenWhileRunning, StutterKeeps DEF AfterStart
<1>4. CASE TakeRecord \/ PipelineFails
  <2>1. /\ pc = "pipeline" /\ UNCHANGED <<rows, fileCompletes, extractionCompletes>>
    BY <1>4 DEF TakeRecord, PipelineFails, broker
  <2>2. \/ UNCHANGED <<mem, disk>>
        \/ \E n \in Nat : /\ mem' = UpdateFileProgress(mem, cur, n)
                          /\ disk' \in {disk, mem'}
    BY <1>4 DEF TakeRecord, PipelineFails, Checkpoint, IInv, TypeOK
  <2>3. /\ disk'.startedAt = mem.startedAt /\ disk'.overall # "Completed"
        /\ CompletedFiles(disk') = CompletedFiles(mem)
    BY <2>1, <2>2, CheckpointKept
  <2> QED BY <2>1, <2>3, OpenWhileRunning, StutterKeeps DEF AfterStart
<1>5. CASE PipelineSucceeds
  <2>1. /\ pc = "pipeline" /\ UNCHANGED <<fileCompletes, extractionCompletes>>
        /\ rows' = [rows EXCEPT ![cur] = [run |-> now, records |-> dump[cur]]]
        /\ dump \in [Files -> Images]
    BY <1>5 DEF PipelineSucceeds, IInv, TypeOK
  <2>2. \E n \in Nat : mem' = UpdateFileProgress(mem, cur, n) /\ disk' \in {disk, mem'}
    BY <1>5 DEF PipelineSucceeds, Checkpoint, IInv, TypeOK
  <2>3. /\ disk'.startedAt = mem.startedAt /\ disk'.overall # "Completed"
        /\ CompletedFiles(disk') = CompletedFiles(mem)
    BY <2>1, <2>2, CheckpointKept
  <2>4. /\ cur \in Files /\ cur \notin CompletedFiles(disk) /\ disk.overall # "Completed"
        /\ disk.startedAt > 0 /\ now >= disk.startedAt /\ now \in 0 .. MaxRuns
        /\ disk'.startedAt = disk.startedAt
        /\ CompletedFiles(disk') = CompletedFiles(disk)
    BY <2>1, <2>3, OpenWhileRunning DEF AfterStart, InFile
  <2>5. dump[cur] \in Images
    BY <2>1, <2>4
  <2>6. Promise!Deliver(cur, now, dump[cur])
    BY <2>1, <2>3, <2>4 DEF Promise!Deliver, CompletedFiles
  <2> QED BY <2>4, <2>5, <2>6 DEF Promise!Next
<1>6. ASSUME NEW accepted \in BOOLEAN, NEW confirmed \in BOOLEAN,
         SendFileComplete(accepted, confirmed)
      PROVE  Promise!Next \/ UNCHANGED Promise!vars
  <2>1. /\ pc = "fileComplete" /\ UNCHANGED <<disk, rows, extractionCompletes>>
        /\ fileCompletes' = IF accepted THEN [fileCompletes EXCEPT ![cur] = now]
                                        ELSE fileCompletes
    BY <1>6 DEF SendFileComplete
  <2>2. CASE ~accepted
    BY <2>1, <2>2, StutterKeeps
  <2>3. CASE accepted
    <3>1. /\ cur \in Files /\ cur \notin CompletedFiles(disk)
          /\ disk.overall # "Completed"
          /\ now >= disk.startedAt /\ now \in 0 .. MaxRuns
      BY <2>1, OpenWhileRunning DEF AfterStart, InFile
    <3>2. rows[cur].run = now
      BY <2>1 DEF IInv, FileUnderWay
    <3>3. Promise!Signal(cur, now)
      BY <2>1, <2>3, <3>1, <3>2 DEF Promise!Signal, CompletedFiles
    <3> QED BY <3>1, <3>3 DEF Promise!Next
  <2> QED BY <2>2, <2>3
<1>7. CASE MarkFile
  <2>1. /\ pc = "mark" /\ disk' = mem'
        /\ mem' = IF fileOk THEN CompleteFileProcessing(mem, cur, total) ELSE mem
        /\ UNCHANGED <<rows, fileCompletes, extractionCompletes>>
        /\ total \in Nat
    BY <1>7 DEF MarkFile, broker, IInv, TypeOK
  <2>2. CASE ~fileOk
    BY <2>1, <2>2, OpenWhileRunning, StutterKeeps DEF AfterStart
  <2>3. CASE fileOk
    <3>1. /\ mem \in Marker /\ cur \in Files /\ cur \notin CompletedFiles(disk)
          /\ disk.overall # "Completed" /\ mem.overall # "Completed"
          /\ disk.startedAt = mem.startedAt /\ CompletedFiles(disk) = CompletedFiles(mem)
          /\ mem.startedAt <= now
      BY <2>1, OpenWhileRunning DEF AfterStart, InFile
    <3>2. mem.progress[cur].status # "Absent" /\ fileCompletes[cur] = now
      BY <2>1, <2>3 DEF IInv, FileUnderWay, InFile
    <3>3. /\ disk'.startedAt = mem.startedAt /\ disk'.overall = mem.overall
          /\ CompletedFiles(disk') = CompletedFiles(mem) \cup {cur}
      BY <2>1, <2>3, <3>1, <3>2, CompleteFileFacts
    <3>4. fileCompletes[cur] >= disk.startedAt
      BY <3>1, <3>2
    <3>5. Promise!Claim(cur)
      BY <2>1, <3>1, <3>3, <3>4 DEF Promise!Claim, CompletedFiles
    <3> QED BY <3>1, <3>5 DEF Promise!Next
  <2> QED BY <2>2, <2>3
<1>8. ASSUME NEW accepted \in SUBSET DataTypes, NEW confirmed \in SUBSET DataTypes,
         SendExtractionComplete(accepted, confirmed)
      PROVE  Promise!Next
  <2>1. /\ pc = "announce" /\ success /\ UNCHANGED <<disk, rows, fileCompletes>>
        /\ extractionCompletes' =
             [t \in DataTypes |->
                IF t \in accepted
                  THEN [startedAt |-> ProcessingStartedAt, counts |-> counts]
                  ELSE extractionCompletes[t]]
    BY <1>8 DEF SendExtractionComplete
  <2>2. /\ CompletedFiles(disk) = Files /\ disk.overall # "Completed"
        /\ counts = [f \in Files |-> rows[f].records]
        /\ ProcessingStartedAt = disk.startedAt
    BY <2>1, CountsSoFar, OpenWhileRunning DEF AfterStart, ProcessingStartedAt
  <2>3. [startedAt |-> ProcessingStartedAt, counts |-> counts] = Promise!Announcement
    BY <2>2 DEF Promise!Announcement
  <2>4. extractionCompletes' =
          [t \in DataTypes |-> IF t \in accepted THEN Promise!Announcement
                                                 ELSE extractionCompletes[t]]
    BY <2>1, <2>3
  <2>5. Promise!Announce(accepted)
    BY <2>1, <2>2, <2>4 DEF Promise!Announce, CompletedFiles
  <2> QED BY <2>5 DEF Promise!Next
<1>9. CASE Finalize
  <2>1. /\ pc = "finalize"
        /\ disk' = IF success THEN CompleteExtraction(mem) ELSE mem
        /\ UNCHANGED <<rows, fileCompletes, extractionCompletes>>
    BY <1>9 DEF Finalize, broker
  <2>2. CASE ~success
    BY <2>1, <2>2, OpenWhileRunning, StutterKeeps DEF AfterStart
  <2>3. CASE success
    <3>1. /\ mem \in Marker /\ disk.overall # "Completed"
          /\ disk.startedAt = mem.startedAt
          /\ CompletedFiles(mem) = Files /\ CompletedFiles(disk) = Files
          /\ counts = [f \in Files |-> rows[f].records]
      BY <2>1, <2>3, CountsSoFar, OpenWhileRunning DEF AfterStart
    <3>2. /\ disk'.startedAt = mem.startedAt /\ disk'.overall = "Completed"
          /\ CompletedFiles(disk') = CompletedFiles(mem)
      BY <2>1, <2>3, <3>1, CompleteExtractionFacts
    <3>3. Promise!Announcement = [startedAt |-> mem.startedAt, counts |-> counts]
      BY <3>1 DEF Promise!Announcement
    <3>4. \A t \in DataTypes : extractionCompletes[t] = Promise!Announcement
      BY <2>1, <2>3, <3>3 DEF IInv, LoopSoFar
    <3>5. Promise!Close
      BY <2>1, <3>1, <3>2, <3>4 DEF Promise!Close, CompletedFiles
    <3> QED BY <3>5 DEF Promise!Next
  <2> QED BY <2>2, <2>3
<1> QED
  <2>1. \/ UNCHANGED <<disk, broker>>
        \/ StartPhase
        \/ \E f \in Files : StartFile(f)
        \/ TakeRecord \/ PipelineFails \/ PipelineSucceeds
        \/ \E accepted, confirmed \in BOOLEAN : SendFileComplete(accepted, confirmed)
        \/ MarkFile
        \/ \E accepted, confirmed \in SUBSET DataTypes :
             SendExtractionComplete(accepted, confirmed)
        \/ Finalize
    BY DEF Next, RunStep, vars, RefuseToStart, Begin, DownloadLatest, Download,
           PrerequisiteFails, Discover, DiscoverNothing, LoadMarker, Connect,
           BuildArtistMap, StopBetweenFiles, SkipCompletedFile, FilesDone,
           SkipExtractionComplete, SaveFails, RequestShutdown, Restart
  <2> QED BY <2>1, <1>1, <1>2, <1>3, <1>4, <1>5, <1>6, <1>7, <1>8, <1>9

\* Whatever fails and whenever the process dies, the runs together are a
\* behaviour of Delivery.
THEOREM PromiseKept == Spec => KeepsPromise
<1> QED BY PromiseInit, PromiseNext, Invariance, PTL DEF Spec, KeepsPromise, Promise!Spec
================================================================================
