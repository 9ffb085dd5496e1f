------------------------------ MODULE StateMarker ------------------------------
(***************************************************************************)
(* The durable state marker of one dump version (src/state_marker.rs): the *)
(* part of it that decides what a run does, and the methods that the       *)
(* extraction calls on it, as operators from a marker to a marker.         *)
(*                                                                         *)
(* Left out: the timestamps other than the start of the processing phase,  *)
(* and the counters that no decision reads (bytes, messages, batches, the  *)
(* phase totals, files_by_type, current_file).  A time is a natural        *)
(* number; 0 is the None of an Option<DateTime>.                           *)
(***************************************************************************)
EXTENDS Integers, FiniteSets

CONSTANT Files      \* the dump files of the version

PhaseStatus == {"Pending", "InProgress", "Completed", "Failed"}

\* An entry of progress_by_file; "Absent" stands for a missing key.
FileProgress == [status : PhaseStatus \cup {"Absent"}, records : Nat]
NoEntry == [status |-> "Absent", records |-> 0]

Marker == [download       : PhaseStatus,
           processing     : PhaseStatus,
           startedAt      : Nat,
           filesTotal     : Nat,
           filesProcessed : Nat,
           progress       : [Files -> FileProgress],
           overall        : PhaseStatus]

\* StateMarker::new: every phase Pending, no file known.
NewMarker == [download       |-> "Pending",
              processing     |-> "Pending",
              startedAt      |-> 0,
              filesTotal     |-> 0,
              filesProcessed |-> 0,
              progress       |-> [f \in Files |-> NoEntry],
              overall        |-> "Pending"]

CompletedFiles(m) == {f \in Files : m.progress[f].status = "Completed"}

\* should_process.  An unfinished download restarts the version only while no
\* file is completed; unfinished processing resumes; a completed version skips.
ShouldProcess(m) ==
  LET downloadIncomplete == m.download \in {"Failed", "InProgress"}
      processingOpen     == m.processing \in {"Failed", "InProgress"}
  IN  CASE downloadIncomplete /\ CompletedFiles(m) = {}            -> "Reprocess"
        [] ~downloadIncomplete /\ ~processingOpen
             /\ m.overall = "Completed"                            -> "Skip"
        [] OTHER                                                   -> "Continue"

StartProcessing(m, filesTotal, now) ==
  [m EXCEPT !.processing     = "InProgress",
            !.startedAt      = now,
            !.filesTotal     = filesTotal,
            !.filesProcessed = 0,
            !.overall        = "InProgress"]

\* The entry is replaced, so counts of an interrupted attempt do not survive.
StartFileProcessing(m, f) ==
  [m EXCEPT !.progress[f] = [status |-> "InProgress", records |-> 0]]

\* A checkpoint changes the counts of an entry that exists, never its status.
UpdateFileProgress(m, f, records) ==
  [m EXCEPT !.progress[f].records =
              IF m.progress[f].status = "Absent" THEN @ ELSE records]

CompleteFileProcessing(m, f, records) ==
  [m EXCEPT !.progress[f] =
              IF m.progress[f].status = "Absent" THEN @
              ELSE [status |-> "Completed", records |-> records],
            !.filesProcessed = @ + 1]

\* complete_processing followed by complete_extraction.
CompleteExtraction(m) ==
  [m EXCEPT !.processing = "Completed", !.overall = "Completed"]
================================================================================
