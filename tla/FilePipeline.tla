------------------------------ MODULE FilePipeline -----------------------------
(***************************************************************************)
(* What the extraction may expect of the pipeline of one dump file,        *)
(* whatever its tasks, channels and broker do: records are taken, then     *)
(* accepted by the broker, and the pipeline ends once.  It succeeds only   *)
(* when every record has been accepted, with the exact total; a failure    *)
(* may come at any time and its total says nothing.  Extraction.tla treats *)
(* the pipeline as this does (TakeRecord, PipelineSucceeds and             *)
(* PipelineFails).                                                         *)
(***************************************************************************)
EXTENDS Naturals

VARIABLES records,     \* number of records of the file
          taken,       \* records that the progress counts
          delivered,   \* records that the broker accepted
          total,       \* what the pipeline reports
          outcome      \* "running", "success" or "failure"

vars == <<records, taken, delivered, total, outcome>>

Init ==
  /\ records \in Nat
  /\ taken = 0
  /\ delivered = 0
  /\ total = 0
  /\ outcome = "running"

Take ==
  /\ outcome = "running"
  /\ taken < records
  /\ taken' = taken + 1
  /\ UNCHANGED <<records, delivered, total, outcome>>

Deliver ==
  /\ outcome = "running"
  /\ delivered < taken
  /\ delivered' = delivered + 1
  /\ UNCHANGED <<records, taken, total, outcome>>

Succeed ==
  /\ outcome = "running"
  /\ delivered = records
  /\ total' = records
  /\ outcome' = "success"
  /\ UNCHANGED <<records, taken, delivered>>

Fail ==
  /\ outcome = "running"
  /\ total' \in 0 .. records
  /\ outcome' = "failure"
  /\ UNCHANGED <<records, taken, delivered>>

Next == Take \/ Deliver \/ Succeed \/ Fail

Spec == Init /\ [][Next]_vars
================================================================================
