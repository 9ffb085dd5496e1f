------------------------------- MODULE MCPipeline ------------------------------
(***************************************************************************)
(* Pipeline for TLC: every file of up to five lines, channels that hold    *)
(* one element, batches of two that are filled and batches that are not.   *)
(***************************************************************************)
EXTENDS Pipeline
================================================================================
