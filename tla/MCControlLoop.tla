----------------------------- MODULE MCControlLoop -----------------------------
(***************************************************************************)
(* ControlLoop for TLC.  The module has no constants and its states are    *)
(* finite as they are: any number of runs, requests and timers.            *)
(***************************************************************************)
EXTENDS ControlLoop
================================================================================
