----------------------------- MODULE MCMarkerFile ------------------------------
(***************************************************************************)
(* MarkerFile for TLC: three markers saved over each other in any order,   *)
(* any number of times.                                                    *)
(***************************************************************************)
EXTENDS MarkerFile

MCMarkers == {"started", "half", "completed"}
================================================================================
