------------------------------- MODULE AtomicFile ------------------------------
(***************************************************************************)
(* What both users of "write a temporary sibling, sync it, rename it, sync *)
(* the directory" rely on (StateMarker::save, and the dump files of the    *)
(* downloader): a reader finds a whole value, the newest one; a power loss *)
(* takes the file back to the last settled value at most, and never tears  *)
(* it or loses a settled one.                                              *)
(***************************************************************************)
CONSTANTS Values,      \* what may be saved
          Absent       \* what a reader finds where there is no file

VARIABLES value,       \* what a reader finds now
          possible     \* what it may find after a power loss

vars == <<value, possible>>

Init ==
  /\ value = Absent
  /\ possible = {Absent}

Replace ==
  /\ value' \in Values
  /\ possible' = possible \cup {value'}

Settle ==
  /\ possible' = {value}
  /\ UNCHANGED value

PowerLoss ==
  /\ value' \in possible
  /\ possible' = {value'}

Next == Replace \/ Settle \/ PowerLoss

Spec == Init /\ [][Next]_vars
================================================================================
