-------------------------------- MODULE Delivery -------------------------------
(***************************************************************************)
(* What the extraction of a version promises to the consumers of its       *)
(* events and to the next run, without runs, phases or failures            *)
(* (docs/state-marker-system.md, "Restart decisions" and "Completion       *)
(* signals"; the code is process_musicbrainz_data).                        *)
(*                                                                         *)
(* An epoch is one pass over the version, named by its start time: a       *)
(* resumed run continues the epoch, a forced run opens the next one.       *)
(* Within an epoch a file goes from delivered to signalled to claimed and  *)
(* is never delivered again, the end is announced when every file is       *)
(* claimed, and the epoch is closed when every exchange has accepted the   *)
(* announcement.                                                           *)
(***************************************************************************)
EXTENDS Naturals

CONSTANTS Files, DataTypes,
          Times,       \* the times at which something may be sent
          Counts       \* the record counts that a file may have

VARIABLES epoch,       \* start of the pass under way; 0 before the first
          claimed,     \* the files that the next run will skip
          closed,      \* whether the next run will skip the version
          rows,        \* per file: when it was last delivered whole, and its count
          signalled,   \* per file: when its file_complete was last accepted
          announced    \* per exchange: the last extraction_complete

vars == <<epoch, claimed, closed, rows, signalled, announced>>

\* The announcement of the epoch: its start, and the counts delivered.
Announcement == [startedAt |-> epoch, counts |-> [f \in Files |-> rows[f].records]]

Init ==
  /\ epoch = 0
  /\ claimed = {}
  /\ closed = FALSE
  /\ rows = [f \in Files |-> [run |-> 0, records |-> 0]]
  /\ signalled = [f \in Files |-> 0]
  /\ \A t \in DataTypes : announced[t].startedAt = 0

\* A new pass starts later than anything that was sent before it, so whatever
\* the pass does not send again is older than its start.
OpenEpoch(e) ==
  /\ \A f \in Files : e > rows[f].run /\ e > signalled[f]
  /\ e > epoch
  /\ epoch' = e
  /\ claimed' = {}
  /\ closed' = FALSE
  /\ UNCHANGED <<rows, signalled, announced>>

Deliver(f, time, records) ==
  /\ ~closed /\ epoch > 0
  /\ f \notin claimed
  /\ time >= epoch
  /\ rows' = [rows EXCEPT ![f] = [run |-> time, records |-> records]]
  /\ UNCHANGED <<epoch, claimed, closed, signalled, announced>>

Signal(f, time) ==
  /\ ~closed
  /\ f \notin claimed
  /\ rows[f].run = time /\ time >= epoch
  /\ signalled' = [signalled EXCEPT ![f] = time]
  /\ UNCHANGED <<epoch, claimed, closed, rows, announced>>

Claim(f) ==
  /\ ~closed
  /\ f \notin claimed
  /\ signalled[f] >= epoch
  /\ claimed' = claimed \cup {f}
  /\ UNCHANGED <<epoch, closed, rows, signalled, announced>>

Announce(exchanges) ==
  /\ ~closed
  /\ claimed = Files
  /\ announced' = [t \in DataTypes |-> IF t \in exchanges THEN Announcement
                                                          ELSE announced[t]]
  /\ UNCHANGED <<epoch, claimed, closed, rows, signalled>>

Close ==
  /\ ~closed
  /\ claimed = Files
  /\ \A t \in DataTypes : announced[t] = Announcement
  /\ closed' = TRUE
  /\ UNCHANGED <<epoch, claimed, rows, signalled, announced>>

Next ==
  \/ \E e \in Times : OpenEpoch(e)
  \/ \E f \in Files, time \in Times, records \in Counts : Deliver(f, time, records)
  \/ \E f \in Files, time \in Times : Signal(f, time)
  \/ \E f \in Files : Claim(f)
  \/ \E exchanges \in SUBSET DataTypes : Announce(exchanges)
  \/ Close

Spec == Init /\ [][Next]_vars
================================================================================
