------------------------------ MODULE ControlLoop ------------------------------
(***************************************************************************)
(* The service around the runs: run_musicbrainz_loop (src/musicbrainz/     *)
(* mod.rs), the shutdown monitor and the trigger of src/runtime.rs, the    *)
(* POST /trigger handler of src/health.rs and the exit of main.            *)
(*                                                                         *)
(* A run is what Extraction.tla shows of it (OutcomeContract): it sets the *)
(* status to Running, and leaves it there when it returns an error or is   *)
(* cut short by a shutdown.                                                *)
(*                                                                         *)
(* A tokio Notify has no memory: notify_waiters reaches the Notified       *)
(* futures that exist at that moment, here the one of the monitor once its *)
(* task has begun and the one of the select! while the loop is in it.      *)
(***************************************************************************)
EXTENDS Naturals

VARIABLES
  loop,       \* where run_musicbrainz_loop stands
  initial,    \* whether the run under way is the first one
  force,      \* the force flag of the run under way
  result,     \* what the last run returned
  status,     \* ExtractorState.extraction_status
  flag,       \* the AtomicBool that the runs and the loop poll
  monitor,    \* the task that sets it
  signalled,  \* whether SIGTERM or SIGINT has come; further ones do nothing
  notified,   \* whether the Notified of the current select! was reached
  trigger,    \* the pending request, Option<bool>
  post,       \* the request a handler has let in and not stored; it has the lock
  exit        \* how the process ends

service == <<loop, initial, force, result>>
signals == <<flag, monitor, signalled, notified>>
http    == <<trigger, post>>
vars    == <<service, status, signals, http, exit>>

Request == {"plain", "force"}

TypeOK ==
  /\ loop \in {"call", "run", "returned", "head", "settle", "select", "poll", "parked",
               "ended"}
  /\ initial \in BOOLEAN
  /\ force \in BOOLEAN
  /\ result \in {"none", "true", "false", "error"}
  /\ status \in {"Idle", "Running", "Completed", "Waiting", "Failed"}
  /\ flag \in BOOLEAN
  /\ monitor \in {"spawned", "parked", "woken", "done"}
  /\ signalled \in BOOLEAN
  /\ notified \in BOOLEAN
  /\ trigger \in Request \cup {"none"}
  /\ post \in Request \cup {"none"}
  /\ exit \in {"none", "ok", "error"}

\* The first run is forced when the process was started with --force-reprocess.
Init ==
  /\ loop = "call"
  /\ initial = TRUE
  /\ force \in BOOLEAN
  /\ result = "none"
  /\ status = "Idle"
  /\ flag = FALSE
  /\ monitor = "spawned"
  /\ signalled = FALSE
  /\ notified = FALSE
  /\ trigger = "none"
  /\ post = "none"
  /\ exit = "none"

--------------------------------------------------------------------------------
(***************************************************************************)
(* A run, seen from its caller                                             *)
(***************************************************************************)

\* Under a shutdown a run returns false at once.
Call ==
  /\ loop = "call"
  /\ IF flag
       THEN loop' = "returned" /\ result' = "false" /\ UNCHANGED status
       ELSE loop' = "run" /\ status' = "Running" /\ UNCHANGED result
  /\ UNCHANGED <<initial, force, signals, http, exit>>

RunReturns ==
  /\ loop = "run"
  /\ \/ result' = "true" /\ status' = "Completed"
     \/ result' = "false" /\ status' = "Failed"
     \/ result' = "false" /\ flag /\ UNCHANGED status
     \/ result' = "error" /\ UNCHANGED status
  /\ loop' = "returned"
  /\ UNCHANGED <<initial, force, signals, http, exit>>

--------------------------------------------------------------------------------
(***************************************************************************)
(* The loop                                                                *)
(***************************************************************************)

End(code) ==
  /\ loop' = "ended"
  /\ exit' = code

\* Mutant: the failure is looked at before the shutdown.
FailureFirst ==
  /\ loop = "returned" /\ initial
  /\ IF result \in {"error", "false"} THEN End("error")
     ELSE IF flag THEN End("ok")
     ELSE loop' = "head" /\ UNCHANGED exit
  /\ initial' = FALSE
  /\ UNCHANGED <<force, result, status, signals, http>>

\* After the first run: an error is passed on before the shutdown is looked at.
InitialRunReturned ==
  /\ loop = "returned" /\ initial
  /\ IF result = "error" THEN End("error")
     ELSE IF flag THEN End("ok")
     ELSE IF result = "false" THEN End("error")
     ELSE loop' = "head" /\ UNCHANGED exit
  /\ initial' = FALSE
  /\ UNCHANGED <<force, result, status, signals, http>>

\* Mutant: the status is left as the failed run left it.
LaterRunNotReset ==
  /\ loop = "returned" /\ ~initial
  /\ loop' = "head"
  /\ UNCHANGED <<initial, force, result, status, signals, http, exit>>

\* After a later run: an error ends in reset_status_after_failed_check.
LaterRunReturned ==
  /\ loop = "returned" /\ ~initial
  /\ status' = IF result = "error" THEN "Failed" ELSE status
  /\ loop' = "head"
  /\ UNCHANGED <<initial, force, result, signals, http, exit>>

\* Mutant: the loop relies on the select! alone to see a shutdown.
HeadUnchecked ==
  /\ loop = "head"
  /\ loop' = "settle" /\ UNCHANGED exit
  /\ UNCHANGED <<initial, force, result, status, signals, http>>

\* The check at the head of the loop.
Head ==
  /\ loop = "head"
  /\ IF flag THEN End("ok") ELSE loop' = "settle" /\ UNCHANGED exit
  /\ UNCHANGED <<initial, force, result, status, signals, http>>

\* Mutant: the status becomes Waiting whatever it was.
SettleAlways ==
  /\ loop = "settle"
  /\ status' = "Waiting"
  /\ loop' = "select"
  /\ UNCHANGED <<initial, force, result, signals, http, exit>>

\* Mutant: the loop goes to sleep with the status of the run.
NotSettled ==
  /\ loop = "settle"
  /\ loop' = "select"
  /\ UNCHANGED <<initial, force, result, status, signals, http, exit>>

\* Completed becomes Waiting, after waiting for the lock of the state.
Settle ==
  /\ loop = "settle"
  /\ status' = IF status = "Completed" THEN "Waiting" ELSE status
  /\ loop' = "select"
  /\ UNCHANGED <<initial, force, result, signals, http, exit>>

\* The select! creates its futures.
EnterSelect ==
  /\ loop = "select"
  /\ loop' = "poll"
  /\ notified' = FALSE
  /\ UNCHANGED <<initial, force, result, status, flag, monitor, signalled, http, exit>>

\* The first poll finds nothing ready.
Park ==
  /\ loop = "poll"
  /\ ~notified
  /\ trigger = "none" \/ post # "none"
  /\ loop' = "parked"
  /\ UNCHANGED <<initial, force, result, status, signals, http, exit>>

\* Mutant: the trigger is looked at once, and not again while the loop is parked.
TakeTriggerOnce ==
  /\ loop = "poll"
  /\ trigger # "none" /\ post = "none"
  /\ force' = (trigger = "force")
  /\ trigger' = "none"
  /\ loop' = "call"
  /\ UNCHANGED <<initial, result, status, signals, post, exit>>

\* wait_for_trigger, at the first poll or at one of those every half second.
TakeTrigger ==
  /\ loop \in {"poll", "parked"}
  /\ trigger # "none" /\ post = "none"
  /\ force' = (trigger = "force")
  /\ trigger' = "none"
  /\ loop' = "call"
  /\ UNCHANGED <<initial, result, status, signals, post, exit>>

SelectShutdown ==
  /\ loop \in {"poll", "parked"}
  /\ notified
  /\ End("ok")
  /\ UNCHANGED <<initial, force, result, status, signals, http>>

\* The periodic check, days after the loop was parked: a handler that had the
\* lock of the trigger then has released it long ago.
Timer ==
  /\ loop = "parked" /\ post = "none"
  /\ force' = FALSE
  /\ loop' = "call"
  /\ UNCHANGED <<initial, result, status, signals, http, exit>>

--------------------------------------------------------------------------------
(***************************************************************************)
(* Signals and requests                                                    *)
(***************************************************************************)

MonitorParks ==
  /\ monitor = "spawned"
  /\ monitor' = "parked"
  /\ UNCHANGED <<service, status, flag, signalled, notified, http, exit>>

\* The handler task of main calls notify_waiters, once.
Signal ==
  /\ ~signalled /\ loop # "ended"
  /\ signalled' = TRUE
  /\ monitor' = IF monitor = "parked" THEN "woken" ELSE monitor
  /\ notified' = (loop \in {"poll", "parked"})
  /\ UNCHANGED <<service, status, flag, http, exit>>

MonitorStores ==
  /\ monitor = "woken"
  /\ flag' = TRUE
  /\ monitor' = "done"
  /\ UNCHANGED <<service, status, signalled, notified, http, exit>>

\* trigger_handler takes the lock and lets the request in unless a run is under
\* way; a request that is turned away (409) changes nothing.
PostLetIn(request) ==
  /\ loop # "ended" /\ post = "none"
  /\ status # "Running"
  /\ post' = request
  /\ UNCHANGED <<service, status, signals, trigger, exit>>

\* It stores the request, over one that may be pending, and releases the lock.
PostStored ==
  /\ loop # "ended" /\ post # "none"
  /\ trigger' = post
  /\ post' = "none"
  /\ UNCHANGED <<service, status, signals, exit>>

LoopStep ==
  \/ Call \/ RunReturns \/ InitialRunReturned \/ LaterRunReturned \/ Head \/ Settle
  \/ EnterSelect \/ Park \/ TakeTrigger \/ SelectShutdown

MonitorStep == MonitorParks \/ MonitorStores

Next ==
  \/ LoopStep \/ Timer \/ MonitorStep \/ Signal
  \/ \E request \in Request : PostLetIn(request)
  \/ PostStored

\* The tasks are scheduled, a run returns, and the lock of the trigger, a FIFO
\* mutex, is had by a loop that asks for it again and again.  Neither a signal,
\* nor a request, nor the timer of days is assumed to come.
Fairness ==
  /\ WF_vars(LoopStep)
  /\ SF_vars(TakeTrigger)
  /\ WF_vars(MonitorStep)
  /\ WF_vars(PostStored)

Spec == Init /\ [][Next]_vars /\ Fairness

--------------------------------------------------------------------------------
(***************************************************************************)
(* Properties                                                              *)
(***************************************************************************)

\* The status is Running, and POST /trigger answers 409, only while a run is
\* under way or has just returned, or when the loop is about to end: a failed
\* check never leaves the service refusing to be triggered for days.
ConflictOnlyUnderRun ==
  status = "Running" => loop \in {"run", "returned", "ended"} \/ flag

\* Until a shutdown is seen, the status follows the loop: a run that returned
\* shows its result, and a loop that is parked shows Waiting or Failed, which
\* observers take for the end of a run.
StatusFollowsLoop ==
  ~flag =>
    /\ loop = "call" => status \in {"Idle", "Waiting", "Failed"}
    /\ loop = "run" => status = "Running"
    /\ loop = "returned" => <<result, status>> \in {<<"true", "Completed">>,
                                                  <<"false", "Failed">>,
                                                  <<"error", "Running">>}
    /\ loop \in {"head", "settle"} => status \in {"Completed", "Failed"}
    /\ loop \in {"select", "poll", "parked"} => status \in {"Waiting", "Failed"}

\* A failure stays visible until the next run begins.
FailurePersists == [][status = "Failed" /\ status' # "Failed" => loop = "call"]_vars

\* A request that was let in is served by a run that begins after it, however
\* long the timer has still to go, unless the loop ends first.
TriggerIsServed == trigger # "none" ~> trigger = "none" \/ loop = "ended"

\* A shutdown that the monitor saw ends the loop, as its comments say.  Spec does
\* not have it: the loop may be parked without having seen the flag, until the
\* timer of days comes round.
ShutdownEndsLoop == flag ~> loop = "ended"

\* It is only that wait: if the periodic check comes, it finds the flag and ends.
ShutdownEndsLoopInTime == WF_vars(Timer) => ShutdownEndsLoop

\* initial_run_outcome: once a shutdown was seen, a first run that was cut short
\* by it never sends the process into the failure cooldown and exit code 1.
\* Only a run that returned an error still does: that error leaves the loop
\* before the shutdown is looked at.
CutShortIsClean ==
  [][exit' = "error" /\ exit = "none" /\ flag => result = "error"]_vars
================================================================================
