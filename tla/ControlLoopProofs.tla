--------------------------- MODULE ControlLoopProofs ---------------------------
(***************************************************************************)
(* Proofs about ControlLoop.  The module has no constants: TLC checks the  *)
(* same state space, and the proofs show on what the invariants rest.      *)
(***************************************************************************)
EXTENDS ControlLoop, TLAPS

\* The lifecycle table is inductive together with the types.
LInv == TypeOK /\ StatusFollowsLoop

\* Before the first run the status is Idle and the loop is at its first call.
LEMMA InitLInv == Init => LInv
BY DEF Init, LInv, TypeOK, StatusFollowsLoop

\* Every step of the loop, of the monitor, of a signal or of a request keeps it.
LEMMA NextLInv == LInv /\ [Next]_vars => LInv'
<1> SUFFICES ASSUME LInv, [Next]_vars PROVE LInv'
  OBVIOUS
<1> USE DEF LInv, TypeOK, StatusFollowsLoop, service, signals, http, Request
<1>1. CASE Call
  <2>1. CASE flag
    BY <1>1, <2>1 DEF Call
  <2>2. CASE ~flag
    BY <1>1, <2>2 DEF Call
  <2> QED BY <2>1, <2>2
<1>2. CASE RunReturns
  <2>1. /\ loop = "run" /\ loop' = "returned"
        /\ UNCHANGED <<initial, force, flag, monitor, signalled, notified, trigger, post,
                       exit>>
        /\ \/ result' = "true" /\ status' = "Completed"
           \/ result' = "false" /\ status' = "Failed"
           \/ result' = "false" /\ flag /\ status' = status
           \/ result' = "error" /\ status' = status
    BY <1>2 DEF RunReturns
  <2>2. TypeOK'
    BY <2>1
  <2>3. ~flag => <<result', status'>> \in {<<"true", "Completed">>, <<"false", "Failed">>,
                                          <<"error", "Running">>}
    BY <2>1
  <2> QED BY <2>1, <2>2, <2>3
<1>3. CASE InitialRunReturned
  <2>1. /\ loop = "returned" /\ loop' \in {"ended", "head"} /\ exit' \in {"none", "ok", "error"}
        /\ initial' \in BOOLEAN
        /\ loop' = "head" => ~flag /\ result \notin {"error", "false"}
        /\ UNCHANGED <<force, result, status, flag, monitor, signalled, notified, trigger,
                       post>>
    BY <1>3 DEF InitialRunReturned, End
  <2>2. TypeOK'
    BY <2>1
  <2>3. loop' = "head" => status' \in {"Completed", "Failed"}
    BY <2>1
  <2> QED BY <2>1, <2>2, <2>3
<1>4. CASE LaterRunReturned
  BY <1>4 DEF LaterRunReturned
<1>5. CASE Head
  BY <1>5 DEF Head, End
<1>6. CASE Settle \/ EnterSelect \/ Park
  <2>1. CASE Settle
    BY <2>1 DEF Settle
  <2>2. CASE EnterSelect
    <3>1. /\ loop = "select" /\ loop' = "poll" /\ notified' \in BOOLEAN
          /\ UNCHANGED <<initial, force, result, status, flag, monitor, signalled, trigger,
                         post, exit>>
      BY <2>2 DEF EnterSelect
    <3>2. TypeOK'
      BY <3>1
    <3>3. StatusFollowsLoop'
      BY <3>1
    <3> QED BY <3>2, <3>3
  <2>3. CASE Park
    BY <2>3 DEF Park
  <2> QED BY <1>6, <2>1, <2>2, <2>3
<1>7. CASE TakeTrigger
  BY <1>7 DEF TakeTrigger
<1>8. CASE SelectShutdown
  BY <1>8 DEF SelectShutdown, End
<1>9. CASE Timer
  <2>1. /\ loop = "parked" /\ loop' = "call" /\ force' \in BOOLEAN
        /\ UNCHANGED <<initial, result, status, flag, monitor, signalled, notified, trigger,
                       post, exit>>
    BY <1>9 DEF Timer
  <2>2. TypeOK'
    BY <2>1
  <2>3. StatusFollowsLoop'
    BY <2>1
  <2> QED BY <2>2, <2>3
<1>10. CASE MonitorParks \/ MonitorStores
  BY <1>10 DEF MonitorParks, MonitorStores
<1>11. CASE Signal
  BY <1>11 DEF Signal
<1>12. ASSUME NEW request \in Request, PostLetIn(request) PROVE LInv'
  BY <1>12 DEF PostLetIn
<1>13. CASE PostStored
  BY <1>13 DEF PostStored
<1>14. CASE UNCHANGED vars
  BY <1>14 DEF vars
<1> QED BY <1>1, <1>2, <1>3, <1>4, <1>5, <1>6, <1>7, <1>8, <1>9, <1>10, <1>11, <1>12,
           <1>13, <1>14
        DEF Next, LoopStep, MonitorStep

\* After any number of runs, failed checks and requests the status is that of
\* the point the loop has reached.
THEOREM StatusOfLoop == Spec => []StatusFollowsLoop
<1>1. LInv => StatusFollowsLoop
  BY DEF LInv
<1> QED BY <1>1, InitLInv, NextLInv, PTL DEF Spec

\* POST /trigger is never refused by a service that is not running.
THEOREM ConflictOnlyRunning == Spec => []ConflictOnlyUnderRun
<1>1. LInv => ConflictOnlyUnderRun
  BY DEF LInv, TypeOK, StatusFollowsLoop, ConflictOnlyUnderRun
<1> QED BY <1>1, InitLInv, NextLInv, PTL DEF Spec

\* A run under way shows Running, also when a shutdown has been seen.
RunShowsRunning == loop = "run" => status = "Running"

LEMMA RunAlwaysShowsRunning == Spec => []RunShowsRunning
<1>1. Init => RunShowsRunning
  BY DEF Init, RunShowsRunning
<1>2. RunShowsRunning /\ [Next]_vars => RunShowsRunning'
  BY DEF RunShowsRunning, Next, LoopStep, MonitorStep, vars, service, signals, http, Call,
         RunReturns, InitialRunReturned, LaterRunReturned, End, Head, Settle, EnterSelect,
         Park, TakeTrigger, SelectShutdown, Timer, MonitorParks, MonitorStores, Signal,
         PostLetIn, PostStored
<1> QED BY <1>1, <1>2, PTL DEF Spec

\* Neither the transition to Waiting nor a later step of the loop hides a failure
\* before the next run begins.
THEOREM FailureStays == Spec => FailurePersists
<1>1. RunShowsRunning /\ [Next]_vars
        => [status = "Failed" /\ status' # "Failed" => loop = "call"]_vars
  BY DEF RunShowsRunning, Next, LoopStep, MonitorStep, vars, service, signals, http, Call,
         RunReturns, InitialRunReturned, LaterRunReturned, End, Head, Settle, EnterSelect,
         Park, TakeTrigger, SelectShutdown, Timer, MonitorParks, MonitorStores, Signal,
         PostLetIn, PostStored
<1> QED BY <1>1, RunAlwaysShowsRunning, PTL DEF Spec, FailurePersists

\* A first run that a shutdown cut short ends the process without an error,
\* unless that run itself returned one.
THEOREM CutShortEndsClean == Spec => CutShortIsClean
<1>1. [Next]_vars => [exit' = "error" /\ exit = "none" /\ flag => result = "error"]_vars
  BY DEF Next, LoopStep, MonitorStep, vars, service, signals, http, Call,
         RunReturns, InitialRunReturned, LaterRunReturned, End, Head, Settle, EnterSelect,
         Park, TakeTrigger, SelectShutdown, Timer, MonitorParks, MonitorStores, Signal,
         PostLetIn, PostStored
<1> QED BY <1>1, PTL DEF Spec, CutShortIsClean
================================================================================
