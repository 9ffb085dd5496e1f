------------------------------- MODULE PoliteHttp ------------------------------
(***************************************************************************)
(* PoliteClient (src/polite_http.rs): the callers that share one client    *)
(* take turns at its mutex, which each holds while it sleeps the rest of   *)
(* the gap to the request before; a 429 or 503 makes its caller, and no    *)
(* other, back off and queue again.                                        *)
(*                                                                         *)
(* Time passes in ticks, as timers that run down; a timer that has run     *)
(* down may be noticed late.  The poll that stamps the time of a request   *)
(* also sends it, so that no time passes between the two.                  *)
(***************************************************************************)
EXTENDS Integers, Sequences

CONSTANTS
  Callers,              \* the tasks that share the client
  MinGap,               \* min_gap
  MaxRetryAfter,        \* max_retry_after
  MaxThrottleRetries,   \* max_throttle_retries
  BaseDelay,            \* the backoff after a first answer without a hint, 30 seconds
  Hints                 \* what a server may say in Retry-After

NoHint == -1

AtMost(a, b) == IF a < b THEN a ELSE b

\* retry_delay.  What the server asks for is capped as well.
RetryDelay(hint, attempt) ==
  AtMost(IF hint # NoHint THEN hint ELSE BaseDelay * 2 ^ (attempt - 1), MaxRetryAfter)

\* The last part is arithmetic that the provers do not know of.
ASSUME PoliteAssumption ==
  /\ {MinGap, MaxRetryAfter, MaxThrottleRetries, BaseDelay} \subseteq Nat
  /\ Hints \subseteq Nat
  /\ \A attempt \in 1 .. MaxThrottleRetries : RetryDelay(NoHint, attempt) \in Nat

VARIABLES
  pc,          \* per caller: what its get waits for, "idle" when it has none
  timer,       \* per caller: what is left of its sleep
  throttled,   \* per caller: throttled_attempts
  queue,       \* the mutex: its holder, and those that wait for it in order
  elapsed,     \* since last_request was stamped, as far as MinGap
  silence,     \* since the last request went out, as far as MinGap
  owed         \* per caller: what is left of the wait that its server asked for

callers == <<pc, timer, throttled>>
vars    == <<callers, queue, elapsed, silence, owed>>

TypeOK ==
  /\ pc \in [Callers -> {"idle", "lock", "gap", "send", "answer", "backoff"}]
  /\ timer \in [Callers -> Nat]
  /\ throttled \in [Callers -> 0 .. MaxThrottleRetries]
  /\ queue \in Seq(Callers)
  /\ elapsed \in 0 .. MinGap
  /\ silence \in 0 .. MinGap
  /\ owed \in [Callers -> Nat]

Init ==
  /\ pc = [c \in Callers |-> "idle"]
  /\ timer = [c \in Callers |-> 0]
  /\ throttled = [c \in Callers |-> 0]
  /\ queue = <<>>
  /\ elapsed = MinGap /\ silence = MinGap
  /\ owed = [c \in Callers |-> 0]

Goto(c, label) == pc' = [pc EXCEPT ![c] = label]
Sleep(c, time) == timer' = [timer EXCEPT ![c] = time]

Holds(c) == queue # <<>> /\ Head(queue) = c

--------------------------------------------------------------------------------

Get(c) ==
  /\ pc[c] = "idle"
  /\ Goto(c, "lock")
  /\ throttled' = [throttled EXCEPT ![c] = 0]
  /\ queue' = Append(queue, c)
  /\ UNCHANGED <<timer, elapsed, silence, owed>>

Stamp(c) ==
  /\ Goto(c, "send")
  /\ elapsed' = 0
  /\ queue' = Tail(queue)

\* Mutant: a retry takes its backoff for the gap.
CheckGapOnce(c) ==
  /\ pc[c] = "lock" /\ Holds(c)
  /\ IF elapsed < MinGap /\ throttled[c] = 0
       THEN /\ Goto(c, "gap") /\ Sleep(c, MinGap - elapsed)
            /\ UNCHANGED <<queue, elapsed>>
       ELSE Stamp(c) /\ UNCHANGED timer
  /\ UNCHANGED <<throttled, silence, owed>>

\* wait_for_polite_gap, once its caller has the mutex.
CheckGap(c) ==
  /\ pc[c] = "lock" /\ Holds(c)
  /\ IF elapsed < MinGap
       THEN /\ Goto(c, "gap") /\ Sleep(c, MinGap - elapsed)
            /\ UNCHANGED <<queue, elapsed>>
       ELSE Stamp(c) /\ UNCHANGED timer
  /\ UNCHANGED <<throttled, silence, owed>>

GapOver(c) ==
  /\ pc[c] = "gap" /\ timer[c] = 0
  /\ Stamp(c)
  /\ UNCHANGED <<timer, throttled, silence, owed>>

Send(c) ==
  /\ pc[c] = "send"
  /\ Goto(c, "answer")
  /\ silence' = 0
  /\ UNCHANGED <<timer, throttled, queue, elapsed, owed>>

\* A response with another status, or a connection that fails or times out.
Answered(c) ==
  /\ pc[c] = "answer"
  /\ Goto(c, "idle")
  /\ UNCHANGED <<timer, throttled, queue, elapsed, silence, owed>>

\* What the server asks for, as far as the cap.
Asked(hint) == IF hint = NoHint THEN 0 ELSE AtMost(hint, MaxRetryAfter)

\* Mutant: the answer is retried at once, and not counted.
ThrottledUncounted(c) ==
  \E hint \in Hints \cup {NoHint} :
    /\ pc[c] = "answer"
    /\ Goto(c, "backoff")
    /\ Sleep(c, RetryDelay(hint, 1))
    /\ owed' = [owed EXCEPT ![c] = Asked(hint)]
    /\ UNCHANGED <<throttled, queue, elapsed, silence>>

\* Mutant: the hint is ignored.
ThrottledDeaf(c) ==
  \E hint \in Hints \cup {NoHint} :
    /\ pc[c] = "answer" /\ throttled[c] < MaxThrottleRetries
    /\ throttled' = [throttled EXCEPT ![c] = @ + 1]
    /\ Goto(c, "backoff")
    /\ Sleep(c, RetryDelay(NoHint, throttled[c] + 1))
    /\ owed' = [owed EXCEPT ![c] = Asked(hint)]
    /\ UNCHANGED <<queue, elapsed, silence>>

\* A 429 or 503, for which there is another retry.
Throttled(c) ==
  \E hint \in Hints \cup {NoHint} :
    /\ pc[c] = "answer" /\ throttled[c] < MaxThrottleRetries
    /\ throttled' = [throttled EXCEPT ![c] = @ + 1]
    /\ Goto(c, "backoff")
    /\ Sleep(c, RetryDelay(hint, throttled[c] + 1))
    /\ owed' = [owed EXCEPT ![c] = Asked(hint)]
    /\ UNCHANGED <<queue, elapsed, silence>>

\* A 429 or 503 too many: the get returns an error.
GivesUp(c) ==
  /\ pc[c] = "answer" /\ throttled[c] = MaxThrottleRetries
  /\ Goto(c, "idle")
  /\ UNCHANGED <<timer, throttled, queue, elapsed, silence, owed>>

BackoffOver(c) ==
  /\ pc[c] = "backoff" /\ timer[c] = 0
  /\ Goto(c, "lock")
  /\ queue' = Append(queue, c)
  /\ UNCHANGED <<timer, throttled, elapsed, silence, owed>>

Elapse(t) == IF t = 0 THEN 0 ELSE t - 1

Tick ==
  /\ \A c \in Callers : pc[c] # "send"
  /\ timer' = [c \in Callers |-> Elapse(timer[c])]
  /\ owed' = [c \in Callers |-> Elapse(owed[c])]
  /\ elapsed' = AtMost(elapsed + 1, MinGap)
  /\ silence' = AtMost(silence + 1, MinGap)
  /\ UNCHANGED <<pc, throttled, queue>>

\* What a caller that has begun a get does next.
Proceed(c) ==
  \/ CheckGap(c) \/ GapOver(c) \/ Send(c)
  \/ Answered(c) \/ Throttled(c) \/ GivesUp(c)
  \/ BackoffOver(c)

Next == Tick \/ \E c \in Callers : Get(c) \/ Proceed(c)

\* A request is answered or times out, tasks are scheduled and time goes on.
Fairness == WF_vars(Tick) /\ \A c \in Callers : WF_vars(Proceed(c))

Spec == Init /\ [][Next]_vars /\ Fairness

--------------------------------------------------------------------------------
(***************************************************************************)
(* Properties                                                              *)
(***************************************************************************)

\* Between any two requests of the client, of whatever callers and whether first
\* tries or retries, lies the gap.
GapKept == [][\A c \in Callers : Send(c) => silence = MinGap]_vars

\* A caller that was told to wait sends nothing before it has, up to the cap.
RetryAfterHonoured == [][\A c \in Callers : Send(c) => owed[c] = 0]_vars

\* Every get ends, with a server that never stops to throttle and with other
\* callers that queue again and again.
GetEnds == \A c \in Callers : pc[c] # "idle" ~> pc[c] = "idle"
================================================================================
