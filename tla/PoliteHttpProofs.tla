---------------------------- MODULE PoliteHttpProofs ---------------------------
(***************************************************************************)
(* Proofs about PoliteHttp, for any callers, gap, cap, retries and hints.  *)
(***************************************************************************)
EXTENDS PoliteHttp, SequenceTheorems, TLAPS

\* Whoever sleeps in the gap has the mutex, and by the end of its sleep the gap has
\* passed since the last stamp; whoever is about to send has just stamped.
TurnsTaken ==
  \A c \in Callers :
    /\ pc[c] = "gap" => Holds(c) /\ timer[c] + elapsed >= MinGap
    /\ pc[c] = "send" => elapsed = 0 /\ silence = MinGap
    /\ \A d \in Callers : pc[c] = "send" /\ pc[d] = "send" /\ c # d => MinGap = 0

\* With nobody about to send, the last request is as long ago as its stamp.
StampsTrue == (\A c \in Callers : pc[c] # "send") => silence >= elapsed

\* What a server asked for is left over only during the backoff, and less than it.
OwedWhileAsleep ==
  \A c \in Callers : owed[c] > 0 => pc[c] = "backoff" /\ owed[c] <= timer[c]

PInv == TypeOK /\ TurnsTaken /\ StampsTrue /\ OwedWhileAsleep

\* A backoff is a time, and no shorter than what the server has asked for.
LEMMA RetryDelayFacts ==
  ASSUME NEW hint \in Hints \cup {NoHint}, NEW attempt \in 1 .. MaxThrottleRetries
  PROVE  /\ RetryDelay(hint, attempt) \in Nat
         /\ Asked(hint) \in Nat /\ Asked(hint) <= RetryDelay(hint, attempt)
<1>1. CASE hint = NoHint
  BY <1>1, PoliteAssumption DEF Asked
<1>2. CASE hint # NoHint
  <2>1. hint \in Nat /\ MaxRetryAfter \in Nat
    BY <1>2, PoliteAssumption
  <2> QED BY <1>2, <2>1 DEF RetryDelay, Asked, AtMost
<1> QED BY <1>1, <1>2

\* Before the first request the client owes no gap.
LEMMA InitPInv == Init => PInv
BY PoliteAssumption
   DEF Init, PInv, TypeOK, TurnsTaken, StampsTrue, OwedWhileAsleep

\* The stamp of a caller whose gap has passed: nobody else is about to send.
LEMMA StampKeeps ==
  ASSUME PInv, NEW c \in Callers, Holds(c), Stamp(c), elapsed = MinGap,
         timer' \in [Callers -> Nat], \A d \in Callers : timer'[d] = timer[d],
         pc[c] \in {"lock", "gap"}, UNCHANGED <<throttled, silence, owed>>
  PROVE  PInv'
<1> USE PoliteAssumption
<1>1. /\ pc' = [pc EXCEPT ![c] = "send"] /\ elapsed' = 0
      /\ queue' = Tail(queue) /\ queue # <<>> /\ Head(queue) = c
  BY DEF Stamp, Goto, Holds
<1>2. TypeOK'
  <2>1. queue' \in Seq(Callers)
    BY <1>1 DEF PInv, TypeOK
  <2> QED BY <1>1, <2>1 DEF PInv, TypeOK
<1>3. MinGap # 0 => \A d \in Callers : pc[d] # "send"
  BY DEF PInv, TurnsTaken
<1>4. silence = MinGap
  <2>1. CASE MinGap = 0
    BY <2>1 DEF PInv, TypeOK
  <2>2. CASE MinGap # 0
    BY <1>3, <2>2 DEF PInv, TypeOK, StampsTrue
  <2> QED BY <2>1, <2>2
<1>5. \A d \in Callers : d # c => pc[d] # "gap"
  BY <1>1 DEF PInv, TurnsTaken, Holds
<1>6. \A d \in Callers : pc'[d] = IF d = c THEN "send" ELSE pc[d]
  BY <1>1 DEF PInv, TypeOK
<1>7. TurnsTaken'
  <2>1. \A d \in Callers : pc'[d] # "gap"
    BY <1>5, <1>6
  <2>2. \A d, e \in Callers : pc'[d] = "send" /\ pc'[e] = "send" /\ d # e => MinGap = 0
    BY <1>3, <1>6
  <2> QED BY <1>1, <1>4, <2>1, <2>2 DEF TurnsTaken
<1>8. StampsTrue'
  BY <1>6 DEF StampsTrue
<1>9. OwedWhileAsleep'
  BY <1>6 DEF PInv, TypeOK, OwedWhileAsleep
<1> QED BY <1>2, <1>7, <1>8, <1>9 DEF PInv

\* A caller that joins the end of the queue takes the mutex from nobody.
LEMMA AppendKeepsHolder ==
  ASSUME TypeOK, NEW c \in Callers, NEW d \in Callers, queue' = Append(queue, d), Holds(c)
  PROVE  Holds(c)' /\ queue' \in Seq(Callers)
<1>1. /\ queue' \in Seq(Callers) /\ queue' # <<>>
      /\ \A i \in 1 .. Len(queue) : queue'[i] = queue[i]
  BY AppendProperties DEF TypeOK
<1>2. Len(queue) >= 1 /\ queue[1] = c
  BY DEF TypeOK, Holds
<1>3. queue'[1] = c
  BY <1>1, <1>2 DEF TypeOK
<1> QED BY <1>1, <1>3 DEF Holds

\* Every step of a caller and of time keeps it.
LEMMA NextPInv == PInv /\ [Next]_vars => PInv'
<1> SUFFICES ASSUME PInv, [Next]_vars PROVE PInv'
  OBVIOUS
<1> USE PoliteAssumption
<1>t. /\ pc \in [Callers -> {"idle", "lock", "gap", "send", "answer", "backoff"}]
      /\ timer \in [Callers -> Nat] /\ owed \in [Callers -> Nat]
      /\ elapsed \in 0 .. MinGap /\ silence \in 0 .. MinGap
      /\ queue \in Seq(Callers) /\ throttled \in [Callers -> 0 .. MaxThrottleRetries]
  BY DEF PInv, TypeOK
<1>1. ASSUME NEW c \in Callers, Get(c) \/ BackoffOver(c) PROVE PInv'
  <2>1. /\ pc[c] \in {"idle", "backoff"} /\ pc' = [pc EXCEPT ![c] = "lock"]
        /\ pc[c] = "backoff" => timer[c] = 0
        /\ queue' = Append(queue, c)
        /\ UNCHANGED <<timer, elapsed, silence, owed>>
        /\ throttled' \in [Callers -> 0 .. MaxThrottleRetries]
    <3>1. CASE Get(c)
      <4>1. throttled' = [throttled EXCEPT ![c] = 0] /\ 0 \in 0 .. MaxThrottleRetries
        BY <3>1 DEF Get
      <4> QED BY <1>t, <3>1, <4>1 DEF Get, Goto
    <3>2. CASE BackoffOver(c)
      BY <1>t, <3>2 DEF BackoffOver, Goto
    <3> QED BY <1>1, <3>1, <3>2
  <2>2. \A d \in Callers : pc'[d] = IF d = c THEN "lock" ELSE pc[d]
    BY <1>t, <2>1
  <2>3. TypeOK'
    BY <1>t, <2>1 DEF TypeOK
  <2>4. TurnsTaken'
    BY <2>1, <2>2, AppendKeepsHolder DEF PInv, TurnsTaken
  <2>5. StampsTrue' /\ OwedWhileAsleep'
    BY <1>t, <2>1, <2>2 DEF PInv, StampsTrue, OwedWhileAsleep
  <2> QED BY <2>3, <2>4, <2>5 DEF PInv
<1>2. ASSUME NEW c \in Callers, CheckGap(c) PROVE PInv'
  <2>1. CASE elapsed < MinGap
    <3>1. /\ pc[c] = "lock" /\ Holds(c) /\ pc' = [pc EXCEPT ![c] = "gap"]
          /\ timer' = [timer EXCEPT ![c] = MinGap - elapsed]
          /\ UNCHANGED <<queue, elapsed, throttled, silence, owed>>
      BY <1>2, <2>1 DEF CheckGap, Goto, Sleep
    <3>2. MinGap - elapsed \in Nat
      BY <1>t, <2>1
    <3>3. \A d \in Callers : /\ pc'[d] = IF d = c THEN "gap" ELSE pc[d]
                             /\ timer'[d] = IF d = c THEN MinGap - elapsed ELSE timer[d]
      BY <1>t, <3>1
    <3>4. TypeOK'
      BY <1>t, <3>1, <3>2 DEF TypeOK
    <3>5. TurnsTaken'
      BY <1>t, <3>1, <3>3 DEF PInv, TurnsTaken, Holds
    <3>6. StampsTrue' /\ OwedWhileAsleep'
      BY <1>t, <3>1, <3>3 DEF PInv, StampsTrue, OwedWhileAsleep
    <3> QED BY <3>4, <3>5, <3>6 DEF PInv
  <2>2. CASE ~(elapsed < MinGap)
    BY <1>2, <1>t, <2>2, StampKeeps DEF CheckGap
  <2> QED BY <2>1, <2>2
<1>3. ASSUME NEW c \in Callers, GapOver(c) PROVE PInv'
  <2>1. Holds(c) /\ elapsed = MinGap
    BY <1>3, <1>t DEF GapOver, PInv, TurnsTaken
  <2> QED BY <1>3, <1>t, <2>1, StampKeeps DEF GapOver
<1>4. ASSUME NEW c \in Callers, Send(c) PROVE PInv'
  <2>1. /\ pc[c] = "send" /\ pc' = [pc EXCEPT ![c] = "answer"] /\ silence' = 0
        /\ UNCHANGED <<timer, throttled, queue, elapsed, owed>>
    BY <1>4 DEF Send, Goto
  <2>2. \A d \in Callers : pc'[d] = IF d = c THEN "answer" ELSE pc[d]
    BY <1>t, <2>1
  <2>3. TypeOK'
    BY <1>t, <2>1 DEF TypeOK
  <2>4. elapsed = 0 /\ \A d \in Callers : pc'[d] = "send" => MinGap = 0
    BY <2>1, <2>2 DEF PInv, TurnsTaken
  <2>5. TurnsTaken'
    BY <2>1, <2>2, <2>4 DEF PInv, TurnsTaken, Holds
  <2>6. StampsTrue' /\ OwedWhileAsleep'
    BY <1>t, <2>1, <2>2, <2>4 DEF PInv, StampsTrue, OwedWhileAsleep
  <2> QED BY <2>3, <2>5, <2>6 DEF PInv
<1>5. ASSUME NEW c \in Callers, Answered(c) \/ GivesUp(c) PROVE PInv'
  <2>1. /\ pc[c] = "answer" /\ pc' = [pc EXCEPT ![c] = "idle"]
        /\ UNCHANGED <<timer, throttled, queue, elapsed, silence, owed>>
    BY <1>5 DEF Answered, GivesUp, Goto
  <2>2. \A d \in Callers : pc'[d] = IF d = c THEN "idle" ELSE pc[d]
    BY <1>t, <2>1
  <2>3. TypeOK'
    BY <1>t, <2>1 DEF TypeOK
  <2>4. TurnsTaken'
    BY <2>1, <2>2 DEF PInv, TurnsTaken, Holds
  <2>5. StampsTrue' /\ OwedWhileAsleep'
    BY <1>t, <2>1, <2>2 DEF PInv, StampsTrue, OwedWhileAsleep
  <2> QED BY <2>3, <2>4, <2>5 DEF PInv
<1>6. ASSUME NEW c \in Callers, Throttled(c) PROVE PInv'
  <2>1. PICK hint \in Hints \cup {NoHint} :
          /\ pc[c] = "answer" /\ throttled[c] < MaxThrottleRetries
          /\ throttled' = [throttled EXCEPT ![c] = @ + 1]
          /\ pc' = [pc EXCEPT ![c] = "backoff"]
          /\ timer' = [timer EXCEPT ![c] = RetryDelay(hint, throttled[c] + 1)]
          /\ owed' = [owed EXCEPT ![c] = Asked(hint)]
          /\ UNCHANGED <<queue, elapsed, silence>>
    BY <1>6 DEF Throttled, Goto, Sleep
  <2> DEFINE delay == RetryDelay(hint, throttled[c] + 1)
  <2>2. throttled[c] + 1 \in 1 .. MaxThrottleRetries
    BY <1>t, <2>1
  <2>3. delay \in Nat /\ Asked(hint) \in Nat /\ Asked(hint) <= delay
    BY <2>2, RetryDelayFacts
  <2> HIDE DEF delay
  <2>4. \A d \in Callers : /\ pc'[d] = IF d = c THEN "backoff" ELSE pc[d]
                           /\ timer'[d] = IF d = c THEN delay ELSE timer[d]
                           /\ owed'[d] = IF d = c THEN Asked(hint) ELSE owed[d]
    BY <1>t, <2>1 DEF delay
  <2>5. timer' \in [Callers -> Nat] /\ owed' \in [Callers -> Nat]
    BY <1>t, <2>1, <2>3 DEF delay
  <2>6. TypeOK'
    BY <1>t, <2>1, <2>2, <2>5 DEF TypeOK
  <2>7. TurnsTaken'
    BY <2>1, <2>4 DEF PInv, TurnsTaken, Holds
  <2>8. StampsTrue' /\ OwedWhileAsleep'
    BY <1>t, <2>1, <2>3, <2>4 DEF PInv, StampsTrue, OwedWhileAsleep
  <2> QED BY <2>6, <2>7, <2>8 DEF PInv
<1>7. CASE Tick
  <2>1. /\ \A c \in Callers : pc[c] # "send"
        /\ timer' = [c \in Callers |-> Elapse(timer[c])]
        /\ owed' = [c \in Callers |-> Elapse(owed[c])]
        /\ elapsed' = AtMost(elapsed + 1, MinGap)
        /\ silence' = AtMost(silence + 1, MinGap)
        /\ UNCHANGED <<pc, throttled, queue>>
    BY <1>7 DEF Tick
  <2>2. \A t \in Nat : Elapse(t) \in Nat /\ Elapse(t) + 1 >= t /\ Elapse(t) <= t
    BY DEF Elapse
  <2>3. \A t, u \in Nat : t <= u => Elapse(t) <= Elapse(u)
    BY DEF Elapse
  <2>4. /\ elapsed' \in 0 .. MinGap /\ silence' \in 0 .. MinGap
        /\ elapsed' = MinGap \/ elapsed' = elapsed + 1
        /\ silence >= elapsed => silence' >= elapsed'
    BY <1>t, <2>1 DEF AtMost
  <2>5. TypeOK'
    BY <1>t, <2>1, <2>2, <2>4 DEF TypeOK
  <2>6. TurnsTaken'
    <3>1. ASSUME NEW c \in Callers, pc'[c] = "gap"
          PROVE  Holds(c)' /\ timer'[c] + elapsed' >= MinGap
      <4>1. Holds(c)' /\ timer[c] + elapsed >= MinGap /\ timer'[c] = Elapse(timer[c])
        BY <2>1, <3>1 DEF PInv, TurnsTaken, Holds
      <4>2. timer[c] \in Nat /\ timer'[c] \in Nat /\ timer'[c] + 1 >= timer[c]
        BY <1>t, <2>2, <4>1
      <4> QED BY <1>t, <2>4, <4>1, <4>2
    <3> QED BY <2>1, <3>1 DEF TurnsTaken
  <2>7. StampsTrue'
    BY <2>1, <2>4 DEF PInv, StampsTrue
  <2>8. OwedWhileAsleep'
    <3>1. ASSUME NEW c \in Callers, owed'[c] > 0
          PROVE  pc'[c] = "backoff" /\ owed'[c] <= timer'[c]
      <4>1. owed'[c] = Elapse(owed[c]) /\ timer'[c] = Elapse(timer[c])
            /\ owed[c] \in Nat /\ timer[c] \in Nat
        BY <1>t, <2>1
      <4>2. owed[c] > 0
        BY <3>1, <4>1 DEF Elapse
      <4> QED BY <2>1, <2>3, <4>1, <4>2 DEF PInv, OwedWhileAsleep
    <3> QED BY <3>1 DEF OwedWhileAsleep
  <2> QED BY <2>5, <2>6, <2>7, <2>8 DEF PInv
<1>8. CASE UNCHANGED vars
  BY <1>8 DEF vars, callers, PInv, TypeOK, TurnsTaken, StampsTrue, OwedWhileAsleep, Holds
<1> QED
  BY <1>1, <1>2, <1>3, <1>4, <1>5, <1>6, <1>7, <1>8 DEF Next, Proceed

\* The invariant holds in every reachable state.
THEOREM PoliteInvariance == Spec => []PInv
BY InitPInv, NextPInv, PTL DEF Spec

\* The gap lies between any two requests, for any callers that share the client.
THEOREM GapAlwaysKept == Spec => GapKept
<1>1. PInv => (\A c \in Callers : Send(c) => silence = MinGap)
  BY DEF PInv, TurnsTaken, Send
<1> QED BY <1>1, PoliteInvariance, PTL DEF GapKept

\* No caller sends before the time that its server asked for, up to the cap.
THEOREM HintAlwaysHonoured == Spec => RetryAfterHonoured
<1>1. PInv => (\A c \in Callers : Send(c) => owed[c] = 0)
  <2> SUFFICES ASSUME PInv, NEW c \in Callers, Send(c) PROVE owed[c] = 0
    OBVIOUS
  <2>1. owed[c] \in Nat /\ pc[c] = "send"
    BY DEF PInv, TypeOK, Send
  <2> QED BY <2>1 DEF PInv, OwedWhileAsleep
<1> QED BY <1>1, PoliteInvariance, PTL DEF RetryAfterHonoured
================================================================================
