--------------------------- MODULE MessageQueueProofs --------------------------
(***************************************************************************)
(* Proofs about MessageQueue, for any callers, retries and sizes of calls. *)
(***************************************************************************)
EXTENDS MessageQueue, TLAPS

\* Only who owns the replacement is inside get_channel's critical section, or in new.
OwnerReplaces ==
  \A p \in Callers : pc[p] \in Replacing \cup {"look again", "reread"} => owner = p

\* Nobody replaces a channel that works.
ReplacesLost == \A p \in Callers : pc[p] \in Replacing => channel \notin up

\* A working connection is the queue's, or that of the caller about to store it.
UpIsKnown ==
  \A c \in up : \/ c = channel
                \/ \E p \in Callers : pc[p] \in {"store", "store channel"} /\ held[p] = c

\* As long as no error was noted, all messages before the next one were accepted.
Progress ==
  \A p \in Callers :
    /\ item[p] <= size[p]
    /\ pc[p] = "idle" => item[p] = 1
    /\ accepted[p] \subseteq 1 .. size[p]
    /\ pc[p] # "idle" /\ ~errors[p] => 1 .. (item[p] - 1) \subseteq accepted[p]

QInv ==
  /\ TypeOK
  /\ OwnerReplaces /\ ReplacesLost /\ UpIsKnown
  /\ Progress /\ OkIsEarned

\* The part of it about connections does not depend on what the calls report.
Wiring == OwnerReplaces /\ ReplacesLost /\ UpIsKnown

\* A caller that leaves get_channel, or never enters it, disturbs no replacement.
LEMMA OutsideKeepsWiring ==
  ASSUME TypeOK, Wiring, NEW p \in Callers,
         pc' \in [Callers -> Labels], \A q \in Callers : q # p => pc'[q] = pc[q],
         pc'[p] \notin Replacing \cup {"look again", "reread"},
         pc[p] \notin {"store", "store channel"},
         \A q \in Callers : q # p => held'[q] = held[q],
         owner' = owner \/ (owner = p /\ owner' = None),
         UNCHANGED <<channel, up>>
  PROVE  Wiring'
<1>1. OwnerReplaces'
  BY QueueAssumption DEF Wiring, OwnerReplaces
<1>2. ReplacesLost'
  BY DEF Wiring, ReplacesLost
<1>3. UpIsKnown'
  BY DEF Wiring, UpIsKnown
<1> QED BY <1>1, <1>2, <1>3 DEF Wiring

\* The same for a caller inside that opens and stores nothing.
LEMMA InsideKeepsWiring ==
  ASSUME TypeOK, Wiring, NEW p \in Callers,
         \A q \in Callers : q # p => pc'[q] = pc[q],
         owner' = p, owner = p \/ owner = None,
         pc'[p] \in Replacing => channel \notin up,
         pc[p] \in {"store", "store channel"} => pc'[p] \in {"store", "store channel"},
         UNCHANGED <<held, channel, up>>
  PROVE  Wiring'
<1>1. OwnerReplaces'
  BY QueueAssumption DEF Wiring, OwnerReplaces
<1>2. ReplacesLost'
  BY DEF Wiring, ReplacesLost
<1>3. UpIsKnown'
  BY DEF Wiring, UpIsKnown
<1> QED BY <1>1, <1>2, <1>3 DEF Wiring

\* What Returns, and with it the end of a call, leaves behind.
LEMMA ReturnsFacts ==
  ASSUME TypeOK, NEW p \in Callers, Returns(p)
  PROVE  /\ pc' \in [Callers -> Labels] /\ pc'[p] = "idle"
         /\ item' \in [Callers -> 1 .. MaxItems] /\ item'[p] = 1
         /\ tries' \in [Callers -> Nat]
         /\ held' \in [Callers -> 0 .. opened]
         /\ \A q \in Callers : q # p => /\ pc'[q] = pc[q] /\ item'[q] = item[q]
                                        /\ held'[q] = held[q]
<1>1. 1 \in 1 .. MaxItems /\ NoConn \in 0 .. opened
  BY QueueAssumption DEF TypeOK, NoConn
<1> QED BY <1>1 DEF Returns, Goto, Hold, TypeOK, Labels

\* What Continue does: the next message, or the end of the call.
LEMMA ContinueFacts ==
  ASSUME TypeOK, NEW p \in Callers, Continue(p), item[p] <= size[p]
  PROVE  /\ pc' \in [Callers -> Labels] /\ pc'[p] \in {"idle", "look", "use"}
         /\ item' \in [Callers -> 1 .. MaxItems]
         /\ tries' \in [Callers -> Nat]
         /\ held' \in [Callers -> 0 .. opened]
         /\ \A q \in Callers : q # p => /\ pc'[q] = pc[q] /\ item'[q] = item[q]
                                        /\ held'[q] = held[q]
         /\ IF pc'[p] = "idle" THEN item[p] = size[p] /\ item'[p] = 1
                               ELSE item[p] < size[p] /\ item'[p] = item[p] + 1
<1>1. item[p] \in 1 .. MaxItems /\ size[p] \in 1 .. MaxItems /\ MaxItems \in Nat
  BY QueueAssumption DEF TypeOK
<1>2. CASE item[p] < size[p]
  <2>1. item[p] + 1 \in 1 .. MaxItems /\ NoConn \in 0 .. opened
    BY <1>1, <1>2 DEF TypeOK, NoConn
  <2>2. /\ item' = [item EXCEPT ![p] = item[p] + 1]
        /\ tries' = [tries EXCEPT ![p] = 0]
        /\ \/ pc' = [pc EXCEPT ![p] = "look"] /\ held' = [held EXCEPT ![p] = NoConn]
           \/ pc' = [pc EXCEPT ![p] = "use"] /\ held' = held
    BY <1>2 DEF Continue, Goto, Hold
  <2> QED BY <1>2, <2>1, <2>2 DEF TypeOK, Labels
<1>3. CASE ~(item[p] < size[p])
  <2>1. Returns(p) /\ item[p] = size[p]
    BY <1>1, <1>3 DEF Continue
  <2> QED BY <2>1, ReturnsFacts
<1> QED BY <1>2, <1>3

\* What the failure of a message does to the call.
LEMMA FailOneFacts ==
  ASSUME TypeOK, NEW p \in Callers, FailOne(p), item[p] <= size[p]
  PROVE  /\ pc' \in [Callers -> Labels] /\ pc'[p] \in {"idle", "look", "use"}
         /\ item' \in [Callers -> 1 .. MaxItems] /\ item'[p] <= size[p]
         /\ pc'[p] = "idle" => item'[p] = 1
         /\ tries' \in [Callers -> Nat]
         /\ held' \in [Callers -> 0 .. opened]
         /\ errors' \in [Callers -> BOOLEAN] /\ errors'[p] = TRUE
         /\ \A q \in Callers : q # p => /\ pc'[q] = pc[q] /\ item'[q] = item[q]
                                        /\ held'[q] = held[q] /\ errors'[q] = errors[q]
<1>1. /\ errors' \in [Callers -> BOOLEAN] /\ errors'[p] = TRUE
      /\ \A q \in Callers : q # p => errors'[q] = errors[q]
  BY DEF FailOne, TypeOK
<1>2. item[p] \in Nat /\ size[p] \in 1 .. MaxItems /\ MaxItems \in Nat
  BY QueueAssumption DEF TypeOK
<1>3. CASE Continue(p)
  BY <1>1, <1>2, <1>3, ContinueFacts
<1>4. CASE Returns(p)
  BY <1>1, <1>2, <1>4, ReturnsFacts
<1> QED BY <1>3, <1>4 DEF FailOne

\* A step that leaves the calls where they are, apart from one pc that does not
\* become or stop being idle.
LEMMA ProgressKept ==
  ASSUME TypeOK, Progress, OkIsEarned, NEW p \in Callers,
         pc[p] # "idle", pc'[p] # "idle", \A q \in Callers : q # p => pc'[q] = pc[q],
         UNCHANGED <<call, size, item, accepted, errors>>
  PROVE  Progress' /\ OkIsEarned'
BY DEF Progress, OkIsEarned

\* A message that failed, whether it was accepted or not.
LEMMA FailureKeepsProgress ==
  ASSUME TypeOK, Progress, OkIsEarned, NEW p \in Callers, FailOne(p),
         UNCHANGED <<call, size>>, Accept(p) \/ UNCHANGED accepted
  PROVE  /\ Progress' /\ OkIsEarned'
         /\ accepted' \in [Callers -> SUBSET (1 .. MaxItems)]
<1>1. item[p] <= size[p] /\ item[p] \in 1 .. MaxItems /\ size[p] \in 1 .. MaxItems
      /\ MaxItems \in Nat
  BY QueueAssumption DEF Progress, TypeOK
<1>2. /\ accepted' \in [Callers -> SUBSET (1 .. MaxItems)]
      /\ accepted'[p] \subseteq 1 .. size[p]
      /\ \A q \in Callers : q # p => accepted'[q] = accepted[q]
  BY <1>1 DEF Accept, TypeOK, Progress
<1>3. /\ errors'[p] = TRUE /\ item'[p] <= size[p] /\ (pc'[p] = "idle" => item'[p] = 1)
      /\ \A q \in Callers : q # p => /\ pc'[q] = pc[q] /\ item'[q] = item[q]
                                     /\ errors'[q] = errors[q]
  BY <1>1, FailOneFacts
<1>4. Progress'
  BY <1>2, <1>3 DEF Progress
<1>5. OkIsEarned'
  BY <1>2, <1>3 DEF OkIsEarned
<1> QED BY <1>2, <1>4, <1>5

\* The queue starts with nothing but new.
LEMMA InitQInv == Init => QInv
<1> SUFFICES ASSUME Init PROVE QInv
  OBVIOUS
<1> USE QueueAssumption
<1>1. TypeOK
  BY DEF Init, TypeOK, Labels, Replacing, NoConn
<1>2. OwnerReplaces
  BY DEF Init, OwnerReplaces, Replacing
<1>3. ReplacesLost /\ UpIsKnown
  BY DEF Init, ReplacesLost, UpIsKnown
<1>4. Progress /\ OkIsEarned
  BY DEF Init, Progress, OkIsEarned
<1> QED BY <1>1, <1>2, <1>3, <1>4 DEF QInv

\* Every step of a caller, of the run that closes the queue and of the broker keeps it.
LEMMA NextQInv == QInv /\ [Next]_vars => QInv'
<1> SUFFICES ASSUME QInv, [Next]_vars PROVE QInv'
  OBVIOUS
<1> USE QueueAssumption
<1>t. TypeOK /\ Wiring /\ Progress /\ OkIsEarned
  BY DEF QInv, Wiring
<1>k. \A p \in Callers : /\ item[p] <= size[p] /\ item[p] \in 1 .. MaxItems
                         /\ size[p] \in 1 .. MaxItems /\ pc[p] \in Labels
  BY <1>t DEF Progress, TypeOK
<1>q. TypeOK' /\ Wiring' /\ Progress' /\ OkIsEarned' => QInv'
  BY DEF QInv, Wiring
<1>1. ASSUME NEW p \in Callers, Enter(p) PROVE QInv'
  <2>1. PICK method \in {"setup", "batch", "signal"}, n \in 1 .. MaxItems : Call(p, method, n)
    <3>1. 1 \in 1 .. MaxItems
      OBVIOUS
    <3> QED BY <1>1, <3>1 DEF Enter
  <2>2. /\ pc[p] = "idle" /\ pc' = [pc EXCEPT ![p] = "look"]
        /\ call' = [call EXCEPT ![p] = method] /\ size' = [size EXCEPT ![p] = n]
        /\ accepted' = [accepted EXCEPT ![p] = {}]
        /\ errors' = [errors EXCEPT ![p] = FALSE]
        /\ UNCHANGED <<fields, owner, broker, locals>>
    BY <2>1 DEF Call, Goto
  <2>3. TypeOK'
    BY <1>t, <2>2 DEF TypeOK, Labels, fields, broker, locals
  <2>4. Wiring'
    BY <1>t, <2>2, OutsideKeepsWiring
       DEF TypeOK, Labels, Replacing, fields, broker, locals
  <2>5. item[p] = 1 /\ item' = item
    BY <1>t, <2>2 DEF Progress, locals
  <2>6. Progress' /\ OkIsEarned'
    BY <1>t, <2>2, <2>5 DEF TypeOK, Progress, OkIsEarned
  <2> QED BY <1>q, <2>3, <2>4, <2>6
<1>2. ASSUME NEW p \in Callers, Look(p) PROVE QInv'
  <2>1. /\ pc[p] = "look" /\ pc' \in [Callers -> Labels] /\ pc'[p] \in {"use", "lock"}
        /\ \A q \in Callers : q # p => pc'[q] = pc[q] /\ held'[q] = held[q]
        /\ held' \in [Callers -> 0 .. opened]
        /\ UNCHANGED <<fields, owner, broker, job, item, tries, report>>
    <3>1. CASE channel \in up
      <4>1. /\ pc[p] = "look" /\ pc' = [pc EXCEPT ![p] = "use"]
            /\ held' = [held EXCEPT ![p] = channel]
            /\ UNCHANGED <<fields, owner, broker, job, item, tries, report>>
        BY <1>2, <3>1 DEF Look, Hold, Goto
      <4> QED BY <1>t, <4>1 DEF TypeOK, Labels
    <3>2. CASE channel \notin up
      BY <1>2, <1>t, <3>2 DEF Look, Goto, TypeOK, Labels
    <3> QED BY <3>1, <3>2
  <2>2. TypeOK'
    BY <1>t, <2>1 DEF TypeOK, fields, broker, job, report
  <2>3. Wiring'
    BY <1>t, <2>1, OutsideKeepsWiring DEF Replacing, fields, broker
  <2>4. Progress' /\ OkIsEarned'
    BY <1>t, <2>1, ProgressKept DEF job, report
  <2> QED BY <1>q, <2>2, <2>3, <2>4
<1>3. ASSUME NEW p \in Callers, Lock(p) PROVE QInv'
  <2>1. /\ pc[p] = "lock" /\ owner = None /\ owner' = p
        /\ pc' = [pc EXCEPT ![p] = "look again"]
        /\ UNCHANGED <<fields, broker, job, locals, report>>
    BY <1>3 DEF Lock, Goto
  <2>2. TypeOK'
    BY <1>t, <2>1 DEF TypeOK, Labels, fields, broker, job, locals, report
  <2>3. pc'[p] = "look again" /\ \A q \in Callers : q # p => pc'[q] = pc[q]
    BY <1>t, <2>1 DEF TypeOK
  <2>4. Wiring'
    BY <1>t, <2>1, <2>3, InsideKeepsWiring DEF Replacing, fields, broker, locals
  <2>5. Progress' /\ OkIsEarned'
    BY <1>t, <2>1, <2>3, ProgressKept DEF job, locals, report
  <2> QED BY <1>q, <2>2, <2>4, <2>5
<1>4. ASSUME NEW p \in Callers, LookAgain(p) PROVE QInv'
  <2>0. owner = p
    BY <1>4, <1>t DEF LookAgain, Wiring, OwnerReplaces
  <2>1. CASE channel \in up
    <3>1. /\ pc[p] = "look again" /\ pc' \in [Callers -> Labels] /\ pc'[p] = "use"
          /\ \A q \in Callers : q # p => pc'[q] = pc[q] /\ held'[q] = held[q]
          /\ held' \in [Callers -> 0 .. opened] /\ owner' = None
          /\ UNCHANGED <<fields, broker, job, item, tries, report>>
      <4>1. /\ pc[p] = "look again" /\ pc' = [pc EXCEPT ![p] = "use"]
            /\ held' = [held EXCEPT ![p] = channel] /\ owner' = None
            /\ UNCHANGED <<fields, broker, job, item, tries, report>>
        BY <1>4, <2>1 DEF LookAgain, Hold, Goto
      <4> QED BY <1>t, <4>1 DEF TypeOK, Labels
    <3>2. TypeOK'
      BY <1>t, <3>1 DEF TypeOK, fields, broker, job, report
    <3>3. Wiring'
      BY <1>t, <2>0, <3>1, OutsideKeepsWiring DEF Replacing, fields, broker
    <3>4. Progress' /\ OkIsEarned'
      BY <1>t, <3>1, ProgressKept DEF job, report
    <3> QED BY <1>q, <3>2, <3>3, <3>4
  <2>2. CASE channel \notin up
    <3>1. /\ pc[p] = "look again" /\ pc' = [pc EXCEPT ![p] = "connect"]
          /\ UNCHANGED <<fields, owner, held, broker, job, item, tries, report>>
      BY <1>4, <2>2 DEF LookAgain, Goto
    <3>2. TypeOK'
      BY <1>t, <3>1 DEF TypeOK, Labels, Replacing, fields, broker, job, report
    <3>3. pc'[p] = "connect" /\ \A q \in Callers : q # p => pc'[q] = pc[q]
      BY <1>t, <3>1 DEF TypeOK
    <3>4. Wiring'
      BY <1>t, <2>0, <2>2, <3>1, <3>3, InsideKeepsWiring DEF fields, broker
    <3>5. Progress' /\ OkIsEarned'
      BY <1>t, <3>1, <3>3, ProgressKept DEF job, report
    <3> QED BY <1>q, <3>2, <3>4, <3>5
  <2> QED BY <2>1, <2>2
<1>5. ASSUME NEW p \in Callers, TryConnect(p) PROVE QInv'
  <2>0. owner = p /\ channel \notin up
    BY <1>5, <1>t DEF TryConnect, Wiring, OwnerReplaces, ReplacesLost, Replacing
  <2>1. /\ pc[p] = "connect" /\ opened < MaxConns /\ opened' = opened + 1
        /\ up' = up \cup {opened + 1}
        /\ held' = [held EXCEPT ![p] = opened + 1]
        /\ pc' = [pc EXCEPT ![p] = "store"]
        /\ UNCHANGED <<fields, owner, job, item, tries, report>>
    BY <1>5 DEF TryConnect, Goto, Hold
  <2>2. /\ opened \in Nat /\ opened' \in 0 .. MaxConns
        /\ 0 .. opened \subseteq 0 .. opened' /\ opened + 1 \in 1 .. opened'
        /\ 1 .. opened \subseteq 1 .. opened'
    BY <1>t, <2>1 DEF TypeOK
  <2>3. TypeOK'
    <3>1. held' \in [Callers -> 0 .. opened'] /\ up' \subseteq 1 .. opened'
      BY <1>t, <2>1, <2>2 DEF TypeOK
    <3>2. pc' \in [Callers -> Labels]
      BY <1>t, <2>1 DEF TypeOK, Labels, Replacing
    <3> QED BY <1>t, <2>1, <2>2, <3>1, <3>2 DEF TypeOK, fields, job, report
  <2>4. /\ pc'[p] = "store" /\ held'[p] = opened + 1
        /\ \A q \in Callers : q # p => pc'[q] = pc[q] /\ held'[q] = held[q]
    BY <1>t, <2>1 DEF TypeOK
  <2>5. channel' \notin up'
    BY <1>t, <2>0, <2>1, <2>2 DEF TypeOK, fields
  <2>6. OwnerReplaces'
    BY <1>t, <2>0, <2>1, <2>4 DEF Wiring, OwnerReplaces
  <2>7. ReplacesLost'
    BY <2>5 DEF ReplacesLost
  <2>8. UpIsKnown'
    <3>1. ASSUME NEW c \in up'
          PROVE  \/ c = channel'
                 \/ \E q \in Callers : /\ pc'[q] \in {"store", "store channel"}
                                      /\ held'[q] = c
      <4>1. CASE c = opened + 1
        BY <2>4, <4>1
      <4>2. CASE c \in up /\ c = channel
        BY <2>1, <4>2 DEF fields
      <4>3. CASE c \in up /\ c # channel
        <5>1. PICK q \in Callers : pc[q] \in {"store", "store channel"} /\ held[q] = c
          BY <1>t, <4>3 DEF Wiring, UpIsKnown
        <5>2. q # p
          BY <2>1, <5>1
        <5> QED BY <2>4, <5>1, <5>2
      <4> QED BY <2>1, <3>1, <4>1, <4>2, <4>3
    <3> QED BY <3>1 DEF UpIsKnown
  <2>9. Progress' /\ OkIsEarned'
    BY <1>t, <2>1, <2>4, ProgressKept DEF job, report
  <2> QED BY <1>q, <2>3, <2>6, <2>7, <2>8, <2>9 DEF Wiring
<1>6. ASSUME NEW p \in Callers, ConnectFails(p) PROVE QInv'
  <2>0. owner = p /\ pc[p] = "connect"
    BY <1>6, <1>t DEF ConnectFails, Wiring, OwnerReplaces, Replacing
  <2>1. CASE tries[p] + 1 < MaxRetries
    <3>1. /\ pc' = [pc EXCEPT ![p] = "backoff"]
          /\ tries' = [tries EXCEPT ![p] = @ + 1]
          /\ UNCHANGED <<queue, owner, item, held, errors, connection, channel, broker,
                         job, accepted>>
      BY <1>6, <2>1 DEF ConnectFails, Goto
    <3>2. TypeOK'
      <4>1. tries[p] + 1 \in Nat
        BY <1>t DEF TypeOK
      <4>2. tries' \in [Callers -> Nat]
        BY <1>t, <3>1, <4>1 DEF TypeOK
      <4>3. pc' \in [Callers -> Labels]
        BY <1>t, <3>1 DEF TypeOK, Labels, Replacing
      <4> QED BY <1>t, <2>0, <3>1, <4>2, <4>3 DEF TypeOK, broker, job
    <3>3. pc'[p] = "backoff" /\ \A q \in Callers : q # p => pc'[q] = pc[q]
      BY <1>t, <3>1 DEF TypeOK
    <3>4. channel \notin up
      BY <1>t, <2>0 DEF Wiring, ReplacesLost, Replacing
    <3>5. Wiring'
      BY <1>t, <2>0, <3>1, <3>3, <3>4, InsideKeepsWiring DEF broker
    <3>6. Progress' /\ OkIsEarned'
      BY <1>t, <2>0, <3>1, <3>3, ProgressKept DEF job
    <3> QED BY <1>q, <3>2, <3>5, <3>6
  <2>2. CASE ~(tries[p] + 1 < MaxRetries)
    <3>1. /\ FailOne(p) /\ owner' = None /\ queue' \in {queue, "refused"}
          /\ UNCHANGED <<connection, channel, broker, job, accepted>>
      BY <1>6, <2>2 DEF ConnectFails
    <3>2. TypeOK'
      BY <1>t, <1>k, <3>1, FailOneFacts DEF TypeOK, broker, job
    <3>3. Wiring'
      BY <1>t, <1>k, <2>0, <3>1, FailOneFacts, OutsideKeepsWiring DEF Replacing, broker
    <3>4. Progress' /\ OkIsEarned'
      BY <1>t, <3>1, FailureKeepsProgress DEF job
    <3> QED BY <1>q, <3>2, <3>3, <3>4
  <2> QED BY <2>1, <2>2
<1>7. ASSUME NEW p \in Callers, BackoffOver(p) PROVE QInv'
  <2>0. owner = p /\ channel \notin up
    BY <1>7, <1>t DEF BackoffOver, Wiring, OwnerReplaces, ReplacesLost, Replacing
  <2>1. /\ pc[p] = "backoff" /\ pc' = [pc EXCEPT ![p] = "connect"]
        /\ UNCHANGED <<fields, owner, broker, job, locals, report>>
    BY <1>7 DEF BackoffOver, Goto
  <2>2. TypeOK'
    BY <1>t, <2>1 DEF TypeOK, Labels, Replacing, fields, broker, job, locals, report
  <2>3. pc'[p] = "connect" /\ \A q \in Callers : q # p => pc'[q] = pc[q]
    BY <1>t, <2>1 DEF TypeOK
  <2>4. Wiring'
    BY <1>t, <2>0, <2>1, <2>3, InsideKeepsWiring DEF fields, broker, locals
  <2>5. Progress' /\ OkIsEarned'
    BY <1>t, <2>1, <2>3, ProgressKept DEF job, locals, report
  <2> QED BY <1>q, <2>2, <2>4, <2>5
<1>8. ASSUME NEW p \in Callers, StoreConnection(p) PROVE QInv'
  <2>0. owner = p /\ channel \notin up
    BY <1>8, <1>t DEF StoreConnection, Wiring, OwnerReplaces, ReplacesLost, Replacing
  <2>1. /\ pc[p] = "store" /\ pc' = [pc EXCEPT ![p] = "store channel"]
        /\ connection' = held[p]
        /\ UNCHANGED <<queue, channel, owner, broker, job, locals, report>>
    BY <1>8 DEF StoreConnection, Goto
  <2>2. TypeOK'
    BY <1>t, <2>1 DEF TypeOK, Labels, Replacing, broker, job, locals, report
  <2>3. pc'[p] = "store channel" /\ \A q \in Callers : q # p => pc'[q] = pc[q]
    BY <1>t, <2>1 DEF TypeOK
  <2>4. Wiring'
    BY <1>t, <2>0, <2>1, <2>3, InsideKeepsWiring DEF broker, locals
  <2>5. Progress' /\ OkIsEarned'
    BY <1>t, <2>1, <2>3, ProgressKept DEF job, locals, report
  <2> QED BY <1>q, <2>2, <2>4, <2>5
<1>9. ASSUME NEW p \in Callers, StoreChannel(p) PROVE QInv'
  <2>0. pc[p] = "store channel" /\ owner = p /\ channel \notin up
    BY <1>9, <1>t DEF StoreChannel, Wiring, OwnerReplaces, ReplacesLost, Replacing
  <2>1. /\ channel' = held[p] /\ UNCHANGED <<connection, broker, job, report>>
        /\ \/ Returns(p) /\ queue' = "ready" /\ owner' = None /\ call[p] = "new"
           \/ Goto(p, "reread") /\ UNCHANGED <<queue, owner, locals>>
    BY <1>9 DEF StoreChannel
  <2>2. /\ pc' \in [Callers -> Labels] /\ pc'[p] \in {"idle", "reread"}
        /\ item' \in [Callers -> 1 .. MaxItems] /\ tries' \in [Callers -> Nat]
        /\ held' \in [Callers -> 0 .. opened]
        /\ \A q \in Callers : q # p => /\ pc'[q] = pc[q] /\ item'[q] = item[q]
                                       /\ held'[q] = held[q]
        /\ pc'[p] = "idle" => item'[p] = 1 /\ call[p] = "new"
        /\ pc'[p] # "idle" => item'[p] = item[p] /\ owner' = p
        /\ queue' \in {queue, "ready"} /\ owner' \in {p, None}
    <3>1. CASE Returns(p) /\ queue' = "ready" /\ owner' = None /\ call[p] = "new"
      BY <1>t, <3>1, ReturnsFacts
    <3>2. CASE Goto(p, "reread") /\ UNCHANGED <<queue, owner, locals>>
      BY <1>t, <2>0, <3>2 DEF Goto, TypeOK, Labels, locals
    <3> QED BY <2>1, <3>1, <3>2
  <2>3. TypeOK'
    BY <1>t, <2>1, <2>2 DEF TypeOK, broker, job, report
  <2>4. \A c \in up : c = held[p]
    BY <1>t, <2>0 DEF Wiring, UpIsKnown, OwnerReplaces, Replacing
  <2>5. \A q \in Callers : q # p => pc'[q] \notin Replacing \cup {"look again", "reread"}
    BY <1>t, <2>0, <2>2 DEF Wiring, OwnerReplaces
  <2>6. OwnerReplaces' /\ ReplacesLost'
    BY <2>2, <2>5 DEF OwnerReplaces, ReplacesLost, Replacing
  <2>7. UpIsKnown'
    BY <2>1, <2>4 DEF UpIsKnown, broker
  <2>8. Progress'
    <3>1. /\ item'[p] <= size[p] /\ (pc'[p] = "idle" => item'[p] = 1)
          /\ pc'[p] # "idle" => item'[p] = item[p]
      BY <1>k, <2>2
    <3>2. UNCHANGED <<size, accepted, errors>>
      BY <2>1 DEF job, report
    <3> QED BY <1>t, <2>0, <2>2, <3>1, <3>2 DEF Progress
  <2>9. OkIsEarned'
    BY <1>t, <2>1, <2>2 DEF OkIsEarned, job, report
  <2> QED BY <1>q, <2>3, <2>6, <2>7, <2>8, <2>9 DEF Wiring
<1>10. ASSUME NEW p \in Callers, Reread(p) PROVE QInv'
  <2>0. owner = p /\ pc[p] = "reread"
    BY <1>10, <1>t DEF Reread, Wiring, OwnerReplaces
  <2>1. /\ pc' \in [Callers -> Labels] /\ pc'[p] = "use"
        /\ \A q \in Callers : q # p => pc'[q] = pc[q] /\ held'[q] = held[q]
        /\ held' \in [Callers -> 0 .. opened] /\ tries' \in [Callers -> Nat]
        /\ owner' = None
        /\ UNCHANGED <<fields, broker, job, item, report>>
    BY <1>10, <1>t DEF Reread, Hold, Goto, TypeOK, Labels
  <2>2. TypeOK'
    BY <1>t, <2>1 DEF TypeOK, fields, broker, job, report
  <2>3. Wiring'
    BY <1>t, <2>0, <2>1, OutsideKeepsWiring DEF Replacing, fields, broker
  <2>4. Progress' /\ OkIsEarned'
    BY <1>t, <2>0, <2>1, ProgressKept DEF job, report
  <2> QED BY <1>q, <2>2, <2>3, <2>4
<1>11. ASSUME NEW p \in Callers, Declare(p) PROVE QInv'
  <2>1. /\ pc[p] = "use" /\ call[p] = "setup" /\ Returns(p)
        /\ UNCHANGED <<fields, owner, broker, job, report>>
    BY <1>11 DEF Declare
  <2>2. TypeOK'
    BY <1>t, <2>1, ReturnsFacts DEF TypeOK, fields, broker, job, report
  <2>3. Wiring'
    BY <1>t, <2>1, ReturnsFacts, OutsideKeepsWiring DEF Replacing, fields, broker
  <2>4. Progress'
    BY <1>t, <1>k, <2>1, ReturnsFacts DEF Progress, job, report
  <2>5. OkIsEarned'
    BY <1>t, <2>1, ReturnsFacts DEF OkIsEarned, job, report
  <2> QED BY <1>q, <2>2, <2>3, <2>4, <2>5
<1>12. ASSUME NEW p \in Callers, Publish(p) PROVE QInv'
  <2>1. /\ pc[p] = "use" /\ pc' = [pc EXCEPT ![p] = "confirm"]
        /\ UNCHANGED <<fields, owner, broker, job, locals, report>>
    BY <1>12 DEF Publish, Goto
  <2>2. TypeOK'
    BY <1>t, <2>1 DEF TypeOK, Labels, fields, broker, job, locals, report
  <2>3. pc'[p] = "confirm" /\ \A q \in Callers : q # p => pc'[q] = pc[q]
    BY <1>t, <2>1 DEF TypeOK
  <2>4. Wiring'
    BY <1>t, <2>1, <2>2, <2>3, OutsideKeepsWiring
       DEF TypeOK, Replacing, fields, broker, locals
  <2>5. Progress' /\ OkIsEarned'
    BY <1>t, <2>1, <2>3, ProgressKept DEF job, locals, report
  <2> QED BY <1>q, <2>2, <2>4, <2>5
<1>13. ASSUME NEW p \in Callers, SendFails(p) \/ Refused(p) \/ Unanswered(p) PROVE QInv'
  <2>1. /\ pc[p] \in {"use", "confirm"} /\ FailOne(p) /\ (Accept(p) \/ UNCHANGED accepted)
        /\ UNCHANGED <<fields, owner, broker, job>>
    BY <1>13 DEF SendFails, Refused, Unanswered
  <2>2. /\ Progress' /\ OkIsEarned'
        /\ accepted' \in [Callers -> SUBSET (1 .. MaxItems)]
    BY <1>t, <2>1, FailureKeepsProgress DEF job
  <2>3. TypeOK'
    BY <1>t, <1>k, <2>1, <2>2, FailOneFacts DEF TypeOK, fields, broker, job
  <2>4. Wiring'
    BY <1>t, <1>k, <2>1, FailOneFacts, OutsideKeepsWiring DEF Replacing, fields, broker
  <2> QED BY <1>q, <2>2, <2>3, <2>4
<1>14. ASSUME NEW p \in Callers, Confirmed(p) PROVE QInv'
  <2>1. /\ pc[p] = "confirm" /\ Continue(p)
        /\ accepted' = [accepted EXCEPT ![p] = accepted[p] \cup {item[p]}]
        /\ UNCHANGED <<fields, owner, broker, job, errors>>
    BY <1>14 DEF Confirmed, Accept
  <2>2. /\ accepted' \in [Callers -> SUBSET (1 .. MaxItems)]
        /\ accepted'[p] = accepted[p] \cup {item[p]}
        /\ accepted'[p] \subseteq 1 .. size[p]
        /\ \A q \in Callers : q # p => accepted'[q] = accepted[q]
    BY <1>t, <1>k, <2>1 DEF TypeOK, Progress
  <2>3. TypeOK'
    BY <1>t, <1>k, <2>1, <2>2, ContinueFacts DEF TypeOK, fields, broker, job
  <2>4. Wiring'
    BY <1>t, <1>k, <2>1, ContinueFacts, OutsideKeepsWiring DEF Replacing, fields, broker
  <2>5. ~errors[p] => 1 .. item[p] \subseteq accepted'[p]
    BY <1>t, <1>k, <2>1, <2>2 DEF Progress
  <2>6. IF pc'[p] = "idle" THEN item[p] = size[p] /\ item'[p] = 1
                           ELSE item[p] < size[p] /\ item'[p] = item[p] + 1
    BY <1>t, <1>k, <2>1, ContinueFacts
  <2>7. \A q \in Callers : q # p => pc'[q] = pc[q] /\ item'[q] = item[q]
    BY <1>t, <1>k, <2>1, ContinueFacts
  <2>8. Progress'
    BY <1>t, <1>k, <2>1, <2>2, <2>5, <2>6, <2>7 DEF Progress, job
  <2>9. OkIsEarned'
    BY <1>t, <1>k, <2>1, <2>2, <2>5, <2>6, <2>7 DEF OkIsEarned, job
  <2> QED BY <1>q, <2>3, <2>4, <2>8, <2>9
<1>15. CASE Close
  <2>1. /\ connection' = 0 /\ channel' = 0 /\ up' = {} /\ queue' = "closed"
        /\ \A p \in Callers : pc[p] = "idle"
        /\ UNCHANGED <<owner, opened, pc, job, locals, report>>
    BY <1>15 DEF Close, NoConn
  <2>2. TypeOK'
    BY <1>t, <2>1 DEF TypeOK, job, locals, report
  <2>3. Wiring'
    BY <2>1 DEF Wiring, OwnerReplaces, ReplacesLost, UpIsKnown, Replacing
  <2>4. Progress' /\ OkIsEarned'
    BY <1>t, <2>1 DEF Progress, OkIsEarned, job, locals, report
  <2> QED BY <1>q, <2>2, <2>3, <2>4
<1>16. ASSUME NEW c \in up, Lose(c) PROVE QInv'
  <2>1. up' = up \ {c} /\ UNCHANGED <<fields, owner, opened, pc, job, locals, report>>
    BY <1>16 DEF Lose
  <2>2. TypeOK'
    BY <1>t, <2>1 DEF TypeOK, fields, job, locals, report
  <2>3. Wiring'
    BY <1>t, <2>1 DEF Wiring, OwnerReplaces, ReplacesLost, UpIsKnown, fields, locals
  <2>4. Progress' /\ OkIsEarned'
    BY <1>t, <2>1 DEF Progress, OkIsEarned, job, locals, report
  <2> QED BY <1>q, <2>2, <2>3, <2>4
<1>17. CASE UNCHANGED vars
  <2>1. TypeOK'
    BY <1>t, <1>17 DEF vars, fields, broker, job, locals, report, TypeOK
  <2>2. Wiring'
    BY <1>t, <1>17 DEF vars, fields, broker, locals, Wiring, OwnerReplaces, ReplacesLost,
                       UpIsKnown
  <2>3. Progress' /\ OkIsEarned'
    BY <1>t, <1>17 DEF vars, job, locals, report, Progress, OkIsEarned
  <2> QED BY <1>q, <2>1, <2>2, <2>3
<1> QED
  BY <1>1, <1>2, <1>3, <1>4, <1>5, <1>6, <1>7, <1>8, <1>9, <1>10, <1>11, <1>12, <1>13,
     <1>14, <1>15, <1>16, <1>17 DEF Next, Proceed, Connects, Answered

\* The invariant holds in every reachable state.
THEOREM QueueInvariance == Spec => []QInv
BY InitQInv, NextQInv, PTL DEF Spec

\* Two callers that find the channel lost never both replace it.
THEOREM NeverTwoConnected == Spec => []OneConnected
<1>1. QInv => OneConnected
  <2> SUFFICES ASSUME QInv, NEW c \in up, NEW d \in up PROVE c = d
    BY DEF OneConnected
  <2>1. CASE c = channel \/ d = channel
    BY <2>1 DEF QInv, UpIsKnown, ReplacesLost, Replacing
  <2>2. CASE c # channel /\ d # channel
    <3>1. PICK p \in Callers : pc[p] \in {"store", "store channel"} /\ held[p] = c
      BY <2>2 DEF QInv, UpIsKnown
    <3>2. PICK q \in Callers : pc[q] \in {"store", "store channel"} /\ held[q] = d
      BY <2>2 DEF QInv, UpIsKnown
    <3>3. owner = p /\ owner = q
      BY <3>1, <3>2 DEF QInv, OwnerReplaces, Replacing
    <3> QED BY <3>1, <3>2, <3>3
  <2> QED BY <2>1, <2>2
<1> QED BY <1>1, QueueInvariance, PTL

\* A call that returns Ok has all of its messages on the queues.
THEOREM OkAlwaysEarned == Spec => []OkIsEarned
BY QueueInvariance, PTL DEF QInv

--------------------------------------------------------------------------------
(***************************************************************************)
(* A queue is what its callers expect of a broker (BrokerCalls)            *)
(***************************************************************************)

\* What is accepted of a call lies before the message that is next, only a signal
\* goes on after an error, and a message that waits for its confirm was sent by a
\* method that sends messages.
CallsInOrder ==
  \A p \in Callers : pc[p] # "idle" =>
    /\ accepted[p] \subseteq 1 .. (item[p] - 1)
    /\ errors[p] => call[p] = "signal"
    /\ call[p] = "new" => pc[p] \in Replacing
    /\ pc[p] = "confirm" => call[p] \in {"batch", "signal"}

\* A step inside a call that neither accepts a message nor notes an error.
LEMMA SilentStep ==
  ASSUME TypeOK, CallsInOrder, NEW p \in Callers,
         pc[p] # "idle", pc'[p] # "idle", \A q \in Callers : q # p => pc'[q] = pc[q],
         call[p] = "new" => pc'[p] \in Replacing,
         pc'[p] = "confirm" => call[p] \in {"batch", "signal"},
         UNCHANGED <<call, size, item, accepted, errors>>
  PROVE  CallsInOrder' /\ UNCHANGED Calls!vars
<1>1. CallsInOrder'
  BY DEF CallsInOrder
<1>2. {q \in Callers : pc'[q] # "idle"} = {q \in Callers : pc[q] # "idle"}
  OBVIOUS
<1> QED BY <1>1, <1>2 DEF Calls!vars

\* The message that is next is the one that BrokerCalls accepts.
LEMMA AcceptsNext ==
  ASSUME TypeOK, Progress, CallsInOrder, NEW p \in Callers,
         pc[p] = "confirm", Accept(p)
  PROVE  item[p] \in 1 .. MaxItems /\ Calls!Accept(p, item[p])
<1>1. /\ item[p] \in 1 .. MaxItems /\ size[p] \in 1 .. MaxItems /\ MaxItems \in Nat
      /\ item[p] <= size[p] /\ call[p] \in {"batch", "signal"}
      /\ accepted[p] \subseteq 1 .. (item[p] - 1)
  BY QueueAssumption DEF TypeOK, Progress, CallsInOrder
<1>2. call[p] = "batch" => accepted[p] = 1 .. (item[p] - 1)
  BY <1>1 DEF CallsInOrder, Progress
<1>3. item[p] \in 1 .. size[p] /\ \A j \in accepted[p] : j < item[p]
  BY <1>1
<1> QED BY <1>1, <1>2, <1>3 DEF Accept, Calls!Accept

\* A message that fails, for whatever reason, is a call that fails.
LEMMA FailureStep ==
  ASSUME TypeOK, Progress, CallsInOrder, NEW p \in Callers, FailOne(p),
         pc[p] # "idle", UNCHANGED <<call, size>>,
         (pc[p] = "confirm" /\ Accept(p)) \/ UNCHANGED accepted
  PROVE  CallsInOrder' /\ Calls!Fail(p)
<1>1. /\ item[p] \in 1 .. MaxItems /\ size[p] \in 1 .. MaxItems /\ MaxItems \in Nat
      /\ item[p] <= size[p]
  BY QueueAssumption DEF TypeOK, Progress
<1>2. /\ accepted'[p] \subseteq 1 .. item[p]
      /\ \A q \in Callers : q # p => accepted'[q] = accepted[q]
  <2>1. accepted[p] \subseteq 1 .. (item[p] - 1)
    BY DEF CallsInOrder
  <2>2. accepted'[p] \subseteq accepted[p] \cup {item[p]}
    BY DEF Accept, TypeOK
  <2> QED BY <1>1, <2>1, <2>2 DEF Accept, TypeOK
<1>3. /\ errors'[p] = TRUE /\ pc'[p] \in {"idle", "look", "use"}
      /\ \A q \in Callers : q # p => /\ pc'[q] = pc[q] /\ item'[q] = item[q]
                                     /\ errors'[q] = errors[q]
  BY <1>1, FailOneFacts
<1>4. pc'[p] # "idle" => call[p] = "signal" /\ item'[p] = item[p] + 1
  <2>1. CASE call[p] = "signal"
    BY <1>1, <2>1, ContinueFacts DEF FailOne
  <2>2. CASE call[p] # "signal"
    BY <2>2, ReturnsFacts DEF FailOne
  <2> QED BY <2>1, <2>2
<1>5. pc'[p] # "idle" => pc'[p] # "confirm" /\ accepted'[p] \subseteq 1 .. (item'[p] - 1)
  BY <1>1, <1>2, <1>3, <1>4
<1>6. CallsInOrder'
  BY <1>2, <1>3, <1>4, <1>5 DEF CallsInOrder
<1>7. {q \in Callers : errors'[q]} = {q \in Callers : errors[q]} \cup {p}
  BY <1>3
<1>8. \/ {q \in Callers : pc'[q] # "idle"} = {q \in Callers : pc[q] # "idle"} \ {p}
      \/ /\ call[p] = "signal"
         /\ {q \in Callers : pc'[q] # "idle"} = {q \in Callers : pc[q] # "idle"}
  BY <1>3, <1>4
<1>9. UNCHANGED accepted \/ \E i \in 1 .. MaxItems : Calls!Accept(p, i)
  BY AcceptsNext
<1> QED BY <1>6, <1>7, <1>8, <1>9 DEF Calls!Fail

\* A confirm is a message accepted, and after the last one the end of the call.
LEMMA ConfirmedStep ==
  ASSUME TypeOK, Progress, CallsInOrder, NEW p \in Callers, Confirmed(p)
  PROVE  CallsInOrder' /\ \E i \in 1 .. MaxItems : Calls!Succeed(p, i)
<1>1. /\ item[p] \in 1 .. MaxItems /\ size[p] \in 1 .. MaxItems /\ MaxItems \in Nat
      /\ item[p] <= size[p] /\ accepted[p] \subseteq 1 .. (item[p] - 1)
      /\ pc[p] = "confirm" /\ call[p] \in {"batch", "signal"}
  BY QueueAssumption DEF TypeOK, Progress, CallsInOrder, Confirmed
<1>2. /\ Accept(p) /\ Continue(p) /\ UNCHANGED <<call, size, errors>>
  BY DEF Confirmed, job
<1>3. /\ accepted'[p] = accepted[p] \cup {item[p]}
      /\ \A q \in Callers : q # p => accepted'[q] = accepted[q]
  BY <1>2 DEF Accept, TypeOK
<1>4. /\ pc'[p] \in {"idle", "look", "use"}
      /\ \A q \in Callers : q # p => pc'[q] = pc[q] /\ item'[q] = item[q]
      /\ IF pc'[p] = "idle" THEN item[p] = size[p]
                            ELSE item'[p] = item[p] + 1
  BY <1>1, <1>2, ContinueFacts
<1>5. pc'[p] # "idle" => accepted'[p] \subseteq 1 .. (item'[p] - 1)
  BY <1>1, <1>3, <1>4
<1>6. CallsInOrder'
  BY <1>1, <1>2, <1>3, <1>4, <1>5 DEF CallsInOrder
<1>7. pc'[p] = "idle" => errors[p] \/ accepted'[p] = 1 .. size[p]
  BY <1>1, <1>3, <1>4 DEF Progress
<1>8. \/ {q \in Callers : pc'[q] # "idle"} = {q \in Callers : pc[q] # "idle"}
      \/ /\ {q \in Callers : pc'[q] # "idle"} = {q \in Callers : pc[q] # "idle"} \ {p}
         /\ errors[p] \/ accepted'[p] = 1 .. size[p]
  BY <1>1, <1>4, <1>7
<1>9. item[p] \in 1 .. MaxItems /\ Calls!Accept(p, item[p])
  BY <1>1, <1>2, AcceptsNext
<1> QED BY <1>1, <1>2, <1>6, <1>8, <1>9 DEF Calls!Succeed

\* new and setup_exchange return Ok.
LEMMA FinishStep ==
  ASSUME TypeOK, CallsInOrder, NEW p \in Callers, Returns(p), pc[p] # "idle",
         call[p] \in {"new", "setup"}, UNCHANGED <<call, size, accepted, errors>>
  PROVE  CallsInOrder' /\ Calls!Finish(p)
<1>1. /\ pc'[p] = "idle"
      /\ \A q \in Callers : q # p => pc'[q] = pc[q] /\ item'[q] = item[q]
  BY ReturnsFacts
<1>2. CallsInOrder'
  BY <1>1 DEF CallsInOrder
<1>3. {q \in Callers : pc'[q] # "idle"} = {q \in Callers : pc[q] # "idle"} \ {p}
  BY <1>1
<1> QED BY <1>2, <1>3 DEF Calls!Finish

\* A call begins with nothing accepted.
LEMMA BeginStep ==
  ASSUME TypeOK, Progress, CallsInOrder, NEW p \in Callers,
         NEW method \in {"setup", "batch", "signal"}, NEW n \in 1 .. MaxItems,
         Call(p, method, n)
  PROVE  CallsInOrder' /\ Calls!Begin(p, method, n)
<1>1. /\ pc[p] = "idle" /\ pc' = [pc EXCEPT ![p] = "look"] /\ item' = item
      /\ call' = [call EXCEPT ![p] = method] /\ size' = [size EXCEPT ![p] = n]
      /\ accepted' = [accepted EXCEPT ![p] = {}]
      /\ errors' = [errors EXCEPT ![p] = FALSE]
  BY DEF Call, Goto, locals
<1>2. /\ pc'[p] = "look" /\ call'[p] = method /\ accepted'[p] = {} /\ errors'[p] = FALSE
      /\ \A q \in Callers : q # p => /\ pc'[q] = pc[q] /\ call'[q] = call[q]
                                     /\ accepted'[q] = accepted[q]
                                     /\ errors'[q] = errors[q]
  BY <1>1 DEF TypeOK
<1>3. CallsInOrder'
  BY <1>1, <1>2 DEF CallsInOrder
<1>4. /\ {q \in Callers : pc'[q] # "idle"} = {q \in Callers : pc[q] # "idle"} \cup {p}
      /\ {q \in Callers : errors'[q]} = {q \in Callers : errors[q]} \ {p}
  BY <1>2
<1> QED BY <1>1, <1>3, <1>4 DEF Calls!Begin

\* Each step of the queue is one of BrokerCalls or none that its callers see.
LEMMA NextCalls ==
  ASSUME QInv, CallsInOrder, [Next]_vars
  PROVE  CallsInOrder' /\ [Calls!Next]_Calls!vars
<1>t. TypeOK /\ Progress
  BY DEF QInv
<1>1. ASSUME NEW p \in Callers, Enter(p) PROVE CallsInOrder' /\ Calls!Next
  <2>0. 1 \in 1 .. MaxItems
    BY QueueAssumption
  <2>1. PICK method \in {"setup", "batch", "signal"}, n \in 1 .. MaxItems : Call(p, method, n)
    BY <1>1, <2>0 DEF Enter
  <2> QED BY <1>t, <2>1, BeginStep DEF Calls!Next
<1>2. ASSUME NEW p \in Callers,
             \/ Look(p) \/ Lock(p) \/ LookAgain(p) \/ TryConnect(p) \/ BackoffOver(p)
             \/ StoreConnection(p) \/ Reread(p) \/ Publish(p)
      PROVE  CallsInOrder' /\ UNCHANGED Calls!vars
  <2>1. UNCHANGED <<call, size, item, accepted, errors>>
    BY <1>2 DEF Look, Lock, LookAgain, TryConnect, BackoffOver, StoreConnection, Reread,
                Publish, job, locals, report
  <2>2. \/ /\ pc[p] # "idle"
           /\ \E label \in Labels \ {"idle", "confirm"} :
                /\ pc' = [pc EXCEPT ![p] = label]
                /\ pc[p] \in Replacing => label \in Replacing
        \/ /\ pc[p] = "use" /\ call[p] # "setup"
           /\ pc' = [pc EXCEPT ![p] = "confirm"]
    <3>1. CASE Look(p)
      BY <3>1 DEF Look, Goto, Labels, Replacing
    <3>2. CASE LookAgain(p)
      BY <3>2 DEF LookAgain, Goto, Labels, Replacing
    <3>3. CASE Lock(p) \/ BackoffOver(p) \/ Reread(p) \/ Publish(p)
      BY <3>3 DEF Lock, BackoffOver, Reread, Publish, Goto, Labels, Replacing
    <3>4. CASE TryConnect(p) \/ StoreConnection(p)
      BY <3>4 DEF TryConnect, StoreConnection, Goto, Labels, Replacing
    <3> QED BY <1>2, <3>1, <3>2, <3>3, <3>4
  <2>3. /\ pc[p] # "idle" /\ pc'[p] # "idle" /\ \A q \in Callers : q # p => pc'[q] = pc[q]
        /\ call[p] = "new" => pc'[p] \in Replacing
        /\ pc'[p] = "confirm" => call[p] \in {"batch", "signal"}
    BY <1>t, <2>2 DEF TypeOK, CallsInOrder, Labels, Replacing
  <2> QED BY <1>t, <2>1, <2>3, SilentStep
<1>3. ASSUME NEW p \in Callers, ConnectFails(p)
      PROVE  CallsInOrder' /\ [Calls!Next]_Calls!vars
  <2>1. CASE tries[p] + 1 < MaxRetries
    <3>1. /\ pc[p] = "connect" /\ pc' = [pc EXCEPT ![p] = "backoff"]
          /\ UNCHANGED <<call, size, item, accepted, errors>>
      BY <1>3, <2>1 DEF ConnectFails, Goto, job
    <3> QED BY <1>t, <3>1, SilentStep DEF TypeOK, Replacing
  <2>2. CASE ~(tries[p] + 1 < MaxRetries)
    <3>1. FailOne(p) /\ pc[p] # "idle" /\ UNCHANGED <<call, size, accepted>>
      BY <1>3, <2>2 DEF ConnectFails, job
    <3> QED BY <1>t, <3>1, FailureStep DEF Calls!Next
  <2> QED BY <2>1, <2>2
<1>4. ASSUME NEW p \in Callers, StoreChannel(p)
      PROVE  CallsInOrder' /\ [Calls!Next]_Calls!vars
  <2>1. CASE call[p] = "new"
    <3>1. Returns(p) /\ pc[p] # "idle" /\ UNCHANGED <<call, size, accepted, errors>>
      BY <1>4, <2>1 DEF StoreChannel, job, report
    <3> QED BY <1>t, <2>1, <3>1, FinishStep DEF Calls!Next
  <2>2. CASE call[p] # "new"
    <3>1. /\ pc[p] # "idle" /\ pc' = [pc EXCEPT ![p] = "reread"]
          /\ UNCHANGED <<call, size, item, accepted, errors>>
      BY <1>4, <2>2 DEF StoreChannel, Goto, job, locals, report
    <3> QED BY <1>t, <2>2, <3>1, SilentStep DEF TypeOK
  <2> QED BY <2>1, <2>2
<1>5. ASSUME NEW p \in Callers, Declare(p) PROVE CallsInOrder' /\ Calls!Next
  <2>1. /\ Returns(p) /\ pc[p] # "idle" /\ call[p] \in {"new", "setup"}
        /\ UNCHANGED <<call, size, accepted, errors>>
    BY <1>5 DEF Declare, job, report
  <2> QED BY <1>t, <2>1, FinishStep DEF Calls!Next
<1>6. ASSUME NEW p \in Callers, SendFails(p) \/ Refused(p) \/ Unanswered(p)
      PROVE  CallsInOrder' /\ Calls!Next
  <2>1. /\ FailOne(p) /\ pc[p] # "idle" /\ UNCHANGED <<call, size>>
        /\ (pc[p] = "confirm" /\ Accept(p)) \/ UNCHANGED accepted
    BY <1>6 DEF SendFails, Refused, Unanswered, job
  <2> QED BY <1>t, <2>1, FailureStep DEF Calls!Next
<1>7. ASSUME NEW p \in Callers, Confirmed(p) PROVE CallsInOrder' /\ Calls!Next
  BY <1>t, <1>7, ConfirmedStep DEF Calls!Next
<1>8. CASE Close \/ (\E c \in up : Lose(c)) \/ UNCHANGED vars
  <2>1. UNCHANGED <<pc, call, size, item, accepted, errors>>
    BY <1>8 DEF Close, Lose, vars, job, locals, report
  <2> QED BY <2>1 DEF CallsInOrder, Calls!vars
<1> QED
  BY <1>1, <1>2, <1>3, <1>4, <1>5, <1>6, <1>7, <1>8
     DEF Next, Proceed, Connects, Answered

\* Whatever is lost, replaced and shared, what the callers see is BrokerCalls.
THEOREM CallsKept == Spec => KeepsCalls
<1>1. Init => CallsInOrder /\ Calls!Init
  <2> SUFFICES ASSUME Init PROVE CallsInOrder /\ Calls!Init
    OBVIOUS
  <2>1. CallsInOrder
    BY DEF Init, CallsInOrder, Replacing
  <2>2. /\ \A q \in Callers : pc[q] # "idle" <=> q = owner
        /\ {q \in Callers : errors[q]} = {} /\ owner \in Callers
    BY DEF Init
  <2>3. {q \in Callers : pc[q] # "idle"} = {owner}
    BY <2>2
  <2> QED BY <2>1, <2>2, <2>3 DEF Init, Calls!Init
<1>2. QInv /\ CallsInOrder /\ [Next]_vars => CallsInOrder' /\ [Calls!Next]_Calls!vars
  BY NextCalls
<1> QED BY <1>1, <1>2, QueueInvariance, PTL DEF Spec, KeepsCalls, Calls!Spec
================================================================================
