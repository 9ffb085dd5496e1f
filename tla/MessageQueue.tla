------------------------------ MODULE MessageQueue -----------------------------
(***************************************************************************)
(* MessageQueue (src/message_queue.rs): connecting with retries, the       *)
(* channel that all callers share and whoever finds it lost replaces under *)
(* reconnect_mutex, and what the calls report of messages that the broker  *)
(* may accept, refuse or not answer.                                       *)
(*                                                                         *)
(* A connection stands for a Connection with its one Channel, whose loss   *)
(* is final: lapin recovers neither unless asked to.                       *)
(***************************************************************************)
EXTENDS Integers

CONSTANTS
  Callers,      \* the tasks that share the queue
  MaxConns,     \* bound: connections that are ever opened
  MaxRetries,   \* max_retries
  MaxItems,     \* messages of a batch, or exchanges of a completion signal
  None

ASSUME QueueAssumption ==
  /\ {MaxConns, MaxRetries} \subseteq Nat
  /\ MaxItems \in Nat \ {0}
  /\ None \notin Callers

VARIABLES
  queue,        \* "connecting" inside new, then "ready", "refused" or "closed"
  owner,        \* who may replace the channel: new, then the holder of reconnect_mutex
  connection,   \* the fields of MessageQueue
  channel,
  opened,       \* how many connections there have been, numbered from 1
  up,           \* those that are not lost
  pc, call,     \* per caller: where it is, and in which method
  size, item,   \* per caller: how many messages its call sends, and which is next
  tries,        \* per caller: retry_count
  held,         \* per caller: its clone of the channel, or what try_connect has opened
  accepted,     \* per caller: the messages of its call that are on their queues
  errors        \* per caller: whether one of its messages failed, and once it is idle
                \* whether its last call returned an error

fields == <<queue, connection, channel>>
broker == <<opened, up>>
job    == <<call, size>>
locals == <<item, tries, held>>
report == <<accepted, errors>>
vars   == <<fields, owner, broker, pc, job, locals, report>>

NoConn == 0

\* In these a caller replaces the channel.
Replacing == {"connect", "backoff", "store", "store channel"}

Labels == {"idle", "look", "lock", "look again", "reread", "use", "confirm"} \cup Replacing

TypeOK ==
  /\ queue \in {"connecting", "ready", "refused", "closed"}
  /\ owner \in Callers \cup {None}
  /\ connection \in 0 .. opened /\ channel \in 0 .. opened
  /\ opened \in 0 .. MaxConns /\ up \subseteq 1 .. opened
  /\ pc \in [Callers -> Labels]
  /\ call \in [Callers -> {"new", "setup", "batch", "signal"}]
  /\ size \in [Callers -> 1 .. MaxItems] /\ item \in [Callers -> 1 .. MaxItems]
  /\ tries \in [Callers -> Nat]
  /\ held \in [Callers -> 0 .. opened]
  /\ accepted \in [Callers -> SUBSET (1 .. MaxItems)]
  /\ errors \in [Callers -> BOOLEAN]

\* One task builds the queue, and shares it once it is connected.
Init ==
  /\ queue = "connecting"
  /\ owner \in Callers
  /\ connection = NoConn /\ channel = NoConn
  /\ opened = 0 /\ up = {}
  /\ pc = [p \in Callers |-> IF p = owner THEN "connect" ELSE "idle"]
  /\ call = [p \in Callers |-> "new"]
  /\ size = [p \in Callers |-> 1] /\ item = [p \in Callers |-> 1]
  /\ tries = [p \in Callers |-> 0]
  /\ held = [p \in Callers |-> NoConn]
  /\ accepted = [p \in Callers |-> {}]
  /\ errors = [p \in Callers |-> FALSE]

Goto(p, label) == pc' = [pc EXCEPT ![p] = label]
Hold(p, c)     == held' = [held EXCEPT ![p] = c]

--------------------------------------------------------------------------------
(***************************************************************************)
(* Calls: what follows when a message is dealt with                        *)
(***************************************************************************)

Call(p, method, n) ==
  /\ queue = "ready" /\ pc[p] = "idle"
  /\ Goto(p, "look")
  /\ call' = [call EXCEPT ![p] = method]
  /\ size' = [size EXCEPT ![p] = n]
  /\ accepted' = [accepted EXCEPT ![p] = {}]
  /\ errors' = [errors EXCEPT ![p] = FALSE]
  /\ UNCHANGED <<fields, owner, broker, locals>>

\* A call returns, and its locals are gone.
Returns(p) ==
  /\ Goto(p, "idle")
  /\ item' = [item EXCEPT ![p] = 1]
  /\ tries' = [tries EXCEPT ![p] = 0]
  /\ Hold(p, NoConn)

\* A batch uses the channel it has; a signal asks for one for each exchange.
Continue(p) ==
  IF item[p] < size[p]
    THEN /\ item' = [item EXCEPT ![p] = @ + 1]
         /\ tries' = [tries EXCEPT ![p] = 0]
         /\ IF call[p] = "signal"
              THEN Goto(p, "look") /\ Hold(p, NoConn)
              ELSE Goto(p, "use") /\ UNCHANGED held
    ELSE Returns(p)

\* Mutant: a batch goes on with its next message, as a signal does.
FailOneGoesOn(p) ==
  /\ errors' = [errors EXCEPT ![p] = TRUE]
  /\ Continue(p)

\* An error ends a batch; a signal notes it and goes on to the next exchange.
FailOne(p) ==
  /\ errors' = [errors EXCEPT ![p] = TRUE]
  /\ IF call[p] = "signal" THEN Continue(p) ELSE Returns(p)

--------------------------------------------------------------------------------
(***************************************************************************)
(* get_channel                                                             *)
(***************************************************************************)

Look(p) ==
  /\ pc[p] = "look"
  /\ IF channel \in up
       THEN Hold(p, channel) /\ Goto(p, "use")
       ELSE Goto(p, "lock") /\ UNCHANGED held
  /\ UNCHANGED <<fields, owner, broker, job, item, tries, report>>

Lock(p) ==
  /\ pc[p] = "lock" /\ owner = None
  /\ owner' = p
  /\ Goto(p, "look again")
  /\ UNCHANGED <<fields, broker, job, locals, report>>

\* Mutant: whoever has waited for the mutex connects, without a second look.
LookOnce(p) ==
  /\ pc[p] = "look again"
  /\ Goto(p, "connect")
  /\ UNCHANGED <<fields, owner, broker, job, locals, report>>

\* Another caller may have reconnected in the meantime.
LookAgain(p) ==
  /\ pc[p] = "look again"
  /\ IF channel \in up
       THEN Hold(p, channel) /\ Goto(p, "use") /\ owner' = None
       ELSE Goto(p, "connect") /\ UNCHANGED <<owner, held>>
  /\ UNCHANGED <<fields, broker, job, item, tries, report>>

\* Connect, create_channel and confirm_select, of which none had an error.
TryConnect(p) ==
  /\ pc[p] = "connect" /\ opened < MaxConns
  /\ opened' = opened + 1
  /\ up' = up \cup {opened'}
  /\ Hold(p, opened')
  /\ Goto(p, "store")
  /\ UNCHANGED <<fields, owner, job, item, tries, report>>

\* Mutant: the retries of a reconnection are not counted.
ConnectFailsUncounted(p) ==
  /\ pc[p] = "connect"
  /\ Goto(p, "backoff")
  /\ UNCHANGED <<fields, owner, broker, job, locals, report>>

\* One of the three failed, and what was opened is dropped.  After the last retry the
\* error is that of new, or that of the message which asked for a channel.
ConnectFails(p) ==
  /\ pc[p] = "connect"
  /\ IF tries[p] + 1 < MaxRetries
       THEN /\ Goto(p, "backoff")
            /\ tries' = [tries EXCEPT ![p] = @ + 1]
            /\ UNCHANGED <<queue, owner, item, held, errors>>
       ELSE /\ FailOne(p)
            /\ owner' = None
            /\ queue' = IF call[p] = "new" THEN "refused" ELSE queue
  /\ UNCHANGED <<connection, channel, broker, job, accepted>>

BackoffOver(p) ==
  /\ pc[p] = "backoff"
  /\ Goto(p, "connect")
  /\ UNCHANGED <<fields, owner, broker, job, locals, report>>

StoreConnection(p) ==
  /\ pc[p] = "store"
  /\ connection' = held[p]
  /\ Goto(p, "store channel")
  /\ UNCHANGED <<queue, channel, owner, broker, job, locals, report>>

\* new hands out the queue; get_channel goes on to read what it has stored.
StoreChannel(p) ==
  /\ pc[p] = "store channel"
  /\ channel' = held[p]
  /\ IF call[p] = "new"
       THEN Returns(p) /\ queue' = "ready" /\ owner' = None
       ELSE Goto(p, "reread") /\ UNCHANGED <<queue, owner, locals>>
  /\ UNCHANGED <<connection, broker, job, report>>

\* Whatever its state is by now.
Reread(p) ==
  /\ pc[p] = "reread"
  /\ Hold(p, channel)
  /\ tries' = [tries EXCEPT ![p] = 0]
  /\ owner' = None
  /\ Goto(p, "use")
  /\ UNCHANGED <<fields, broker, job, item, report>>

--------------------------------------------------------------------------------
(***************************************************************************)
(* Publishing                                                              *)
(***************************************************************************)

Declare(p) ==
  /\ pc[p] = "use" /\ call[p] = "setup"
  /\ held[p] \in up
  /\ Returns(p)
  /\ UNCHANGED <<fields, owner, broker, job, report>>

Publish(p) ==
  /\ pc[p] = "use" /\ call[p] # "setup"
  /\ held[p] \in up
  /\ Goto(p, "confirm")
  /\ UNCHANGED <<fields, owner, broker, job, locals, report>>

\* Nothing can be written to a channel that is gone.
SendFails(p) ==
  /\ pc[p] = "use" /\ held[p] \notin up
  /\ FailOne(p)
  /\ UNCHANGED <<fields, owner, broker, job, accepted>>

Accept(p) == accepted' = [accepted EXCEPT ![p] = @ \cup {item[p]}]

\* An ack, and nothing came back.
Confirmed(p) ==
  /\ pc[p] = "confirm" /\ held[p] \in up
  /\ Accept(p)
  /\ Continue(p)
  /\ UNCHANGED <<fields, owner, broker, job, errors>>

\* A nack, or an ack with a basic.return.
Refused(p) ==
  /\ pc[p] = "confirm" /\ held[p] \in up
  /\ FailOne(p)
  /\ UNCHANGED <<fields, owner, broker, job, accepted>>

\* The deadline, or the end of the channel, came before the answer: the message may
\* be on its queues or not.
Unanswered(p) ==
  /\ pc[p] = "confirm"
  /\ Accept(p) \/ UNCHANGED accepted
  /\ FailOne(p)
  /\ UNCHANGED <<fields, owner, broker, job>>

\* A run closes its queue when no task uses it any more.
Close ==
  /\ queue = "ready" /\ \A p \in Callers : pc[p] = "idle"
  /\ queue' = "closed"
  /\ connection' = NoConn /\ channel' = NoConn
  /\ up' = {}
  /\ UNCHANGED <<owner, opened, pc, job, locals, report>>

\* The broker or the network ends a connection or its channel.
Lose(c) ==
  /\ up' = up \ {c}
  /\ UNCHANGED <<fields, owner, opened, pc, job, locals, report>>

--------------------------------------------------------------------------------

Enter(p) ==
  \/ Call(p, "setup", 1)
  \/ \E method \in {"batch", "signal"}, n \in 1 .. MaxItems : Call(p, method, n)

Connects(p) == TryConnect(p) \/ ConnectFails(p)

Answered(p) == Confirmed(p) \/ Refused(p) \/ Unanswered(p)

Proceed(p) ==
  \/ Look(p) \/ LookAgain(p) \/ Connects(p) \/ BackoffOver(p)
  \/ StoreConnection(p) \/ StoreChannel(p) \/ Reread(p)
  \/ Declare(p) \/ Publish(p) \/ SendFails(p) \/ Answered(p)

Next ==
  \/ \E p \in Callers : Enter(p) \/ Lock(p) \/ Proceed(p)
  \/ Close
  \/ \E c \in up : Lose(c)

\* An attempt to connect ends, a confirm has its deadline, and the mutex is fair.
Fairness == \A p \in Callers : WF_vars(Proceed(p)) /\ SF_vars(Lock(p))

Spec == Init /\ [][Next]_vars /\ Fairness

--------------------------------------------------------------------------------
(***************************************************************************)
(* Properties                                                              *)
(***************************************************************************)

\* Callers that find the channel lost at the same time do not each connect: the
\* queue never has two working connections to the broker, stored or on their way.
OneConnected == \A c, d \in up : c = d

\* A call that returns Ok has every message of its batch, or the signal on every one
\* of its exchanges, on the queues, however often the channel was lost and replaced.
OkIsEarned ==
  \A p \in Callers :
    pc[p] = "idle" /\ ~errors[p] /\ call[p] \in {"batch", "signal"}
      => accepted[p] = 1 .. size[p]

\* Every call ends, although the one that reconnects keeps the others waiting.
CallEnds == \A p \in Callers : pc[p] # "idle" ~> pc[p] = "idle"

--------------------------------------------------------------------------------

\* For its callers, a queue that loses, replaces and shares its channel is a broker
\* that accepts the messages of a call in order or fails it: none is accepted twice,
\* and none of a batch after one that failed, whichever connection it went through.
Calls == INSTANCE BrokerCalls WITH
  busy   <- {p \in Callers : pc[p] # "idle"},
  failed <- {p \in Callers : errors[p]}

KeepsCalls == Calls!Spec
================================================================================
