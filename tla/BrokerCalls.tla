------------------------------- MODULE BrokerCalls -----------------------------
(***************************************************************************)
(* What a caller may expect of the MessagePublisher that it is given,      *)
(* whatever happens to the connection behind it: the broker accepts the    *)
(* messages of a call in their order and each of them once, those of a     *)
(* batch without a gap; a call that has failed says so; and a call that    *)
(* returns Ok has had all of its messages accepted.  Pipeline.tla          *)
(* publishes its batches by this, and Extraction.tla sends file_complete   *)
(* and extraction_complete.                                                *)
(***************************************************************************)
EXTENDS Naturals

CONSTANTS Callers, MaxItems

VARIABLES
  busy,         \* the callers that are in a call
  call, size,   \* per caller: the method, and how many messages it sends
  accepted,     \* per caller: those of its call that are on their queues
  failed        \* the callers whose call has met an error

vars == <<busy, call, size, accepted, failed>>

\* One caller builds the queue.
Init ==
  /\ \E p \in Callers : busy = {p}
  /\ call = [p \in Callers |-> "new"]
  /\ size = [p \in Callers |-> 1]
  /\ accepted = [p \in Callers |-> {}]
  /\ failed = {}

Begin(p, method, n) ==
  /\ p \notin busy
  /\ busy' = busy \cup {p}
  /\ call' = [call EXCEPT ![p] = method]
  /\ size' = [size EXCEPT ![p] = n]
  /\ accepted' = [accepted EXCEPT ![p] = {}]
  /\ failed' = failed \ {p}

\* A batch ends with its first error; a signal may have passed over an exchange.
Accept(p, i) ==
  /\ call[p] \in {"batch", "signal"}
  /\ i \in 1 .. size[p]
  /\ \A j \in accepted[p] : j < i
  /\ call[p] = "batch" => accepted[p] = 1 .. (i - 1)
  /\ accepted' = [accepted EXCEPT ![p] = @ \cup {i}]

\* A message is accepted, and may be the last.
Succeed(p, i) ==
  /\ p \in busy
  /\ Accept(p, i)
  /\ \/ UNCHANGED busy
     \/ /\ busy' = busy \ {p}
        /\ p \in failed \/ accepted'[p] = 1 .. size[p]
  /\ UNCHANGED <<call, size, failed>>

\* An error, after which only a signal goes on.  The message may have been accepted.
Fail(p) ==
  /\ p \in busy
  /\ failed' = failed \cup {p}
  /\ UNCHANGED accepted \/ \E i \in 1 .. MaxItems : Accept(p, i)
  /\ busy' = busy \ {p} \/ (call[p] = "signal" /\ UNCHANGED busy)
  /\ UNCHANGED <<call, size>>

\* What sends no message may return Ok at any time.
Finish(p) ==
  /\ p \in busy /\ call[p] \in {"new", "setup"}
  /\ busy' = busy \ {p}
  /\ UNCHANGED <<call, size, accepted, failed>>

Next ==
  \E p \in Callers :
    \/ \E method \in {"setup", "batch", "signal"}, n \in 1 .. MaxItems : Begin(p, method, n)
    \/ \E i \in 1 .. MaxItems : Succeed(p, i)
    \/ Fail(p)
    \/ Finish(p)

Spec == Init /\ [][Next]_vars
================================================================================
