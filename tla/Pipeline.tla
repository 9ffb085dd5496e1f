------------------------------- MODULE Pipeline --------------------------------
(***************************************************************************)
(* The pipeline of one dump file: the parser on its blocking thread        *)
(* (parse_mb_jsonl_file), the batcher and the publisher tasks (runtime.rs) *)
(* joined by two bounded channels, the broker that the publisher waits     *)
(* for, and the join in process_musicbrainz_data.                          *)
(*                                                                         *)
(* A channel is a sequence; its sender has dropped it when the sending     *)
(* task has ended, its receiver when the receiving task has ended, and     *)
(* what the channel then holds is lost.  A record is its line number.      *)
(* Time is left out: the flush of an idle batcher and the deadline of a    *)
(* publisher confirm may come at any moment.                               *)
(***************************************************************************)
EXTENDS Integers, SequencesExt

CONSTANTS QueueSize,      \* capacity of the parser -> batcher channel
          BatchSize,      \* records that make a full batch
          BatchQueue,     \* capacity of the batcher -> publisher channel
          SaveInterval,   \* records between two checkpoints
          MaxLines        \* bound on the lines of a file

ASSUME PipelineAssumption ==
  /\ {QueueSize, BatchSize, BatchQueue, SaveInterval} \subseteq Nat \ {0}
  /\ MaxLines \in Nat

VARIABLES
  file,                  \* what each line holds
  parser, line, held, parsed, parseChan,
  batcher, batch, taken, saved, batchChan,
  publisher, publishing,
  accepted,              \* the records the broker accepted, in its order
  outcome, total         \* what the join finds

parserVars    == <<parser, line, held, parsed>>
batcherVars   == <<batcher, batch, taken, saved>>
publisherVars == <<publisher, publishing, accepted>>
vars == <<file, parserVars, parseChan, batcherVars, batchChan, publisherVars,
          outcome, total>>

Ended   == {"ok", "error"}
Nothing == 0

\* A line holds a record, or is blank or malformed and will be skipped.
Line == {"record", "skipped"}

\* The records among the first n lines: the numbers of those that hold one.
RecordsTo[n \in 0 .. Len(file)] ==
  IF n = 0 THEN <<>>
  ELSE IF file[n] = "record" THEN Append(RecordsTo[n - 1], n) ELSE RecordsTo[n - 1]

Records == RecordsTo[Len(file)]

TypeOK ==
  /\ file \in BoundedSeq(Line, MaxLines)
  /\ parser \in {"read", "send"} \cup Ended
  /\ line \in 0 .. Len(file)
  /\ held \in 0 .. Len(file)
  /\ parsed \in 0 .. Len(file)
  /\ parseChan \in Seq(1 .. MaxLines) /\ Len(parseChan) <= QueueSize
  /\ batcher \in {"receive", "flush", "lastFlush", "finish"} \cup Ended
  /\ batch \in Seq(1 .. MaxLines) /\ Len(batch) <= BatchSize
  /\ taken \in 0 .. Len(file)
  /\ saved \in 0 .. taken
  /\ batchChan \in Seq(Seq(1 .. MaxLines)) /\ Len(batchChan) <= BatchQueue
  /\ publisher \in {"receive", "publish", "confirm"} \cup Ended
  /\ publishing \in Seq(1 .. MaxLines)
  /\ accepted \in Seq(1 .. MaxLines)
  /\ outcome \in {"running", "success", "failure"}
  /\ total \in 0 .. Len(file)

Init ==
  /\ file \in BoundedSeq(Line, MaxLines)
  /\ parser = "read" /\ line = 0 /\ held = Nothing /\ parsed = 0
  /\ parseChan = <<>>
  /\ batcher = "receive" /\ batch = <<>> /\ taken = 0 /\ saved = 0
  /\ batchChan = <<>>
  /\ publisher = "receive" /\ publishing = <<>> /\ accepted = <<>>
  /\ outcome = "running" /\ total = 0

--------------------------------------------------------------------------------
(***************************************************************************)
(* The parser                                                              *)
(***************************************************************************)

\* The next line: a record goes to blocking_send, anything else is skipped.
ParserReads ==
  /\ parser = "read"
  /\ line < Len(file)
  /\ line' = line + 1
  /\ IF file[line'] = "record"
       THEN parser' = "send" /\ held' = line'
       ELSE UNCHANGED <<parser, held>>
  /\ UNCHANGED <<file, parsed, parseChan, batcherVars, batchChan, publisherVars,
                 outcome, total>>

\* blocking_send waits for room.
ParserSends ==
  /\ parser = "send"
  /\ batcher \notin Ended
  /\ Len(parseChan) < QueueSize
  /\ parseChan' = Append(parseChan, held)
  /\ parsed' = parsed + 1
  /\ held' = Nothing
  /\ parser' = "read"
  /\ UNCHANGED <<file, line, batcherVars, batchChan, publisherVars, outcome, total>>

\* The batcher is gone: the parser stops, and reports what it had sent as Ok.
ParserFindsReceiverGone ==
  /\ parser = "send"
  /\ batcher \in Ended
  /\ held' = Nothing
  /\ parser' = "ok"
  /\ UNCHANGED <<file, line, parsed, parseChan, batcherVars, batchChan, publisherVars,
                 outcome, total>>

ParserFinishes ==
  /\ parser = "read"
  /\ line = Len(file)
  /\ parser' = "ok"
  /\ UNCHANGED <<file, line, held, parsed, parseChan, batcherVars, batchChan,
                 publisherVars, outcome, total>>

\* The file does not open, a read from the compressed stream fails, or the
\* parsing of a line panics.
ParserFails ==
  /\ parser = "read"
  /\ parser' = "error"
  /\ UNCHANGED <<file, line, held, parsed, parseChan, batcherVars, batchChan,
                 publisherVars, outcome, total>>

--------------------------------------------------------------------------------
(***************************************************************************)
(* The batcher                                                             *)
(***************************************************************************)

\* Mutant: the interval is that of the batches, and counts ahead of the record.
CheckpointAhead(records) == saved' \in {saved, records + 1}

\* A checkpoint of the marker; one that cannot be saved is logged and forgotten.
Checkpoint(records) == saved' \in {saved, records}

\* A record is taken, counted into the progress, and flushed if it fills the batch.
BatcherReceives ==
  /\ batcher = "receive"
  /\ parseChan # <<>>
  /\ parseChan' = Tail(parseChan)
  /\ batch' = Append(batch, Head(parseChan))
  /\ taken' = taken + 1
  /\ IF taken' % SaveInterval = 0 THEN Checkpoint(taken') ELSE UNCHANGED saved
  /\ batcher' = IF Len(batch') >= BatchSize THEN "flush" ELSE "receive"
  /\ UNCHANGED <<file, parserVars, batchChan, publisherVars, outcome, total>>

\* Nothing came for a while: a batch that has waited too long is sent as it is.
BatcherIdles ==
  /\ batcher = "receive"
  /\ parseChan = <<>> /\ parser \notin Ended
  /\ batch # <<>>
  /\ batcher' = "flush"
  /\ UNCHANGED <<file, parserVars, parseChan, batch, taken, saved, batchChan,
                 publisherVars, outcome, total>>

\* Mutant: the batch that is not full when the parser ends is dropped.
BatcherDropsRest ==
  /\ batcher = "receive"
  /\ parseChan = <<>> /\ parser \in Ended
  /\ batch' = <<>>
  /\ batcher' = "finish"
  /\ UNCHANGED <<file, parserVars, parseChan, taken, saved, batchChan, publisherVars,
                 outcome, total>>

\* Mutant: a closed channel is an error of the batcher.
EndIsError ==
  /\ batcher = "receive"
  /\ parseChan = <<>> /\ parser \in Ended
  /\ batcher' = IF batch = <<>> THEN "error" ELSE "lastFlush"
  /\ UNCHANGED <<file, parserVars, parseChan, batch, taken, saved, batchChan,
                 publisherVars, outcome, total>>

\* The parser has dropped its sender, for whatever reason, and nothing is left.
BatcherSeesEnd ==
  /\ batcher = "receive"
  /\ parseChan = <<>> /\ parser \in Ended
  /\ batcher' = IF batch = <<>> THEN "finish" ELSE "lastFlush"
  /\ UNCHANGED <<file, parserVars, parseChan, batch, taken, saved, batchChan,
                 publisherVars, outcome, total>>

\* send waits for room in the channel.
BatcherSends ==
  /\ batcher \in {"flush", "lastFlush"}
  /\ publisher \notin Ended
  /\ Len(batchChan) < BatchQueue
  /\ batchChan' = Append(batchChan, batch)
  /\ batch' = <<>>
  /\ batcher' = IF batcher = "flush" THEN "receive" ELSE "finish"
  /\ UNCHANGED <<file, parserVars, parseChan, taken, saved, publisherVars, outcome,
                 total>>

\* The publisher is gone: the batcher returns the error, without its last save.
BatcherFindsReceiverGone ==
  /\ batcher \in {"flush", "lastFlush"}
  /\ publisher \in Ended
  /\ batch' = <<>> /\ parseChan' = <<>>
  /\ batcher' = "error"
  /\ UNCHANGED <<file, parserVars, taken, saved, batchChan, publisherVars, outcome,
                 total>>

BatcherFinishes ==
  /\ batcher = "finish"
  /\ Checkpoint(taken)
  /\ batcher' = "ok"
  /\ UNCHANGED <<file, parserVars, parseChan, batch, taken, batchChan, publisherVars,
                 outcome, total>>

--------------------------------------------------------------------------------
(***************************************************************************)
(* The publisher and the broker                                            *)
(***************************************************************************)

PublisherReceives ==
  /\ publisher = "receive"
  /\ batchChan # <<>>
  /\ publishing' = Head(batchChan)
  /\ batchChan' = Tail(batchChan)
  /\ publisher' = "publish"
  /\ UNCHANGED <<file, parserVars, parseChan, batcherVars, accepted, outcome, total>>

PublisherSeesEnd ==
  /\ publisher = "receive"
  /\ batchChan = <<>> /\ batcher \in Ended
  /\ publisher' = "ok"
  /\ UNCHANGED <<file, parserVars, parseChan, batcherVars, batchChan, publishing,
                 accepted, outcome, total>>

\* One message is written to the channel; the next waits for its confirm.
Publish ==
  /\ publisher = "publish"
  /\ publisher' = "confirm"
  /\ UNCHANGED <<file, parserVars, parseChan, batcherVars, batchChan, publishing,
                 accepted, outcome, total>>

\* The broker has routed the message, and says so.
Confirmed ==
  /\ publisher = "confirm"
  /\ accepted' = Append(accepted, Head(publishing))
  /\ publishing' = Tail(publishing)
  /\ publisher' = IF publishing' = <<>> THEN "receive" ELSE "publish"
  /\ UNCHANGED <<file, parserVars, parseChan, batcherVars, batchChan, outcome, total>>

\* The publisher returns an error: the batch and the channel go with it.
PublisherEndsInError ==
  /\ publishing' = <<>>
  /\ batchChan' = <<>>
  /\ publisher' = "error"
  /\ UNCHANGED <<file, parserVars, parseChan, batcherVars, outcome, total>>

\* No channel, or the write fails.
PublishFails ==
  /\ publisher = "publish"
  /\ PublisherEndsInError
  /\ UNCHANGED accepted

\* Mutant: an ack is taken for delivery, a returned message being ignored.
ReturnIgnored ==
  /\ publisher = "confirm"
  /\ publishing' = Tail(publishing)
  /\ publisher' = IF publishing' = <<>> THEN "receive" ELSE "publish"
  /\ UNCHANGED <<file, parserVars, parseChan, batcherVars, batchChan, accepted,
                 outcome, total>>

\* A nack, or a basic.return: the message went nowhere.
Refused ==
  /\ publisher = "confirm"
  /\ PublisherEndsInError
  /\ UNCHANGED accepted

\* Mutant: the confirm is awaited without a deadline.
NoConfirmDeadline == FALSE

\* The connection is lost or the confirm is late, and the message was accepted
\* or was not.
ConfirmTimesOut ==
  /\ publisher = "confirm"
  /\ PublisherEndsInError
  /\ accepted' \in {accepted, Append(accepted, Head(publishing))}

--------------------------------------------------------------------------------

\* Mutant: the last task that is joined decides.
JoinPublisher ==
  /\ outcome = "running"
  /\ {parser, batcher, publisher} \subseteq Ended
  /\ outcome' = IF publisher = "ok" THEN "success" ELSE "failure"
  /\ total' = IF parser = "ok" THEN parsed ELSE 0
  /\ UNCHANGED <<file, parserVars, parseChan, batcherVars, batchChan, publisherVars>>

\* The three handles are awaited in turn; the file succeeds if all three did.
Join ==
  /\ outcome = "running"
  /\ {parser, batcher, publisher} \subseteq Ended
  /\ outcome' = IF {parser, batcher, publisher} = {"ok"} THEN "success" ELSE "failure"
  /\ total' = IF parser = "ok" THEN parsed ELSE 0
  /\ UNCHANGED <<file, parserVars, parseChan, batcherVars, batchChan, publisherVars>>

ParserSteps == ParserReads \/ ParserSends \/ ParserFindsReceiverGone \/ ParserFinishes

BatcherSteps ==
  \/ BatcherReceives \/ BatcherSeesEnd \/ BatcherSends
  \/ BatcherFindsReceiverGone \/ BatcherFinishes

PublisherSteps ==
  PublisherReceives \/ PublisherSeesEnd \/ Publish \/ ConfirmTimesOut

\* What the file, the broker and the clock may do and need not.
Environment == ParserFails \/ BatcherIdles \/ Confirmed \/ PublishFails \/ Refused

Next == ParserSteps \/ BatcherSteps \/ PublisherSteps \/ Environment \/ Join

\* Every task is scheduled for as long as it can go on, and the deadline of a
\* confirm passes; that the broker answers is not assumed.
Fairness == /\ WF_vars(ParserSteps)
            /\ WF_vars(BatcherSteps)
            /\ WF_vars(PublisherSteps)
            /\ WF_vars(Join)

Spec == Init /\ [][Next]_vars /\ Fairness

--------------------------------------------------------------------------------
(***************************************************************************)
(* Properties                                                              *)
(***************************************************************************)

\* What was accepted, and what the tasks and the channels hold, the oldest first.
Held == IF parser = "send" THEN <<held>> ELSE <<>>
InFlight == accepted \o publishing \o FlattenSeq(batchChan) \o batch \o parseChan \o Held

\* However it ends, what the broker accepted is a prefix of the file: a consumer
\* never sees a record without the ones before it, or twice in one pass.  And as
\* long as the publisher has not failed nothing is lost or overtaken on the way,
\* even when the parser has failed: what was accepted and what is under way are,
\* in this order, the records read so far.
NothingLost ==
  /\ IsPrefix(accepted, Records)
  /\ publisher # "error" => InFlight = RecordsTo[line]

\* The count of a checkpoint is one the batcher had reached, at the interval or
\* at its end, and never more than the records read.
CheckpointIsReached ==
  /\ saved <= parsed
  /\ saved % SaveInterval = 0 \/ (batcher = "ok" /\ saved = taken)

\* No failure without a cause: a batcher fails only after the publisher did, and
\* a pipeline only after its parser or its publisher did.
FailureHasCause ==
  /\ batcher = "error" => publisher = "error"
  /\ outcome = "failure" => parser = "error" \/ publisher = "error"

\* Whatever fails and however long the broker is silent, the pipeline ends: no
\* task is left waiting for room in a channel that nobody will empty.
Terminates == <>(outcome # "running")

--------------------------------------------------------------------------------

AsPromised == INSTANCE FilePipeline WITH
  records   <- Len(Records),
  delivered <- Len(accepted)

\* Every behaviour of the tasks is one of FilePipeline.
KeepsFileContract == AsPromised!Spec
================================================================================
