# Specifications of the MusicBrainz ingestion service

TLA+ models of `musicbrainz-ingestion`, the service that downloads a MusicBrainz JSON
dump, parses its files record by record, publishes every record to a RabbitMQ exchange
per entity type, and keeps a state marker so that a run that was cut short can be
resumed. The models are checked by TLC on small instances; the theorems about them are
checked by TLAPS for every value of their constants. Source paths below are relative
to the repository.

## 1. The system

| Component | State it keeps | Operations | Talks to |
|---|---|---|---|
| Run orchestration, `process_musicbrainz_data` (`src/musicbrainz/mod.rs`) | locals of one run: marker in memory, pending files, counts, success | the phases of a run: download, discover, load, connect, start, artist map, file loop, announce, finalize | all others |
| State marker (`src/state_marker.rs`) | one JSON file per version | load, should_process, transitions of its phases, save | file system |
| Record pipeline (`src/runtime.rs`, `src/musicbrainz/jsonl_parser.rs`) | two bounded channels, a batch, a checkpoint counter | parse on a blocking thread, batch, publish, join | marker, message queue |
| Message queue (`src/message_queue.rs`) | connection, channel | connect, declare, publish with confirm, completion messages, reconnect | broker |
| Control loop (`src/musicbrainz/mod.rs`, `src/runtime.rs`, `src/main.rs`) | shutdown flag, `Notify`, trigger, exit code | first run, periodic and triggered runs, shutdown, failure cooldown | health server, signals |
| Health server (`src/health.rs`) | none; reads the shared state | `/health`, `/metrics`, `POST /trigger` | control loop |
| Downloader (`src/musicbrainz/downloader.rs`) | a directory per version; a `.tmp` per file under way | find the latest version, stream, verify, publish each entity; discover what is on disk | polite client, file system |
| Polite HTTP client (`src/polite_http.rs`) | time of the last request, behind a mutex | get, with the gap, `Retry-After` and capped retries | MusicBrainz servers |
| Parsers and enrichment (`src/musicbrainz/jsonl_parser.rs`) | the MBID to Discogs map of a run; how far a file has been read | a pass that maps the artists, a pass that parses, hashes, enriches and sends each line | pipeline |
| Media and identifier mapping (`src/musicbrainz/media.rs`, `identifiers.rs`) | the vendored vocabularies | a release's media block and identifiers | parsers |
| Configuration, telemetry, contract generation | none that the service decides on | — | — |

What is hard in it, and what makes each part correct:

* **A run that dies anywhere.** Every `?` of a run, a failed marker save, SIGTERM and
  SIGKILL leave a marker that the next run believes. Correct: the marker claims only
  what the broker has accepted; a resumed run announces the start of the first one,
  because consumers purge rows older than that; the counts announced are those
  delivered.
* **Three tasks and two bounded channels per file.** Any may fail while the others wait
  on it. Correct: success means all records accepted, in order, once; a failure always
  ends the other two; a checkpoint is never ahead of the records taken.
* **A broker that refuses, returns, or never confirms.** Correct: none of these counts
  as accepted, and the confirm's deadline ends a silent one.
* **Two ways to wake one loop.** An `AtomicBool`, a `Notify` without memory and a trigger
  behind an async mutex. Correct: a shutdown ends the service cleanly; a trigger that
  was let in is served; the status tells what the loop does.
* **Files whose existence is the proof that they are whole.** Both the marker and the
  dump files are written as a temporary sibling, synced, renamed, and the directory
  synced. Correct: no kill or power loss puts anything else at the final path.
* **A shared rate limit.** Correct: the gap lies between any two requests of any
  callers, and `Retry-After` is waited for, up to the cap.
* **Records that depend on other records, and on the build.** A relation names an artist
  whose line may come later; a message carries a hash by which consumers skip what they
  have; the vocabularies lag behind what the dump states. Correct: the order of the
  lines does not matter, the hash changes exactly with the parsed data, and a value that a
  vocabulary does not know is listed and not dropped.

`PROJECT.json` lists each of these hazards at its line with the properties that cover it.

## 2. The modules

```
  Delivery  <== implemented by ==  Extraction  -- extends -->  StateMarker
                                       |  treats one file as
                                  FilePipeline  <== implemented by ==  Pipeline
  ControlLoop     treats one run as OutcomeContract of Extraction
  AtomicFile <== implemented by == MarkerFile   and, per entity, Downloader
                                       (both over FileSystem)
  Records  -- extends -->  MediaMapping,  uses IdentifierMapping
                  what the parser of Pipeline makes of a line, and the artist map of Extraction
  PoliteHttp      what a GET of Downloader does before it answers or fails
  BrokerCalls <== implemented by == MessageQueue
                  what the publisher of Pipeline and the sends of Extraction expect of a call
```

**StateMarker** – the marker as a record, and the transitions of `StateMarker` as
operators on it: `NewMarker`, `ShouldProcess`, `StartProcessing`, `StartFileProcessing`,
`UpdateFileProgress`, `CompleteFileProcessing`, `CompleteExtraction`. Wall-clock times
are run numbers; version strings and timestamps that no decision reads are left out.

**Extraction** – one run after the other. `pc` is the place in
`process_musicbrainz_data`, `mem` the marker in memory, `disk` the saved one, `rows`,
`fileCompletes` and `extractionCompletes` what the broker has accepted. There is an
action per step that awaits something: `Begin`, `DownloadLatest`, `Discover`,
`LoadMarker`, `Connect`, `StartPhase`, `BuildArtistMap`, `SkipCompletedFile`,
`StartFile`, `TakeRecord`, `PipelineSucceeds`, `PipelineFails`, `SendFileComplete`,
`MarkFile`, `SendExtractionComplete`, `Finalize`; the failures are `PrerequisiteFails`
(a call whose error `?` passes on), `SaveFails` (any save that does) and the `FALSE`
outcomes of the sends, where a message may be accepted although its sender never
learned it. `RequestShutdown` may come at any moment and `Restart` is the process dying
and starting again, which keeps `disk`, `dump` and what the broker has. Bytes are
identified with the number of records in them.

**Delivery** – the promise to the consumers, without runs or failures: an epoch opens,
files are delivered, signalled, claimed; all claimed, the end is announced; announced
everywhere, the epoch closes. `Extraction!KeepsPromise` is its refinement:
`epoch <- disk.startedAt`, `claimed <- CompletedFiles(disk)`,
`closed <- disk.overall = "Completed"`.

**ExtractionInvariant** – the inductive invariant `IInv` of Extraction. Its proofs, and those
of the other modules, are in the `*Proofs` modules (section 5).

**Pipeline** – parser, batcher and publisher of one file, their channels as sequences,
the broker as `Confirmed`, `Refused`, `PublishFails` and `ConfirmTimesOut`. A sender
that finds the receiver gone and a receiver that finds the sender gone are actions of
their own, as are the idle flush and the checkpoint. `Join` is what
`process_musicbrainz_data` makes of the three results. Lines are `"record"` or
`"skipped"` (blank or malformed).

**FilePipeline** – what Extraction assumes of the above; `Pipeline!KeepsFileContract`
is the refinement.

**ControlLoop** – `run_musicbrainz_loop`, the shutdown monitor task, `setup_shutdown_handler`,
`wait_for_trigger` and `trigger_handler` with its lock, and the exit of `main`.
`notified` and `monitor` are the two futures a `Notify` may reach; it remembers
nothing, so each must exist at the moment of the signal. A run is one step that may
return `true`, `false` or an error with the status that `OutcomeContract` allows.

**FileSystem** (external: the operating system) – a path, its temporary sibling, which
of their files are synced, and which files the path may name after a power loss.
`AfterPowerLoss` lets a file that was not synced come back whole or truncated, and a
rename whose directory was not synced hold or not. A kill loses nothing.

**AtomicFile** – a register that is replaced at once, settles, and falls back to a
value no older than the settled one on power loss.

**MarkerFile** – `StateMarker::save` step by step (`Create`, `Write`, `Sync`, `Rename`,
`SyncDir`), each of which may fail (`SaveFails`, which leaves the temporary file), with
`Kill` and `PowerLoss` between any two. A failed directory sync is ignored, as in the
code.

**Downloader** – `download_latest` and `stream_download_verify_extract` over one
version, run after run: the skip of entities that are there, the attempts, the
temporary file, the digest of the *whole* stream although the archive reader stops at
the entity, the rename, and all ways in which an attempt fails, `TaskPanics` included,
which leaves the temporary file in place. A body is `"genuine"` if its digest is the
listed one; a corrupt one may nevertheless decode.

**PoliteHttp** – callers, the FIFO mutex as a queue whose head is the holder, timers
that run down with `Tick`. `elapsed` is what the code knows (since the last stamp),
`silence` what a server sees (since the last request); `owed` is what a server asked
for. Stamp and send are in the same poll of a task, so `Tick` waits for a caller that
has stamped: a thread descheduled in between for longer than the gap is outside the
model.

**MessageQueue** – one queue and the tasks that share it. `get_channel` is `Look`, `Lock`,
`LookAgain`, the attempts to connect with their backoff, the two writes of
`try_connect` (`StoreConnection`, `StoreChannel`) and `Reread`; `owner` is the holder of
`reconnect_mutex`, or `new` before the queue is shared. `setup_exchange` is a call of
`Declare`, `publish_batch` a call `"batch"` that uses one clone of the channel to its
end, `publish` and `send_file_complete` a batch of one, `send_extraction_complete` a call
`"signal"` that asks for a channel for every exchange. `Lose` may end any connection at
any moment; an exchange that the broker refuses to declare is such a loss, because it
closes the channel. In `process_musicbrainz_data` the publisher has ended before the
next call is made; that callers are concurrent is what the `Arc`, the locks and the
comment at `src/message_queue.rs:254` provide for.

**BrokerCalls** – what a caller may expect of a `MessagePublisher`: the messages of a call are
accepted in order and once, those of a batch without a gap; a call that met an error ends as
one that failed, at once unless it is a signal; Ok means all of them. Pipeline's publisher
(`Confirmed`, `PublishFails`, `Refused`, `ConfirmTimesOut`) and Extraction's sends assume this
and nothing more of a call. `MessageQueue!KeepsCalls` is the refinement: `busy <-` the callers
that are not idle, `failed <-` those whose call has noted an error.

**Records** – the content of one data type's file, dump after dump: `MapLine` and `MapEnds`
are `build_mbid_discogs_map_from_file`, `Read` the buffered reader that reports progress,
`ParseLine` and `ParseEnds` the blocking parser, `ReadFails` an error of either pass,
`NextDump` the next run, of the same build or of one with other vocabularies. `Message` is
the whole of what is sent for a line: `ParsedData`, its hash, and for artists `Enriched`.
sha256 has no collisions: the hash of a value is that value. Fields that are only copied
are one value. A list that the code filters is a function on the positions that stay, so
that order and origin are kept. `TargetMbid` looks the nested object up under the raw
target type and then the canonical one, as the code does.

**MediaMapping** – the mapper of `media.rs` over any vocabulary. `IsVocabulary` states what
the vendored file guarantees and the proofs need: what an entry names is among the media,
and a family resolves to media of that family. A medium is a pair `<<prefix, kind>>`; a
list that the code sorts and de-duplicates is a set.

**IdentifierMapping** – the mapper of `identifiers.rs` over any vocabulary. A text is a
record of what its normalisations tell apart: words, case, digits, whitespace at the
ends and inside.

The `MC*` modules give the constants their values for TLC.

## 3. The runs

| Run | Instance | States | What it shows |
|---|---|---|---|
| `resume` | 2 files of 2 records, 3 exchanges, 3 runs, a checkpoint at every record | 1 160 985 | the saved marker claims only what was delivered and announced, through failures, shutdowns and restarts; the counts announced and reported; the outcome of each run; `IInv` holds; Delivery is implemented |
| `changed_bytes` | 2 runs, files of 1 or 2 records that may change between runs | violation | finding 1 below |
| `pipeline` | every file of up to 5 lines, channels of 1, batches of 2, checkpoints every 2 | 53 584 | nothing lost, reordered or claimed early; termination; refinement of FilePipeline |
| `control_loop` | no constants, state space finite as it is | 5 634 | status and lifecycle, failures that stay reported, triggers served, shutdowns that end the loop and end it cleanly |
| `shutdown_lost` | the same | violation | finding 2 |
| `marker_file` | 3 markers, any number of saves | 1 701 | atomic, crash-safe, never torn |
| `downloader` | 2 entities, 3 attempts, any number of runs | 2 437 | final files verified, versions whole, nothing left behind, every run ends |
| `polite_http` | 3 callers, gap 2, cap 3, hints 1 and 5, 2 retries | 40 825 | the gap, `Retry-After`, every get ends |
| `message_queue` | 2 callers, 3 connections, 2 attempts, calls of up to 2 messages | 64 235 | one working connection, Ok only for what is on its queues, every call ends; refinement of BrokerCalls |
| `records` | artist and label dumps of up to 2 lines, release dumps of 1, 2 vocabularies, 2 dumps | 1 327 490 | targets whatever the order of lines, hash against data across dumps and builds, nothing a release states lost, aliases, progress |
| `enriched_hash` | the same | violation | finding 3 |
| `bare_medium` | the same | violation | finding 4 |

**The bounds, and why they are enough.** `MaxRuns` is the only bound on Extraction's
behaviours: three runs are a first one that is cut short, one that resumes it, and one
that finds what the second has left, forced or not; a run sees of its predecessors only
`disk`, `dump` and the broker. Two files are one that is completed and one that is
under way; the third exchange has no file, as when a dump misses a type. Two records
with a checkpoint after each are a file that may be cut short before, between and after
its checkpoints, and a count that differs from the number of files; the order of records
belongs to Pipeline. There, five lines with batches of two and
channels of one give two full batches, a rest, a full channel at both ends, and a
checkpoint that is not at the end. `MaxLines` bounds the file and nothing else. Two
dump entities of the four are one that is there and one that is not; the three
attempts are the code's own number. The timers of PoliteHttp are bounded by the cap,
its queue by the number of callers: gap 2 with hint 1 makes a backoff that is shorter
than the gap, hint 5 one that is capped. MarkerFile, Downloader and ControlLoop have no
bound on their length. In MessageQueue the three connections are the first one, the
one that replaces it, and the one that a second caller would open besides; when they
are used up, attempts only fail, and calls go on without end. `MaxRetries`, 3 in the
code, is 2: one attempt that is followed by a backoff and one that is not.

In Records, two lines of artists are an artist and one that refers to it, in either order,
an artist that is listed twice, with and without a link, or a malformed line beside any of
them; a step of two lines makes a reading that is reported and one that is not. The
releases state every combination of some formats (known, unknown, by family only, a
container, a flag, none, a bare value), of known and unknown facts, and of barcodes and
catalogue numbers in two spellings. The second vocabulary knows formats that the first does
not; two dumps are what a comparison of hashes needs. The theorems about Records have none
of these bounds.

`CHECK_DEADLOCK FALSE` stands where the system stops: a pipeline ends, a loop ends with
its process, a queue is refused or closed, the
last of the dumps is done. Extraction, MarkerFile, Downloader and PoliteHttp never deadlock and are
checked for it.

Each property of a passing run is also run against a variant of one definition with a
plausible mistake in it (`mutants` in `PROJECT.json`; the variants are the definitions
commented `Mutant:`), and TLC finds the property violated.

## 4. Fairness

* **Pipeline**: weak fairness of each task's own steps and of the join – the runtime
  schedules a task that can go on – including `ConfirmTimesOut`, the deadline around
  each confirm. That the broker answers, that the batcher idles or that the file can
  be read to its end is not assumed. The write of `basic_publish` itself is taken to
  return: the code puts no deadline around it.
* **ControlLoop**: weak fairness of the loop, the monitor and a handler that holds the
  trigger's lock; strong fairness of `TakeTrigger`, because tokio's mutex is first-in
  first-out and the loop asks for it every time round. No signal, request or timer is
  assumed; `ShutdownEndsLoopInTime` says what holds if the periodic timer does run, as its
  hypothesis.
* **Downloader**: weak fairness of the run: connect and read timeouts end every stall.
* **PoliteHttp**: weak fairness of each caller and of time.
* **MessageQueue**: weak fairness of each call, strong fairness of `Lock` because tokio's
  mutex is first-in first-out. That an attempt to connect ends is assumed of the network:
  the code has no deadline of its own around it, nor around the write of a frame. That
  the broker answers, or keeps a connection, is not assumed.
* **Extraction, Delivery, BrokerCalls, MarkerFile, AtomicFile, Records**: none; they have safety properties
  only.

## 5. What is proved

TLAPS proves these for every value of the constants, from the `ASSUME`s of the modules
only: of what sets the constants are; that counts and bounds are natural numbers; that a dump
is a sequence of lines, with a sequence of media and labels on each release and text or
nothing as its barcode (`DumpsAssumption`); that a vocabulary is one (`IsVocabulary`) and knows
barcodes (`BarcodesAssumption`: a type of that name and provider that no other type shares,
whose values are reduced to their digits, as the vendored `identifier-types.json` has it).
Every safety property, action property and refinement that a passing run checks is proved.

* **ExtractionProofs** – `TypeCorrect`, `Invariance` (`IInv`), and from it
  `CompletedDelivered`, `CompletedAnnounced`, `PurgeSafe`, `FilesProcessedExact`,
  `ReopenedBeforeDelivery`, `AnnouncedCounts`, `ForcedRedelivers`, `SuccessDurable`;
  with a small invariant of its own each, `OutcomeKept` (what ControlLoop takes for granted
  of a run) and `ProgressIsTotal`.
  `CompletedIsDelivered` alone is not inductive: it speaks of `disk`, and `MarkFile`
  writes `mem` there. `IInv` therefore says that both markers are sound
  (`MarkersSound`), that from `StartPhase` on they differ only in the counts of the
  file under way (`MemoryAndDisk`), that what a run believes of the file under way has
  happened (`FileUnderWay`), that every file behind the loop is completed and counted
  while nothing has failed (`LoopSoFar`), and that nothing carries a time to come
  (`SentInThePast`), which is why a new epoch starts after all that was sent before.
  The proof has one step per action; lemmas give what each marker transition leaves
  unchanged.
  `PromiseKept`: every step of Extraction is a step of Delivery or a stutter, under `IInv`.
* **PipelineProofs** – `NothingIsLost`, `CheckpointReached`, `FailureCaused`, and
  `FileContractKept`, for files of any length, channels and batches of any size and any
  interval. The invariant `PInv`: what each stage of the tasks implies of their buffers
  (`Lifecycle`: no batch on its way is empty, and a task that ended cleanly has seen the end of
  the one before it and left nothing behind); that a task which failed, or stopped short of
  the end of the file, did so because of a failed publisher or parser (`Causes`);
  that the counters agree (`Counted`: the parser's with the records read, the batcher's with
  those sent to it); and `NothingLost`. That the accepted
  records are a prefix of the file is not inductive: a step may only move what is in flight, so
  the invariant says that everything in flight, put together in order, is `RecordsTo[line]`.
  `RecordsTo` and `FlattenSeq` are recursive, and the induction theorems of the library take
  an operator, so the lemmas about them (`RecordsToFacts`, `FlattenAppend`, `FlattenTail`) go
  by the smallest counterexample (`IntervalInduction`, from the well-foundedness of `<` on
  the naturals). The refinement maps a record taken to `Take`, a confirm – or a lost one whose
  message was accepted – to `Deliver`, the join to `Succeed` or `Fail`, and everything
  else to a stutter; that a join which succeeds has found every record accepted is where
  `Lifecycle` and `NothingLost` meet. `SuccessIsWhole` adds what the counts of FilePipeline do
  not tell: that the records accepted are those of the file, in their order.
* **ControlLoopProofs** – `StatusOfLoop`, `ConflictOnlyRunning`, `FailureStays`,
  `CutShortEndsClean`. The state space is finite; the proofs show that these need
  nothing but the types and the lifecycle table.
* **MarkerFileProofs** – `MarkerNeverTorn`, `SaveImplementsAtomicFile`. The invariant:
  every file that the path names, or may name after a power loss, is synced and whole,
  because the order of the steps lets only such a file be renamed.
* **DownloaderProofs** – `FinalVerified`, `VersionWhole`, `EntitiesAtomic`, for any
  number of entities and attempts. The invariant adds to the above what the attempt has
  done to its `.tmp` so far (`AttemptSoFar`) and that the entities behind the loop are
  complete (`RunSoFar`). `NoPartialEverLeft` (`NoPartialLeft`) needs more than one attempt,
  of which the code makes three (`src/musicbrainz/downloader.rs:183`): a first attempt whose
  GET fails has not yet removed what a killed run has left; each later one has.
* **PoliteHttpProofs** – `GapAlwaysKept`, `HintAlwaysHonoured`, for any callers, gap, cap,
  number of retries and hints. The invariant: the sleeper holds the mutex and its timer
  covers the rest of the gap; at most one caller is about to send unless there is no gap.
* **MessageQueueProofs** – `NeverTwoConnected`, `OkAlwaysEarned` (a call that returns Ok
  has all of its messages on the queues; TLC checks it within `KeepsCalls`), for any callers, retries,
  number of connections and sizes of calls. `OneConnected` is not inductive: the invariant
  adds that only the owner replaces (`OwnerReplaces`), never a channel that works
  (`ReplacesLost`), and that a working connection is stored or about to be (`UpIsKnown`);
  `Progress` says that while a call has noted no error all of its messages so far were
  accepted. `CallsKept`, the refinement of BrokerCalls, adds `CallsInOrder`: nothing is accepted
  beyond the message that is next, and only a signal is still under way after an error.
* **RecordsProofs** – `TargetsAlwaysFollow`, `HashAlwaysTracks`, `ProgressMonotone`,
  `NothingStatedLost`, `AllItemsClassified`, `AliasesAlwaysUnite`, for dumps of any length and any vocabularies.
  The invariant `RInv`: the map pass has in its map what the lines read so far give
  (`MapFollowsTheDump`), because the last link of a prefix is that of the next line or of
  the shorter prefix (`LinkedIsNext`); every message is the one of its line and build
  (`SentAsParsed`), from which the lemmas about the mapper (`FormatsAreAccounted`,
  `ItemIsClassified`) and about barcodes (`BarcodeAliases`) give the rest; a message of the present dump has its targets from the
  whole of it (`TargetsFollowTheDump`); the gauge is never ahead of the reader
  (`GaugeIsBehind`).

**Only model-checked**: liveness (`Terminates`, `TriggerIsServed`,
`ShutdownEndsLoopInTime`, `DownloadEnds`, `GetEnds`, `CallEnds`), which rests on fairness and
`ENABLED` and is out of the prover's reach.

## 6. Where the code and its documentation disagree

1. `changed_bytes`: `docs/state-marker-system.md:35` has a completed file invalidated when
   its verified bytes change. The method that does it, `file_bytes_verified`
   (`src/state_marker.rs:407`), has no caller outside the tests: a version file that is
   fetched again with other bytes is skipped by name.
2. `shutdown_lost`: a signal between the flag check (`src/musicbrainz/mod.rs:56`) and the
   creation of `shutdown.notified()` in the `select!` (`:102`), for example while the loop
   waits for the lock of the state, reaches the monitor only. The loop then sleeps
   with the flag set until the periodic timer, days later.
3. `enriched_hash`: `docs/decisions/0001-producer-normalization-boundary.md` has the
   enrichment occur before hashing (`:16-17`) and the hash represent exactly what consumers
   receive (`:9`). `parse_mb_artist_line` hashes (`src/musicbrainz/jsonl_parser.rs:272`)
   before `parse_mb_jsonl_file` adds `target_discogs_artist_id` (`:549`): when only a
   target's Discogs id changes, the artist is published under the hash it had.
4. `bare_medium`: the comment at `src/musicbrainz/media.rs:421-424` has a bare value among the
   media skipped. `extract_media_raw` (`src/musicbrainz/jsonl_parser.rs:131`) has made it
   an object of nulls by then, so it becomes an item of unknown kind.

Met on the way, and not counted as disagreements:

* An error of the first run leaves the loop by `.await?` (`src/musicbrainz/mod.rs:44`) before
  `initial_run_outcome` can look at the shutdown, so a SIGTERM whose run ended in an error
  still ends in the failure cooldown. `CutShortIsClean` states the exception.
* `jsonl_parser.rs:104` looks for a relation's nested object under the raw target type
  and then under the canonical one, never under `release_group` for a target type that is
  spelled `release-group`: its `target_mbid` is then empty. The comment there
  has seen both spellings of the key, and no test has this combination.
* `Path::exists` (`src/musicbrainz/downloader.rs:88`) takes an error for absence; the entity is
  then fetched again.

## 7. Assumptions, and what is not modelled

* Of tokio's file: an error of a write surfaces at `write_all` or `sync_all`, before the
  rename. `save` does not call `flush`, so this rests on the library.
* Of the file system: a synced file survives, a rename is atomic, and a file renamed
  without a directory sync is either there whole or not there.
* Of lapin: a channel that was lost stays lost (automatic recovery is off unless asked for),
  and a connection that is dropped is closed.
* Of the broker: a confirm means that the message is on every queue of its exchange.
* Of the state marker, what only the tests call: the methods of the download phase,
  `file_bytes_verified`, `pending_files` and the totals of the phases.
* Of the downloader, the discovery of the latest version and of the files on disk: a
  comparison of names.
* Of the health server, the endpoints that only report the state.
* The content of the vendored vocabularies, and of the fields that are copied: data.
* Configuration, which is read once; logging and all telemetry but the progress reader:
  nothing reads them back. Contract generation and repository scripts run at build time.
* Hazards listed without a property say why in their note.

## 8. Order of the work, and what is left

Done, most important first: StateMarker and Extraction with Delivery; Pipeline with
FilePipeline; ControlLoop; MarkerFile and Downloader over FileSystem, with AtomicFile;
PoliteHttp; MessageQueue with BrokerCalls; Records with MediaMapping and IdentifierMapping;
proofs for all of them.

Left:

1. `Service`: ControlLoop and Extraction side by side, with the status shared, so that
   `OutcomeContract` is not assumed but composed; a second `POST /trigger` over a pending
   one.
2. `Discovery`: which version is the latest and which file stands for a type, compressed or
   not, as operators against a reference definition.
3. `MarkerApi`: the marker methods that production code does not call yet, in any legal
   order, so that counters, phases and summary agree along every sequence of calls.
