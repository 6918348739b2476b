# A formal model of the soft-failure detection pipeline

TLA+ modules for the services of this repository, the TLC instances that
check them, and proofs of the properties that matter most, checked by TLAPS.
Paths below are relative to the repository root.

## 1. The system

```
producer --JSONL :9000--> optics_ingest --JSONL :9001--> infer --POST--> healer --REST, gRPC--> path_manager
```

The producer writes telemetry samples, the C++ ingest service turns each key's
last 60 samples into a feature frame, the infer service scores frames with
frozen models and posts observations, and the healer asks the path manager (a
stub PCE) to move a link to its protection path once the scores have stayed
high. Nothing is persisted except the model artifacts and the reroute log;
every other state lives and dies with its process.

### Inventory

| Component | State it keeps | Operations | Talks to | What is hard | What makes it correct |
|---|---|---|---|---|---|
| **path manager** `apps/path_manager` | `TopologyState`: capacity and status per path, `moved`, `reroutes`, behind one lock; `reroutes.jsonl` | `apply_reroute`, `_append_log` | REST and gRPC pools of one process share the state | two pools, the log written outside the lock, restart with the log left behind, copies of one move | slots never negative and booked once per move; a move applied once; an acceptance never a lie; every move logged, or its write failed |
| **healer** `apps/healer` | `LinkState` per link: `consecutive`, `observations`, `last_reroute_ts`, `rerouted` | `observe` and its two egress calls | called by infer, calls the path manager twice per emission | a thread pool without a lock, a wait of up to 10 s in the middle of `observe`, event time mixed with wall time, restart | a reroute only after N hot windows in a row; reroutes of a link a hold-off apart; the hold-off starts only when something came of the emission |
| **ingest** `apps/ingest_cpp` | windows per key, counters, read buffer, downstream socket, backoff clock | accept, recv, line framing, `parse_sample`, `Window::push`, `send_line`, `stop` | reads telemetry clients, writes to infer | chunks cut anywhere, one client at a time, a `send` without a deadline, the peer's death noticed late, backoff, SIGTERM in the middle | no line lost, split or handled twice; windows are the key's latest samples; frames in order and accounted for |
| **infer** `apps/infer` | artifacts cache, `frames`, `dropped`, `posted` | `_handle_client`, `handle_line`, `post_observation`, the scoring API | reads ingest, posts to the healer | one task per connection, a POST given up after 5 s, a lost POST never repeated | observations of a link reach the healer in order and one at a time |
| **producer** `apps/producer` | position in its stream, one socket | connect with retries, paced `sendall` | writes to ingest | a 5 s socket timeout that stays armed, no reconnection | it ends, whatever the service does; what it wrote before it ended well is handled |
| **generator** `data/generator` | the corpus files | `generate`, `add_horizon_labels`, the physics | training, producer | two formats, a run killed between two tables, gaps in a link's rows | a label says whether a failure follows within the horizon |
| **batch windows** `ml/features.py` | none | `windows_from_dataframe`, feature formulas | training | must agree with the streaming windows | same samples, same window |
| **calibration and scoring** `ml/models`, `apps/infer/serve.py` | the models | `calibrate_threshold`, score, load | training, infer | curves that do not rise, ties at the quantile | the false positive rate is within the gate |
| **training** `ml/train` | artifact files | write five artifacts, one by one | infer loads them | a reader or a crash between two files | a service never runs a mixture of two trainings |
| **wire format** `proto` | none | generated | healer, path manager | – | – |
| **deployment** compose file, `scripts/demo.sh`, Makefile | none | start, wait, stop, `data`, `train`, `distclean` | all | start order, jobs killed half way | no program runs on files that do not belong together |

## 2. Modules

| Module | What it is |
|---|---|
| `Topology` | `configs/topology.yaml` as both services read it; `WorkingPathForLink` and `ProtectionPathForLink` are the healer's two lookups. The file is not validated by the code, so the constants allow a protection map that misses links or names paths the file lacks |
| `ProtectionSwitch` | abstract: a link is switched onto an allowed path, in one step, if it has a spare slot and is not there already |
| `PathManager` | `apps/path_manager/main.py` and `grpc_server.py` |
| `Healer` | `apps/healer/main.py` |
| `Infer` | the frame server of `apps/infer/main.py` |
| `Detection` | composes `Infer` (`I`) and `Healer` (`H`) with the POSTs between them |
| `SelfHeal` | composes `Healer` (`H`) and `PathManager` (`P`) with the calls between them |
| `LineFraming` | the reader of `jsonl_server.cpp`, byte by byte |
| `Ingest` | the rest of the ingest service: clients, windows, frames, the downstream connection, shutdown. A line is a unit here; `LineFraming` says when that is so |
| `Telemetry` | extends `Ingest`: its clients become runs of the producer (`apps/producer/main.py`) |
| `Artifacts` | the files between `make data`, `make train` and the infer service |
| `Training` | what `train()` computes between reading and saving: labels, windows, threshold; beside it the same rows as they are scored |
| `PathManagerProofs`, `HealerProofs`, `DetectionProofs`, `SelfHealProofs`, `IngestProofs`, `LineFramingProofs`, `ArtifactsProofs`, `TrainingProofs` | theorems about the module each is named after; `IngestProofs` also about `Telemetry`, from which it can see `Ingest` |
| `MCPathManager`, `MCHealer`, `MCDetection`, `MCSelfHeal`, `MCTelemetry`, `MCTraining` | TLC instances (`LineFraming` and `Artifacts` need no module for theirs; `Ingest` is checked as a part of `Telemetry`) |

### PathManager

A worker is a thread of either pool. `Receive` puts a request in its hands;
`RejectUnknown`, `AlreadyApplied`, `RejectNoCapacity` and `Accept` are the four
ways through the `with self.lock` block, in the order of its tests, and each is
one step because the lock covers it; `AppendLog` is the write after the lock,
including the `OSError` that is swallowed; `Respond` is the answer. `Restart`
gives a new `TopologyState` and keeps the file. The log is a sequence of
(incarnation, place in the history) pairs: its text is left out.

### Healer

The endpoint is a plain `def`, so FastAPI runs each call on a pool thread, and
nothing locks `LinkState`. The container runs CPython 3.11 (`Dockerfile:2`), which
hands the interpreter lock over at calls and backward jumps only. `observe` is therefore cut at
the calls that matter: `Enter` (up to `_now`), then the counter update with both
tests (`BelowThreshold`, `Count`, `Suppress`, `NoProtection` or `EmitRest`), then
`RestReturns`, `GrpcReturns`, `Finish`. The two topology lookups between the
tests and the emission read nothing that changes, so they are part of the
emission's step. `hot` abstracts the comparison of `p_fail_10m`. An interpreter
without that lock could lose a counter update; that is outside the model.

`verdicts` and `emitted` are history: the order in which observations reached the
counter, and the emissions with the `now` they were made at. Both are those of the running
process. `Restart` clears every `LinkState`, as the code does, and moves the emissions to `earlier`:
what was emitted stays emitted. There are two statements of the hold-off for this reason. `IncarnationHoldsOff` speaks of
the emissions of one process, `HysteresisHolds` of all that were ever made, which is what section 7 of the
repository's README promises; a restart breaks the second and not the first.

`SerialSpec` restricts `Spec` to one observation of a link in the healer at a
time. It is the situation infer creates by awaiting each POST on one
connection: `Detection` implements `SerialSpec` as long as no POST is given up (run
`detect_serial`), so what is proved of it holds of the two services together.

### Infer and Detection

A connection's task goes through `read`, `scoring` (the scoring thread) and
`posting`; the points where it waits are the `await`s of `handle_line`, and at
each of them the tasks of other connections run. `DropBad` and `ScoreFails` are the
ways a frame is dropped. `Connect` allows one open connection at a time, as the ingest
service does, but an old one may still be drained; that is how two tasks come to
run. A line is an observation (what scoring will make of it) or one of two model
values, `Bad` and `Unscorable`. A line over the 4 MiB limit, which the ingest never sends, is left out.

In `Detection` a POST is on the wire, handled by a thread, or answered. `PostFails` is every
way `httpx` raises: the 5 s deadline (if `Unreliable`) or a broken connection. What
was sent is not taken back: the healer may handle it later. `Lose` is a POST that
never arrives, for example on a kept-alive connection that the server has just closed.

### SelfHeal

Each emission sends one call per transport with a fresh identifier. A call on the
wire may be delivered to a thread of its pool at any later time, also after its
caller gave it up, or be lost before it was read. `EndCall` is the return of the
egress function: with an answer, without one because the connection is `Broken` (lost,
or its server died), or given up at its deadline although it is still under way. Nothing is sent
twice on one transport: `httpx.post` and the stub are called once, and the
reconnection of a gRPC channel before the request is written is not a second
delivery. A restart of the path manager kills the calls it was serving and not
those on the wire.

Losses, early give-ups and deaths of either process are faults, and `MaxFaults` bounds
their number. That a broken connection is noticed is no fault of its own. The number matters to
the properties: a move is sent on two transports, so one fault does not lose it, and
`HoldOffMeansSettled` and `EmissionSettles` say so.

### Ingest and LineFraming

The process has one thread, so each action is a stretch of it between two system
calls whose outcome matters; the environment moves in between. `pending` holds
complete lines received but not handled; `Receive` takes any non-empty prefix
of what the client wrote. `parse_sample` is a nondeterministic verdict fixed when the sample is written.
`DownstreamClient` keeps its three facts: connected, within the backoff, and
(outside the process) whether the peer still lives. `send` on a connection with a
dead peer may succeed or fail; a frame that reaches the socket of a living infer
service counts as received. A client that resets its connection, rather than
closing it, is not modelled. `Stop` may come between any two steps: it sets `running`, but
`recv` and `send` go on waiting (`std::signal` restarts them), so what `recv` returns is still handled.
`stalled` is a connection to infer whose buffers are full because the task at its other end is
waiting for a POST; `send` has no deadline and waits with it.

`LineFraming` fixes a stream of bytes of three kinds and delivers it in
chunks; a line is an interval of places, so "which bytes did the handler get" can
be stated exactly. A step is one turn of the loop: a chunk received, the next newline dealt with, the
pending bytes given up because they outgrew the limit. The stream may end at any `recv`, by the client or by `stop()`,
and the partial line that is flushed then belongs to this module; in `Ingest` a line is whole.

### Telemetry

A client's life is one call of `stream_frames`: `ConnectProducer`, `Retry` and `GiveUp` are the loop of
`_connect`; `SendRecord` writes one record if the connection has room, and otherwise `SendTimesOut`: the
5 s of the connect stay armed for `sendall`, and `TimeoutError` is not among the exceptions that are
caught. It leaves part of a line behind or none (`CloseTorn`), a part that lacks only its newline included, which the
reader's flush handles as a whole line. `PeerClosed` is the exception that is caught,
`SendToNobody` what the kernel accepts before the reset comes back. `Repeat` is `--loop`: a producer that has it never ends by
itself (`Finish` is for the others), only by `Interrupt`, which is Ctrl-C and which nothing obliges to come, or because its
peer is gone. To keep the model finite a looping producer sends `MaxPasses` times and is silent then, but keeps its connection, as
an endless one does; after a stop it sends once more, since the next line is what lets the thread out of `recv`, and to
a peer that is gone it goes on without a bound. A port probe,
such as a health check of the deployment, is a producer with nothing to send, and takes its place in the listen queue
all the same. A `send` is paced by `time.sleep`, which any interleaving covers.

### Artifacts

A file is the job that wrote it last and whether that job finished writing it: opening truncates. The
corpus is three tables, each in one of two formats: `_write_table` tries Parquet for each of them and falls back to CSV for
that table on any exception (`FallBack`), which leaves an older Parquet file as it was, or the new one truncated, or none. `Corpus` is
`load_corpus`: any Parquet file hides every CSV file. So a generation that fell back for some of its tables may leave Parquet
files of its own among older ones, with nothing to tell; like one that was killed it sets `cut`, and
`CorpusIsOneGeneration` says what holds when neither happened. `SaveArtifact` goes through the five files of
`train()` in its order; `Load` reads them in the order of `ScoringPipeline.load`, which is another. Jobs exclude each
other, as the operator runs one at a time; services start, load and stop at any time beside them.

### Training

One table is labelled, sliced, fitted and calibrated in the four steps of `train()`, and then
replayed: `Send` is a row of `cmd_replay` that enters `iter_frames`' window if the ingest service would
take it, and the next row is the least of those left. No sequence is sorted: a row's `Place` in its sorted group is the number
of rows of the group up to its time stamp, and `RowAt` finds the row at a place; a batch is a function from links to
their windows, as `groupby` makes them; the score of rank p is the least that more than p windows do not exceed. The models are library code: `Fit` gives the nominal windows any scores and `HorizonHead` any curve, the
default one included. Scores are small integers and a probability is never computed: `p >= 0.7` is a score at
or above `point` when the curve rises, at or below when it falls. `np.quantile` interpolates, so thresholds are kept multiplied
by `FprParts`. Rows carry seconds; the label counts rows. The corpus is labelled when it is generated and the sample
CSV when it is read, by the same function.

## 3. What the runs check

Every property of a passing run has a mutant in `PROJECT.json`: a plausible bug,
written next to the definition it changes under a comment beginning "Mutant",
that makes the property fail in its own run.

| Run | Question | Bounds |
|---|---|---|
| `pm_safety` | Do topology, idempotency map, history, log and answers agree under two handler threads and a restart, and does the service implement `ProtectionSwitch`? | 2 threads, 5 requests: two links for one path, a move back, a request naming one path twice, one for an unknown path; capacities 1, 2, 0; 1 restart |
| `healer_safety` | Are counters, emissions and marks consistent although nothing is locked? | 2 threads, a protected and an unprotected link, event times 0 (clock) and 1, clock 3, 3 observations per link, 1 restart |
| `detect_serial` | With one connection and no POST given up: does infer give the healer a link's observations one at a time and in order (refinement of `SerialSpec`), and are reroutes of one healer process a hold-off apart? | 3 lines over a protected and an unprotected link, times 0 (the clock, 2), 1 and 4 in any order, so that some are nearer than the hold-off of 2 and some further, bad and unscorable lines, threshold 1, a healer restart |
| `detect_lossy` | with POSTs lost or given up, two connections and restarts: does no window count twice, and does a hung healer leave the scoring alive? | 2 connections, 2 lines, 1 restart of each process |
| `detect_overlap` | (violation) is the hold-off kept when a POST is given up? | 1 connection, 4 lines, threshold 2 |
| `detect_restart` | (violation) is the hold-off kept over a restart of the healer, when no POST is lost or given up? | 1 connection, 4 lines, threshold 2, 1 restart |
| `detect_gap` | (violation) were the windows that caused a reroute consecutive, when a POST is lost or late? | as `detect_overlap`, one time; 3 lines suffice |
| `loop` | With a call lost, late or unanswered, or a death of either process: capacity, status, answers, the refinement of the abstract switch; does an emission come to something, is a hold-off started only then, and is every observation answered? | two links for the one protection slot (the repository's capacities), 2 healer threads, one thread per pool, 1 fault |
| `telemetry` | Windows, counters, frames and their order, through outages, backoff, timeouts, torn lines, Ctrl-C and shutdown; does SIGTERM end the process, does every producer end that should, and is what they wrote handled? | 2 keys, windows of 2; a producer of 3 records and one that loops over one record or probes the port, the latter in a terminal; 1 pass of the loop until the service is stopped; a listen queue of 1, 2 lines per connection, 1 failed attempt, 1 death of infer |
| `framing` | Do lines come out whole, once and in order, however the stream is cut? | every stream of up to 7 bytes of 3 kinds, a limit of 3 pending bytes |
| `artifacts` | Can a pipeline, or a training, be made of two generations of files? | 1 service, 3 jobs, each of which may be killed at any file, and each table of a generation in either format |
| `training` | Do labels tell the future, does training see the windows that are scored, and does calibration meet its gate? | a nominal link of up to 5 rows with a gap, a failure and a rejected row anywhere, beside it one of 2 rows that ages; 4 orders of the rows; strides 1 and 2; windows and horizon of 2; 3 scores; gate 1/2, target 1/3 |

The bounds are small and enough for what they ask. Two threads suffice for the
path manager, whose locked section leaves only the log and the answer to interleave;
three steps of history (move, move back, move again) are possible. In the healer the
second thread must be judged while the first is between emission and `Finish`, and
after a restart again; two emissions of a link need `ConsecutiveWindows + 1`
observations. In the loop the identifiers of calls are unbounded in principle and
bounded by observations times transports. One fault is the number at which its properties turn: with two, both copies of a move
can be lost, and a second fault makes the liveness check too large. In `telemetry` a listen queue of one place
is full as soon as one producer waits in it, a stream of three records outgrows
a connection of two lines, and two keys in one stream give frames of one key around a sample of the
other. Three jobs are two generations and the training that reads them, or two trainings with a service beside them, in any order, with any of them killed. A gate of 1/2 and a target of 1/3 keep the relation of 1/50 and
1/500: the target is below the gate, and one window of the fewest allowed is the gate. Seven bytes hold two lines, or a runaway line with an
ordinary one on either side.

In `Detection` an overlap needs an emission in progress and one more observation, and a gap needs
one window between two hot ones.

`CHECK_DEADLOCK FALSE` is set where the model ends because its bound on
observations, lines, restarts or the stream is used up; `pm_safety` has no such
bound on requests and checks deadlock. Symmetry is declared for threads that
differ in nothing else, and in no run with a liveness property; `ImplementsSwitch`,
`ImplementsProtection` and `ImplementsSerial` treat all threads alike, so it is sound for them.

### Fairness

`SelfHeal!FairSpec`: a thread of the healer that is in `observe` goes on (its waits end
with an answer, a broken connection, or a deadline), and a path manager
worker takes calls from the wire, serves and answers them. That is what both
thread pools do as long as they have a thread, and the lock is held for a few
assignments only. The deadline is not needed for `ObservationsReturn` while the path manager serves; that a broken
connection ends a wait is (the mutant without it waits for ever). Nothing obliges infer to post.

`Detection!FairSpec`: the event loop runs its tasks, and the deadline of a POST passes. The healer is
under no obligation: that it may hang is the point of `FramesAreRead`.

`TelemetrySpec`: the ingest service goes on, each producer goes on, and a stalled infer service reads on some
day. The last is what the infer service owes: its task waits for a POST for 5 s at most, which
`FramesAreRead` shows of `Detection`. No fairness is asked of outages, of the signal, or of the backoff, and none of Ctrl-C. A
producer whose peer is gone meets the reset after finitely many sends: `PeerClosed` is strongly fair, as every pass of a loop
enables it anew.

A producer with `--loop` is `while True` (`apps/producer/main.py:156`): it is under no obligation to end, and as one client is
served at a time, it keeps everybody behind it waiting for as long as it lives. The properties say what is left. `ProducersEnd` asks an end of
the producers without `--loop`, whoever is served, and of all producers once the service has exited.
`StreamsAreHandled` has a hypothesis: *if every looping producer ends some time* (the operator presses Ctrl-C), then what any producer wrote is handled.
Without the hypothesis it is false of the code: a finished producer in the listen queue behind an endless one is never accepted.
`ShutdownCompletes` needs no such hypothesis, as the looping producer's next line lets the thread out of `recv`. A client that
is not a producer, and keeps its connection open in silence, would leave SIGTERM unanswered, as `recv` has no timeout.

`Artifacts` and `Training` have safety properties only.

## 4. What is proved

Every safety property of a passing run is a theorem, refinements and action properties included. TLAPS checks
them for all constants that the modules' named assumptions allow: any topology with roles and natural
capacities, any sets of links, requests, observations, threads, connections and services, any thresholds, windows, limits, streams
and tables of samples.

What the assumptions ask for beyond the shape of the constants:

- `IngestAssumption`: keys and clients are finite sets, without which "the number of lines" has no meaning.
- `TrainingAssumption`: links are a finite set; no two rows of a link have the same time stamp, as the generator writes
  one row per second (the code sorts by it, and leaves the order of equal ones open); and
  `2 * MinNominal <= FprParts + 1`. With the 50 windows of `train.py` and the target of 1/500 of `horizon.py` that is 100 <= 501. The
  gate does depend on it: it says that the target lies well below the gate.
- `DetectionAssumption` and `SelfHealAssumption` repeat `HealerAssumption`, since an instance's assumption is not
  inherited, and keep the model values of lines apart from observations.

Some theorems have a hypothesis, which the runs satisfy:

- `OneReliableConnection` (`DetectionProofs`): one ingest connection, no POST given up or lost, infer not restarted. The
  constants of `detect_serial` satisfy it. Without it the properties are false, as `detect_overlap` and `detect_gap` show.
- `SeparatePaths` and `TwoTransports` (`SelfHealProofs`): no two links share a working path, and no protection path is a working
  one; the gRPC stubs are importable and protection paths exist. Both are true of `configs/topology.yaml` and the
  image, and `MCSelfHeal` assumes them, so TLC evaluates them for that topology.

### The arguments

`PathManagerProofs`
- `TypeCorrect`. The invariant is `TypeInv`: `PMTypeOK`, and a busy worker holds a
  request, without which the accepting step cannot be typed. That capacity stays a natural
  number is the content.
- `CapacityAccountingHolds`. Inductive with `TypeInv`; `Accept` adds one place to
  one path's set and takes one slot from that path.
- `MovedIsLatestRerouteHolds`, and from it `NoRepeatedMoveHolds`: an accepted repetition
  needs `moved` to differ from the target, so the latest reroute of the link went
  elsewhere, and lies between the two.
- `AcceptedMeansMovedHolds`: uses `MovedIsLatestReroute` for the idempotent answer.
- `StatusFollowsHistoryHolds`: `Accept` sets two paths, in an order that matters when a request names one path twice;
  the others keep the status that the history before it gave them.
- `LogAccountingHolds`. `LogInv` adds that no line of the log is of a later incarnation (`LogKnowsIncarnation`), so that a restart
  begins with none of its own; then each record is in exactly one of three places.
- `Refinement`: each step of the threaded service is a switch, a restart or a
  stutter of `ProtectionSwitch`, with `moved` as `ride` and `capacity` as `spare`.

`HealerProofs`
- `TypeCorrect`, with `HandlersHoldObservations`.
- `CounterIsHotRunHolds`: the counter is the length of the current run of hot verdicts,
  and `EmissionJustifiedHolds` follows from it, for every interleaving: only the order in
  which observations reach the counter matters.
- `EmissionsAreRecordedHolds`: `RecordInv` says link by link that an emission is recorded or has a thread in the
  egress, and that such a thread's `now` is that of an emission (`EgressHasEmitted`), which `Finish` then records.
- `IncarnationHoldsOffWhenSerial`: under `SerialSpec`. `IncarnationHoldsOff` is not inductive; the
  invariant `SerialInv` adds that no two threads hold one link (`Alone`), that a thread in
  the egress made the link's latest emission (`LatestIsInEgress`), and that with no such thread
  every emission is at or before `last_reroute_ts` (`HoldOffCoversEmissions`). TLC checks the same
  property in `detect_serial`, where infer is the environment. Event times need
  not be ordered: the code's test refuses older times as well. It is a statement about one process.
- `HysteresisHoldsInFirstLife`: while the healer has not restarted, `earlier` is empty (`FirstHasNoPast`) and the promise over
  all emissions is that over those of the process. After a restart it is false (`detect_restart`), so this is as far as it goes.

`DetectionProofs`
- `NoWindowCountsTwiceHolds`, for any number of connections and any losses. `PostsHandledOnce`: a POST is on the wire or
  with one thread. `CountInv` then adds the hot windows still ahead of the counter to those judged; each step moves a window from one
  set to the other or drops it.
- `SerialRefinement`: under `OneReliableConnection` the two services implement `SerialSpec`. `AwaitInv` says that each POST on the wire
  or with a thread is the one a task waits for, and there is one task. `IncarnationHoldsOffWhenReliable` and
  `HysteresisHoldsInFirstLife` follow from it and `HealerProofs`: of the two services together, the hold-off is kept within the life
  of a healer process.
- `JudgedAsScoredHolds`: `OrderInv` adds that a window whose verdict is outstanding is the last that was scored, so the verdicts of a link
  end with it or just before it.

`SelfHealProofs`, which uses the theorems of `PathManagerProofs` and `HealerProofs` about its two parts
- `ProtectionRefinement`: a request on the wire or with a worker is one the healer makes (`CallsOK`), so a link is moved to its own
  protection path or not at all (`RidesOwnProtection`), and two copies of a move are one switch and stutters.
- `SpareIsCapacityLessRidersHolds`: a move takes a slot and adds one rider to the set (`SlotsAreRidden`).
- `AcceptanceIsTrueHolds`: `moved` is overwritten only by the same target, so an acceptance in the log step, in the reply or on its way back is true
  until the process dies (`AnswersAreTrue`).
- `DownLinksRideActivePathHolds`, with `SeparatePaths`: a path that carries traffic is never taken down again (`TrafficIsOnActivePaths`).
- `HoldOffMeansSettledHolds`, with `TwoTransports`: `EmissionsAreCovered` counts what an emission has left. While nothing was
  lost there are two calls on the wire, or one with a worker, or the link is settled; after one fault there is still one.

`IngestProofs`: each theorem is proved of `Spec` (clients of any kind) and of `TelemetrySpec` (producers). `IngestInv` is inductive under
`AnyStep`, which covers the steps of both, and `StreamsInv` says that what a producer writes are samples.
- `WindowIsRecentHistoryHolds`: `Window::push` on the last samples of a history gives the last samples of the longer one, also at
  the two sizes where the window starts to drop.
- `LinesAccountedHolds` and `FramesAccountedHolds`: `LinesInv` and `DuesInv` are equations between sums over keys and clients.
  `SumFunction` is a fold, of which no backend knows anything; lemmas derive from its definition that changing one summand changes
  the sum by the difference. The strengthening counts pending lines, and the frame that is being sent.
- `FramesInOrderHolds`: `FramesInv` gives each frame its place in the history of its key, and keeps the one being sent later than all received.

`LineFramingProofs`, for every stream, every way to cut it and every limit
- `ShortLinesSurviveHolds` and `NoMixedLinesHolds`: `FramingInv` says where the reader is: at the first byte of a
  line, or so far into one that its start has been given up (`InLine`); that the lines behind it within the limit were handled
  (`ShortLines`), and nothing but lines or their ends was (`WholeLines`, `InOrder`).

`ArtifactsProofs`
- `TrainingLeavesItsOwnHolds` and `HeadMeansAllHolds`. Neither is inductive: `TrainingInv` adds that a
  training that is saving is the latest, has not completed, and has already written every file
  before the one it is at (`SavedSoFar`). That the head comes last makes its existence imply the others'.
- `PipelineIsOneTrainingHolds`, over `TrainingInv`: while the training that had completed when a service
  started is still the last one, everything the service has read is that training's (`LoadsOneTraining`).
- `CorpusIsOneGenerationHolds`: between generations the whole Parquet files are of one writer, and the CSV files are if there is no
  Parquet file; while a generation is at work the Parquet files it has not reached are (`OneGeneration`). A file that a failed
  write left truncated hides the CSV files too, but no training gets past it.

`TrainingProofs`, for every table in every order of its rows
- Lemmas on rows with distinct integer keys: places are taken once each, later rows have later places, and rows between two
  keys are at most as many as the keys are apart, and exactly as many when no key is missing (`KeysApart`).
- `HorizonIsTrueHolds` is that last fact: counting rows finds every failure within the seconds, and in a group without gaps no other.
- `BatchMatchesStreamHolds`: `StreamInv` says that the rows of a link sent so far are those up to some place m, its window holds the last of them, and
  its frames are all full windows up to m. When nothing is left m is the group's size, and strides are arithmetic (`StridesFit`).
- `GateHoldsHolds`: the windows that reach the quantile are counted from the ranks it is interpolated between
  (`ReachRanked`, `ReachMore`), and those counts meet the gate (`FewEnough`), which needs the relation of target and gate named above.

### Only model-checked

The six liveness properties: `ObservationsReturn`, `EmissionSettles`, `FramesAreRead`, `ProducersEnd`,
`StreamsAreHandled` and `ShutdownCompletes`. They rest on fairness, and so on ENABLED, which is out of reach of
the backends used here.

## 5. Findings

1. **The hold-off can be missed** (run `detect_overlap`). `README.md:213-215` promises a hold-off of
   300 s between reroutes of a link. `observe` records `last_reroute_ts` only after both
   egress calls have returned (`apps/healer/main.py:163-166`). An observation of the same
   link that is judged in the meantime passes the test and emits again. One connection is enough: the
   egress may take 10 s when the path manager does not answer, infer gives up its POST after
   5 s and posts the next window. The path manager's idempotency (`NoRepeatedMove`, `SpareIsCapacityLessRiders`) keeps the
   second emission from doing harm in the loop; the promise itself is broken.
2. **The hold-off does not survive the healer** (run `detect_restart`). The same promise; `last_reroute_ts` is a
   field of `LinkState` (`apps/healer/main.py:52-57`), in the dictionary of line 94, and is saved nowhere. A healer that is started anew
   counts from zero and reroutes the link as soon as the threshold is met again, whatever the one before it did. Here too
   the path manager applies the repeated move once. What is proved is the promise within one process.
3. **Windows need not be consecutive** (run `detect_gap`). "3 consecutive windows" (`README.md:213`) are
   consecutive among those that reached the healer, in the order they reached it: infer does not
   repeat a POST that failed (`apps/infer/main.py:66`), and one given up may be handled after the next.
   What remains true is `EmissionJustified`, proved, and `NoWindowCountsTwice`.

Also visible in the models, without a run of their own:
- The hold-off starts also when both calls failed; with two faults a link stays where it is for 300 s.
- A window is 60 samples; the documents say 60 s (`window.hpp:1`, `README.md:54`), which it is only as long as no line is invalid or missing: `Window::push` counts.
- A slot is never given back (`CapacityAccounting`); `DownLinksRideActivePath` needs the shape of
  `configs/topology.yaml`, where no two links share a working path.
- `add_horizon_labels` is documented in seconds (`gnpy_like.py:244`) and counts rows: behind a gap, a failure
  further away than the horizon is labelled too. The generator's tables have no gaps.
- `calibrate_threshold` misses its gate if many nominal scores tie at the quantile, as scores clipped to
  1.0 can; `GateHolds` excludes ties there.
- A second producer that waits in the listen queue fills its socket and dies of `TimeoutError`, with a traceback
  and perhaps half a line sent.
- After a training that was killed, all five artifacts exist and may be of two trainings; nothing tells.
- Parquet tables of an earlier run hide tables that are written as CSV later, also if only one of the three was written as CSV: then
  the new Parquet tables are read with the old one.
- A producer with `--loop` keeps all other clients of the ingest service waiting for as long as it runs.
- The default stride is documented as 1 for CSV (`ml/train/train.py:147`), and is 10 for a directory of CSV files, as `source` is then the directory.

## 6. Not modelled

- The physics of the generator, feature formulas, and the fitting and numeric scoring of models: float arithmetic.
- The single field checks of `validate.cpp`, `_clean_record`: a sample is valid or not.
- Read-only endpoints (`/health`, `/v1/state`, `/v1/topology`), the scoring endpoint, logging, text formats.
- Generated protobuf code and start-up scripts, but for the jobs that write files.
- `grpc_server.py` run as a process of its own, with its own `TopologyState`: two
  instances of `PathManager` that share nothing.

## 7. Plan

The behaviour of the system is modelled as far as the previous section says, and every safety property that a run
checks is proved. What is left:

1. Safety that the liveness properties rest on and that can be proved: for `ShutdownCompletes`, that a thread that
   is still in `recv` or `send` has a client or a peer that will end the wait; for `ObservationsReturn`, that a thread in the egress
   waits for a call that is still under way, answered, or broken.
2. `HoldOffMeansSettled` for any number of faults k and emissions sent on k + 1 transports: the argument counts calls, and two is only
   what the code has.
3. What the scoring endpoint and the read-only endpoints return, if they come to keep state.
