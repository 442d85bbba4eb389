# Verification of the Voxtral streaming speech-to-text server

TLA+ models of the server under `src/`, TLC runs that check them on small
instances, and TLAPS proofs of what matters most for every instance. Paths below
are relative to the repository: `adapter.py` is `src/realtime/adapter.py`,
`envelope.py` is `src/realtime/envelope.py`, `dispatch.py`, `message_loop.py`,
`lifecycle.py` and `manager.py` are in `src/handlers/websocket/`, and
`connections.py` is `src/handlers/connections.py`, `model.py`, `vllm.py`,
`gpu_profiles.py` and `dependencies.py` are in `src/runtime/`; `import_cycles.py`
is `linting/import_cycles.py`.

## 1. The system

A client opens a WebSocket to `/api/asr-streaming` and sends JSON envelopes: a
non-final `input_audio_buffer.commit` opens an utterance under a `request_id`,
`input_audio_buffer.append` streams audio, a final commit closes it. The server
answers with `token` frames, then `final` and `done`. `cancel` abandons an
utterance; a non-final commit with another `request_id` (barge-in) does so too.
Inside, an adapter feeds the audio to vLLM's `RealtimeConnection`, whose events
an `EnvelopeWebSocket` turns into frames. Everything runs in one asyncio event
loop: concurrency is the interleaving of tasks at their `await`s. Before that, a
start prepares the model directory, patches the transcription delay into it,
chooses vLLM's arguments, builds the engine and derives the connection limit.

| Component | State | Operations | Interacts with | What makes it hard | What makes it correct |
|---|---|---|---|---|---|
| Receiver and teardown (`message_loop.py`) | bounded `inbound_q`, `conn_box`, the processor task | receive, control messages, enqueue or close, cancel and join the processor, cancel the adapter | queue to the processor; overwrites `state.request_id` | one cancellation travels through up to three tasks that await each other | the handler returns; nothing stays behind |
| Processor (`message_loop.py`, `dispatch.py`) | `EnvelopeState`: `request_id`, `active_request_id`, `inflight_request_id` | session.update, commit, append, cancel, barge-in | calls the adapter; awaits its feed task in `cancel()` | suspended in `cancel()` while feeder, vLLM and receiver run | one utterance at a time; every cancel is answered; an exception ends it and nothing else |
| Adapter and feeder (`adapter.py`) | pending audio, overlap, segment size, `_utterance_active`, `_finalize_requested`, `_closing_segment`, `_feed_event`, `_feed_task` | append, drop on backlog, feed, roll a segment, finalize, cancel | feeds vLLM's queue; awaits the generation | a wake-up set while the feeder is at any await; a clean-up that comes after the next utterance began; sizes of chunks, segments and overlap that do not divide | no lost wake-up; audio does not cross utterances; what goes over in one segment is bounded |
| Tracked audio queue (`adapter.py`) | items, `total_samples` | put, get, drop the oldest | vLLM consumes it | four overridden methods, two of which call the other two | the count is never too high; the sentinel survives; the backlog is bounded |
| Envelope (`envelope.py`) | `_TranscriptState`, `_suppress_done_count` | delta, done, error; deduplication across segments | reads and clears the session's ids | ids change while the generation runs; the client has already seen text that is deduplicated later; an error may leave the generation running | frames carry the right request; tokens add up to the final |
| Admission and lifecycle (`connections.py`, `manager.py`, `lifecycle.py`) | the set of active sockets; stop event, two clocks | connect, reject, accept, watchdog, disconnect | `busy` reads `inflight_request_id` | two timers look at clocks that other tasks reset | slots neither leak nor double; connections end in bounded time |
| vLLM `RealtimeConnection` (external) | `audio_queue`, `generation_task` | commit, append, cleanup, events | everything above | its task ends some time after its last event | external |
| Model directory (`model.py`) | `params.json`, `tekken.json`, shards on disk; survives the process | look, download, patch the delay, rewrite | snapshot_download, vLLM, other replicas | crash or failure between and inside the steps; a check that accepts a part | a running engine has the configured delay; only an interruption spoils the directory |
| Engine tuning (`vllm.py`, `gpu_profiles.py`) | none: functions of settings, environment, GPU, `params.json`, weights | choose the cache type, the batch, the number of sequences | reads the directory before the engine does | rounding, missing keys, a window and a batch that overlap | the caches fit beside the weights |
| Start-up and shutdown (`server.py`, `dependencies.py`, `state/runtime.py`) | the exit stack, the connection limit | build, serve, shut down, fail | all of the above | a failure at each step; restarts | a restarted server comes up; the limit is the engine's |
| Import-cycle check (`import_cycles.py`) | Tarjan's stack, indices and low links | visit, close a component, report | | the order of visits is that of sets | it fails exactly when there is a cycle |
| Parsing and error frames (`parser.py`, `errors.py`) | none | pure functions of one message | | | not modelled |
| Configuration, logging, health routes, scripts, Docker, other linting, tests | none that matters here | | | | not modelled |

## 2. Modules

| Module | What it models |
|---|---|
| `RealtimeSession` | one session: receiver, processor, feeder, generation, client |
| `Utterance` | what a session promises about its utterances, abstractly |
| `Connections` | all connections: handlers, the manager's slots, watchdogs and receive timers |
| `SlotPool` | what admission promises, as an abstract pool of slots |
| `TrackedAudioQueue` | the sample count and the dropping of `_TrackedAudioQueue` |
| `AudioPath` | audio by size from append to generation; composes `TrackedAudioQueue` with the pending buffer, segments and overlap |
| `Transcript` | how deltas, segments and rolls become the client's text |
| `EngineTuning` | the choice of vLLM's arguments, as operators |
| `Startup` | the model directory and the processes that start on it; uses `EngineTuning` |
| `ImportCycles` | the import-cycle check |
| `RealtimeSessionProofs`, `SessionScopeProofs` | proofs about `RealtimeSession`: for every setting, and for the settings in which answers keep to their request |
| `ConnectionsProofs`, `AudioPathProofs`, `TranscriptProofs`, `StartupProofs`, `ImportCyclesProofs` | proofs about the module each is named for |
| `DataLemmas` | lemmas about least elements, sums and sequences that those proofs share |
| `MC*` | model values, small sets and symmetry for TLC |

`RealtimeSession` has all tasks and little data: its audio is chunks of one size
named by their request, its frames have no text. `AudioPath` and `Transcript` are
about those data and keep of the tasks what they need. `Connections` abstracts a
session to two flags, one for `active_request_id` and one for
`inflight_request_id`. That a session moves those two ids as `Utterance` says is
checked and proved. That `SessionActs` and `SessionSends` let the flags make every
such move, at any time, can be seen by comparing the two modules and is not
checked; they add that an answer counts as activity, which is what
`EnvelopeWebSocket.send_text` does first with every event of vLLM
(`envelope.py:115-117`). `Connections` concludes nothing about the session itself.

A definition whose comment says `mutant` is a plausible bug of the definition
after it. No specification uses it; put in its place it breaks a property.

### 2.1 RealtimeSession

One action is one stretch of code between two suspension points. Names of
variables follow the code (`active` is `active_request_id`, `wake` is
`_feed_event`, `suppress` is `_suppress_done_count`, `vq` vLLM's `audio_queue`);
`audio` is the record of what `_reset_audio_state` resets. Three variables stand
for program counters: `recv`, `proc` and `feed`.

- **Receiver**: `Receive` is one data message through `_receive_and_enqueue`,
  the full queue included, which closes the connection. `ReceivePing` is a
  control message that only overwrites `state.request_id`. `ReceiveLast` is
  `end` or a disconnect. All that end the loop run the start of
  `run_message_loop`'s `finally` (`StopProcessor`); `Teardown*` are its rest.
- **Processor**: one action per handler and message kind. A handler that calls
  `cancel()` stops in `BeginCancel`; `ProcCancelDone` is its rest,
  `ProcCancelRaises` the case where awaiting the feed task raises
  `CancelledError`, which `suppress(Exception)` lets through.
- **Feeder**: `FeedWake` to `FeedUnwound` are the stretches of `_feed_loop`,
  `_roll_segment` and `_finalize`. `_append_to_vllm` awaits vLLM and, after a drop,
  a status frame (`adapter.py:218`, `:225`); each call of it ends an action, with
  the chunk in the feeder's `hand`. So `FeedAppend` pops a chunk and hands it
  over, `FeedSent` counts it, into whatever buffers there are by then, and the
  overlap is replayed chunk by chunk (`FeedRollDone`, `FeedReplay`). That other
  tasks may run there every time, also when nothing suspends, allows more than
  the code does. `CancelFeed` says what `Task.cancel()` does at
  each of the feeder's awaits: at `_feed_event.wait()` it is not caught and the
  task ends cancelled; inside the `try` the task returns; in `wait_for` the
  generation is cancelled first and the feeder waits for it (`unwind`). The
  feeder awaits the generation task that runs when it begins to wait; once that
  one is over it will go on (`rolled`, `finished`), even if the next utterance
  has started another before it does. A generation that is over already is not
  awaited at all in the code; the model then lets other tasks run in between too.
- **Generation** (external): consumes chunks; at the sentinel it emits `done`
  (`GenDone`, with the envelope's handling of it), then ends a moment later
  (`GenEnd`).
- **Dropping**: `DropOldest` takes any number of chunks off the front of vLLM's
  queue while it holds more than the backlog, and may move an end of stream to the
  back: how many exactly depends on a count that lags behind, which is
  `AudioPath`'s subject.
- **Failures**: `GenError` is an error that ends the generation, `FeedFails` a
  generation that raises or does not end in time, or a send in `_append_to_vllm`
  that raises; in `AppendToVllm`, `ErrorEvent` is a chunk vLLM refuses while the
  generation goes on (as when a client sends one that is not base64 of PCM16).
  `ProcRaises` is a handler that raises: `session.update` or a start before it
  changed anything, a start whose last call, to vLLM, fails, an append whose
  status frame finds the client gone. It ends the processor task and nothing else.
- **Client**: a client of the protocol of `ADVANCED.md`: fresh `request_id`s,
  appends between start and final commit, `cancel` while something is in
  progress. `OneAtATime` adds that it waits for `done` or `cancelled` before the
  next start; without it, it barges in.

What is assumed of the code's surroundings: a vLLM call or socket send may
suspend, and the actions break there when what another task can do meanwhile is
seen; `cleanup()` stops the generation at once; the `final` and `done` frames go
out with the consumption of the sentinel; vLLM ignores a non-final commit while
a generation runs. An unsupported model, an unknown type or an invalid message only sends an error and
is left out. `_finalize`'s branch for a segment already closing is unreachable
(its only caller is the loop that just saw the flag false), so it has no action.
A backlog limit of 0 (no limit) is left out.

`LossyWaitFor` chooses between two interpreters. Up to Python 3.11 (the one the
Docker image installs) `asyncio.wait_for` drops a cancellation that arrives when
the awaited task has already ended; from 3.12 on it raises it. Every run but
`close_after_cancel` has the former; the safety theorems hold for both.

### 2.2 Connections

A handler is `new` (not running), `rejecting`, `accepting`, `serving` or
`closing`. Time is discrete and prompt: `Pass` advances every clock by one unit
only when no timer is due and no handler is about to finish. `Watch` is one
iteration of `_watchdog_loop`, `ReceiveTimesOut` one timeout of
`_recv_text_with_watchdog`; `Receive` when the watchdog has closed the socket is
the last message already under way. Both timers are there because a closed
socket is only noticed through them: the watchdog closes the socket, and if the
client never answers the close frame the receiver only leaves at its own timeout.

`Limit` is the choice of `build_runtime_deps`: the setting, or vLLM's
`max_num_seqs` when it is not positive, and at least one. A socket is what
`id(ws)` tells apart and can come back once its handler returned. The manager's lock is
never contended, since nothing inside it suspends. The session's teardown, and
the frames the receiver itself sends (`message_loop.py:53`, `:69`), take no time
here, so the bounds are those of a client that reads and of a teardown that ends;
whether it ends at all is `TeardownEnds` of `RealtimeSession`.
Cancelling a handler inside `accept()` (server shutdown) is not modelled.

### 2.3 TrackedAudioQueue and AudioPath

An item is its number of samples, the sentinel 0. `asyncio.Queue.get()` calls the
overridden `get_nowait()`, so a `get` subtracts twice; `put` would add twice, but
vLLM enqueues with `put_nowait`, which the constant `Puts` states.

`AudioPath` follows chunks of different sizes. `ClientAppend` is the pending
buffer with its drop, `FeedHand` the hand-over to vLLM up to the status frame
about dropped audio, at which the feeder may suspend, `FeedCount` what follows
it, `FeedRollDone` and `FeedReplay` the next segment, one replayed chunk at a
time. `Start` may come wherever the feeder is, with or without a `Cancel` before
it: it resets the buffers and leaves the feeder what it has in hand. `Cancel`
empties the queue and resets everything. `GenFails` ends a generation and leaves
its queue, as vLLM does. Two histories serve the properties: `handed` (what the
feeder has handed over in this segment) and `fed` (the newest chunks since the
last start, the one in hand at that start included). Sizes are in samples
throughout: the code counts bytes in the adapter and samples in the queue, which
are two bytes.

### 2.4 Transcript

Text is a sequence of letters, a delta any short text; vLLM's `done` carries the
concatenation of the deltas. `Roll` is the adapter's `suppress_next_done`.
`NextRequest` may come at any time (done, error, cancel, barge-in) and may leave a
suppression behind, as `cancel()` does. Requests are used once, and a request's
label does not change while it is served: `envelope.py:80` takes it from three ids
that may, which is `RealtimeSession`'s subject (`TokensScoped`). `Error` is an
error event, after which the generation may be over or go on; the envelope's
transcript starts afresh in the middle of the request, so the properties speak of
requests without one.

### 2.5 EngineTuning and Startup

`EngineTuning` has one operator per function of `vllm.py` and `gpu_profiles.py`
that decides something. `params.json` is a function from keys to numbers,
fractions are percentages, a GPU name is the set of the marks it contains. Where
`vllm.py:80` asks whether a cache type starts with "fp8", `Fp8` names the four
there are.

`Startup` has a host (its environment, GPU, the repository's model) that is
fixed, a directory that survives, and processes that do not. `Check` to `Serve`
are the steps of the lifespan, `Truncate` and `Write` the two steps of
`write_text`. `Fetch` is the download's handling of one file: a file appears when
it is complete, and one that was changed locally may be kept or fetched again.
`Crash` may happen anywhere, `Fail` wherever the code calls something that may
raise. `SetDelay` and `Wipe` are the operator between starts. `MayStart` is an
assumption about the operator, not code: a replica is started beside another one
only when the directory's download is done. The code does nothing to ensure it.

### 2.6 ImportCycles

The recursive `visit` is a stack of frames. The graph is any graph on the modules
and the order of visits any order, which covers `sorted(modules)` and the order
of Python's sets. A module reaches another when every set that holds the one
and, with each module, its imports holds the other too; the properties say with
it what components and cycles are. How imports are resolved to modules is not
modelled.

## 3. Runs that pass

| Run | What it shows | Instance | Distinct states |
|---|---|---|---|
| `session_safety` | With barge-ins, cancels, pings, disconnects, rolls, drops and every failure: types and queue bounds, `IdsAgree`, `NoLostWakeup`, and that the session is an `Utterance` (`UtteranceSpec`) | 2 requests | 4.7 million |
| `session_no_roll` | Without rolls and failures, with barge-ins: every token is labelled with the request whose audio it transcribes (`TokensScoped`), vLLM's queue and the adapter's buffers hold the open utterance's audio only (`QueueIsCurrent`, `BufferedAudioIsCurrent`), nothing follows a sentinel, a `done` names a request whose final commit was sent | 2 requests | 0.6 million |
| `session_single_shot` | One utterance after start, appends and final commit, with rolls, under fairness and with the `wait_for` of Python 3.11: the final commit is answered, the connection does not stay busy, a suppression is outstanding only during a roll, and the handler returns unless that `wait_for` drops the cancellation of the teardown (`TeardownEnds`) | 1 request | 15 thousand |
| `connections` | Slots are owned by admitted handlers exactly and never above the limit, admission implements `SlotPool`, every connection ends within its longest duration and one without an utterance within its idle timeout, plus a tick and a receive timeout | 3 sockets, 2 slots | 0.42 million |
| `audio_path` | The running counts are what is buffered and respect their limits, the queue's count is never too high (so nothing is dropped early), what is replayed is the newest audio counted since the last start, no end of stream is dropped, and what the feeder hands over in one segment is bounded | chunks of 1..2, segment 3, overlap 2, backlog 3 | 0.38 million |
| `transcript` | No delta is withheld, only repetitions are cut, the final text is what the tokens add up to | see the cfg | 3.7 million |
| `startup` | A running engine has the configured delay; the directory is unusable only after an interruption; tuned caches fit; the limit is the engine's; under fairness a server started again comes up | 2 processes, 2 shards, 8 hosts, 2 faults | 49 thousand |
| `import_cycles` | Components are the strongly connected ones, whole; the verdict is right | all graphs of 4 modules | 1.5 million |

### Bounds

- Two requests are enough for one utterance to meet the remains of another,
  which is what every property about two utterances compares; a third meets the
  same code with the same state, as a request is identified only by equality.
- An inbound queue of 2 fills, so that the overload path is taken. A backlog of
  1 or 2, a segment of 2 and an overlap of 1 let two or three appends drop audio,
  roll, and replay an overlap in front of new audio; `session_single_shot`, with
  one more each, replays two chunks. `MaxAppends` bounds what the
  client sends, not what the server does.
- `connections` has one socket more than slots, an idle timeout of 1, a
  duration of 3 and both periods at their smallest, so that every order of the
  timers occurs. Its bounds are tight: with either smaller by one TLC finds a
  violation. The theorems of section 6 are for all values.
- In `audio_path` a chunk can be smaller than, as large as and, with another,
  larger than every target, so that each drop takes one or two items and each
  segment can overshoot. The bound `Longest` is tight: one less and TLC finds a
  violation. `MaxItems` bounds the vLLM queue, which is larger than what the
  backlog lets stand when the count is right.
- The hosts of `startup` take each way through the tuning once: grouped heads,
  a dense model and an unknown one; with and without GPU, window and memory
  figure; memory that holds one sequence, several, or none; each operator
  override; each place `tekken.json` may keep the delay. Two faults make one
  interruption and a second one in its recovery. Of the three delays one is
  refused.
- Four modules have three components of every kind: nested, chained, disjoint,
  and a self-import.
- Two letters and short texts suffice for the overlap search to find proper,
  full, empty and coincidental overlaps; the window is smaller than the texts.

`CHECK_DEADLOCK FALSE` stands in the runs whose client may say all it has to say:
a session whose client is silent, or is closed, really stops. The slowest run
takes about two minutes.

## 4. Fairness

`FairSpec` adds weak fairness of `Teardown`, `Processor`, `Feeder` and
`Generation`. asyncio runs every ready task, so a task whose next stretch stays
enabled runs it; each of these four is one task (two for `Teardown`, which ends the
receiver's). For the generation it says that vLLM makes progress on queued audio
and ends after `done`; a generation that does not is `FeedFails`, the 120 s
timeout. The client has no fairness, and no failure is obliged to happen.

`Startup`'s `FairSpec` has weak fairness of `Start` and `Step` for each process: the
operator starts a server that is not running, with `scripts/main.sh`,
`scripts/restart.sh` or `docker run` again, and a start goes on. Nothing in the
repository restarts a server by itself: `ComesUp` is about an operator who does.
It assumes besides that
the operator stops changing the delay at some time (`Settled`); it
allows a process to end elsewhere only when the directory is bricked or the
delay refused. `MaxFaults` makes the faults finitely many, which is the usual
reading of "comes up once things stop failing".

## 5. Runs that find a disagreement

Each of these checks one sentence of the documentation.

| Run | Sentence | What happens |
|---|---|---|
| `cancel_unanswered` | `ADVANCED.md:269`, cancel is answered by `cancelled` | The feeder sleeps at `_feed_event.wait()`, outside its `try`. Awaiting it in `cancel()` raises `CancelledError`, which is no `Exception`: the processor task ends. This message and all later ones are unanswered. |
| `next_utterance_unfed` | `ADVANCED.md:413`, after `done` start a new utterance | `done` is sent before the generation task ends; `_finalize` resets the utterance after that, possibly after the next one has begun, whose flag and audio it clears. |
| `close_after_cancel` (`HandlerReturns`) | `README.md:23`, no resource leaks | The processor's one cancellation is absorbed by the feeder it awaits; the processor goes on, waits for messages for ever, and the handler waits for it, holding its slot. |
| `queue_backlog` | `ADVANCED.md:390`, the oldest chunks go beyond the maximum | `get()` subtracts twice, so the count falls behind the buffer and the drop starts late. |

Related behaviours of the code, met while modelling, which no run is spent on:

- `done` clears `inflight_request_id` only if it equals `request_id`
  (`envelope.py:157`), which a ping between the final commit and `done`
  overwrites: the connection stays busy and is spared the idle timeout until its
  longest duration. `ADVANCED.md:243` says in flight means until `done`.
- `ADVANCED.md:243` says that the idle timeout "does not close a connection while
  an utterance is in-flight (i.e., between `commit final=false` and `done`)". The
  code contradicts it: the watchdog's busy flag is `inflight_request_id`
  (`manager.py:71`, `lifecycle.py:85`), which only the final commit sets, so
  between the two commits a silent client is closed as idle. `QuietBound` claims
  nothing about a connection with an utterance, open or awaiting its `done`, and
  so neither affirms nor hides this.
- With rolls `BufferedAudioIsCurrent` fails, and with it the comment at
  `dispatch.py:105` ("New utterance (non-final commit) cancels any previous active
  request on this connection"). r1's final commit is handled during a roll; the
  roll's suppressed `done` clears `inflight_request_id`; the feeder goes on with
  r1 and is suspended in a send, with r1's chunk in hand. A start of r2 now finds
  neither id, does not barge in, and resets the buffers under the feeder, which
  then counts r1's chunk into r2's overlap, from which r2's next segment replays
  it. `session_no_roll` and the theorem are for `STT_INTERNAL_ROLL` off; it is on
  by default.
- A chunk vLLM refuses clears `inflight_request_id` and the transcript although
  the generation goes on: the segment's text is sent as tokens again with its
  `done`, and the `final` lacks the segments before.
- A handler that raises ends the processor; the receiver goes on reading and
  queueing until the queue is full.
- What a failed generation leaves in the queue is heard by the next one; a drop
  can move its end of stream behind newer audio and so join two segments
  (`adapter.py:99-102`); a start that vLLM ignores, because a generation is
  running, joins them too. What one generation hears is therefore not bounded;
  `SegmentBound` is about what the feeder hands over.
- `ADVANCED.md:377` says the segment target is capped so that audio never exceeds
  the model's length less a headroom. The target is, the segment is not: it may
  exceed its target by the chunk that fills it, and after the final commit by
  all that is pending (`Longest`, which a segment reaches).
- An interrupted download that got one shard, or an interrupted rewrite of
  `tekken.json`, leaves a directory from which every start fails and which no
  start repairs (`BrickedOnlyIfCut` shows that nothing else does).
- A memory budget of zero or less falls back to the configured number of
  sequences (`vllm.py:260`), which may be many where few would be due. The
  renaming of `fp8_e4m3fn` (`vllm.py:97`) is unreachable.
- An engine whose serving models fail is never closed (`vllm.py:412`); it ends
  with the process.
- In `import_cycles.py` a relative import in an `__init__` resolves one level too
  high, and `from package import submodule` counts as an import of the package
  only; both are in the part that is not modelled.
- A barge-in that finds the feeder asleep ends the processor like a cancel.
- When `cancel()` raises in the teardown, vLLM's `cleanup()` is skipped and the
  generation goes on for a closed connection.
- A feeder whose generation failed calls `cancel()`, which cancels the very task
  it runs in: nothing is reset.
- The suppressed `done` of a roll clears `inflight_request_id` when a final
  commit came in during the roll: later frames can be labelled with a ping's id,
  and the connection no longer counts as busy. This is why `TokensScoped` is
  checked without rolls.
- A cancel during a roll leaves `_suppress_done_count` at 1: the next
  utterance's `final` and `done` are suppressed.
- With Python 3.11, which `docker/Dockerfile` and `README.md:33` ship, a handler
  may not return after a mere disconnect: if the client goes just after `done` and
  the feeder has not yet seen the generation end, `wait_for` drops the teardown's
  cancellation, the feeder goes back to its event, and the teardown waits for it
  for ever, its slot taken. `TeardownEnds` excepts exactly this (`CancelLost`) and
  nothing else; without the exception it fails in `session_single_shot`. From 3.12
  on it needs no exception there; `close_after_cancel` is a handler that does not
  return in either.
- Deduplication happens only when the first delta of a segment already contains
  the whole overlap (later ones are shown before they can be cut), and a
  coincidental one-letter overlap is cut too.

## 6. What is proved

`RealtimeSessionProofs`, from `SessionAssumption` (request ids, the keep-alive id,
None and the sentinel differ; bounds are natural numbers), for every set of
requests and every setting:

- `TypeCorrect`: `Spec => []TypeOK`. `TypeOK` is inductive; besides types it
  bounds the inbound queue, the pending backlog and the overlap.
- `IdsAgreeAlways`: inductive with `TypeOK`. The interesting step is a start:
  when neither id differs from the new one, `BargesIn` is false and the ids agree
  after it; otherwise the start passes through `ProcCancelDone`, which clears
  `inflight`.
- `ImplementsUtterance`: `Spec => UtteranceSpec`. A start is `Begin`, an accepted
  final commit `Finalize`, a cancel `Abandon`, a done or an error `Answer`; every
  other step stutters. The starts that do not pass through a cancel need
  `BargesIn` to be false, the others that `cmd` is what the handler was called with.
- `NoLostWakeupAlways`: inductive with `TypeOK`. A handler that adds work sets the
  event, and the feeder goes to sleep only with nothing to do or after the
  utterance was reset.

`SessionScopeProofs`, for every set of requests, bound and client, when
segments are not rolled (`InternalRoll` off) and vLLM does not fail
(`GenMayFail` off), the settings of `session_no_roll`; both are needed: with
rolls a suppressed `done` clears the id that labels what follows and that makes
the next start barge in, and a failed generation leaves its audio to the next one
(section 5):

- `QueueIsCurrentAlways`, `SentinelIsLastAlways`, `TokensScopedAlways`,
  `DoneIsForFinalAlways`, `BufferedAudioAlways`, from the invariant `ScopeInv`. None
  of the five is
  inductive: that the queue holds current audio says nothing of the audio still
  pending, of a feeder that is being cancelled, or of an id that a later start
  may bring back. `ScopeInv` follows the audio from the buffer through the feeder's hand to the queue
  (`Queued`, `Buffered`), the end of stream from the final commit to its `done`
  (`FinalDue`, `EndAwaited`, `EndLast`: a queued end is last, its answer is due
  and nothing is left to feed until the feeder has seen the generation end), and
  the messages of a request from the client to the processor (`StartsOnce`,
  `FinalSent`).

`ConnectionsProofs`, from `ConnectionsAssumption` (finitely many sockets, periods
at least one unit):

- `SlotsOwnedAlways`, `DurationBounded`, `QuietBounded`, `ConnectionsTypeCorrect`:
  from the invariant `IInv`. The two bounds are not inductive: that a connection is
  not too old says nothing of how long until somebody looks. `ClocksOK` adds how
  far the watchdog's sleep and the receive timeout have run: before the watchdog
  has seen the limit, clock plus remaining sleep stay below limit plus tick; after,
  clock plus remaining receive timeout stay below limit plus both.
- `ImplementsPool`: `Spec => PoolSpec`. `Admit` is an `Acquire`, `AcceptFails` and
  `Finish` are a `Release`, everything else stutters. That the pool has room when
  the code's test passes needs `SlotsOwned`: the code counts its own set, not the
  handlers.

`StartupProofs`, from `StartupAssumption` (at least one shard, distinct files,
well-formed hosts), for any number of processes, hosts, delays and faults:

- `EngineHasDelayAlways`, `BrickedOnlyIfCutAlways`, `LimitMatchesEngineAlways`,
  from one invariant `IInv`. Its first part, `Downloads`, is what the others rest
  on: whoever downloads is alone, and whoever is about to look is alone or finds
  the directory complete, so that nobody can put an unpatched `tekken.json` under
  a process that has already patched it. `DelayPath` follows the delay from the
  document in memory to the file and to the engine, a torn file included;
  `Whole` says what a download has already looked at, and who may leave a file
  torn; `SeqsPath` follows the number of sequences to the engine and the limit.
- `StartupTypeCorrect`, `KvFitsAlways`, from `AInv`, which adds to `IInv` that what
  a process hands to the engine was computed from the host and from the shards
  on disk at the time (`ArgsPath`), and bounds on the rest (`Counted`). The
  arithmetic is `CachesFit`: for any settings, GPU and weights, the caches of the
  number of sequences that the estimate yields fit beside the weights in vLLM's
  share, with every rounding the code makes, the window shortened as it shortens
  it, and `params.json` with any integers or none (zero and negative ones
  included). That the weights are summed before the engine reads them does no
  harm because a process that tunes finds the directory complete, or is the one
  that completes it; missing weights would only show as fewer.

`AudioPathProofs`, from `QueueAssumption` and `PathAssumption` (targets, backlog
and chunk sizes are natural numbers, the segment at least one), for all sizes:

- `AudioTypeCorrect`, `BuffersCountedAlways`, from `PathInv`; the lemmas about
  dropping say that `DropOver` keeps a buffer counted, brings it within its limit
  and takes no chunk more than needed.
- `EndSurvivesAlways`: an action property; dropping stops at an end of stream and
  puts it back.
- `NeverOverCountsAlways`, when vLLM enqueues with `put_nowait` only ("put" not in
  `Puts`, as it does): a `get` takes its chunk from the count twice, never less.
- `OverlapIsNewestAlways`, from `OverlapInv`, which says the same between handing
  a chunk over and counting it, over any start that comes in between. The overlap
  drops by its own count, chunk by chunk, and the property speaks of the newest
  of all audio since the last start: the step is that what was dropped once can
  never fit again.
- `SegmentBoundAlways`, from `SegmentInv`, which is not the bound itself: `HandedInv`
  ties what was handed over to what the code has counted and to the chunks the
  feeder has in hand, and `Limits` bounds, at each position of the feeder, what
  was counted and what it may still add. A start in between takes both back to
  nothing but what is in hand. The bound `Longest` is the tight one of the run.

`TranscriptProofs`, for any alphabet, deltas, window, and numbers of requests and
rolls:

- `TranscriptTypeCorrect`, `NothingWithheldAlways`, `OnlyRepeatsCutAlways`,
  `FinalIsTokensAlways`, from one invariant `IInv`. `InStep` says that the
  envelope's transcript is that of the generation's request, or one that has not
  begun, and that the client has seen it all; `Untold` that later requests have
  no tokens and no final; `Bounded` how many suppressions can be left behind. The
  work is in the merge: a delta can only change the cut of a segment when nothing
  of that segment was shown.

`ImportCyclesProofs`, for every finite set of modules, every graph and every order
of visits: Tarjan's algorithm as the code has it is right.

- `ImportCyclesTypeCorrect`, `ComponentsAreMaximalAlways`,
  `OpenNodesOnStackAlways`, `VerdictRightAlways`, from `IInv`. A visit under way
  reaches all that was opened after it (`Forward`), every open node reaches a visit
  under way below it (`Backward`); a low link is the index of an open node that is
  reached (`LowSound`) and counts every import that leads below a visit from what
  was opened by it alone (`LowCounts`). When a visit returns with its own index as
  low link, what it opened imports nothing below it, so with the nodes that are
  done it is closed under imports: the component is whole; by `Forward` and
  `Backward` it is connected. The three actions are proved to be instances of
  three effects on the sets of open, visited and done nodes (`Opens`, `Looks`,
  `Returns`), and the invariant of the effects.

`DataLemmas` has what they share: a nonempty set of naturals has a least element
and a set of naturals closed under successor is all of them (from the library's
theorem that the order is well-founded, so that no theorem with an operator
parameter is needed), extrema of finite sets, and the sums of `FiniteSetsExt` and
`Functions` over sets and stretches of sequences.

## 7. What is only model-checked

Liveness (`FinalAnswered`, `BusyClears`, `TeardownEnds`, `ComesUp`, and in the
runs of section 5 `CancelAnswered` and `HandlerReturns`): out of the prover's
reach, as is everything about ENABLED. `SuppressOnlyWhileRolling`, for one
request and a client that neither cancels nor pings: it says that rolls and
`done`s keep pace there, not what a cancelled roll leaves behind. Every other
safety property a passing run checks is a theorem; `TokensScoped`,
`QueueIsCurrent`, `SentinelIsLast`, `DoneIsForFinal`, `BufferedAudioIsCurrent` and
`NeverOverCounts` under the hypotheses above, without which the code does not
have them.

## 8. Plan

Done: every component of section 1 that keeps state, and a proof of its safety
properties but one (section 7). Left: what weaker hypotheses allow, namely
`TokensScoped`, `QueueIsCurrent` and `BufferedAudioIsCurrent` with rolls for a
client that waits for `done`, and which of the properties of `SessionScopeProofs`
survive a failed generation.

Not modelled: parsing and error frames (pure functions of one message),
configuration and logging (constants of the models), health routes (constant
answers), shell scripts, Docker image, test clients, and the other linting
checks (scans of one file each, without state). A server that stops while a
handler is inside `accept()`, and a lock of the manager that is contended, are
left out of `Connections`.
