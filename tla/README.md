# SpoutRelay in TLA+

SpoutRelay receives video frames from a Spout sender on the same Windows machine, encodes them
and publishes them to an RTSP server, for hours, unattended. Its difficulty is the control
around the data: three threads that hand resources to each other without locks, a dozen states
with their own way in and out, three wrapped C libraries whose objects are allocated and freed
by hand, and a sender, a GPU, a server and a disk that may each fail at any moment. These
modules model that control; TLC checks it on small instances, liveness included; and TLAPS
proves every safety property of the passing runs for every value of the constants.

Paths below are relative to the repository.

## 1. The system

| Part | Source | State it keeps | Operations | Correct when |
|---|---|---|---|---|
| State machine | `src/app/state_machine.cpp`, `src/common/types.hpp` | the current state | `can_transition`, `transition_to` (refuses an edge that is not in its table) | every transition a handler asks for is in the table, or the handler expects the refusal |
| Supervisor, main thread | `src/app/supervisor.cpp`, `supervisor_logic.hpp` | encoder, RTSP client, pump, sizes, retry and watchdog counters, handoff and placeholder flags, timers | `run()` and ten state handlers | resources match the state, each wait ends, FATAL only when justified, a stop ends the program with everything released |
| Supervisor, encode thread | same, `encode_publish_thread_func` | the freeze frame; three error/change flags | pop, pace, encode, send | it never meets a released resource, never dies unnoticed, restarts with a picture |
| Frame pump | `src/capture/frame_pump.cpp` | queue of at most 4 frames, `running_`, last time the source answered | `start`, `stop`, `try_pop`, `wait_pop`, capture thread | a bounded queue that drops its oldest frame, no call blocks for ever |
| Spout monitor | `src/spout/spout_monitor.cpp` | `connected`, GPU mode, the state inside spoutDX, D3D device | probe, connect, disconnect, receive on two paths, mode switch, device check and re-creation | the path in use is the one whose update event was consumed; no frame outlives the receiver whose texture it borrows |
| Encoder controller | `src/encoder/encoder_controller.cpp` | nine libav and D3D objects, the GPU frame pool and its format, the last picture, the IDR flag | `init` with a GPU path, a CPU path and a fallback codec; `encode`, `request_next_idr`, `flush`, `reset` | no failure leaks; frames fit the size, path and device it was initialised with; a viewer can decode from every switch |
| RTSP client | `src/rtsp/rtsp_publisher_client.cpp` | libav context and packet, `connected_` | connect, send, disconnect | no failure leaks; a failed write marks it disconnected; it never outlives its encoder |
| Placeholder renderer | `src/placeholder/placeholder_renderer.cpp` | none | renders one still frame, refuses 0 and > 8192 | - |
| Metrics writer, MetricsStore, atomic_file | `src/app/supervisor.cpp:1007`, `src/metrics/`, `src/common/atomic_file.cpp` | the data, the cached payloads, two files and their `.tmp` | periodic saves that skip unchanged payloads, final flush | readers see whole files which catch up with the data |
| Config loader, log sink, time utilities, `main.cpp` | `src/config`, `src/logging`, `src/common`, `src/main.cpp` | configuration; log; `g_supervisor` | start-up, Ctrl+C | - |

How they interact. The **main thread** runs one handler per turn and owns almost everything. It
starts the **encode thread** (`start_encode_thread`) and, before it touches what that thread
uses, stores `encode_stop_` and joins it. Back from the encode thread come only atomics: an
encode error, an RTSP error, a resolution change with its pending size; `initial_frame_buf_`
passes to the thread at its start and back at its end, under the join. The **capture thread** of
the pump fills a queue under a mutex and publishes the time the source last answered. The
**metrics thread** reads what the others put into MetricsStore and writes two files. The
**console handler** sets `shutdown_requested_` at any time.

What is hard: checks of shared flags that are not atomic with each other; a resource kept
across states for a seamless handoff; counters reset on some paths; threads that return on
their own; a stop in the middle of anything; a file write that fails half-way. The list of
hazards, each at its line, is in `PROJECT.json`.

## 2. The modules

| Module | What it is |
|---|---|
| `StateMachine` | the states and the transition table; `TransitionTo(from, to)` is `from` when the table refuses |
| `Supervisor` | the main thread, the encode thread, the capture side as the Supervisor sees it, the clocks and the environment; the properties and the inductive invariant |
| `EncoderController`, `RtspClient`, `SpoutMonitor` | each class as a record and the operations on it |
| `MediaPath` | the three records, composed as the handlers and the worker threads use them: what is allocated, which path a frame takes, whose texture it borrows, what the viewer sees |
| `FramePump` | the pump in full detail: one action per access to `running_` or per critical section |
| `Publisher` | abstract: who publishes, in which state, through which parts of the output; `Supervisor` and `MediaPath` both implement it |
| `LossyQueue` | the abstract bounded queue a pump promises; `FramePump` implements it |
| `StateFiles` | the metrics writer thread, MetricsStore's saves and `atomic_file::write`, with crash and restart |
| `SnapshotFiles` | abstract: what a reader of the two files may rely on; `StateFiles` implements it |
| `SupervisorProofs`, `SupervisorSessionProofs`, `SupervisorPublisherProofs`, `MediaPathProofs`, `MediaPathPublisherProofs`, `FramePumpProofs`, `StateFilesProofs` | the proofs (that of `Publisher` itself is in its module) |
| `MCSupervisor`, `MCMediaPath`, `MCFramePump`, `MCStateFiles` | the instances for TLC |

A definition whose name begins with `Slip` is a plausible programming error in the definition
after it. No specification uses it; `PROJECT.json` pairs each with the property that detects it.

### Supervisor

*Variables.* Each is a member of the class, named for it (the comment beside each says which),
plus a program counter per thread: `pc` for the main thread, `enc` for the encode thread. A
frame is its resolution, an encoder the resolution it was initialised with, an RTSP client one
of none/connected/broken.

*Actions.* A handler that neither starts nor joins a thread, nor reads what another thread
writes, in its middle is one action. Otherwise it is cut where another thread can be seen:
before each check of an atomic in `handle_streaming` and `handle_stalled` (`pc` = `device`,
`encode_flag`, `rtsp_flag`, ...), between storing `encode_stop_` and the return of `join()`
(`pc` = `..._join`), around the sleep of `handle_reconnecting_output`, in each turn of the wait
for the first frame, and before the probe and the encoding of the placeholder. All stores of a
handler between two cuts belong to one action, the teardown included.

*Environment.* The sender appears and disappears, the device is lost, the user presses Ctrl+C:
at any moment. Every operation that can fail in the code may fail whenever it is called.
`SpoutMonitor::connect()` always returns true (`spout_monitor.cpp:64-71`), so the branches
behind its failure are dead code and are not modelled.

*Time.* A stopwatch is a counter that saturates just above the thresholds it is compared with,
or a flag when there is one threshold. Clocks advance in actions of their own; nothing relates
the speed of two clocks, so every order of expiry is covered.

*Back-off.* `next_delay()` computes in integers, with the multiplier as a fraction; the wait
itself is one of the timers. `ConfigAccepted` is what `ConfigLoader` insists on. The rounding
of `float` for delays above 2^24 ms is left out.

*Left out.* The GPU receive path, where a frame points to a texture of the receiver (module
MediaPath has it), the counters in MetricsStore, logging, packets and timestamps.

### MediaPath, EncoderController, RtspClient, SpoutMonitor

*Division of work.* `Supervisor` has the handlers in full, with an encoder that is a size and a
client that is a word. `MediaPath` has the same handlers with the insides of these components
and without the timers: a handler is one action, its stop and join included, and what decides
between its outcomes in `Supervisor` (a timer, a counter, a stop request) is left open. Every
sequence of handlers of the program is therefore one of `MediaPath`, and a safety property that
holds there holds of the program.

*Encoder.* `init()` walks a list of allocations (`GpuPath`, `CpuPath`), and each error branch
releases by hand what has been allocated so far. `Gains` and `Frees` are the two sides of those
branches, one entry per step; `InitOutcomes` is every way through the primary codec, the fall
from the GPU to the CPU path, and the fallback codec. What a branch forgets ends up in `stray`.
`encode()` may fail before the picture is made, in between, or after the flag for the IDR has
been consumed. An encoder without delay is assumed, which is how the program configures it
(`max_b_frames` 0, `delay` 0, zero latency): a frame that is sent yields its packet at once.

*Client.* `connect()` likewise; the packet is allocated after `connected_` has been set. `last`
is what a viewer can know of the session: the picture it was sent last.

*Receiver.* spoutDX keeps an update event per receiver, and the path that consumed it
(`session`) goes on receiving. The pointer in a frame of the GPU path is valid only until the next
`ReceiveTexture()` (`spout_monitor.cpp:157-158`): each call, successful or not, may replace the
texture, and the frames that still borrow the old one, in the queue, in the freeze buffer and in
the saved buffer, become `"stale"` (`MayReplaceTexture`, `Aged`). `disconnect()` and
`reinit_device()` make them `"freed"`. The code protects its frames from the second and not from
the first: section 6.

### Publisher

What the RTSP server can see. The output is an encoder and a session; the source and the
placeholder publish through it, and the state machine says whose turn it is. `Supervisor` maps
its encode thread (`enc`), its placeholder, and its two notes of encoder and session to it,
`MediaPath` the codec context of the encoder and the `connected` of the client, so the two
descriptions of the same handlers are held to the same account: a tear-down in the wrong order, a
transition the table refuses, a thread not joined, shows as a step that `Publisher` has not. It
has room for what the code does and a reader might not expect: after a failed reconfiguration
the state stays (`StartFails`), and the encode thread of a stopping program may publish until it
is joined (`Stop`). What it leaves out is why: timers, counters, resolutions, receive paths.


### FramePump

`wait_pop()` is cut between the predicate (with the mutex) and the blocking on the condition
variable, since `stop()` stores `running_` and notifies without the mutex: the notification can
fall between the two and be lost. A wakeup may be spurious. The owner may start and stop at any
time, also while a consumer waits, which the Supervisor does not do but the class allows.

### StateFiles

`now` counts the changes of the saved data; a snapshot is a count, and `Value(snapshot)` what it
says (`Period` makes values return). The save is cut at the build of the payload, the comparison,
the second build, the opening, the writing and each attempt to replace the file, and at the
return, since the data may change and the process may end in between. A crash is the end of the
process: what was written stays, the caches are gone. The loss of power is not modelled (there is
no fsync in the code to reason about), and a rename is taken as atomic. `SnapshotFiles` has none
of this: a file shows some change of the data, up to the latest, and only ever a later one next.

## 3. What is checked

| Run | Instance | Shows |
|---|---|---|
| `SupervisorLive` | one resolution, no placeholder, 1 reconnect attempt, watchdog at 2, a delay that reaches its maximum | counters and back-off fresh in every outage, FATAL justified, no silent death of the encode thread, clean exit, and under fairness: a stop ends the program, the wait for a first frame ends, a stall ends |
| `SupervisorPlaceholder` | placeholder on, renderable | a sender that stays is picked up from PLACEHOLDER, if the placeholder can start now and then and its frames are sent in the end |
| `SupervisorResolutions` | two resolutions, one not renderable, placeholder on | the handover between the threads, which resource exists in which state, the seamless handoff, the freeze frame; implements `Publisher` |
| `MediaPath` | hardware codec, software fallback, placeholder on | implements `Publisher`; no leak in any error branch, frames of the present receiver and on the path of their encoder, no stale picture after a handoff, an IDR at every switch |
| `FramePump` | queue of 2, 5 frames | implements `LossyQueue`; newest frames in order; nothing left after `stop()`; `stop()` and `wait_pop()` return |
| `StateFiles` | 2 replace attempts, 2 faults, 1 crash, 1 change per process | implements `SnapshotFiles`; the cache never ahead of the disk, the final flush, the files catch up |
| `SupervisorReceiver`, `SupervisorFrameFit`, `SupervisorDeviceRace`, `SupervisorUnrenderable`, `MediaPathPool`, `StateFilesSkip` | smallest that show it | a statement of the documentation that the code does not keep (section 6) |

*Bounds.* Two resolutions are enough for "same" and "different", and one of them may be
unrenderable. The queue of the Supervisor runs holds one frame (the pump has its own run), so
that a frame of the old size can be followed by one of the new. One reconnect attempt
distinguishes "first", "last" and "too many"; a watchdog of two distinguishes "not yet" from
"now". The counter of stall recoveries is capped by `StallCountBound`, which the assumption puts
at or above the limit. The delays are such that the
back-off grows, is capped, and with the multiplier 3/2 is truncated. `MediaPath` has no bound:
its states are finite. A hardware codec followed by a software one has every failure of `init()`
that any pair has, on either path; the other pairs of codecs, and the placeholder off, were
checked as well and give no further behaviour, and the proof covers them all. In `FramePump`, 5
frames overflow a queue of 2 more than once.
In `StateFiles`, two faults exhaust two attempts, and a crash may follow.

*VIEW.* `SupervisorResolutions` uses `LiveView`: the value of a stopwatch or of the pending size
is ignored where the program overwrites it before the next read. No property of that run
mentions these values, and no action reads them there, so identified states have the same
futures.

*Deadlock* is checked in every run but `StateFiles`, where the writer has ended after the
final flush. In the Supervisor runs the environment can always move; that the program itself
goes on is what the liveness properties say.

*Fairness.* `FairSpec` of `Supervisor` has weak fairness for the main thread, the encode thread,
the metrics thread and each clock: three scheduled threads whose waits are all bounded. Nothing
is assumed of the sender, the device, the server or the encoder's results. It does assume that
`av_interleaved_write_frame` returns, which `rtsp_publisher_client.cpp:112-116` intends with
`rw_timeout`. `PlaceholderSpec` adds `OutputServes`: encoder and server let a placeholder start now
and then, and from some time on no frame of it fails. The probe itself is not assumed: the timer is
a variable (`probe_due`) which falls due after a while, and which each start of the placeholder
sets back, as `supervisor.cpp:236` does. The second half of `OutputServes` is needed for that
reason: with the first half alone TLC finds the sessions that each fail before the timer is due
(section 6). `FramePump`: the threads run, a
thread that waits for the mutex gets it, and the deadline of `wait_for`, which is absolute, is
reached in spite of spurious wakeups. `StateFiles`: the thread runs and each timer expires again
and again; the operating system's refusals are bounded in number, not by fairness.

## 4. What is proved

Every safety property that a passing run checks is a theorem, for every value of the constants
that the assumptions in the modules allow.

| Module | Theorems | Inductive invariant |
|---|---|---|
| `SupervisorProofs` | `TypeCorrect`, `ResourcesHeld`, `RetriesFresh`, `WatchdogWorks`, `HandoverRespected`, `StartedAfterJoin`, `FatalJustified` | `IInv` (`Inductive`) |
| `SupervisorSessionProofs` | `StreamNeverDiesSilently`, `ExitsClean`, `ResourcesFollowState`, `HandoffSound`, `EncoderSizeKnown`, `PlaceholderFits`, `NeverBlackAtRestart`; `DeafAfterReconfiguration`, `DelaysOnlyGrow` | `SInv` (`SessionInductive`); `Listening` |
| `SupervisorPublisherProofs` | `SupervisorIsPublisher` (a refinement), `PublishedInTurns` | `SInv` and `PublishInv` |
| `MediaPathProofs` | `MediaTypeCorrect`, `NothingEverLeaks`, `SessionAlwaysFits`, `PictureStaysCurrent`, `FramesOutliveNoReceiver`, `CpuEncoderFed`, `ModesMatch`, `DeviceStaysLive`, `SwitchesStartWithKey`, `StreamsStartInTheirMode`; `PoolFitsWithoutPlaceholder` | `MediaInv` (`MediaInductive`); `NoHandoff` |
| `MediaPathPublisherProofs` | `MediaPathIsPublisher` (a refinement), `MediaPublishedInTurns` | `MediaInv` and `PublishInv` |
| `Publisher` | `PublisherSafe` | `PublisherInv` |
| `FramePumpProofs` | `PumpIsLossyQueue` (the refinement), `NewestKept`, `StopLeavesNothing`, `PumpTypeCorrect` | `PumpInv` (`PumpInductive`) |
| `StateFilesProofs` | `FilesAlwaysWhole`, `CacheTrustworthy`, `FlushTells`, `FilesTypeCorrect`; `StateFilesAreSnapshots` (a refinement), `SkipsAreSound` | `FilesInv` (`FilesInductive`), `FlushInv`, `OrderInv` |

*Supervisor.* That the encode thread has its resources needs to know in which states it can be
alive (`ThreadInv`: STREAMING, STALLED, or the way out of `run()`), that a program counter inside
a handler implies the state (`ControlInv`), and that RECONNECTING_OUTPUT and RECONFIGURING still
hold what their restart needs (`ResourceInv`: pump and encoder in the one, the pending size in
the other). FATAL needs the attempts and the back-off to move together (`RetryInv`) and the
device to be still lost when its recovery begins (`DeviceInv`). These make up `IInv`. `SInv` adds
what relates the states to each other over longer stretches: a watched thread is stopped only by
a check that goes on to join it, and a thread that returned left a flag (`StreamInv`); the frame
to show next is with the thread or has been put back (`FreezeInv`); the three notes of the
resolution agree while a source is streamed (`SizeInv`); the placeholder has its own size and a
session (`PlaceholderInv`); a pending handoff survives the connecting states with its session
(`HandoffInv`); and what the other states have released (`ReleaseInv`), without which a new
session could not be told from a kept one.

*MediaPath.* The first part of the proof is about the components alone. `CpuLeavesNothing`,
`GpuLeavesNothing` and `TryLeavesContext` go through the error branches; from them every way
through `init()` is clean (`InitClean`), and each operation takes a record in good order to one in
good order. The second part needs to know where the threads and the pump can run and what they
find there (`WorkersInv`), that receiver and encoder change their mode together (`ModeInv`),
that frames in the queue, the freeze buffer and the saved buffer are usable (`FramesInv`; the
saved one only where a restart does not drop its texture), and that whoever is about to publish
something new finds an IDR requested (`KeyInv`). Most handlers leave the program in one of
three ways, torn down, handed on or started, and each way has its lemma.

*FramePump.* The queue is emptied by a `stop()` that has joined the thread, so `PumpInv` says what
each step of the owner has already done (`OwnerInv`) and that frames are numbered in the order
they come (`OrderInv`). The refinement maps the queue to itself: a push, an overflow, a pop and
the two ways to empty it are steps of `LossyQueue`, every other step is a stutter.

*StateFiles.* `SaveInv` says what a save carries from one step to the next: the content is never
older than the payload it is remembered by. `FlushInv` follows the final flush file by file: what
is remembered of each was said by the data at some time since shutdown was requested
(`SaidSinceStop`). `FlushTells` holds for every `Period`, also for a state that returns to an
earlier value and lets the flush skip its write. It speaks of the remembered payload, not of the
content, since the two are built apart: that they can differ is what `StateFilesSkip` shows. The
refinement of `SnapshotFiles`
needs the order of what is written: a file is no newer than the payload about to replace it, which
is no newer than the content, which is no newer than the data (`OrderInv`). The rename is the
only step that a reader sees (`OnlyRenameShows`).

*Publisher.* Its safety, `OutputFollowsState`, is proved once, of the abstract module; the two
refinements carry it over to `Supervisor` (`PublishedInTurns`) and to `MediaPath`
(`MediaPublishedInTurns`). A refinement has to tell, at every step, which move of the abstract
module it is, and that needs more than the properties did: that whoever publishes has a session
(`PublishInv`, in either module), that a session is gone while it is repaired, and that what
PROBING and CONNECTING_OUTPUT find of an output is all of it or none (`ReleaseInv`, `HandoffInv`
of `SInv`). In `MediaPath` the lemmas about the components say what an operation leaves of the
output: all after `init_encoder_and_rtsp()` (`OutputBuilt`), nothing after a tear-down
(`OutputAbsent`), the same encoder after `encode()` (`EncoderKept`), and a session that may have
broken after `send_packet()` (`SessionKept`).

*How far the disagreements go.* Three theorems delimit statements that section 6 refutes. A stream loses its receiver in no step but the failing reconfiguration
(`DeafAfterReconfiguration`; the invariant it needs is that CONNECTING_OUTPUT always has one,
`Listening`). The skipped write is sound for data that never return (`SkipsAreSound`). The pool
has the sender's format as long as nothing is handed over, that is, with the placeholder off
(`PoolFitsWithoutPlaceholder`).

*Back-off.* `TypeCorrect` bounds the delays by the configured maximum, `RetriesFresh` says where
each outage begins, and `DelaysOnlyGrow` orders the delays in between: one is shorter than
the one before only once the session is up again. They rest on what `ConfigAccepted` demands of
the multiplier and the maximum.

Each invariant was checked by TLC on the instances of the runs before it was proved; so were the
properties of theorems that no run keeps (`OnlyReconfigurationDeafens`, `DelaysGrow`,
`SessionFitsEncoder`, which `OutputFollowsState` contains, and `ReadersSeeWholeFiles`, which
`SnapshotFiles` contains). Only
model-checked, because the prover handles neither fairness nor ENABLED: all liveness
(`ShutdownCompletes`, `FirstFrameWaitEnds`, `StallEnds`, `PlaceholderReturns`, `StopReturns`,
`WaitPopReturns`, `FilesCatchUp`).

## 5. What is not modelled, and why

- **Configuration loader**: a sequential parse without state of its own. What it accepts is an
  assumption of `Supervisor`. (It accepts placeholder sizes above 8192, which the renderer
  refuses; `Unrenderable` covers that.)
- **Log sink, drawing of the placeholder, time and error-code utilities**: pure output or pure
  conversion. Whether the renderer accepts a size is modelled.
- **MetricsStore's fields**: one value, read at once. `build_metrics_json()` reads the fields under
  the mutex and then six atomics one after the other, so what it builds of metrics.json may mix
  counters of neighbouring moments; for health.json, a single field, the model is exact.
- **What libavformat's RTSP muxer opens in `avformat_write_header()`**: `RtspClient` has the objects
  the class holds, the context and the packet. `NothingLeaks` says nothing of the muxer's own
  connection, which `av_write_trailer()` closes and `disconnect()` skips after a failed write
  (`rtsp_publisher_client.cpp:156-158`).
- **`main.cpp`**: a straight line. A Ctrl+C between `SetConsoleCtrlHandler` and the assignment of
  `g_supervisor` is lost (`g_stop_requested` is written and never read), and one between the end of
  `run()` and the clearing of `g_supervisor` finds an object that is about to go. Any request
  during `run()` is `RequestStop` of `Supervisor`.
- **Numbers inside the libraries**: `connect_timeout_ms * 1000` overflows `int` above 35 minutes
  (`rtsp_publisher_client.cpp:82`); `rw_timeout` takes effect only if libavformat has made an
  AVIOContext (`:113`), and the fairness of the encode thread assumes that it does.
- **Loss of power**: there is no fsync in the code to reason about.
- **Tests, test senders, scripts, build files**: not part of the running program.

Left for later: the setters of MetricsStore as separate fields. `Supervisor` and `MediaPath` are
related through `Publisher` only; that the second has every sequence of handlers of the first is
by construction, not by a proof.

## 6. Disagreements between the code and what the repository says of it

Each is shown by a run that TLC refutes; `PROJECT.json` quotes the sentence.

- **Streaming without a receiver** (`SupervisorReceiver`). A failed reconfiguration disconnects
  the receiver and asks for PROBING, an edge the table does not have. The state stays
  RECONFIGURING and the next turn goes back to STREAMING, still disconnected.
- **A lost resolution change** (`SupervisorFrameFit`). Raised while the stream is STALLED, the
  flag is not read there and is cleared by the restart; the encoder gets a frame of another size.
- **A lost device is not recovered** (`SupervisorDeviceRace`). It is lost after the device check
  and before the check of the encode error.
- **PLACEHOLDER for ever** (`SupervisorUnrenderable`). After a source larger than the renderer
  accepts, the handler returns before it probes for a sender.
- **A skipped write that was needed** (`StateFilesSkip`). The payload and the content are built
  separately, and the state changes between the two and back.

- **A pool of the wrong format** (`MediaPathPool`). The GPU pool made for the placeholder, when no
  sender is known, is BGRA, and an RGBA source of the same size takes it over.

More observations, not stated as properties.

*Files and waits.* An outage of the disk that ends because the
data return to the cached payload leaves `last_error` set, so the same error in a later outage is
not logged (`supervisor.cpp:1018-1028`); and after a prolonged stall without the placeholder the
server is reconnected without the probe the comment at `supervisor.cpp:603` speaks of.
`configuration.md:128-130` lets CONNECTING_OUTPUT end in FATAL; no code does that. A device that
is lost outside STREAMING and STALLED is not recovered.

*Recoveries that are not noticed.*

- Each start of the placeholder sets its probe timer back (`supervisor.cpp:236`). With the default
  poll of 50 ms and a first frame after 33 ms, a server that accepts every session and breaks each
  at its first frame keeps the handler from ever looking for the sender: `PlaceholderReturns` fails
  without the second half of `OutputServes`.
- `docs/configuration.md:86` counts recoveries "without any frame recovery". A source that answers
  again during RECONNECTING_OUTPUT is found fresh by STREAMING, which does not reset the count
  (only `supervisor.cpp:538`, `:451` and `:615` do), so the watchdog may fire after recoveries that
  did not follow each other. `WatchdogInTime` says that it fires in time, not that it fires only then.

*The GPU path.*

- A frame on its way to the encoder may be stale: nothing holds its texture until it has been
  encoded, and the capture thread receives again meanwhile, although the pointer is valid only until
  the next reception (`spout_monitor.cpp:157-158`). As long as spoutDX keeps one texture this shows
  as newer content in an older frame; when a sender of another size makes it allocate a new one, the
  encoder, or a restart with the saved frame, uses a texture that is gone.
  `FramesOfPresentReceiver` is about receivers that were given up, and only that.
- The branch called "normally unreachable" (`encoder_controller.cpp:416-421`) is reached by the
  first frame of a GPU start, which was received on the CPU path, and by every placeholder frame
  on a GPU encoder; RGBA pixels copied into a BGRA pool exchange red and blue.
- `handle_reconfiguring()` keeps the frame of the new size for the restart (`supervisor.cpp:880-882`),
  but the teardown clears its texture (`:993`): on the GPU path the restart begins black.
  `RestartNeverBlack` is about frames that own their pixels.
- RECONFIGURING may change from the GPU to the CPU path without the disconnect and connect that
  `supervisor.cpp:419-423` calls necessary.
- After an encode error PROBING is entered without a disconnect, so the first wait may be in the
  other mode than the session before; only the time-out's disconnect heals that.
- When `avcodec_open2` fails with the GPU pool, the fallback codec is next, not the CPU path of the
  same codec.
- A sender that changes the format of its texture, and not its size, while streaming is not noticed.
