# Formal model of the mediasoup C++ SDK

This directory holds TLA+ models of the SDK under `src/`, the TLC
configurations that check them, and TLAPS proofs about them.

## The system

The SDK wraps libmediasoupclient and WebRTC behind a room client. It has these parts:

- **MediaController** (`src/core/service/media_controller.cpp`) is the per-room
  resource registry. It holds:
  - the mic producer;
  - one video producer and one injected `DummyVideoSource` per track name
    (`_producerMap`, `_sourceMap`);
  - the remote consumers and data consumers (`_consumerMap`, `_dataConsumerMap`);
  - the consumer-id -> peer-id index (`_consumerIdToPeerId`).
- **Threads.** Four execution contexts touch the registry:
  1. The signaling thread receives SFU requests and notifications. It re-posts
     each one as a task on the mediasoup thread (`onNewConsumer`,
     `onConsumerPaused`...).
  2. The mediasoup thread runs those tasks (`createNewConsumer`,
     `updateConsumer`, the close lambda) and the application's calls (mostly
     posted there by RoomClient). It posts observer events.
  3. The observer's callback thread runs those events
     (`onCreateRemote*Track`, `onRemote*StateChanged`, `onRemoveRemote*Track`).
     Every posted lambda locks a `weak_ptr` to the controller first.
  4. Frame-reader threads (`src/test/reader.cpp`, `test_pusher.cpp`) call
     `RtcClient::inputFrame -> MediaController::inputFrame` directly, without
     posting to the mediasoup thread.
- **RoomClient** (`room_client.h`) drives join and leave. It sets the device and
  transports, calls `destroy()` on leave, then drops the controller.
  `room_client.cpp` is not in the repository.
- **UniversalObservable** (`utils/universal_observable.hpp`) is not in the
  repository either. The model uses what its use shows: a FIFO post to the
  observer's callback thread.
- **Process lifecycle.** `Core`, `ComponentFactory`, `ThreadProvider` and
  `RTCContext` create and destroy the process-wide singletons and threads.
- **Video path.** A frame given to `MediaController::inputFrame` goes to the
  track's `DummyVideoSource::InputFrame`, which wraps a copy of the bytes in a
  native `EncodedVideoFrameBuffer`; WebRTC then calls
  `DummyH264Encoder::Encode`, which marks the frame key or delta by looking
  for an IDR unit among its NAL units and hands it on unchanged.
- **Outside any model.** Logging, JSON and signaling models and the websocket
  endpoint are formatting and I/O.

## Modules

| module | models |
|---|---|
| `MediaController.tla` | the registry, the SFU message stream, both posted-task queues, the reader threads, destroy and release |
| `MC_MediaController.tla` | model values and small constant functions for TLC |
| `MediaController_proofs.tla` | TLAPS proofs of the type invariant and `ConsumerIndexed` |
| `RegistryAbstract.tla` | the registry's contract: consumers held live or paused and indexed under their peer, changed only by register, pause/resume, unregister and clear |
| `MediaController_refinement.tla` | TLAPS proof that `MediaController` implements `RegistryAbstract` |
| `MediaController_appview.tla` | TLAPS proof of `AppViewConsistent` through the queue-aware strengthening `ViewOK` |
| `H264Reader.tla` | `Reader::Start/Stop`, `H264Reader::RunLoop` and `ReadOneNalu` of `src/test/reader.cpp`, composed with `DummyVideoSource::InputFrame` and `DummyH264Encoder` (callback registration and `Encode`), plus a reference splitting of the file into NAL units |
| `MC_H264Reader.tla` | small Annex-B files as byte sequences |
| `H264Reader_proofs.tla` | TLAPS proofs of the reader's type invariant (including the `m_buf` bound) and of `FrameFromFile` |
| `SdkLifecycle.tla` | `Core`, `ComponentFactory`, `ThreadProvider`, the `RtcClient` facade and the two `main()` programs of `test_pusher.cpp` and `test_puller.cpp` |
| `MC_SdkLifecycle.tla` | the Linux thread names and two remote tracks |
| `SdkLifecycle_proofs.tla` | TLAPS proofs of `CallbackThreadLive`, `ReaderSafe` and the type invariant |

### How MediaController corresponds to the code

**Data abstraction.** An `unordered_map` slot is one of three values:

- `"nokey"`: no entry;
- `"null"`: an entry holding `nullptr`;
- `"live"`: an object.

Ids, peers and tracks are model values.

**State.** `consumerMap[c]` is `"none"`, `"live"` or `"paused"`, and
`consumerIdToPeerId[i]` is a peer or `NoPeer`. `taskq` is the mediasoup
thread's task queue, and `mainq` the callback thread's queue. `appTracks` and
`appMuted` are what the observer has been told. `alive` is FALSE once
RoomClient has dropped its `shared_ptr`. `fault` records a nullptr
dereference, and nothing runs after one (`Running`).

**Actions.** Each action models a whole method, from its guards and early
returns to its last assignment:

- Application calls: `EnableAudio`, `MuteAudio`, `EnableVideo`, `MuteAudioOf`
  and `MuteVideo` (both through `MuteConsumers`), `IsMutedQuery`, `Destroy`.
  - `enableVideo` takes `_producerMap[t]` and `_sourceMap[t]` by reference
    through `operator[]`, so even its early returns create empty slots
    (`Touch`).
  - `muteAudio(pid)` and `muteVideo(pid)` walk the index in hash order and
    `return` at an entry without a consumer. The model lets the loop update
    any subset of the peer's consumers when such an entry exists.
- Reader thread: `inputFrame` is two steps, the null check
  (`InputFrameCheck`) and the call (`InputFrameCall`). Nothing orders them
  with the mediasoup thread.
- SFU: `SfuNewConsumer`, `SfuNewDataConsumer`, `SfuConsumerPaused`,
  `SfuConsumerClosed` and `SfuDataConsumerClosed` append the task that the
  corresponding `on...` handler posts. `server` keeps each id's life on the
  SFU side (announced, then closed), so the SFU never pauses an id it has not
  announced. `sent < MaxMsgs` bounds the stream.
- `RunTask` pops one task. It does nothing when the controller is gone or the
  task is the empty `onDataConsumerClosed` task. Otherwise it runs
  `createNewConsumer`, `createNewDataConsumer`, `updateConsumer` or
  `closeConsumer`.
- `DeliverEvent` pops one observer event and applies it to the observer's
  view, unless the controller is gone.
- `Release` is RoomClient dropping its reference after `destroy()`.

### How H264Reader corresponds to the code

The file is a sequence of byte values, and `NalType(b) == b % 32` is
`m_buf[0] & 0x1F`. `buf` is `m_buf[0 .. index-1]`. One `ReadStep` is one
iteration of `ReadOneNalu`'s `while (!bStop)` loop:

- at EOF it rewinds;
- when the buffer is full it breaks, and the byte it just read is lost;
- otherwise it stores the byte and tests for a 4-byte start code, then for a
  3-byte one, both only when `index > 3`.

`Boundary` is the `switch`:

- an SPS or PPS unit is kept in `sps` or `pps`;
- a slice becomes the frame given to the callback (`Emit`), which also ends
  the call (`thread` goes back to `"loop"`).

`Start`, `StopBegin`/`StopJoined` and `RunLoop` are `Reader::Start`, the two
halves of `Reader::Stop` (clear `m_bStart`, then `join`), and one test of
`while (m_bStart)`. The frame-rate sleeps only delay the thread and are left
out.

The reference operators (`Starts`, `Payload`, `VclStarts`, `NextVcl`) cut
the cyclic file into NAL units directly from its bytes. `FramesFollowFile`
compares what the callback receives against them. `FrameFromFile` says
less, for every file: the unit in each frame is, byte for byte, what the
file holds just before the start code that ended it (going round the file,
through `FilePos` and `ReadUpTo`).

**The encoder.** `Emit` is the pusher's data callback, and the frame follows
the synchronous chain `RtcClient::inputFrame -> MediaController::inputFrame ->
DummyVideoSource::InputFrame` and then `Encode`. `encoded` is what `Encode`
returned for the last frame:

- `"UNINITIALIZED"` before `RegisterEncodeCompleteCallback` (the frame is
  lost);
- `"ERR_PARAMETER"` for a buffer that is not native, which the source never
  builds;
- otherwise `"key"` if one of the NAL units that `FindNaluIndices` finds
  (`NaluPayloads`) has type 5, else `"delta"`.

`callback` is `m_encoded_image_callback`. `Release()` leaves it set, so no
action clears it. WebRTC's frame pipeline between `OnFrame` and `Encode` is not
in the repository. The model assumes it passes every frame, in order.

### The abstract registry and the refinement

`RegistryAbstract` states what the registry promises, with no threads or
queues. A consumer id is absent, `"live"` or `"paused"`, and `peerIndex` maps
ids to peers. There are four operations:

- `Register(c)` holds `c` live and indexes it under `PeerOf[c]`;
- `SetStates(S, st)` pauses or resumes held consumers;
- `Unregister(c)` drops a held consumer and its index entry together;
- `Clear` drops every consumer and keeps the index.

`MediaController!Registry` instantiates it with the refinement mapping:

- `consumers <- consumerMap`;
- `peerIndex <- _consumerIdToPeerId` restricted to consumer ids.

Each concrete operation maps to an abstract step or a stutter:

- `createNewConsumer` is `Register`;
- `updateConsumer` and `muteAudio(pid)`/`muteVideo(pid)` are `SetStates`;
- the close task is `Unregister`;
- `destroy()` is `Clear`;
- every other step, including a data-consumer write to the index, is a
  stutter.

`RegistryRefined == Registry!Spec` is checked in the registry run.

### How SdkLifecycle corresponds to the code

`main()` is a program counter over a sequence of statements:

- `PusherProgram` is `Core::init`, `RtcClient::init`, reader start, the
  SIGINT wait, `Stop`, `destroy`, `Core::destroy`;
- `PullerProgram` is the same, with `setYuvCallback` in place of the reader
  and no `Stop`.

One action per statement models the whole call:

- `CoreInit` includes `ComponentFactory::init`, `ThreadProvider::init` and
  `ThreadProvider::create`;
- `CoreDestroy` includes `ComponentFactory::destroy` and
  `ThreadProvider::destroy`.

`running` holds the `rtc::Thread`s that were started. Nothing removes
threads from it, because `stopAll()` is unreachable.

The room client is not in the repository. `RoomConnected`, `RemoteTrack`
and `RemoteTrackRemoved` are the callbacks it posts to the observer after
`join()`. A removal is posted only for a track the puller has rendered. `RtcClient`'s
callbacks run on the `"main"` provider thread:

- `DeliverConnected` is the `if (_room_client)` check of
  `onRoomStateChanged`;
- `EnableVideoCall` is the call that follows the check;
- `DeliverTrack` is `onCreateRemoteVideoTrack`, which copies `_cb` into a
  new `VideoReceiver`.
- `DeliverRemove` is `onRemoveRemoteVideoTrack`. Its debug log line
  evaluates `track->id()` before anything else, and trace-level logging is
  compiled in (`spd_logger.h:15`). The track is chosen from
  `RemovedTrackPtrs`: `MediaController::closeConsumer` posts `nullptr`
  (`media_controller.cpp:858`), and the participant layer that forwards it
  is missing. With `nullptr` the step sets `fault` to
  `"onRemoveRemoteVideoTrack"`; with the track, the puller erases its
  receiver.

The pusher's reader thread is `ReaderCallback`/`ReaderInput`:
`inputFrame` dereferences `_room_client` without a check.

## Runs

The registry runs use `MC_MediaController` with these values:

- one track;
- two peers;
- two consumer ids, one audio (peer p1) and one video (peer p2);
- one data consumer (peer p1);
- `MaxMsgs = 4`.

Four SFU messages are enough for any consumer to be created, paused and closed
while a data consumer exists, and for every task to interleave with every
application call, destroy and release.

| run | cfg | expect | shows |
|---|---|---|---|
| registry | `MC_MediaController.cfg` | pass (about 1.9M states) | `TypeOK`, `ConsumerIndexed` (every registered consumer is indexed under its own peer, whatever the order of close, pause and resume tasks), `AppViewConsistent` (once the callback queue is drained, the observer's tracks are exactly the registered consumers) and `RegistryRefined` (the registry implements `RegistryAbstract`) |
| destroy_null_producer | `..._DestroySafe.cfg` | violation | `enableVideo(false)` then `destroy()` calls `Close()` on nullptr |
| mute_query_null | `..._MuteQuerySafe.cfg` | violation | `isAudioMuted(pid)` and `isVideoMuted(pid)` dereference nullptr for a peer with a data consumer |
| input_frame_race | `..._InputFrameSafe.cfg` | violation | the reader thread uses a source that `enableVideo(false)` nulled after its check |
| mute_stops_early | `..._MuteAppliesToAll.cfg` | violation | with two audio consumers and a data consumer of one peer, `muteAudio(pid)` can stop early (this run uses the `MCCIds2` instance) |

More runs:

| run | cfg | expect | shows |
|---|---|---|---|
| registry_live | `MC_MediaController_Live.cfg` (`MaxMsgs = 3`) | pass | `ConsumerShown`: a registered consumer is eventually shown to the observer, unless it is closed, the controller destroyed or the process crashed |
| reader_frames | `MC_H264Reader.cfg` | pass | `FramesFollowFile` (the callback receives exactly the file's slice units, in cyclic order, across restarts), `KeyFrameIffIdr` (the encoder marks a frame key exactly when its slice is an IDR, despite the SPS/PPS prefix), `StopReturns` and `KeyFrameSent` (once the encoder has its callback and the reader runs, a key frame is eventually sent) |
| reader_buffer | `MC_H264Reader_Buffer.cfg` | pass | `TypeOK` with a unit longer than the buffer: `m_buf` is never written out of bounds; `FrameFromFile`: every frame's unit is the file's bytes before its start code, also after a full-buffer return and across rewinds |
| idr_without_sps | `MC_H264Reader_IdrCarriesSps.cfg` | violation | the start code at file offset 0 is never seen, the first SPS is dropped, and the first IDR is sent without it |
| reader_stop_hangs | `MC_H264Reader_StopReturns.cfg` | violation | on a file without a slice, `ReadOneNalu` never returns and `Stop()` blocks forever |
| lifecycle | `MC_SdkLifecycle.cfg` | pass | `CallbackThreadLive` (from `RtcClient::init` until `Core::destroy`, the observer's thread is running) and `ReaderSafe` in both programs |
| connected_race | `MC_SdkLifecycle_ConnectedHandlerSafe.cfg` | violation | `onRoomStateChanged` calls through a `_room_client` that `destroy()` reset after the check |

**Why the reader bounds are enough.** The reader runs use `MaxBuffer = 12`
and, besides the empty file, files of 12 to 42 bytes. These contain:

- SPS, PPS, IDR and P units;
- 3- and 4-byte start codes;
- repeated parameter sets;
- a unit longer than the buffer. In one long file the unit's bytes are
  65, a type-1 header, so the call that restarts mid-unit after the
  full-buffer return emits a frame; `FrameFromFile` is checked on that
  frame too.

Every branch of `ReadOneNalu` is reached, and the reader wraps around the
file several times.

**Why the lifecycle bounds are enough.** The lifecycle runs use two tracks.
That is enough for track events to interleave with each statement of
`main()`, including `setYuvCallback` and `destroy()`.

**Deadlock.** The registry run sets `CHECK_DEADLOCK FALSE`. The only states
without a successor are real ends of the system:

- after a fault, because the process has crashed;
- after destroy and release, with the SFU's bound reached.

The lifecycle runs also set `CHECK_DEADLOCK FALSE`: after `Core::destroy`
with the queue drained, `main()` has returned. The reader runs check for
deadlock.

**Mutants.** The registry run's mutants, each defined in `MediaController.tla` just before
the handler it replaces, show that the pass run's properties can detect a bug:

| mutant | replaces | breaks |
|---|---|---|
| `createNewConsumerEmptyPeer` | `createNewConsumer` | `TypeOK` |
| `closeConsumerKeepMap` | `closeConsumer` | `ConsumerIndexed` |
| `closeConsumerAudioOnly` | `closeConsumer` | `AppViewConsistent` |
| `DeliverEventVideoOnly` | `DeliverEvent` | `ConsumerShown` |
| `closeConsumerKeepIndex` | `closeConsumer` | `RegistryRefined` |
| `UnitBytesLong` | `UnitBytes` | `FramesFollowFile` |
| `EncodeFirstNalu` | `Encode` | `KeyFrameIffIdr` |
| `EncodeRejectNative` | `Encode` | `KeyFrameSent` |
| `BoundaryNoStop` | `Boundary` | `StopReturns` |
| `ReadStepNoBound` | `ReadStep` | `TypeOK` (reader) |
| `UnitBytesShort` | `UnitBytes` | `FrameFromFile` |
| `FactoryInitCreateFirst` | `FactoryInit` | `CallbackThreadLive` |
| `PusherProgramSwapped` | `PusherProgram` | `ReaderSafe` |

## Fairness

`Spec` has weak fairness on `RunTask` and `DeliverEvent`: each
`rtc::Thread` message loop keeps draining its queue. `ConsumerShown` depends
on it.

`H264Reader` has weak fairness on three actions:

- `RunLoop` and `ReadStep`: the reader is a `std::thread` that never blocks
  (`fgetc` on a regular file);
- `StopJoined`: `join` returns once the thread has exited.

`StopReturns` and `KeyFrameSent` depend on this fairness. No fairness is
assumed for `RegisterEncodeCompleteCallback`: `KeyFrameSent` only speaks
of states where the callback is already set. `SdkLifecycle` is checked for safety
only.

## Proofs

`MediaController_proofs.tla` proves, for every value of the constants that
satisfies `ConstAssumption`:

- `IInvInvariant`: `Spec => []IInv`, with `IInv == TypeOK /\ ConsumerIndexed`;
- `TypeCorrect`: `Spec => []TypeOK`;
- `ConsumerIndexedInvariant`: `Spec => []ConsumerIndexed`.

**Why IInv.** `TypeOK` is not inductive on its own. `updateConsumer` and the
close task put `_consumerIdToPeerId[tid]` into an observer event, and that value
is a peer (and not `NoPeer`) only because every registered consumer is indexed.

`MediaController_refinement.tla` proves `RegistryRefinement`:
`Spec => RegistryRefined`, for every value of the constants. The proof
follows the usual refinement layout:

- `InitRefines`: an initial state maps to `Registry!Init`;
- `NextRefines`: `IInv /\ [Next]_vars` implies
  `[Registry!Next]_Registry!avars`;
- the theorem combines the two with `IInvInvariant` by PTL.

`NextRefines` needs `IInv`. Its type part makes a posted task carry an id
of its own kind, and makes `_consumerIdToPeerId` a function on every id, so a
data-consumer write is invisible through the mapping. There is one lemma per
task handler (`CreateRefines`, `CreateDataRefines`, `UpdateRefines`,
`CloseRefines`), one for `RunTask`, one for `destroy()` and one for the mute
calls (`MuteRefines`). The lemma `RegistryFrame` covers every step that
writes neither map.

`SdkLifecycle_proofs.tla` proves, for every set of thread names containing
`"main"` and every set of tracks:

- `CallbackThreadLiveInvariant`;
- `ReaderSafeInvariant`;
- `LifecycleTypeCorrect`.

All three follow from `LInvInvariant` (`Spec => []LInv`). `LInv` says:

- the provider exists exactly between `Core::init` and `Core::destroy`, and
  then holds all the threads;
- every thread in the map is running;
- from `RtcClient::init` until `Core::destroy` the callback thread is
  running (after teardown the provider's threads leak, see the defects, and
  the claim says nothing there);
- the reader runs only between the pusher's `Start` and `Stop`;
- `_room_client` is set from `init` up to `destroy`.

These conjuncts are needed because neither property is inductive alone. At
`ClientInit`, `getThread("main")` succeeds only because the provider holds
its threads. The reader cannot call after `destroy` only because it was
joined first. The lemma `AtFacts` turns "main() is at statement s" into
values of `role` and `pc`.

`MediaController_appview.tla` proves `AppViewConsistentInvariant`:
`Spec => []AppViewConsistent`, for every value of the constants.
Once the callback thread has drained `mainq` (and before `destroy()`), the
observer's `appTracks` is exactly the set of registered consumers.

**Why ViewOK.** `AppViewConsistent` is not inductive. While create and
remove events are still queued, `appTracks` lags `_consumerMap`, and the
property says nothing about such states. So a step that delivers the last
event has nothing to start from. The strengthening `ViewOK` says how the
view lags. For each consumer id `c`:

- if some create or remove event for `c` is still in `mainq`, the last such
  event is a create exactly when `c` is registered;
- if there is none, `c \in appTracks` exactly when `c` is registered.

It also says that the controller is still held (`alive`) before
`destroy()`. TLC checked `AInv == IInv /\ ViewOK` on the registry instance
(1.94M states) before it was proved. `ViewOK` is inductive because the
code does two things:

- `createNewConsumer` and `onConsumerClosed`'s task change `_consumerMap`
  and post the matching event in the same mediasoup-thread step;
- the callback thread consumes `mainq` in FIFO order.

Three lemmas about one consumer's view carry the argument:

- `AppendOther`: appending an event that is not about `c` leaves `c`'s view
  unchanged;
- `AppendSame`: appending `c`'s create or remove event sets its view;
- `TailView`: delivering the head moves the head's meaning into `appTracks`
  and shifts every later index by one.

The action lemmas (`CreateView`, `UpdateView`, `CloseView`, `RunTaskView`,
`DeliverView`, `MuteView`, `QuietView`) and `NextView` apply them.
`AInvInvariant` combines `NextIInv` and `NextView`.

`H264Reader_proofs.tla` proves `ReaderTypeCorrect`: `Spec => []TypeOK`,
for every set of byte files and every `MaxBuffer > 4`. Its conjunct
`Len(buf) < MaxBuffer` says that `ReadOneNalu`'s `m_buf[index] = ch` never
writes past the buffer, however long a NAL unit is. The `reader_buffer` run
shows this for two files whose unit is longer than the buffer; the theorem
covers every file. `TypeOK` is inductive as it stands. The lemmas are:

- `UnitIsBytes`: every unit and frame built from bytes is bytes;
- `EncodeResult`: `Encode` returns one of its four results;
- `BoundaryType`: one case per NAL type of the start-code dispatch;
- `ReadStepType`: one case per branch of the loop body (EOF, full buffer,
  start code, plain byte).

`FrameFromFileInvariant` proves `Spec => []FrameFromFile` for every set
of byte files and every `MaxBuffer > 4`. `FrameFromFile` is not inductive
alone: a step that completes a unit needs to know what `m_buf` holds. The
strengthening adds `BufFromFile`: while the reader thread is inside
`ReadOneNalu`, `buf` is `ReadUpTo(file, fpos, Len(buf))`, the bytes `fgetc`
returned last, going round the file. A full-buffer return leaves `buf`
stale, but the thread is then back in `"loop"`, and `RunLoop` empties
`buf` before the next read. TLC checked `TypeOK /\ BufFromFile /\
FrameFromFile` on the good and long files and on a file with a one-byte
unit (6092 states) before the proof. The lemmas are:

- `PosShift`: going round a file of `N` bytes, position `k + N` is
  position `k`. Z3 proves it only through `\div`, in two steps.
- `ReadRewind`: the rewind at EOF does not change which bytes were read
  last.
- `ReadAppend`: `m_buf[index] = ch` appends the byte at the next position.
- `ReadSplit` and `UnitRead`: the bytes read are the unit, then the start
  code, which gives the `index - 3` / `index - 2` arithmetic.
- `CodeAtEnd`: the guards of `ReadOneNalu` are the start code at the end of
  `m_buf`.
- `FrameSuffix` and `FrameWitness`: the frame, with or without the SPS/PPS
  prefix, ends with the start code and the unit.
- `BoundaryFrame` and `ReadStepFrame`: one case per branch of the loop.

**Layout of the MediaController proof.**

- One lemma per action or group of actions.
- The four task handlers are proved to keep a `RegistryOK` predicate, and
  `RunTaskIInv` splits on the task type.
- `NextIInv` has one case per disjunct of `Next`, plus the stutter step.
- `IndexFrame` is the lemma for every action that touches neither map.

## Defects without a run

The model shows these defects, but no run checks them, because the project
keeps one run per question:

- **Index holds data consumers.** `createNewDataConsumer` writes data-consumer
  ids into `_consumerIdToPeerId`, and nothing erases them
  (`media_controller.cpp:694`). The `mute_query_null` and `mute_stops_early`
  runs show the consequences.
- **Remove events after erase.** `onConsumerClosed` erases the consumer in the
  same task that posts `onRemoveRemote*Track` (`media_controller.cpp:862`). The
  observer therefore cannot read the entry while it handles the removal, even
  though spec section 4.3 says it can.
- **Wrong paused state at creation.** `createNewConsumer` reports
  `producerPaused` as the consumer's state (`media_controller.cpp:637`) but
  never pauses the consumer.
- **Receiver without a callback.** `test_puller.cpp` calls `setYuvCallback`
  after `init()` (line 19), and `onCreateRemoteVideoTrack` copies `_cb`. A
  track announced in between gets a `VideoReceiver` that drops every frame
  (in the model, `receivers[t] = "noCb"`).
- **Audio tracks of every peer.** `getRemoteAudioTracks(pid)` never uses
  `pid`, so it returns the audio tracks of all peers
  (`media_controller.cpp:446`). `getRemoteVideoTracks(pid)` filters by peer.
  Nothing in the repository calls either getter.
- **Remote video removal dereferences nullptr.** `onRemoveRemoteVideoTrack`
  logs `track->id()` (`rtc_client.cpp:138`), and the controller posts a
  nullptr track. If the participant layer passes it on, every removal
  crashes the callback thread. The lifecycle run reaches that state
  (`fault = "onRemoveRemoteVideoTrack"`).
- **Short units merge.** The same `index > 3` test (`reader.cpp:110`)
  misses a three-byte start code that follows a one-byte NAL unit, because
  its `0x01` lands at `index` 3. The two units go out as one frame, which
  is classified by the first unit's type. A one-byte IDR unit followed by a
  P slice is therefore sent, with the SPS/PPS prefix, as a key frame that
  carries the P slice. On such a file TLC finds both `FramesFollowFile` and
  `KeyFrameIffIdr` violated. The reader runs keep to files of real-sized
  units, and the run budget leaves no room for a separate violation run.
- **Leaked threads.** `ThreadProvider::destroy` never stops its threads: the
  `stopAll()` call is commented out, and `_destroy` starts TRUE
  (`thread_provider.cpp:35`). After `Core::destroy`, `running` still holds
  all four names.

## Only model-checked

These stay with TLC, because the prover cannot handle them:

- liveness (`ConsumerShown`, `StopReturns`, `KeyFrameSent`);
- the bounded-instance violations above;
- `FramesFollowFile` and `KeyFrameIffIdr`. Neither holds for every file:
  a one-byte unit merges with the next one (see "Short units merge"), so
  neither can be a theorem as stated. A proof for files of real-sized
  units would have to relate `ReadOneNalu` to the reference splitting
  (`Min` over the start positions, `NextVcl` round the file), which is
  induction over the file's data. What holds for every file, that each
  frame's unit is the file's bytes before its start code, is proved as
  `FrameFromFile`.

## Not modelled, and plan

- **RTCContext.** It is used only by `engine.cpp`, which is not in the
  repository. Its `destroy()` also leaves its three threads running.
- **RoomClient.** Its join/leave state machine would have to be modelled from
  the spec, because `room_client.cpp` is missing.
- **Exceptions.** Exceptions thrown by `Produce` and `Consume` are not
  modelled (the partial-failure hazard).
- **Planned liveness.** Every request accepted by the controller is
  answered.
- **WebRTC's frame pipeline.** The path between `DummyVideoSource::OnFrame`
  and `Encode` (the encoder queue, frame dropping, key-frame requests) is
  WebRTC's, not this repository's. `DummyVideoSource`'s reference count is
  plain bookkeeping.
- **Planned.** Refine the observer's view (`appTracks`) against the abstract
  registry through the event queue.
