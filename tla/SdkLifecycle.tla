---------------------------- MODULE SdkLifecycle ----------------------------
(***************************************************************************)
(* Process-wide lifecycle of the SDK as the test programs drive it        *)
(* (src/test/test_pusher.cpp, test_puller.cpp): Core::init/destroy with   *)
(* ComponentFactory and ThreadProvider (the named rtc::Threads), the      *)
(* RtcClient facade (init/destroy/inputFrame/setYuvCallback and its       *)
(* observer callbacks), and the frame reader thread of the pusher.        *)
(*                                                                          *)
(* Actors: the program's main thread, which runs the statements of main() *)
(* in order; the provider thread "main", on which RtcClient registered    *)
(* itself as observer (callbacks run there); the reader thread.  The room *)
(* client itself (room_client.cpp, engine.cpp) is not in the repository:  *)
(* RoomConnected and RemoteTrack stand for the events it posts to the     *)
(* observer once join() succeeds (spec 4.1, 4.4).  Linux build: "main" is *)
(* one of the created threads.                                             *)
(***************************************************************************)
EXTENDS Naturals, Sequences

CONSTANTS
  ThreadNames,   \* the names ComponentFactory::init asks for
  Tracks         \* remote video tracks the room may announce to the puller

ASSUME LifecycleAssumption ==
  /\ "main" \in ThreadNames
  /\ Tracks # {}

\* RtcClient's _role: 0 pushes (test_pusher), 1 pulls (test_puller).
Roles == {0, 1}

\* The statements of each main(), in program order.
\* Mutant: the client is destroyed before the reader is stopped.
PusherProgramSwapped == <<"CoreInit", "ClientInit", "ReaderStart", "Wait",
                          "ClientDestroy", "ReaderStop", "CoreDestroy">>

PusherProgram == <<"CoreInit", "ClientInit", "ReaderStart", "Wait",
                   "ReaderStop", "ClientDestroy", "CoreDestroy">>

PullerProgram == <<"CoreInit", "ClientInit", "SetYuvCallback", "Wait",
                   "ClientDestroy", "CoreDestroy">>

VARIABLES
  role,           \* which test program runs
  pc,             \* index of main()'s next statement
  provider,       \* ComponentFactory::_threadProvider is set
  tpInited,       \* ThreadProvider::_inited
  tpDestroy,      \* ThreadProvider::_destroy
  threadsMap,     \* names in ThreadProvider::_threadsMap
  running,        \* rtc::Threads started and not stopped
  callbackThread, \* thread RtcClient registered its observer with, or "null"
  roomClient,     \* RtcClient::_room_client is set
  room,           \* the room client's join state: "none" | "joining" | "connected" | "left"
  observing,      \* RtcClient is registered as observer
  cbSet,          \* RtcClient::_cb is set
  receivers,      \* track -> "none" | "withCb" | "noCb" (VideoReceiver's copy of _cb)
  events,         \* callbacks posted to the observer's thread
  cbStep,         \* onRoomStateChanged(CONNECTED) has passed `if (_room_client)`
  reader,         \* the pusher's reader thread: "none" | "running" | "inCall" | "stopped"
  fault           \* "none" | where a nullptr was dereferenced

vars == <<role, pc, provider, tpInited, tpDestroy, threadsMap, running,
          callbackThread, roomClient, room, observing, cbSet, receivers,
          events, cbStep, reader, fault>>

Program(r) == IF r = 0 THEN PusherProgram ELSE PullerProgram

Running == fault = "none"

\* main() is at statement s.
At(s) == Running /\ pc <= Len(Program(role)) /\ Program(role)[pc] = s

Advance == pc' = pc + 1

Event == [type : {"connected"}, t : {"none"}] \cup [type : {"track", "remove"}, t : Tracks]

-----------------------------------------------------------------------------
(* ThreadProvider and ComponentFactory                                      *)

\* ThreadProvider::create(names) on a provider whose _inited is `inited`:
\* return at once unless inited; otherwise create and Start() each thread.
Create(inited) ==
  IF inited THEN /\ threadsMap' = threadsMap \cup ThreadNames
                 /\ running' = running \cup ThreadNames
            ELSE UNCHANGED <<threadsMap, running>>

\* Mutant: create() is called before init(), on the fresh provider.
FactoryInitCreateFirst ==
  IF provider THEN UNCHANGED <<provider, tpInited, tpDestroy, threadsMap, running>>
  ELSE /\ provider' = TRUE /\ tpDestroy' = TRUE
       /\ tpInited' = TRUE
       /\ Create(FALSE)

\* ComponentFactory::init: unless there is a provider already, make one
\* (ThreadProvider(): _inited false, _destroy true), init() it (_inited
\* true), then create() the four named threads.
FactoryInit ==
  IF provider THEN UNCHANGED <<provider, tpInited, tpDestroy, threadsMap, running>>
  ELSE /\ provider' = TRUE /\ tpDestroy' = TRUE
       /\ tpInited' = TRUE
       /\ Create(TRUE)

\* ComponentFactory::destroy: ThreadProvider::destroy() (stopAll() only
\* if !_destroy, and the call is commented out), then the unique_ptr is
\* reset.  The rtc::Thread objects were released into _threadsMap and are
\* neither stopped nor deleted.
FactoryDestroy ==
  IF provider
    THEN /\ provider' = FALSE
         /\ tpDestroy' = TRUE   \* `if (!_destroy) { // stopAll(); }`
         /\ threadsMap' = {} /\ tpInited' = FALSE   \* the object is gone
         /\ UNCHANGED running
    ELSE UNCHANGED <<provider, tpInited, tpDestroy, threadsMap, running>>

\* getThread(name): ThreadProvider::thread looks the name up in _threadsMap.
GetThread(name) == IF name \in threadsMap THEN name ELSE "null"

-----------------------------------------------------------------------------
(* main()                                                                   *)

\* Core::init: logger, mediasoupclient, ComponentFactory::init, Engine::init.
CoreInit ==
  /\ At("CoreInit") /\ Advance
  /\ FactoryInit
  /\ UNCHANGED <<role, callbackThread, roomClient, room, observing, cbSet,
                 receivers, events, cbStep, reader, fault>>

\* RtcClient::init: create the room client, register as observer on
\* getThread("main"), then join.
ClientInit ==
  /\ At("ClientInit") /\ Advance
  /\ roomClient' = TRUE
  /\ callbackThread' = GetThread("main")
  /\ observing' = TRUE
  /\ room' = "joining"
  /\ UNCHANGED <<role, provider, tpInited, tpDestroy, threadsMap, running,
                 cbSet, receivers, events, cbStep, reader, fault>>

\* H264Reader::Start (the reader thread then calls pusher->inputFrame).
ReaderStart ==
  /\ At("ReaderStart") /\ Advance
  /\ reader' = "running"
  /\ UNCHANGED <<role, provider, tpInited, tpDestroy, threadsMap, running,
                 callbackThread, roomClient, room, observing, cbSet, receivers,
                 events, cbStep, fault>>

\* RtcClient::setYuvCallback: only the puller keeps the callback.
SetYuvCallback ==
  /\ At("SetYuvCallback") /\ Advance
  /\ cbSet' = (role = 1)
  /\ UNCHANGED <<role, provider, tpInited, tpDestroy, threadsMap, running,
                 callbackThread, roomClient, room, observing, receivers,
                 events, cbStep, reader, fault>>

\* The sleep loop until SIGINT.
Wait ==
  /\ At("Wait") /\ Advance
  /\ UNCHANGED <<role, provider, tpInited, tpDestroy, threadsMap, running,
                 callbackThread, roomClient, room, observing, cbSet, receivers,
                 events, cbStep, reader, fault>>

\* Reader::Stop: clear m_bStart and join the thread, which returns once the
\* loop is between two callbacks.
ReaderStop ==
  /\ At("ReaderStop") /\ Advance
  /\ reader # "inCall"
  /\ reader' = "stopped"
  /\ UNCHANGED <<role, provider, tpInited, tpDestroy, threadsMap, running,
                 callbackThread, roomClient, room, observing, cbSet, receivers,
                 events, cbStep, fault>>

\* RtcClient::destroy: removeObserver, leave(), _room_client = nullptr.
\* Callbacks already posted to the observer's thread stay queued.
ClientDestroy ==
  /\ At("ClientDestroy") /\ Advance
  /\ observing' = FALSE
  /\ room' = "left"
  /\ roomClient' = FALSE
  /\ UNCHANGED <<role, provider, tpInited, tpDestroy, threadsMap, running,
                 callbackThread, cbSet, receivers, events, cbStep, reader, fault>>

\* Core::destroy: mediasoupclient::Cleanup, Engine::destroy,
\* ComponentFactory::destroy, Logger::destroy.
CoreDestroy ==
  /\ At("CoreDestroy") /\ Advance
  /\ FactoryDestroy
  /\ UNCHANGED <<role, callbackThread, roomClient, room, observing, cbSet,
                 receivers, events, cbStep, reader, fault>>

-----------------------------------------------------------------------------
(* The room client's events (its code is not in the repository)            *)

\* join() succeeds: onRoomStateChanged(CONNECTED) is posted to observers.
RoomConnected ==
  /\ Running /\ room = "joining"
  /\ room' = "connected"
  /\ events' = IF observing
                 THEN Append(events, [type |-> "connected", t |-> "none"])
                 ELSE events
  /\ UNCHANGED <<role, pc, provider, tpInited, tpDestroy, threadsMap, running,
                 callbackThread, roomClient, observing, cbSet, receivers,
                 cbStep, reader, fault>>

\* A remote video track is announced (onCreateRemoteVideoTrack).
RemoteTrack(t) ==
  /\ Running /\ room = "connected" /\ observing
  /\ receivers[t] = "none"
  /\ [type |-> "track", t |-> t] \notin {events[i] : i \in 1..Len(events)}
  /\ events' = Append(events, [type |-> "track", t |-> t])
  /\ UNCHANGED <<role, pc, provider, tpInited, tpDestroy, threadsMap, running,
                 callbackThread, roomClient, room, observing, cbSet, receivers,
                 cbStep, reader, fault>>

\* A remote video consumer the puller has rendered is closed: the
\* controller posts onRemoveRemoteVideoTrack(peerId, tid, nullptr).
RemoteTrackRemoved(t) ==
  /\ Running /\ room = "connected" /\ observing
  /\ receivers[t] # "none"
  /\ [type |-> "remove", t |-> t] \notin {events[i] : i \in 1..Len(events)}
  /\ events' = Append(events, [type |-> "remove", t |-> t])
  /\ UNCHANGED <<role, pc, provider, tpInited, tpDestroy, threadsMap, running,
                 callbackThread, roomClient, room, observing, cbSet, receivers,
                 cbStep, reader, fault>>

\* The track argument RtcClient receives with the remove event:
\* MediaController::closeConsumer posts nullptr, and the participant layer
\* that forwards it (not in the repository) either passes that on or looks
\* the track up.
RemovedTrackPtrs == {"null", "track"}

-----------------------------------------------------------------------------
(* The observer's callback thread ("main" provider thread)                  *)

\* onRoomStateChanged(CONNECTED): the pusher checks _room_client ...
DeliverConnected ==
  /\ Running /\ callbackThread \in running /\ cbStep = "idle"
  /\ events # <<>> /\ Head(events).type = "connected"
  /\ events' = Tail(events)
  /\ cbStep' = IF role = 0 /\ roomClient THEN "checked" ELSE "idle"
  /\ UNCHANGED <<role, pc, provider, tpInited, tpDestroy, threadsMap, running,
                 callbackThread, roomClient, room, observing, cbSet, receivers,
                 reader, fault>>

\* ... and then calls _room_client->enableVideo(true, "front", ...).
EnableVideoCall ==
  /\ Running /\ cbStep = "checked"
  /\ cbStep' = "idle"
  /\ fault' = IF roomClient THEN "none" ELSE "onRoomStateChanged"
  /\ UNCHANGED <<role, pc, provider, tpInited, tpDestroy, threadsMap, running,
                 callbackThread, roomClient, room, observing, cbSet, receivers,
                 events, reader>>

\* onCreateRemoteVideoTrack: the puller makes a VideoReceiver holding a
\* copy of _cb and adds it as the track's sink.
DeliverTrack ==
  /\ Running /\ callbackThread \in running /\ cbStep = "idle"
  /\ events # <<>> /\ Head(events).type = "track"
  /\ events' = Tail(events)
  /\ receivers' = IF role = 1
                    THEN [receivers EXCEPT ![Head(events).t] =
                            IF cbSet THEN "withCb" ELSE "noCb"]
                    ELSE receivers
  /\ UNCHANGED <<role, pc, provider, tpInited, tpDestroy, threadsMap, running,
                 callbackThread, roomClient, room, observing, cbSet, cbStep,
                 reader, fault>>

\* onRemoveRemoteVideoTrack: the log line evaluates track->id() (debug
\* logging is compiled in), then the puller erases the track's receiver.
DeliverRemove ==
  /\ Running /\ callbackThread \in running /\ cbStep = "idle"
  /\ events # <<>> /\ Head(events).type = "remove"
  /\ events' = Tail(events)
  /\ \E ptr \in RemovedTrackPtrs :
       /\ fault' = IF ptr = "null" THEN "onRemoveRemoteVideoTrack" ELSE "none"
       /\ receivers' = IF ptr # "null" /\ role = 1
                         THEN [receivers EXCEPT ![Head(events).t] = "none"]
                         ELSE receivers
  /\ UNCHANGED <<role, pc, provider, tpInited, tpDestroy, threadsMap, running,
                 callbackThread, roomClient, room, observing, cbSet, cbStep,
                 reader>>

-----------------------------------------------------------------------------
(* The pusher's reader thread                                               *)

\* ReadOneNalu hands a frame to the data callback (size > 0) ...
ReaderCallback ==
  /\ Running /\ reader = "running"
  /\ reader' = "inCall"
  /\ UNCHANGED <<role, pc, provider, tpInited, tpDestroy, threadsMap, running,
                 callbackThread, roomClient, room, observing, cbSet, receivers,
                 events, cbStep, fault>>

\* ... which calls pusher->inputFrame("front", ...): it does
\* _room_client->getMediaController() without a null check.
ReaderInput ==
  /\ Running /\ reader = "inCall"
  /\ reader' = "running"
  /\ fault' = IF roomClient THEN "none" ELSE "inputFrame"
  /\ UNCHANGED <<role, pc, provider, tpInited, tpDestroy, threadsMap, running,
                 callbackThread, roomClient, room, observing, cbSet, receivers,
                 events, cbStep>>

-----------------------------------------------------------------------------
Init ==
  /\ role \in Roles
  /\ pc = 1
  /\ provider = FALSE /\ tpInited = FALSE /\ tpDestroy = TRUE
  /\ threadsMap = {} /\ running = {}
  /\ callbackThread = "null"
  /\ roomClient = FALSE /\ room = "none" /\ observing = FALSE
  /\ cbSet = FALSE
  /\ receivers = [t \in Tracks |-> "none"]
  /\ events = <<>>
  /\ cbStep = "idle"
  /\ reader = "none"
  /\ fault = "none"

Next ==
  \/ CoreInit \/ ClientInit \/ ReaderStart \/ SetYuvCallback \/ Wait
  \/ ReaderStop \/ ClientDestroy \/ CoreDestroy
  \/ RoomConnected \/ \E t \in Tracks : RemoteTrack(t) \/ RemoteTrackRemoved(t)
  \/ DeliverConnected \/ EnableVideoCall \/ DeliverTrack \/ DeliverRemove
  \/ ReaderCallback \/ ReaderInput

Spec == Init /\ [][Next]_vars

-----------------------------------------------------------------------------
(* Properties                                                               *)

TypeOK ==
  /\ role \in Roles /\ pc \in 1..(Len(Program(role)) + 1)
  /\ provider \in BOOLEAN /\ tpInited \in BOOLEAN /\ tpDestroy \in BOOLEAN
  /\ threadsMap \subseteq ThreadNames /\ running \subseteq ThreadNames
  /\ callbackThread \in ThreadNames \cup {"null"}
  /\ roomClient \in BOOLEAN /\ observing \in BOOLEAN /\ cbSet \in BOOLEAN
  /\ room \in {"none", "joining", "connected", "left"}
  /\ receivers \in [Tracks -> {"none", "withCb", "noCb"}]
  /\ events \in Seq(Event)
  /\ cbStep \in {"idle", "checked"}
  /\ reader \in {"none", "running", "inCall", "stopped"}
  /\ fault \in {"none", "onRoomStateChanged", "inputFrame",
                "onRemoveRemoteVideoTrack"}

\* RtcClient::init registers its observer with a live thread: the "main"
\* thread ComponentFactory::init created (getThread("main") is not nullptr),
\* so the room's callbacks have somewhere to run, from init() until main()
\* calls Core::destroy (what happens to the threads after teardown is not
\* part of the claim).
CallbackThreadLive ==
  2 < pc /\ pc <= Len(Program(role)) => callbackThread \in running

\* The pusher's reader thread never calls inputFrame through the
\* _room_client that RtcClient::destroy has reset: main() stops and joins
\* the reader before destroying the client.
ReaderSafe == fault # "inputFrame"

\* onRoomStateChanged(CONNECTED) never calls through a _room_client that
\* RtcClient::destroy on the main thread reset after the callback's check.
ConnectedHandlerSafe == fault # "onRoomStateChanged"

=============================================================================
