-------------------------- MODULE MediaController --------------------------
(***************************************************************************)
(* The per-room resource registry of the SDK (class vi::MediaController,  *)
(* src/core/service/media_controller.cpp).  It keeps the local mic        *)
(* producer, the per-track video producers and their injected sources,    *)
(* the remote consumers and data consumers, and the consumer-id -> peer-id *)
(* index.  Four execution contexts touch it:                               *)
(*   - the SFU, through the signaling thread, which re-posts every request *)
(*     and notification as a task on the mediasoup thread (taskq, FIFO);   *)
(*   - the mediasoup thread, which runs those tasks and the application's  *)
(*     produce/mute calls, and posts observer events (mainq, FIFO);        *)
(*   - the observer's callback thread, which consumes mainq;               *)
(*   - one frame-reader thread per track, calling inputFrame directly.     *)
(* Data is abstracted: ids, peers and tracks are model values, a slot of   *)
(* an unordered_map is "nokey" (no entry), "null" (entry holding nullptr) *)
(* or "live" (entry holding an object).                                    *)
(***************************************************************************)
EXTENDS Naturals, Sequences, FiniteSets

CONSTANTS
  Tracks,          \* track names passed to enableVideo / inputFrame
  Peers,           \* remote peer ids
  CIds,            \* consumer ids the SFU may announce (newConsumer)
  DIds,            \* data-consumer ids the SFU may announce (newDataConsumer)
  KindOf,          \* kind of the producer each consumer id consumes
  PeerOf,          \* peer owning each consumer / data-consumer id
  CanProduce,      \* kinds the loaded device can produce
  ConsumeOn,       \* _options->consume
  DataChannelOn,   \* _options->datachannel
  NoPeer,          \* sentinel: no entry in _consumerIdToPeerId
  MaxMsgs          \* bound on the requests/notifications the SFU sends

Kinds == {"audio", "video"}
Ids == CIds \cup DIds

ASSUME ConstAssumption ==
  /\ CIds \cap DIds = {}
  /\ KindOf \in [CIds -> Kinds]
  /\ PeerOf \in [Ids -> Peers]
  /\ NoPeer \notin Peers
  /\ CanProduce \subseteq Kinds
  /\ ConsumeOn \in BOOLEAN
  /\ DataChannelOn \in BOOLEAN
  /\ MaxMsgs \in Nat

VARIABLES
  device, sendTransport, recvTransport, \* collaborators set by RoomClient
  micProducer,      \* _micProducer: "none" | "live" | "paused"
  producerMap,      \* _producerMap: track -> slot
  sourceMap,        \* _sourceMap:   track -> slot
  consumerMap,      \* _consumerMap: consumer id -> "none" | "live" | "paused"
  dataConsumerMap,  \* _dataConsumerMap: set of keys
  consumerIdToPeerId, \* _consumerIdToPeerId: id -> peer | NoPeer
  taskq,            \* tasks posted to the mediasoup thread by signaling
  mainq,            \* observer events posted to the callback thread
  appTracks,        \* remote tracks the observer has been told exist
  appMuted,         \* observer's last muted state per peer and kind
  reader,           \* inputFrame progress per reader thread
  server,           \* SFU-side lifecycle of each id
  acked,            \* ids whose newConsumer request was answered
  sent,             \* number of messages the SFU has sent
  destroyed,        \* destroy() has run
  alive,            \* the shared_ptr to the controller is still held
  fault             \* "none" | the code site that dereferenced nullptr

vars == <<device, sendTransport, recvTransport, micProducer, producerMap,
          sourceMap, consumerMap, dataConsumerMap, consumerIdToPeerId,
          taskq, mainq, appTracks, appMuted, reader, server, acked, sent,
          destroyed, alive, fault>>

Slots == {"nokey", "null", "live"}
ConsumerTaskTypes == {"newConsumer", "consumerPaused", "consumerResumed",
                      "consumerClosed"}
DataTaskTypes == {"newDataConsumer", "dataConsumerClosed"}
Task == [type : ConsumerTaskTypes, id : CIds, producerPaused : BOOLEAN]
          \cup [type : DataTaskTypes, id : DIds, producerPaused : BOOLEAN]
Event == [type : {"create", "state", "remove"}, peer : Peers,
          kind : Kinds, tid : CIds, paused : BOOLEAN]
Faults == {"none", "destroy", "query", "inputFrame"}

-----------------------------------------------------------------------------
(* Helpers                                                                  *)

\* std::unordered_map::operator[] inserts a nullptr entry for a missing key.
Touch(s) == IF s = "nokey" THEN "null" ELSE s

\* `ref.second = nullptr` on an existing entry.
Nulled(s) == IF s = "live" THEN "null" ELSE s

\* Registered remote consumers (keys of _consumerMap).
Registered == {c \in CIds : consumerMap[c] # "none"}

\* Index entries of peer p whose id has no consumer: _consumerMap[tid]
\* yields (or inserts) nullptr for them.
Dangling(p) == {i \in Ids : consumerIdToPeerId[i] = p /\ i \notin Registered}

\* Consumers of peer p of kind k that have an index entry.
PeerConsumers(p, k) ==
  {c \in Registered : consumerIdToPeerId[c] = p /\ KindOf[c] = k}

\* What isAudioMuted(pid) / isVideoMuted(pid) return when they do not crash.
IsMuted(p, k) == \A c \in PeerConsumers(p, k) : consumerMap[c] = "paused"

\* A process that dereferenced nullptr takes no further step.
Running == fault = "none"

\* A call from the application through the RoomClient proxy.
AppCall == Running /\ ~destroyed

PostEvent(e) == mainq' = Append(mainq, e)

-----------------------------------------------------------------------------
(* Collaborators handed over by RoomClient during join                      *)

SetMediasoupDevice ==
  /\ AppCall /\ ~device
  /\ device' = TRUE
  /\ UNCHANGED <<sendTransport, recvTransport, micProducer, producerMap,
                 sourceMap, consumerMap, dataConsumerMap, consumerIdToPeerId,
                 taskq, mainq, appTracks, appMuted, reader, server, acked,
                 sent, destroyed, alive, fault>>

SetSendTransport ==
  /\ AppCall /\ ~sendTransport
  /\ sendTransport' = TRUE
  /\ UNCHANGED <<device, recvTransport, micProducer, producerMap,
                 sourceMap, consumerMap, dataConsumerMap, consumerIdToPeerId,
                 taskq, mainq, appTracks, appMuted, reader, server, acked,
                 sent, destroyed, alive, fault>>

SetRecvTransport ==
  /\ AppCall /\ ~recvTransport
  /\ recvTransport' = TRUE
  /\ UNCHANGED <<device, sendTransport, micProducer, producerMap,
                 sourceMap, consumerMap, dataConsumerMap, consumerIdToPeerId,
                 taskq, mainq, appTracks, appMuted, reader, server, acked,
                 sent, destroyed, alive, fault>>

-----------------------------------------------------------------------------
(* Local producers (mediasoup thread)                                       *)

\* Guards shared by enableAudio and enableVideo.
CanProduceKind(k) == device /\ k \in CanProduce /\ sendTransport

LocalUnchanged ==
  UNCHANGED <<device, sendTransport, recvTransport, consumerMap,
              dataConsumerMap, consumerIdToPeerId, taskq, mainq, appTracks,
              appMuted, reader, server, acked, sent, destroyed, alive, fault>>

\* enableAudio(enabled): produce the mic track, or close the mic producer
\* (after sending closeProducer, whose continuation only logs).
EnableAudio(enabled) ==
  /\ AppCall /\ CanProduceKind("audio")
  /\ IF enabled THEN micProducer = "none" /\ micProducer' = "live"
                ELSE micProducer # "none" /\ micProducer' = "none"
  /\ UNCHANGED <<producerMap, sourceMap>>
  /\ LocalUnchanged

\* muteAudio(muted): pause or resume the mic producer.
MuteAudio(muted) ==
  /\ AppCall /\ micProducer # "none"
  /\ micProducer' = IF muted THEN "paused" ELSE "live"
  /\ UNCHANGED <<producerMap, sourceMap>>
  /\ LocalUnchanged

\* enableVideo(enabled, trackName): both map slots are taken by operator[]
\* before any check; enabling creates source then producer, disabling
\* drops the source first and then closes the producer if there is one.
EnableVideo(enabled, t) ==
  /\ AppCall /\ CanProduceKind("video")
  /\ LET p == Touch(producerMap[t])
         s == Touch(sourceMap[t])
     IN IF enabled
          THEN IF p = "live" \/ s = "live"
                 THEN /\ producerMap' = [producerMap EXCEPT ![t] = p]
                      /\ sourceMap' = [sourceMap EXCEPT ![t] = s]
                 ELSE /\ producerMap' = [producerMap EXCEPT ![t] = "live"]
                      /\ sourceMap' = [sourceMap EXCEPT ![t] = "live"]
          ELSE /\ producerMap' = [producerMap EXCEPT ![t] = "null"]
               /\ sourceMap' = [sourceMap EXCEPT ![t] = "null"]
  /\ UNCHANGED micProducer
  /\ LocalUnchanged

-----------------------------------------------------------------------------
(* inputFrame on a reader thread: `auto &ref = _sourceMap[trackName];     *)
(* if (ref) ref->InputFrame(...)` -- the check and the call are two steps. *)

InputFrameCheck(t) ==
  /\ Running /\ ~destroyed /\ reader[t] = "idle"
  /\ sourceMap' = [sourceMap EXCEPT ![t] = Touch(@)]
  /\ reader' = [reader EXCEPT ![t] =
                  IF sourceMap[t] = "live" THEN "checked" ELSE "idle"]
  /\ UNCHANGED <<device, sendTransport, recvTransport, micProducer,
                 producerMap, consumerMap, dataConsumerMap,
                 consumerIdToPeerId, taskq, mainq, appTracks, appMuted,
                 server, acked, sent, destroyed, alive, fault>>

InputFrameCall(t) ==
  /\ Running /\ reader[t] = "checked"
  /\ reader' = [reader EXCEPT ![t] = "idle"]
  /\ fault' = IF sourceMap[t] = "live" THEN "none" ELSE "inputFrame"
  /\ UNCHANGED <<device, sendTransport, recvTransport, micProducer,
                 producerMap, sourceMap, consumerMap, dataConsumerMap,
                 consumerIdToPeerId, taskq, mainq, appTracks, appMuted,
                 server, acked, sent, destroyed, alive>>

-----------------------------------------------------------------------------
(* Remote-consumer calls made by the application (participant controller) *)

\* muteAudio(pid, muted) / muteVideo(pid, muted) walk _consumerIdToPeerId in
\* unspecified order and `return` at the first entry of pid that has no
\* consumer.  The consumers handled before that entry form any subset of
\* pid's consumers when a dangling entry exists, all of them otherwise.
MuteConsumers(p, k, muted) ==
  /\ AppCall
  /\ \E done \in SUBSET PeerConsumers(p, k) :
       /\ Dangling(p) = {} => done = PeerConsumers(p, k)
       /\ consumerMap' = [c \in CIds |->
                            IF c \in done
                              THEN IF muted THEN "paused" ELSE "live"
                              ELSE consumerMap[c]]
  /\ UNCHANGED <<device, sendTransport, recvTransport, micProducer,
                 producerMap, sourceMap, dataConsumerMap, consumerIdToPeerId,
                 taskq, mainq, appTracks, appMuted, reader, server, acked,
                 sent, destroyed, alive, fault>>

MuteAudioOf(p, muted) == MuteConsumers(p, "audio", muted)

MuteVideo(p, muted) == MuteConsumers(p, "video", muted)

\* isAudioMuted(pid) / isVideoMuted(pid) dereference _consumerMap[tid] for
\* every index entry of pid met before an unpaused consumer of the kind; a
\* dangling entry met first is a nullptr dereference.  The non-crashing
\* outcomes change no state.
IsMutedQuery(p, k) ==
  /\ AppCall
  /\ Dangling(p) # {}
  /\ fault' = "query"
  /\ UNCHANGED <<device, sendTransport, recvTransport, micProducer,
                 producerMap, sourceMap, consumerMap, dataConsumerMap,
                 consumerIdToPeerId, taskq, mainq, appTracks, appMuted,
                 reader, server, acked, sent, destroyed, alive>>

-----------------------------------------------------------------------------
(* The SFU: requests and notifications, re-posted in arrival order by the  *)
(* signaling thread onto the mediasoup thread.                              *)

SfuSend(type, id, pp, st) ==
  /\ sent < MaxMsgs
  /\ server' = [server EXCEPT ![id] = st]
  /\ taskq' = Append(taskq, [type |-> type, id |-> id, producerPaused |-> pp])
  /\ sent' = sent + 1
  /\ UNCHANGED <<device, sendTransport, recvTransport, micProducer,
                 producerMap, sourceMap, consumerMap, dataConsumerMap,
                 consumerIdToPeerId, mainq, appTracks, appMuted, reader,
                 acked, destroyed, alive, fault>>

SfuNewConsumer(c, pp) ==
  server[c] = "idle" /\ SfuSend("newConsumer", c, pp, "open")

SfuNewDataConsumer(d) ==
  server[d] = "idle" /\ SfuSend("newDataConsumer", d, FALSE, "open")

SfuConsumerPaused(c, paused) ==
  /\ server[c] = "open"
  /\ SfuSend(IF paused THEN "consumerPaused" ELSE "consumerResumed",
             c, FALSE, "open")

SfuConsumerClosed(c) ==
  server[c] = "open" /\ SfuSend("consumerClosed", c, FALSE, "closed")

SfuDataConsumerClosed(d) ==
  server[d] = "open" /\ SfuSend("dataConsumerClosed", d, FALSE, "closed")

-----------------------------------------------------------------------------
(* Tasks run by the mediasoup thread                                        *)

TaskUnchanged ==
  UNCHANGED <<device, sendTransport, recvTransport, micProducer, producerMap,
              sourceMap, appTracks, appMuted, reader, server, sent,
              destroyed, alive, fault>>

\* Mutant: the peer id falls back to "" (value_or("")) for every consumer.
createNewConsumerEmptyPeer(c, pp) ==
  IF ConsumeOn /\ recvTransport
    THEN /\ consumerMap' = [consumerMap EXCEPT ![c] = "live"]
         /\ consumerIdToPeerId' = [consumerIdToPeerId EXCEPT ![c] = ""]
         /\ PostEvent([type |-> "create", peer |-> PeerOf[c],
                       kind |-> KindOf[c], tid |-> c, paused |-> pp])
         /\ acked' = acked \cup {c}
         /\ UNCHANGED dataConsumerMap
    ELSE UNCHANGED <<consumerMap, consumerIdToPeerId, mainq, acked,
                     dataConsumerMap>>

\* createNewConsumer: consume, register in both maps, notify observers with
\* the producer's paused flag, then answer the SFU request.
createNewConsumer(c, pp) ==
  IF ConsumeOn /\ recvTransport
    THEN /\ consumerMap' = [consumerMap EXCEPT ![c] = "live"]
         /\ consumerIdToPeerId' = [consumerIdToPeerId EXCEPT ![c] = PeerOf[c]]
         /\ PostEvent([type |-> "create", peer |-> PeerOf[c],
                       kind |-> KindOf[c], tid |-> c, paused |-> pp])
         /\ acked' = acked \cup {c}
         /\ UNCHANGED dataConsumerMap
    ELSE UNCHANGED <<consumerMap, consumerIdToPeerId, mainq, acked,
                     dataConsumerMap>>

\* createNewDataConsumer: register the data consumer and its peer, answer.
createNewDataConsumer(d) ==
  IF ConsumeOn /\ DataChannelOn /\ recvTransport
    THEN /\ dataConsumerMap' = dataConsumerMap \cup {d}
         /\ consumerIdToPeerId' = [consumerIdToPeerId EXCEPT ![d] = PeerOf[d]]
         /\ acked' = acked \cup {d}
         /\ UNCHANGED <<consumerMap, mainq>>
    ELSE UNCHANGED <<consumerMap, consumerIdToPeerId, mainq, acked,
                     dataConsumerMap>>

\* updateConsumer(tid, paused): pause/resume a known consumer and report
\* its state; an unknown id is ignored.
updateConsumer(c, paused) ==
  /\ IF c \in Registered
       THEN /\ consumerMap' = [consumerMap EXCEPT ![c] =
                                 IF paused THEN "paused" ELSE "live"]
            /\ PostEvent([type |-> "state", peer |-> consumerIdToPeerId[c],
                          kind |-> KindOf[c], tid |-> c, paused |-> paused])
       ELSE UNCHANGED <<consumerMap, mainq>>
  /\ UNCHANGED <<consumerIdToPeerId, acked, dataConsumerMap>>

\* Mutant: the _consumerMap.erase(tid) is missing.
closeConsumerKeepMap(c) ==
  /\ IF c \in Registered
       THEN /\ PostEvent([type |-> "remove", peer |-> consumerIdToPeerId[c],
                          kind |-> KindOf[c], tid |-> c, paused |-> TRUE])
            /\ consumerIdToPeerId' = [consumerIdToPeerId EXCEPT ![c] = NoPeer]
            /\ UNCHANGED consumerMap
       ELSE UNCHANGED <<consumerMap, consumerIdToPeerId, mainq>>
  /\ UNCHANGED <<acked, dataConsumerMap>>

\* Mutant: only the audio branch notifies the observers.
closeConsumerAudioOnly(c) ==
  /\ IF c \in Registered
       THEN /\ IF KindOf[c] = "audio"
                 THEN PostEvent([type |-> "remove", peer |-> consumerIdToPeerId[c],
                                 kind |-> KindOf[c], tid |-> c, paused |-> TRUE])
                 ELSE UNCHANGED mainq
            /\ consumerIdToPeerId' = [consumerIdToPeerId EXCEPT ![c] = NoPeer]
            /\ consumerMap' = [consumerMap EXCEPT ![c] = "none"]
       ELSE UNCHANGED <<consumerMap, consumerIdToPeerId, mainq>>
  /\ UNCHANGED <<acked, dataConsumerMap>>

\* Mutant: the _consumerIdToPeerId.erase(tid) is missing.
closeConsumerKeepIndex(c) ==
  /\ IF c \in Registered
       THEN /\ PostEvent([type |-> "remove", peer |-> consumerIdToPeerId[c],
                          kind |-> KindOf[c], tid |-> c, paused |-> TRUE])
            /\ consumerMap' = [consumerMap EXCEPT ![c] = "none"]
            /\ UNCHANGED consumerIdToPeerId
       ELSE UNCHANGED <<consumerMap, consumerIdToPeerId, mainq>>
  /\ UNCHANGED <<acked, dataConsumerMap>>

\* onConsumerClosed's task: notify removal, close, erase index then map.
closeConsumer(c) ==
  /\ IF c \in Registered
       THEN /\ PostEvent([type |-> "remove", peer |-> consumerIdToPeerId[c],
                          kind |-> KindOf[c], tid |-> c, paused |-> TRUE])
            /\ consumerIdToPeerId' = [consumerIdToPeerId EXCEPT ![c] = NoPeer]
            /\ consumerMap' = [consumerMap EXCEPT ![c] = "none"]
       ELSE UNCHANGED <<consumerMap, consumerIdToPeerId, mainq>>
  /\ UNCHANGED <<acked, dataConsumerMap>>

\* The mediasoup thread runs the oldest posted task.  Every task first
\* locks its weak_ptr to the controller and does nothing once it is gone;
\* onDataConsumerClosed posts nothing, so its task is empty.
RunTask ==
  /\ Running /\ taskq # <<>>
  /\ taskq' = Tail(taskq)
  /\ LET t == Head(taskq) IN
       IF ~alive \/ t.type = "dataConsumerClosed"
         THEN UNCHANGED <<consumerMap, consumerIdToPeerId, mainq, acked,
                          dataConsumerMap>>
       ELSE CASE t.type = "newConsumer"     -> createNewConsumer(t.id, t.producerPaused)
              [] t.type = "newDataConsumer" -> createNewDataConsumer(t.id)
              [] t.type = "consumerPaused"  -> updateConsumer(t.id, TRUE)
              [] t.type = "consumerResumed" -> updateConsumer(t.id, FALSE)
              [] t.type = "consumerClosed"  -> closeConsumer(t.id)
  /\ TaskUnchanged

-----------------------------------------------------------------------------
(* The observer's callback thread                                           *)

\* Mutant: the create lambda only handles video consumers.
DeliverEventVideoOnly ==
  /\ Running /\ mainq # <<>>
  /\ mainq' = Tail(mainq)
  /\ LET e == Head(mainq) IN
       IF ~alive THEN UNCHANGED <<appTracks, appMuted>>
       ELSE /\ appMuted' = [appMuted EXCEPT ![e.peer][e.kind] = e.paused]
            /\ appTracks' =
                 CASE e.type = "create" /\ e.kind = "video" -> appTracks \cup {e.tid}
                   [] e.type = "create" /\ e.kind = "audio" -> appTracks
                   [] e.type = "remove" -> appTracks \ {e.tid}
                   [] e.type = "state"  -> appTracks
  /\ UNCHANGED <<device, sendTransport, recvTransport, micProducer,
                 producerMap, sourceMap, consumerMap, dataConsumerMap,
                 consumerIdToPeerId, taskq, reader, server, acked, sent,
                 destroyed, alive, fault>>

\* Deliver the oldest event; the lambda first locks the controller's
\* weak_ptr and skips the callback once the controller is gone.
DeliverEvent ==
  /\ Running /\ mainq # <<>>
  /\ mainq' = Tail(mainq)
  /\ LET e == Head(mainq) IN
       IF ~alive THEN UNCHANGED <<appTracks, appMuted>>
       ELSE /\ appMuted' = [appMuted EXCEPT ![e.peer][e.kind] = e.paused]
            /\ appTracks' = CASE e.type = "create" -> appTracks \cup {e.tid}
                              [] e.type = "remove" -> appTracks \ {e.tid}
                              [] e.type = "state"  -> appTracks
  /\ UNCHANGED <<device, sendTransport, recvTransport, micProducer,
                 producerMap, sourceMap, consumerMap, dataConsumerMap,
                 consumerIdToPeerId, taskq, reader, server, acked, sent,
                 destroyed, alive, fault>>

-----------------------------------------------------------------------------
(* Teardown                                                                 *)

\* destroy(): close the mic producer, Close() every _producerMap value
\* (nullptr values included), close and clear both consumer maps, and null
\* every source.  _consumerIdToPeerId is left as it is.
Destroy ==
  /\ AppCall
  /\ IF \E t \in Tracks : producerMap[t] = "null"
       THEN /\ fault' = "destroy"
            /\ UNCHANGED <<micProducer, producerMap, sourceMap, consumerMap,
                           dataConsumerMap, destroyed>>
       ELSE /\ micProducer' = "none"
            /\ producerMap' = [t \in Tracks |-> Nulled(producerMap[t])]
            /\ sourceMap' = [t \in Tracks |-> Nulled(sourceMap[t])]
            /\ consumerMap' = [c \in CIds |-> "none"]
            /\ dataConsumerMap' = {}
            /\ destroyed' = TRUE
            /\ UNCHANGED fault
  /\ UNCHANGED <<device, sendTransport, recvTransport, consumerIdToPeerId,
                 taskq, mainq, appTracks, appMuted, reader, server, acked,
                 sent, alive>>

\* RoomClient drops its last reference after destroy(); posted tasks and
\* events then fail to lock their weak_ptr.
Release ==
  /\ destroyed /\ alive
  /\ alive' = FALSE
  /\ UNCHANGED <<device, sendTransport, recvTransport, micProducer,
                 producerMap, sourceMap, consumerMap, dataConsumerMap,
                 consumerIdToPeerId, taskq, mainq, appTracks, appMuted,
                 reader, server, acked, sent, destroyed, fault>>

-----------------------------------------------------------------------------
Init ==
  /\ device = FALSE /\ sendTransport = FALSE /\ recvTransport = FALSE
  /\ micProducer = "none"
  /\ producerMap = [t \in Tracks |-> "nokey"]
  /\ sourceMap = [t \in Tracks |-> "nokey"]
  /\ consumerMap = [c \in CIds |-> "none"]
  /\ dataConsumerMap = {}
  /\ consumerIdToPeerId = [i \in Ids |-> NoPeer]
  /\ taskq = <<>> /\ mainq = <<>>
  /\ appTracks = {}
  /\ appMuted = [p \in Peers |-> [k \in Kinds |-> TRUE]]
  /\ reader = [t \in Tracks |-> "idle"]
  /\ server = [i \in Ids |-> "idle"]
  /\ acked = {} /\ sent = 0
  /\ destroyed = FALSE /\ alive = TRUE
  /\ fault = "none"

Next ==
  \/ SetMediasoupDevice \/ SetSendTransport \/ SetRecvTransport
  \/ \E b \in BOOLEAN : EnableAudio(b) \/ MuteAudio(b)
  \/ \E b \in BOOLEAN, t \in Tracks : EnableVideo(b, t)
  \/ \E t \in Tracks : InputFrameCheck(t) \/ InputFrameCall(t)
  \/ \E p \in Peers, b \in BOOLEAN : MuteAudioOf(p, b) \/ MuteVideo(p, b)
  \/ \E p \in Peers, k \in Kinds : IsMutedQuery(p, k)
  \/ \E c \in CIds, b \in BOOLEAN :
       SfuNewConsumer(c, b) \/ SfuConsumerPaused(c, b)
  \/ \E c \in CIds : SfuConsumerClosed(c)
  \/ \E d \in DIds : SfuNewDataConsumer(d) \/ SfuDataConsumerClosed(d)
  \/ RunTask \/ DeliverEvent
  \/ Destroy \/ Release

\* Both threads are rtc::Thread message loops that keep draining their
\* queues, so each is weakly fair.
Spec == Init /\ [][Next]_vars /\ WF_vars(RunTask) /\ WF_vars(DeliverEvent)

-----------------------------------------------------------------------------
(* Properties                                                               *)

TypeOK ==
  /\ device \in BOOLEAN /\ sendTransport \in BOOLEAN
  /\ recvTransport \in BOOLEAN
  /\ micProducer \in {"none", "live", "paused"}
  /\ producerMap \in [Tracks -> Slots]
  /\ sourceMap \in [Tracks -> Slots]
  /\ consumerMap \in [CIds -> {"none", "live", "paused"}]
  /\ dataConsumerMap \in SUBSET DIds
  /\ consumerIdToPeerId \in [Ids -> Peers \cup {NoPeer}]
  /\ taskq \in Seq(Task)
  /\ mainq \in Seq(Event)
  /\ appTracks \in SUBSET CIds
  /\ appMuted \in [Peers -> [Kinds -> BOOLEAN]]
  /\ reader \in [Tracks -> {"idle", "checked"}]
  /\ server \in [Ids -> {"idle", "open", "closed"}]
  /\ acked \in SUBSET Ids
  /\ sent \in 0..MaxMsgs
  /\ destroyed \in BOOLEAN /\ alive \in BOOLEAN
  /\ fault \in Faults

\* Every registered consumer has its entry in _consumerIdToPeerId, naming
\* the peer from its newConsumer request (createNewConsumer writes both,
\* onConsumerClosed erases both; a pause/close for an unknown or closed id
\* must not disturb either map).
ConsumerIndexed ==
  \A c \in Registered : consumerIdToPeerId[c] = PeerOf[c]

\* Once the callback thread has drained every event posted while the
\* controller was live, the observer's set of remote tracks is exactly the
\* set of registered consumers (create/remove events are posted in the
\* same mediasoup-thread step that changes _consumerMap, in FIFO order).
AppViewConsistent ==
  (~destroyed /\ mainq = <<>>) => appTracks = Registered

\* Liveness: the observer is eventually told of every consumer that
\* createNewConsumer registers (onCreateRemote*Track runs on the callback
\* thread), unless the consumer is closed first, the room is torn down or
\* the process has crashed.  Rests on the callback thread draining its
\* queue (weak fairness of DeliverEvent).
ConsumerShown ==
  \A c \in CIds :
    (c \in Registered) ~> (c \in appTracks \/ c \notin Registered \/ destroyed
                          \/ ~Running)

\* destroy() never calls Close() through a nullptr _producerMap value
\* (leave() after enableVideo(false, ...) or a repeated enableVideo call).
DestroySafe == fault # "destroy"

\* isAudioMuted(pid) / isVideoMuted(pid) never dereference the nullptr
\* that _consumerMap[tid] yields for an index entry without a consumer.
MuteQuerySafe == fault # "query"

\* A reader thread in inputFrame never calls InputFrame through a
\* _sourceMap slot that enableVideo(false) or destroy() emptied after the
\* reader's null check.
InputFrameSafe == fault # "inputFrame"

\* muteAudio(pid, muted) / muteVideo(pid, muted) pause or resume every
\* consumer of that peer and kind (the loop must not stop early at an index
\* entry of the peer that has no consumer).
MuteAppliesToAll ==
  [][\A p \in Peers, k \in Kinds, b \in BOOLEAN :
       MuteConsumers(p, k, b) =>
         \A c \in PeerConsumers(p, k) :
            consumerMap'[c] = IF b THEN "paused" ELSE "live"]_vars

\* The registry refines RegistryAbstract: seen through _consumerMap and the
\* consumer-id part of _consumerIdToPeerId, every step of every thread
\* (createNewConsumer, updateConsumer, onConsumerClosed's task, muteAudio /
\* muteVideo(pid), destroy(), and all steps that touch neither map) is a
\* Register, SetStates, Unregister or Clear of the abstract registry, or
\* leaves it unchanged.
Registry == INSTANCE RegistryAbstract
              WITH consumers <- consumerMap,
                   peerIndex <- [c \in CIds |-> consumerIdToPeerId[c]]

RegistryRefined == Registry!Spec
=============================================================================
