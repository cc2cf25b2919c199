---------------------- MODULE MediaController_proofs ----------------------
(***************************************************************************)
(* Machine-checked proofs about MediaController, for every value of the    *)
(* constants satisfying ConstAssumption.                                    *)
(*                                                                          *)
(* TypeOK alone is not inductive: updateConsumer and onConsumerClosed put  *)
(* _consumerIdToPeerId[tid] into the observer event, and that value is a   *)
(* peer only because every registered consumer is indexed.  So TypeOK and  *)
(* ConsumerIndexed are proved together, as the inductive invariant IInv.   *)
(***************************************************************************)
EXTENDS MediaController, TLAPS

USE ConstAssumption

IInv == TypeOK /\ ConsumerIndexed

\* The part of the state a mediasoup-thread task may change, with the
\* index property that constrains it.
RegistryOK ==
  /\ consumerMap \in [CIds -> {"none", "live", "paused"}]
  /\ dataConsumerMap \in SUBSET DIds
  /\ consumerIdToPeerId \in [Ids -> Peers \cup {NoPeer}]
  /\ mainq \in Seq(Event)
  /\ acked \in SUBSET Ids
  /\ ConsumerIndexed

-----------------------------------------------------------------------------
(* Actions that touch neither _consumerMap nor the index keep              *)
(* ConsumerIndexed; the lemma is cited for every such action.              *)

LEMMA IndexFrame ==
  ASSUME ConsumerIndexed,
         UNCHANGED <<consumerMap, consumerIdToPeerId>>
  PROVE  ConsumerIndexed'
BY DEF ConsumerIndexed, Registered

LEMMA InitIInv == Init => IInv
<1> SUFFICES ASSUME Init PROVE IInv
  OBVIOUS
<1>1. Registered = {}
  BY DEF Init, Registered
<1>2. ConsumerIndexed
  BY <1>1 DEF ConsumerIndexed
<1>3. 0 \in 0..MaxMsgs
  OBVIOUS
<1>4. TypeOK
  <2>1. taskq \in Seq(Task) /\ mainq \in Seq(Event)
    BY DEF Init
  <2>2. appMuted \in [Peers -> [Kinds -> BOOLEAN]]
    BY DEF Init
  <2>3. /\ producerMap \in [Tracks -> Slots] /\ sourceMap \in [Tracks -> Slots]
        /\ reader \in [Tracks -> {"idle", "checked"}]
    BY DEF Init, Slots
  <2>4. /\ consumerIdToPeerId \in [Ids -> Peers \cup {NoPeer}]
        /\ server \in [Ids -> {"idle", "open", "closed"}]
        /\ consumerMap \in [CIds -> {"none", "live", "paused"}]
    BY DEF Init
  <2>5. fault \in Faults /\ sent \in 0..MaxMsgs
    BY <1>3 DEF Init, Faults
  <2>. QED  BY <2>1, <2>2, <2>3, <2>4, <2>5 DEF Init, TypeOK
<1>. QED  BY <1>2, <1>4 DEF IInv

LEMMA SetterIInv ==
  IInv /\ (SetMediasoupDevice \/ SetSendTransport \/ SetRecvTransport)
    => IInv'
BY IndexFrame DEF IInv, TypeOK, SetMediasoupDevice, SetSendTransport,
                  SetRecvTransport

LEMMA LocalIInv ==
  ASSUME IInv, NEW b \in BOOLEAN, NEW t \in Tracks,
         EnableAudio(b) \/ MuteAudio(b) \/ EnableVideo(b, t)
  PROVE  IInv'
<1>1. UNCHANGED <<consumerMap, consumerIdToPeerId>>
  BY DEF EnableAudio, MuteAudio, EnableVideo, LocalUnchanged
<1>2. TypeOK'
  BY DEF IInv, TypeOK, EnableAudio, MuteAudio, EnableVideo, LocalUnchanged,
         Touch, Slots
<1>. QED  BY <1>1, <1>2, IndexFrame DEF IInv

LEMMA ReaderIInv ==
  ASSUME IInv, NEW t \in Tracks, InputFrameCheck(t) \/ InputFrameCall(t)
  PROVE  IInv'
<1>1. UNCHANGED <<consumerMap, consumerIdToPeerId>>
  BY DEF InputFrameCheck, InputFrameCall
<1>2. TypeOK'
  BY DEF IInv, TypeOK, InputFrameCheck, InputFrameCall, Touch, Slots, Faults
<1>. QED  BY <1>1, <1>2, IndexFrame DEF IInv

LEMMA MuteConsumersIInv ==
  ASSUME IInv, NEW p \in Peers, NEW k \in Kinds, NEW b \in BOOLEAN,
         MuteConsumers(p, k, b)
  PROVE  IInv'
<1>1. PICK done \in SUBSET PeerConsumers(p, k) :
        consumerMap' = [c \in CIds |->
                          IF c \in done
                            THEN IF b THEN "paused" ELSE "live"
                            ELSE consumerMap[c]]
  BY DEF MuteConsumers
<1>2. done \subseteq Registered
  BY DEF PeerConsumers
<1>3. Registered' = Registered
  BY <1>1, <1>2 DEF Registered
<1>4. ConsumerIndexed'
  BY <1>3 DEF MuteConsumers, IInv, ConsumerIndexed
<1>5. TypeOK'
  BY <1>1 DEF IInv, TypeOK, MuteConsumers
<1>. QED  BY <1>4, <1>5 DEF IInv

LEMMA IsMutedQueryIInv ==
  ASSUME IInv, NEW p \in Peers, NEW k \in Kinds, IsMutedQuery(p, k)
  PROVE  IInv'
BY IndexFrame DEF IInv, TypeOK, IsMutedQuery, Faults

LEMMA SfuSendIInv ==
  ASSUME IInv, NEW type, NEW id \in Ids, NEW pp \in BOOLEAN,
         NEW st \in {"idle", "open", "closed"},
         [type |-> type, id |-> id, producerPaused |-> pp] \in Task,
         SfuSend(type, id, pp, st)
  PROVE  IInv'
BY IndexFrame DEF IInv, TypeOK, SfuSend

LEMMA SfuConsumerIInv ==
  ASSUME IInv, NEW c \in CIds, NEW b \in BOOLEAN,
         SfuNewConsumer(c, b) \/ SfuConsumerPaused(c, b) \/ SfuConsumerClosed(c)
  PROVE  IInv'
<1>1. c \in Ids
  BY DEF Ids
<1>2. CASE SfuNewConsumer(c, b)
  BY <1>1, <1>2, SfuSendIInv DEF SfuNewConsumer, Task, ConsumerTaskTypes
<1>3. CASE SfuConsumerPaused(c, b)
  <2>1. [type |-> IF b THEN "consumerPaused" ELSE "consumerResumed",
         id |-> c, producerPaused |-> FALSE] \in Task
    BY DEF Task, ConsumerTaskTypes
  <2>. QED  BY <1>1, <1>3, <2>1, SfuSendIInv DEF SfuConsumerPaused
<1>4. CASE SfuConsumerClosed(c)
  BY <1>1, <1>4, SfuSendIInv DEF SfuConsumerClosed, Task, ConsumerTaskTypes
<1>. QED  BY <1>2, <1>3, <1>4

LEMMA SfuDataIInv ==
  ASSUME IInv, NEW d \in DIds,
         SfuNewDataConsumer(d) \/ SfuDataConsumerClosed(d)
  PROVE  IInv'
<1>1. d \in Ids
  BY DEF Ids
<1>2. CASE SfuNewDataConsumer(d)
  BY <1>1, <1>2, SfuSendIInv DEF SfuNewDataConsumer, Task, DataTaskTypes
<1>3. CASE SfuDataConsumerClosed(d)
  BY <1>1, <1>3, SfuSendIInv DEF SfuDataConsumerClosed, Task, DataTaskTypes
<1>. QED  BY <1>2, <1>3
-----------------------------------------------------------------------------
(* The mediasoup-thread task handlers keep RegistryOK.                      *)

LEMMA CreateRegistryOK ==
  ASSUME RegistryOK, NEW c \in CIds, NEW pp \in BOOLEAN,
         createNewConsumer(c, pp)
  PROVE  RegistryOK'
<1>1. CASE ConsumeOn /\ recvTransport
  <2>1. [type |-> "create", peer |-> PeerOf[c], kind |-> KindOf[c],
         tid |-> c, paused |-> pp] \in Event
    BY DEF Event, Ids
  <2>2. c \in Ids
    BY DEF Ids
  <2>3. Registered' = Registered \cup {c}
    BY <1>1 DEF createNewConsumer, Registered, RegistryOK
  <2>4. consumerIdToPeerId' = [consumerIdToPeerId EXCEPT ![c] = PeerOf[c]]
    BY <1>1 DEF createNewConsumer
  <2>5. ConsumerIndexed'
    <3> SUFFICES ASSUME NEW x \in Registered'
                 PROVE  consumerIdToPeerId'[x] = PeerOf[x]
      BY DEF ConsumerIndexed
    <3>1. CASE x = c
      BY <2>2, <2>4, <3>1 DEF RegistryOK
    <3>2. CASE x # c
      <4>1. x \in Registered
        BY <2>3, <3>2
      <4>. QED  BY <2>4, <3>2, <4>1 DEF RegistryOK, ConsumerIndexed
    <3>. QED  BY <3>1, <3>2
  <2>. QED  BY <1>1, <2>1, <2>2, <2>4, <2>5 DEF createNewConsumer, RegistryOK,
                                               PostEvent
<1>2. CASE ~(ConsumeOn /\ recvTransport)
  BY <1>2, IndexFrame DEF createNewConsumer, RegistryOK
<1>. QED  BY <1>1, <1>2

LEMMA CreateDataRegistryOK ==
  ASSUME RegistryOK, NEW d \in DIds, createNewDataConsumer(d)
  PROVE  RegistryOK'
<1>1. CASE ConsumeOn /\ DataChannelOn /\ recvTransport
  <2>1. d \in Ids /\ d \notin CIds
    BY DEF Ids
  <2>2. UNCHANGED consumerMap
    BY <1>1 DEF createNewDataConsumer
  <2>3. ConsumerIndexed'
    <3> SUFFICES ASSUME NEW x \in Registered'
                 PROVE  consumerIdToPeerId'[x] = PeerOf[x]
      BY DEF ConsumerIndexed
    <3>1. x \in Registered /\ x \in CIds
      BY <2>2 DEF Registered
    <3>2. consumerIdToPeerId' = [consumerIdToPeerId EXCEPT ![d] = PeerOf[d]]
      BY <1>1 DEF createNewDataConsumer
    <3>. QED  BY <2>1, <3>1, <3>2 DEF RegistryOK, ConsumerIndexed
  <2>. QED  BY <1>1, <2>1, <2>3 DEF createNewDataConsumer, RegistryOK
<1>2. CASE ~(ConsumeOn /\ DataChannelOn /\ recvTransport)
  BY <1>2, IndexFrame DEF createNewDataConsumer, RegistryOK
<1>. QED  BY <1>1, <1>2

LEMMA UpdateRegistryOK ==
  ASSUME RegistryOK, NEW c \in CIds, NEW paused \in BOOLEAN,
         updateConsumer(c, paused)
  PROVE  RegistryOK'
<1>1. CASE c \in Registered
  <2>1. consumerIdToPeerId[c] = PeerOf[c] /\ PeerOf[c] \in Peers
    BY <1>1 DEF RegistryOK, ConsumerIndexed, Ids
  <2>2. [type |-> "state", peer |-> consumerIdToPeerId[c], kind |-> KindOf[c],
         tid |-> c, paused |-> paused] \in Event
    BY <2>1 DEF Event
  <2>3. Registered' = Registered
    BY <1>1 DEF updateConsumer, Registered, RegistryOK
  <2>4. ConsumerIndexed'
    BY <2>3 DEF updateConsumer, ConsumerIndexed, RegistryOK
  <2>. QED  BY <1>1, <2>2, <2>4 DEF updateConsumer, RegistryOK, PostEvent
<1>2. CASE c \notin Registered
  BY <1>2, IndexFrame DEF updateConsumer, RegistryOK
<1>. QED  BY <1>1, <1>2

LEMMA CloseRegistryOK ==
  ASSUME RegistryOK, NEW c \in CIds, closeConsumer(c)
  PROVE  RegistryOK'
<1>1. CASE c \in Registered
  <2>1. consumerIdToPeerId[c] = PeerOf[c] /\ PeerOf[c] \in Peers
    BY <1>1 DEF RegistryOK, ConsumerIndexed, Ids
  <2>2. [type |-> "remove", peer |-> consumerIdToPeerId[c], kind |-> KindOf[c],
         tid |-> c, paused |-> TRUE] \in Event
    BY <2>1 DEF Event
  <2>3. Registered' = Registered \ {c}
    BY <1>1 DEF closeConsumer, Registered, RegistryOK
  <2>4. consumerIdToPeerId' = [consumerIdToPeerId EXCEPT ![c] = NoPeer]
    BY <1>1 DEF closeConsumer
  <2>5. ConsumerIndexed'
    <3> SUFFICES ASSUME NEW x \in Registered'
                 PROVE  consumerIdToPeerId'[x] = PeerOf[x]
      BY DEF ConsumerIndexed
    <3>1. x \in Registered /\ x # c
      BY <2>3
    <3>. QED  BY <2>4, <3>1 DEF RegistryOK, ConsumerIndexed
  <2>6. c \in Ids
    BY DEF Ids
  <2>7. consumerMap' \in [CIds -> {"none", "live", "paused"}]
    BY <1>1 DEF closeConsumer, RegistryOK
  <2>8. consumerIdToPeerId' \in [Ids -> Peers \cup {NoPeer}]
    BY <2>4, <2>6 DEF RegistryOK
  <2>9. mainq' \in Seq(Event)
    BY <1>1, <2>2 DEF closeConsumer, PostEvent, RegistryOK
  <2>10. dataConsumerMap' = dataConsumerMap /\ acked' = acked
    BY DEF closeConsumer
  <2>. QED  BY <2>5, <2>7, <2>8, <2>9, <2>10 DEF RegistryOK
<1>2. CASE c \notin Registered
  BY <1>2, IndexFrame DEF closeConsumer, RegistryOK
<1>. QED  BY <1>1, <1>2

LEMMA RunTaskIInv ==
  ASSUME IInv, RunTask
  PROVE  IInv'
<1> DEFINE t == Head(taskq)
<1>1. taskq # <<>> /\ taskq' = Tail(taskq)
  BY DEF RunTask
<1>2. t \in Task /\ taskq' \in Seq(Task)
  BY <1>1 DEF IInv, TypeOK
<1>3. RegistryOK
  BY DEF IInv, TypeOK, RegistryOK
<1>4. TaskUnchanged
  BY DEF RunTask
<1>5. RegistryOK'
  <2>1. CASE ~alive \/ t.type = "dataConsumerClosed"
    BY <1>3, <2>1, IndexFrame DEF RunTask, RegistryOK
  <2>2. CASE alive /\ t.type = "newConsumer"
    <3>1. t.id \in CIds /\ t.producerPaused \in BOOLEAN
      BY <1>2, <2>2 DEF Task, DataTaskTypes
    <3>2. createNewConsumer(t.id, t.producerPaused)
      BY <2>2 DEF RunTask
    <3>. QED  BY <1>3, <3>1, <3>2, CreateRegistryOK
  <2>3. CASE alive /\ t.type = "newDataConsumer"
    <3>1. t.id \in DIds
      BY <1>2, <2>3 DEF Task, ConsumerTaskTypes
    <3>2. createNewDataConsumer(t.id)
      BY <2>3 DEF RunTask
    <3>. QED  BY <1>3, <3>1, <3>2, CreateDataRegistryOK
  <2>4. CASE alive /\ t.type \in {"consumerPaused", "consumerResumed"}
    <3>1. t.id \in CIds
      BY <1>2, <2>4 DEF Task, DataTaskTypes
    <3>2. updateConsumer(t.id, t.type = "consumerPaused")
      BY <2>4 DEF RunTask
    <3>. QED  BY <1>3, <3>1, <3>2, UpdateRegistryOK
  <2>5. CASE alive /\ t.type = "consumerClosed"
    <3>1. t.id \in CIds
      BY <1>2, <2>5 DEF Task, DataTaskTypes
    <3>2. closeConsumer(t.id)
      BY <2>5 DEF RunTask
    <3>. QED  BY <1>3, <3>1, <3>2, CloseRegistryOK
  <2>. QED
    BY <1>2, <2>1, <2>2, <2>3, <2>4, <2>5
    DEF Task, ConsumerTaskTypes, DataTaskTypes
<1>. QED  BY <1>2, <1>4, <1>5 DEF IInv, TypeOK, RegistryOK, TaskUnchanged

-----------------------------------------------------------------------------
(* The callback thread, teardown and release.                               *)

LEMMA DeliverEventIInv ==
  ASSUME IInv, DeliverEvent
  PROVE  IInv'
<1> DEFINE e == Head(mainq)
<1>1. mainq # <<>> /\ mainq' = Tail(mainq) /\ mainq' \in Seq(Event)
  BY DEF DeliverEvent, IInv, TypeOK
<1>2. e \in Event
  BY <1>1 DEF IInv, TypeOK
<1>3. UNCHANGED <<consumerMap, consumerIdToPeerId>>
  BY DEF DeliverEvent
<1>4. appMuted' \in [Peers -> [Kinds -> BOOLEAN]]
  <2>1. CASE ~alive
    BY <2>1 DEF DeliverEvent, IInv, TypeOK
  <2>2. CASE alive
    <3>1. appMuted' = [appMuted EXCEPT ![e.peer][e.kind] = e.paused]
      BY <2>2 DEF DeliverEvent
    <3>. QED  BY <1>2, <3>1 DEF Event, IInv, TypeOK
  <2>. QED  BY <2>1, <2>2
<1>5. appTracks' \in SUBSET CIds
  <2>1. CASE ~alive
    BY <2>1 DEF DeliverEvent, IInv, TypeOK
  <2>2. CASE alive
    <3>1. appTracks' \in {appTracks \cup {e.tid}, appTracks \ {e.tid},
                          appTracks}
      BY <1>2, <2>2 DEF DeliverEvent, Event
    <3>. QED  BY <1>2, <3>1 DEF Event, IInv, TypeOK
  <2>. QED  BY <2>1, <2>2
<1>6. TypeOK'
  BY <1>1, <1>3, <1>4, <1>5 DEF DeliverEvent, IInv, TypeOK
<1>. QED  BY <1>3, <1>6, IndexFrame DEF IInv

LEMMA DestroyIInv ==
  ASSUME IInv, Destroy
  PROVE  IInv'
<1>1. CASE \E t \in Tracks : producerMap[t] = "null"
  <2>1. UNCHANGED <<consumerMap, consumerIdToPeerId>>
    BY <1>1 DEF Destroy
  <2>2. TypeOK'
    BY <1>1 DEF Destroy, IInv, TypeOK, Faults
  <2>. QED  BY <2>1, <2>2, IndexFrame DEF IInv
<1>2. CASE ~\E t \in Tracks : producerMap[t] = "null"
  <2>1. Registered' = {}
    BY <1>2 DEF Destroy, Registered
  <2>2. ConsumerIndexed'
    BY <2>1 DEF ConsumerIndexed
  <2>3. /\ producerMap' \in [Tracks -> Slots]
        /\ sourceMap' \in [Tracks -> Slots]
    BY <1>2 DEF Destroy, IInv, TypeOK, Nulled, Slots
  <2>4. TypeOK'
    BY <1>2, <2>3 DEF Destroy, IInv, TypeOK
  <2>. QED  BY <2>2, <2>4 DEF IInv
<1>. QED  BY <1>1, <1>2

LEMMA ReleaseIInv ==
  ASSUME IInv, Release
  PROVE  IInv'
BY IndexFrame DEF IInv, TypeOK, Release

-----------------------------------------------------------------------------
(* Every step of Next, and every stutter, keeps IInv.                       *)

LEMMA NextIInv ==
  ASSUME IInv, [Next]_vars
  PROVE  IInv'
<1>1. CASE SetMediasoupDevice \/ SetSendTransport \/ SetRecvTransport
  BY <1>1, SetterIInv
<1>2. CASE \E b \in BOOLEAN : EnableAudio(b) \/ MuteAudio(b)
  <2>1. PICK b \in BOOLEAN : EnableAudio(b) \/ MuteAudio(b)
    BY <1>2
  <2>2. UNCHANGED <<consumerMap, consumerIdToPeerId>>
    BY <2>1 DEF EnableAudio, MuteAudio, LocalUnchanged
  <2>3. TypeOK'
    BY <2>1 DEF IInv, TypeOK, EnableAudio, MuteAudio, LocalUnchanged
  <2>. QED  BY <2>2, <2>3, IndexFrame DEF IInv
<1>3. CASE \E b \in BOOLEAN, t \in Tracks : EnableVideo(b, t)
  BY <1>3, LocalIInv
<1>4. CASE \E t \in Tracks : InputFrameCheck(t) \/ InputFrameCall(t)
  BY <1>4, ReaderIInv
<1>5. CASE \E p \in Peers, b \in BOOLEAN : MuteAudioOf(p, b) \/ MuteVideo(p, b)
  <2>1. "audio" \in Kinds /\ "video" \in Kinds
    BY DEF Kinds
  <2>. QED  BY <1>5, <2>1, MuteConsumersIInv DEF MuteAudioOf, MuteVideo
<1>6. CASE \E p \in Peers, k \in Kinds : IsMutedQuery(p, k)
  BY <1>6, IsMutedQueryIInv
<1>7. CASE \E c \in CIds, b \in BOOLEAN :
             SfuNewConsumer(c, b) \/ SfuConsumerPaused(c, b)
  BY <1>7, SfuConsumerIInv
<1>8. CASE \E c \in CIds : SfuConsumerClosed(c)
  <2>1. PICK c \in CIds : SfuConsumerClosed(c)
    BY <1>8
  <2>. QED  BY <2>1, SfuConsumerIInv
<1>9. CASE \E d \in DIds : SfuNewDataConsumer(d) \/ SfuDataConsumerClosed(d)
  BY <1>9, SfuDataIInv
<1>10. CASE RunTask
  BY <1>10, RunTaskIInv
<1>11. CASE DeliverEvent
  BY <1>11, DeliverEventIInv
<1>12. CASE Destroy
  BY <1>12, DestroyIInv
<1>13. CASE Release
  BY <1>13, ReleaseIInv
<1>14. CASE UNCHANGED vars
  <2>1. UNCHANGED <<consumerMap, consumerIdToPeerId>>
    BY <1>14 DEF vars
  <2>2. TypeOK'
    BY <1>14 DEF vars, IInv, TypeOK
  <2>. QED  BY <2>1, <2>2, IndexFrame DEF IInv
<1>. QED  BY <1>1, <1>2, <1>3, <1>4, <1>5, <1>6, <1>7, <1>8, <1>9, <1>10,
             <1>11, <1>12, <1>13, <1>14 DEF Next

-----------------------------------------------------------------------------
(* Theorems                                                                 *)

\* The conjunction of the type invariant and ConsumerIndexed holds in every
\* reachable state: whatever the order of application calls, SFU
\* notifications, posted tasks and observer callbacks, and for any number of
\* tracks, peers and consumer ids.
THEOREM IInvInvariant == Spec => []IInv
<1>1. Init => IInv
  BY InitIInv
<1>2. IInv /\ [Next]_vars => IInv'
  BY NextIInv
<1>. QED  BY <1>1, <1>2, PTL DEF Spec

\* Every variable of the controller, the two posted-task queues and the
\* observer keeps its type: in particular every observer event names a
\* real peer, which is the peer _consumerIdToPeerId yields in
\* updateConsumer and onConsumerClosed.
THEOREM TypeCorrect == Spec => []TypeOK
<1>1. IInv => TypeOK
  BY DEF IInv
<1>. QED  BY <1>1, IInvInvariant, PTL

\* Every consumer in _consumerMap has its _consumerIdToPeerId entry, naming
\* the peer of its newConsumer request, in every reachable state: pause,
\* resume and close tasks for unknown or already closed ids, and destroy(),
\* never leave a consumer without its index entry.
THEOREM ConsumerIndexedInvariant == Spec => []ConsumerIndexed
<1>1. IInv => ConsumerIndexed
  BY DEF IInv
<1>. QED  BY <1>1, IInvInvariant, PTL

=============================================================================
