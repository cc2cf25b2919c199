------------------- MODULE MediaController_refinement -------------------
(***************************************************************************)
(* Proof that MediaController implements RegistryAbstract under the        *)
(* refinement mapping of MediaController!Registry: the abstract consumers  *)
(* are _consumerMap, the abstract index is _consumerIdToPeerId restricted  *)
(* to consumer ids.                                                          *)
(*                                                                          *)
(* The mapping needs the invariant IInv of MediaController_proofs: its     *)
(* type part makes _consumerIdToPeerId a function on every id (so that a   *)
(* data-consumer write is invisible through the mapping) and every posted  *)
(* task carry an id of its kind.  Initial states map to the abstract       *)
(* initial state, and every step to an abstract step or a stutter.         *)
(***************************************************************************)
EXTENDS MediaController_proofs

\* The abstract index, as the mapping defines it.
PI == [c \in CIds |-> consumerIdToPeerId[c]]

\* A step that writes neither map is an abstract stutter.
LEMMA RegistryFrame ==
  ASSUME UNCHANGED <<consumerMap, consumerIdToPeerId>>
  PROVE  [Registry!Next]_Registry!avars
BY DEF Registry!avars

LEMMA InitRefines == Init => Registry!Init
<1> SUFFICES ASSUME Init PROVE Registry!Init
  OBVIOUS
<1>1. consumerMap = [c \in CIds |-> "none"]
  BY DEF Init
<1>2. PI = [c \in CIds |-> NoPeer]
  BY DEF Init, PI, Ids
<1>. QED  BY <1>1, <1>2 DEF Registry!Init, PI

LEMMA MuteRefines ==
  ASSUME IInv, NEW p \in Peers, NEW k \in Kinds, NEW b \in BOOLEAN,
         MuteConsumers(p, k, b)
  PROVE  [Registry!Next]_Registry!avars
<1> DEFINE st == IF b THEN "paused" ELSE "live"
<1>1. PICK done \in SUBSET PeerConsumers(p, k) :
        consumerMap' = [c \in CIds |-> IF c \in done THEN st
                                                     ELSE consumerMap[c]]
  BY DEF MuteConsumers
<1>2. done \subseteq Registry!Held
  BY DEF PeerConsumers, Registered, Registry!Held
<1>3. UNCHANGED consumerIdToPeerId
  BY DEF MuteConsumers
<1>4. Registry!SetStates(done, st)
  BY <1>1, <1>2, <1>3 DEF Registry!SetStates
<1>5. done \in SUBSET CIds /\ st \in {"live", "paused"}
  BY DEF PeerConsumers, Registered
<1>. QED  BY <1>4, <1>5 DEF Registry!Next

-----------------------------------------------------------------------------
(* The four mediasoup-thread task handlers.                                 *)

LEMMA CreateRefines ==
  ASSUME IInv, NEW c \in CIds, NEW pp \in BOOLEAN, createNewConsumer(c, pp)
  PROVE  [Registry!Next]_Registry!avars
<1>1. CASE ConsumeOn /\ recvTransport
  <2>1. consumerMap' = [consumerMap EXCEPT ![c] = "live"]
    BY <1>1 DEF createNewConsumer
  <2>2. consumerIdToPeerId' = [consumerIdToPeerId EXCEPT ![c] = PeerOf[c]]
    BY <1>1 DEF createNewConsumer
  <2>3. PI' = [PI EXCEPT ![c] = PeerOf[c]]
    BY <2>2 DEF PI, IInv, TypeOK, Ids
  <2>4. Registry!Register(c)
    BY <2>1, <2>3 DEF Registry!Register, PI
  <2>. QED  BY <2>4 DEF Registry!Next
<1>2. CASE ~(ConsumeOn /\ recvTransport)
  BY <1>2, RegistryFrame DEF createNewConsumer
<1>. QED  BY <1>1, <1>2

LEMMA CreateDataRefines ==
  ASSUME IInv, NEW d \in DIds, createNewDataConsumer(d)
  PROVE  [Registry!Next]_Registry!avars
<1>1. CASE ConsumeOn /\ DataChannelOn /\ recvTransport
  <2>1. consumerIdToPeerId' = [consumerIdToPeerId EXCEPT ![d] = PeerOf[d]]
    BY <1>1 DEF createNewDataConsumer
  <2>2. d \notin CIds
    BY ConstAssumption, Zenon
  <2>3. PI' = PI
    BY <2>1, <2>2 DEF PI, IInv, TypeOK, Ids
  <2>4. UNCHANGED consumerMap
    BY <1>1 DEF createNewDataConsumer
  <2>. QED  BY <2>3, <2>4 DEF Registry!avars, PI
<1>2. CASE ~(ConsumeOn /\ DataChannelOn /\ recvTransport)
  BY <1>2, RegistryFrame DEF createNewDataConsumer
<1>. QED  BY <1>1, <1>2

LEMMA UpdateRefines ==
  ASSUME IInv, NEW c \in CIds, NEW paused \in BOOLEAN, updateConsumer(c, paused)
  PROVE  [Registry!Next]_Registry!avars
<1>1. CASE c \in Registered
  <2> DEFINE st == IF paused THEN "paused" ELSE "live"
  <2>1. consumerMap' = [consumerMap EXCEPT ![c] = st]
    BY <1>1 DEF updateConsumer
  <2>2. consumerMap' = [x \in CIds |-> IF x \in {c} THEN st
                                                    ELSE consumerMap[x]]
    BY <2>1 DEF IInv, TypeOK
  <2>3. Registry!SetStates({c}, st)
    BY <1>1, <2>2 DEF updateConsumer, Registry!SetStates, Registry!Held,
                      Registered
  <2>. QED  BY <2>3 DEF Registry!Next
<1>2. CASE c \notin Registered
  BY <1>2, RegistryFrame DEF updateConsumer
<1>. QED  BY <1>1, <1>2

LEMMA CloseRefines ==
  ASSUME IInv, NEW c \in CIds, closeConsumer(c)
  PROVE  [Registry!Next]_Registry!avars
<1>1. CASE c \in Registered
  <2>1. consumerMap' = [consumerMap EXCEPT ![c] = "none"]
    BY <1>1 DEF closeConsumer
  <2>2. consumerIdToPeerId' = [consumerIdToPeerId EXCEPT ![c] = NoPeer]
    BY <1>1 DEF closeConsumer
  <2>3. PI' = [PI EXCEPT ![c] = NoPeer]
    BY <2>2 DEF PI, IInv, TypeOK, Ids
  <2>4. Registry!Unregister(c)
    BY <1>1, <2>1, <2>3 DEF Registry!Unregister, Registry!Held, Registered,
                            PI
  <2>. QED  BY <2>4 DEF Registry!Next
<1>2. CASE c \notin Registered
  BY <1>2, RegistryFrame DEF closeConsumer
<1>. QED  BY <1>1, <1>2
LEMMA RunTaskRefines ==
  ASSUME IInv, RunTask
  PROVE  [Registry!Next]_Registry!avars
<1> DEFINE t == Head(taskq)
<1>1. taskq # <<>> /\ t \in Task
  BY DEF RunTask, IInv, TypeOK
<1>2. CASE ~alive \/ t.type = "dataConsumerClosed"
  BY <1>2, RegistryFrame DEF RunTask
<1>3. CASE alive /\ t.type = "newConsumer"
  <2>1. t.id \in CIds /\ t.producerPaused \in BOOLEAN
    BY <1>1, <1>3 DEF Task, DataTaskTypes
  <2>2. createNewConsumer(t.id, t.producerPaused)
    BY <1>3 DEF RunTask
  <2>. QED  BY <2>1, <2>2, CreateRefines
<1>4. CASE alive /\ t.type = "newDataConsumer"
  <2>1. t.id \in DIds
    BY <1>1, <1>4 DEF Task, ConsumerTaskTypes
  <2>2. createNewDataConsumer(t.id)
    BY <1>4 DEF RunTask
  <2>. QED  BY <2>1, <2>2, CreateDataRefines
<1>5. CASE alive /\ t.type \in {"consumerPaused", "consumerResumed"}
  <2>1. t.id \in CIds
    BY <1>1, <1>5 DEF Task, DataTaskTypes
  <2>2. updateConsumer(t.id, t.type = "consumerPaused")
    BY <1>5 DEF RunTask
  <2>. QED  BY <2>1, <2>2, UpdateRefines
<1>6. CASE alive /\ t.type = "consumerClosed"
  <2>1. t.id \in CIds
    BY <1>1, <1>6 DEF Task, DataTaskTypes
  <2>2. closeConsumer(t.id)
    BY <1>6 DEF RunTask
  <2>. QED  BY <2>1, <2>2, CloseRefines
<1>. QED
  BY <1>1, <1>2, <1>3, <1>4, <1>5, <1>6 DEF Task, ConsumerTaskTypes,
                                            DataTaskTypes

\* destroy() clears _consumerMap and keeps the index: an abstract Clear.
LEMMA DestroyRefines ==
  ASSUME Destroy
  PROVE  [Registry!Next]_Registry!avars
<1>1. CASE \E t \in Tracks : producerMap[t] = "null"
  BY <1>1, RegistryFrame DEF Destroy
<1>2. CASE ~\E t \in Tracks : producerMap[t] = "null"
  <2>1. Registry!Clear
    BY <1>2 DEF Destroy, Registry!Clear
  <2>. QED  BY <2>1 DEF Registry!Next
<1>. QED  BY <1>1, <1>2

-----------------------------------------------------------------------------
(* Every step of Next maps to a step of the abstract registry.              *)

LEMMA NextRefines ==
  ASSUME IInv, [Next]_vars
  PROVE  [Registry!Next]_Registry!avars
<1>1. CASE \/ SetMediasoupDevice \/ SetSendTransport \/ SetRecvTransport
           \/ \E b \in BOOLEAN : EnableAudio(b) \/ MuteAudio(b)
           \/ \E b \in BOOLEAN, t \in Tracks : EnableVideo(b, t)
           \/ \E t \in Tracks : InputFrameCheck(t) \/ InputFrameCall(t)
           \/ \E p \in Peers, k \in Kinds : IsMutedQuery(p, k)
  <2>1. UNCHANGED <<consumerMap, consumerIdToPeerId>>
    BY <1>1 DEF SetMediasoupDevice, SetSendTransport, SetRecvTransport,
                EnableAudio, MuteAudio, EnableVideo, LocalUnchanged,
                InputFrameCheck, InputFrameCall, IsMutedQuery
  <2>. QED  BY <2>1, RegistryFrame
<1>2. CASE \E p \in Peers, b \in BOOLEAN : MuteAudioOf(p, b) \/ MuteVideo(p, b)
  <2>1. "audio" \in Kinds /\ "video" \in Kinds
    BY DEF Kinds
  <2>. QED  BY <1>2, <2>1, MuteRefines DEF MuteAudioOf, MuteVideo
<1>3. CASE \/ \E c \in CIds, b \in BOOLEAN :
                SfuNewConsumer(c, b) \/ SfuConsumerPaused(c, b)
           \/ \E c \in CIds : SfuConsumerClosed(c)
           \/ \E d \in DIds : SfuNewDataConsumer(d) \/ SfuDataConsumerClosed(d)
  <2>1. UNCHANGED <<consumerMap, consumerIdToPeerId>>
    BY <1>3 DEF SfuNewConsumer, SfuConsumerPaused, SfuConsumerClosed,
                SfuNewDataConsumer, SfuDataConsumerClosed, SfuSend
  <2>. QED  BY <2>1, RegistryFrame
<1>4. CASE RunTask
  BY <1>4, RunTaskRefines
<1>5. CASE DeliverEvent \/ Release \/ UNCHANGED vars
  <2>1. UNCHANGED <<consumerMap, consumerIdToPeerId>>
    BY <1>5 DEF DeliverEvent, Release, vars
  <2>. QED  BY <2>1, RegistryFrame
<1>6. CASE Destroy
  BY <1>6, DestroyRefines
<1>. QED  BY <1>1, <1>2, <1>3, <1>4, <1>5, <1>6 DEF Next

-----------------------------------------------------------------------------
(* Theorem                                                                  *)

\* MediaController implements RegistryAbstract (the property RegistryRefined
\* of the registry run), for every number of consumer ids, peers, tracks and
\* messages: whatever the interleaving of SFU notifications, posted tasks,
\* application mute calls and destroy(), _consumerMap and _consumerIdToPeerId
\* only ever change by a register, a pause/resume of held consumers, an
\* unregister of both entries, or a clear.
THEOREM RegistryRefinement == Spec => RegistryRefined
<1>1. Init => Registry!Init
  BY InitRefines
<1>2. IInv /\ [Next]_vars => [Registry!Next]_Registry!avars
  BY NextRefines
<1>. QED  BY <1>1, <1>2, IInvInvariant, PTL
          DEF Spec, RegistryRefined, Registry!Spec
=============================================================================
