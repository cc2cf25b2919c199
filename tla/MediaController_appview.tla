--------------------- MODULE MediaController_appview ---------------------
(***************************************************************************)
(* Proof that the observer's view of the remote tracks agrees with the    *)
(* controller's _consumerMap once the callback thread has drained its     *)
(* queue (AppViewConsistent), for every value of the constants.           *)
(*                                                                          *)
(* AppViewConsistent is not inductive: while create and remove events are *)
(* still queued on the callback thread, appTracks lags _consumerMap.  The *)
(* strengthening ViewOK says how it lags.  For each consumer id, the last *)
(* create or remove event for it still in mainq tells whether it is       *)
(* registered; with no such event, appTracks already tells.  This holds   *)
(* because createNewConsumer and onConsumerClosed's task post their event *)
(* in the same mediasoup-thread step that changes _consumerMap, and the   *)
(* callback thread consumes mainq in FIFO order.                          *)
(***************************************************************************)
EXTENDS MediaController_proofs

USE ConstAssumption

\* The i-th queued observer event creates or removes consumer c's track.
ViewEvent(c, i) ==
  mainq[i].tid = c /\ mainq[i].type \in {"create", "remove"}

\* No queued observer event after position i creates or removes c's track.
NoLaterViewEvent(c, i) ==
  \A j \in (i + 1)..Len(mainq) : ~ViewEvent(c, j)

\* What the observer will believe of consumer c once mainq is drained
\* matches whether c is registered now.
ViewOf(c) ==
  /\ NoLaterViewEvent(c, 0) => (c \in appTracks <=> c \in Registered)
  /\ \A i \in 1..Len(mainq) :
       ViewEvent(c, i) /\ NoLaterViewEvent(c, i) =>
         (mainq[i].type = "create" <=> c \in Registered)

\* The strengthening of AppViewConsistent, up to destroy(): the controller
\* is still held, and every consumer's pending view is its registration.
ViewOK ==
  ~destroyed => alive /\ \A c \in CIds : ViewOf(c)

AInv == IInv /\ ViewOK

-----------------------------------------------------------------------------
(* How the pending view of one consumer changes when the mediasoup thread  *)
(* appends an event to mainq, and when the callback thread takes its head. *)

\* An appended event that neither creates nor removes c's track leaves c's
\* view as it was, provided c's registration did not change.
LEMMA AppendOther ==
  ASSUME NEW c \in CIds, NEW e \in Event, mainq \in Seq(Event),
         ViewOf(c),
         mainq' = Append(mainq, e), appTracks' = appTracks,
         ~(e.tid = c /\ e.type \in {"create", "remove"}),
         (c \in Registered') <=> (c \in Registered)
  PROVE  ViewOf(c)'
<1> DEFINE n == Len(mainq)
<1>1. /\ Len(mainq') = n + 1 /\ n \in Nat
      /\ \A i \in 1..n : mainq'[i] = mainq[i]
      /\ mainq'[n + 1] = e
  OBVIOUS
<1>2. \A i \in 1..(n + 1) : ViewEvent(c, i)' <=> (i <= n /\ ViewEvent(c, i))
  BY <1>1 DEF ViewEvent
<1>3. \A i \in 0..n : NoLaterViewEvent(c, i)' <=> NoLaterViewEvent(c, i)
  BY <1>1, <1>2 DEF NoLaterViewEvent
<1>4. (NoLaterViewEvent(c, 0) => (c \in appTracks <=> c \in Registered))'
  BY <1>3 DEF ViewOf
<1>5. ASSUME NEW i \in 1..(n + 1), ViewEvent(c, i)', NoLaterViewEvent(c, i)'
      PROVE  (mainq[i].type = "create" <=> c \in Registered)'
  <2>1. i \in 1..n /\ ViewEvent(c, i)
    BY <1>2, <1>5
  <2>2. NoLaterViewEvent(c, i)
    BY <1>3, <1>5, <2>1
  <2>. QED  BY <1>1, <2>1, <2>2 DEF ViewOf
<1>. QED  BY <1>1, <1>4, <1>5 DEF ViewOf

\* An appended create (remove) event for c makes c's view "registered"
\* ("not registered"), which must be what c's registration now is.
LEMMA AppendSame ==
  ASSUME NEW c \in CIds, NEW e \in Event, mainq \in Seq(Event),
         mainq' = Append(mainq, e),
         e.tid = c, e.type \in {"create", "remove"},
         (e.type = "create") <=> (c \in Registered')
  PROVE  ViewOf(c)'
<1> DEFINE n == Len(mainq)
<1>1. /\ Len(mainq') = n + 1 /\ n \in Nat
      /\ \A i \in 1..n : mainq'[i] = mainq[i]
      /\ mainq'[n + 1] = e
  OBVIOUS
<1>2. \A k \in {n + 1} : ViewEvent(c, k)'
  BY <1>1 DEF ViewEvent
<1>3. \A i \in 0..n : ~NoLaterViewEvent(c, i)'
  BY <1>1, <1>2 DEF NoLaterViewEvent
<1>. QED  BY <1>1, <1>3 DEF ViewOf

\* Taking the head of mainq: the observer's appTracks now records what the
\* head event said of c, and every later event keeps its meaning.
LEMMA TailView ==
  ASSUME NEW c \in CIds, mainq \in Seq(Event), mainq # <<>>,
         ViewOf(c),
         mainq' = Tail(mainq),
         (c \in Registered') <=> (c \in Registered),
         (c \in appTracks') <=> IF ViewEvent(c, 1)
                                  THEN mainq[1].type = "create"
                                  ELSE c \in appTracks
  PROVE  ViewOf(c)'
<1> DEFINE n == Len(mainq)
<1>1. /\ n \in Nat /\ n >= 1 /\ Len(mainq') = n - 1
      /\ \A i \in 1..(n - 1) : mainq'[i] = mainq[i + 1]
  OBVIOUS
<1>2. \A i \in 1..(n - 1) : ViewEvent(c, i)' <=> ViewEvent(c, i + 1)
  BY <1>1 DEF ViewEvent
<1>3. \A i \in 0..(n - 1) : NoLaterViewEvent(c, i)' <=> NoLaterViewEvent(c, i + 1)
  <2> SUFFICES ASSUME NEW i \in 0..(n - 1)
               PROVE  NoLaterViewEvent(c, i)' <=> NoLaterViewEvent(c, i + 1)
    OBVIOUS
  <2>1. ASSUME NoLaterViewEvent(c, i)', NEW k \in (i + 2)..n
        PROVE  ~ViewEvent(c, k)
    <3>1. k - 1 \in 1..(n - 1) /\ k - 1 \in (i + 1)..Len(mainq') /\ (k - 1) + 1 = k
      BY <1>1
    <3>2. ~ViewEvent(c, k - 1)'
      BY <2>1, <3>1 DEF NoLaterViewEvent
    <3>. QED  BY <1>2, <3>1, <3>2
  <2>2. ASSUME NoLaterViewEvent(c, i + 1), NEW j \in (i + 1)..Len(mainq')
        PROVE  ~ViewEvent(c, j)'
    <3>1. j \in 1..(n - 1) /\ j + 1 \in (i + 2)..n
      BY <1>1
    <3>. QED  BY <1>2, <2>2, <3>1 DEF NoLaterViewEvent
  <2>. QED  BY <2>1, <2>2 DEF NoLaterViewEvent
<1>4. (NoLaterViewEvent(c, 0) => (c \in appTracks <=> c \in Registered))'
  <2>1. CASE ViewEvent(c, 1)
    <3>1. NoLaterViewEvent(c, 0)' => NoLaterViewEvent(c, 1)
      BY <1>1, <1>3
    <3>. QED  BY <1>1, <2>1, <3>1 DEF ViewOf
  <2>2. CASE ~ViewEvent(c, 1)
    <3>1. NoLaterViewEvent(c, 0)' => NoLaterViewEvent(c, 0)
      BY <1>1, <1>3, <2>2 DEF NoLaterViewEvent
    <3>. QED  BY <2>2, <3>1 DEF ViewOf
  <2>. QED  BY <2>1, <2>2
<1>5. ASSUME NEW i \in 1..(n - 1), ViewEvent(c, i)', NoLaterViewEvent(c, i)'
      PROVE  (mainq[i].type = "create" <=> c \in Registered)'
  <2>1. ViewEvent(c, i + 1) /\ NoLaterViewEvent(c, i + 1) /\ i + 1 \in 1..n
    BY <1>1, <1>2, <1>3, <1>5
  <2>. QED  BY <1>1, <2>1 DEF ViewOf
<1>. QED  BY <1>1, <1>4, <1>5 DEF ViewOf

-----------------------------------------------------------------------------
(* The steps of each thread keep ViewOK.                                    *)

\* A step that changes neither mainq, appTracks, the set of registered
\* consumers nor the teardown flags keeps every consumer's view.
LEMMA ViewFrame ==
  ASSUME ViewOK, UNCHANGED <<mainq, appTracks, destroyed, alive>>,
         Registered' = Registered
  PROVE  ViewOK'
BY DEF ViewOK, ViewOf, ViewEvent, NoLaterViewEvent

LEMMA RegisteredFrame ==
  ASSUME UNCHANGED consumerMap
  PROVE  Registered' = Registered
BY DEF Registered

\* After destroy() ViewOK claims nothing.
LEMMA ViewAfterDestroy ==
  ASSUME destroyed'
  PROVE  ViewOK'
BY DEF ViewOK

\* createNewConsumer registers c and posts its create event.
LEMMA CreateView ==
  ASSUME IInv, ViewOK, ~destroyed, NEW c \in CIds, NEW pp \in BOOLEAN,
         createNewConsumer(c, pp),
         UNCHANGED <<appTracks, destroyed, alive>>
  PROVE  ViewOK'
<1>1. CASE ConsumeOn /\ recvTransport
  <2> DEFINE e == [type |-> "create", peer |-> PeerOf[c], kind |-> KindOf[c],
                   tid |-> c, paused |-> pp]
  <2>0. PeerOf[c] \in Peers /\ KindOf[c] \in Kinds
    BY DEF Ids
  <2>1. e \in Event /\ mainq \in Seq(Event)
    BY <2>0 DEF Event, IInv, TypeOK
  <2>2. mainq' = Append(mainq, e)
    BY <1>1 DEF createNewConsumer, PostEvent
  <2>3. Registered' = Registered \cup {c}
    BY <1>1 DEF createNewConsumer, Registered, IInv, TypeOK
  <2>4. ASSUME NEW x \in CIds PROVE ViewOf(x)'
    <3>1. CASE x = c
      BY <2>1, <2>2, <2>3, <3>1, AppendSame
    <3>2. CASE x # c
      BY <2>1, <2>2, <2>3, <3>2, AppendOther DEF ViewOK
    <3>. QED  BY <3>1, <3>2
  <2>. QED  BY <2>4 DEF ViewOK
<1>2. CASE ~(ConsumeOn /\ recvTransport)
  BY <1>2, ViewFrame, RegisteredFrame DEF createNewConsumer
<1>. QED  BY <1>1, <1>2

\* updateConsumer posts a state event, which no consumer's view depends on.
LEMMA UpdateView ==
  ASSUME IInv, ViewOK, ~destroyed, NEW c \in CIds, NEW paused \in BOOLEAN,
         updateConsumer(c, paused),
         UNCHANGED <<appTracks, destroyed, alive>>
  PROVE  ViewOK'
<1>1. CASE c \in Registered
  <2> DEFINE e == [type |-> "state", peer |-> consumerIdToPeerId[c],
                   kind |-> KindOf[c], tid |-> c, paused |-> paused]
  <2>0. consumerIdToPeerId[c] \in Peers /\ KindOf[c] \in Kinds
    BY <1>1 DEF Ids, IInv, ConsumerIndexed
  <2>1. e \in Event /\ mainq \in Seq(Event)
    BY <2>0 DEF Event, IInv, TypeOK
  <2>2. mainq' = Append(mainq, e)
    BY <1>1 DEF updateConsumer, PostEvent
  <2>3. Registered' = Registered
    BY <1>1 DEF updateConsumer, Registered, IInv, TypeOK
  <2>4. ASSUME NEW x \in CIds PROVE ViewOf(x)'
    BY <2>1, <2>2, <2>3, AppendOther DEF ViewOK
  <2>. QED  BY <2>4 DEF ViewOK
<1>2. CASE c \notin Registered
  BY <1>2, ViewFrame, RegisteredFrame DEF updateConsumer
<1>. QED  BY <1>1, <1>2

\* onConsumerClosed's task unregisters c and posts its remove event.
LEMMA CloseView ==
  ASSUME IInv, ViewOK, ~destroyed, NEW c \in CIds, closeConsumer(c),
         UNCHANGED <<appTracks, destroyed, alive>>
  PROVE  ViewOK'
<1>1. CASE c \in Registered
  <2> DEFINE e == [type |-> "remove", peer |-> consumerIdToPeerId[c],
                   kind |-> KindOf[c], tid |-> c, paused |-> TRUE]
  <2>0. consumerIdToPeerId[c] \in Peers /\ KindOf[c] \in Kinds
    BY <1>1 DEF Ids, IInv, ConsumerIndexed
  <2>1. e \in Event /\ mainq \in Seq(Event)
    BY <2>0 DEF Event, IInv, TypeOK
  <2>2. mainq' = Append(mainq, e)
    BY <1>1 DEF closeConsumer, PostEvent
  <2>3. Registered' = Registered \ {c}
    BY <1>1 DEF closeConsumer, Registered, IInv, TypeOK
  <2>4. ASSUME NEW x \in CIds PROVE ViewOf(x)'
    <3>1. CASE x = c
      BY <2>1, <2>2, <2>3, <3>1, AppendSame
    <3>2. CASE x # c
      BY <2>1, <2>2, <2>3, <3>2, AppendOther DEF ViewOK
    <3>. QED  BY <3>1, <3>2
  <2>. QED  BY <2>4 DEF ViewOK
<1>2. CASE c \notin Registered
  BY <1>2, ViewFrame, RegisteredFrame DEF closeConsumer
<1>. QED  BY <1>1, <1>2

\* The mediasoup thread runs one posted task.
LEMMA RunTaskView ==
  ASSUME IInv, ViewOK, RunTask
  PROVE  ViewOK'
<1> DEFINE t == Head(taskq)
<1>1. UNCHANGED <<appTracks, destroyed, alive>>
  BY DEF RunTask, TaskUnchanged
<1>2. CASE destroyed
  BY <1>1, <1>2, ViewAfterDestroy
<1>3. CASE ~destroyed
  <2>1. alive
    BY <1>3 DEF ViewOK
  <2>2. t \in Task
    BY DEF RunTask, IInv, TypeOK
  <2>3. CASE t.type = "dataConsumerClosed"
    <3>1. UNCHANGED <<consumerMap, mainq>>
      BY <2>3 DEF RunTask
    <3>. QED  BY <1>1, <3>1, ViewFrame, RegisteredFrame
  <2>4. CASE t.type = "newConsumer"
    <3>1. t.id \in CIds /\ t.producerPaused \in BOOLEAN
      BY <2>2, <2>4 DEF Task, DataTaskTypes
    <3>2. createNewConsumer(t.id, t.producerPaused)
      BY <2>1, <2>4 DEF RunTask
    <3>. QED  BY <1>1, <1>3, <3>1, <3>2, CreateView
  <2>5. CASE t.type = "newDataConsumer"
    <3>1. UNCHANGED <<consumerMap, mainq>>
      BY <2>1, <2>5 DEF RunTask, createNewDataConsumer
    <3>. QED  BY <1>1, <3>1, ViewFrame, RegisteredFrame
  <2>6. CASE t.type \in {"consumerPaused", "consumerResumed"}
    <3>1. t.id \in CIds
      BY <2>2, <2>6 DEF Task, DataTaskTypes
    <3>2. updateConsumer(t.id, t.type = "consumerPaused")
      BY <2>1, <2>6 DEF RunTask
    <3>. QED  BY <1>1, <1>3, <3>1, <3>2, UpdateView
  <2>7. CASE t.type = "consumerClosed"
    <3>1. t.id \in CIds
      BY <2>2, <2>7 DEF Task, DataTaskTypes
    <3>2. closeConsumer(t.id)
      BY <2>1, <2>7 DEF RunTask
    <3>. QED  BY <1>1, <1>3, <3>1, <3>2, CloseView
  <2>. QED
    BY <2>2, <2>3, <2>4, <2>5, <2>6, <2>7
    DEF Task, ConsumerTaskTypes, DataTaskTypes
<1>. QED  BY <1>2, <1>3

\* The callback thread delivers the head of mainq to the observer.
LEMMA DeliverView ==
  ASSUME IInv, ViewOK, DeliverEvent
  PROVE  ViewOK'
<1> DEFINE e == Head(mainq)
<1>1. UNCHANGED <<consumerMap, destroyed, alive>>
  BY DEF DeliverEvent
<1>2. CASE destroyed
  BY <1>1, <1>2, ViewAfterDestroy
<1>3. CASE ~destroyed
  <2>1. alive
    BY <1>3 DEF ViewOK
  <2>2. /\ mainq \in Seq(Event) /\ mainq # <<>> /\ mainq' = Tail(mainq)
        /\ e = mainq[1] /\ e \in Event
    BY DEF DeliverEvent, IInv, TypeOK
  <2>3. appTracks' = CASE e.type = "create" -> appTracks \cup {e.tid}
                       [] e.type = "remove" -> appTracks \ {e.tid}
                       [] e.type = "state"  -> appTracks
    BY <2>1 DEF DeliverEvent
  <2>4. ASSUME NEW x \in CIds
        PROVE  (x \in appTracks') <=> IF ViewEvent(x, 1)
                                        THEN mainq[1].type = "create"
                                        ELSE x \in appTracks
    BY <2>2, <2>3 DEF ViewEvent, Event
  <2>5. ASSUME NEW x \in CIds PROVE ViewOf(x)'
    <3>1. ViewOf(x) /\ Registered' = Registered
      BY <1>1, <1>3, RegisteredFrame DEF ViewOK
    <3>. QED  BY <2>2, <2>4, <3>1, TailView
  <2>. QED  BY <1>1, <2>1, <2>5 DEF ViewOK
<1>. QED  BY <1>2, <1>3

\* muteAudio(pid) / muteVideo(pid) change only the state of registered
\* consumers and post nothing.
LEMMA MuteView ==
  ASSUME ViewOK, NEW p \in Peers, NEW k \in Kinds, NEW b \in BOOLEAN,
         MuteConsumers(p, k, b)
  PROVE  ViewOK'
<1>1. PICK done \in SUBSET PeerConsumers(p, k) :
        consumerMap' = [c \in CIds |->
                          IF c \in done
                            THEN IF b THEN "paused" ELSE "live"
                            ELSE consumerMap[c]]
  BY DEF MuteConsumers
<1>2. done \subseteq Registered
  BY DEF PeerConsumers
<1>3. Registered' = Registered
  BY <1>1, <1>2 DEF Registered
<1>. QED  BY <1>3, ViewFrame DEF MuteConsumers

-----------------------------------------------------------------------------
(* Every step of Next, and every stutter, keeps ViewOK.                     *)

\* The steps that touch none of mainq, appTracks, _consumerMap and the
\* teardown flags: RoomClient's setters, the local producers, the reader
\* threads, the mute queries and the SFU's sends.
LEMMA QuietView ==
  ASSUME ViewOK,
         \/ SetMediasoupDevice \/ SetSendTransport \/ SetRecvTransport
         \/ \E b \in BOOLEAN : EnableAudio(b) \/ MuteAudio(b)
         \/ \E b \in BOOLEAN, t \in Tracks : EnableVideo(b, t)
         \/ \E t \in Tracks : InputFrameCheck(t) \/ InputFrameCall(t)
         \/ \E p \in Peers, k \in Kinds : IsMutedQuery(p, k)
         \/ \E c \in CIds, b \in BOOLEAN :
              SfuNewConsumer(c, b) \/ SfuConsumerPaused(c, b)
         \/ \E c \in CIds : SfuConsumerClosed(c)
         \/ \E d \in DIds : SfuNewDataConsumer(d) \/ SfuDataConsumerClosed(d)
         \/ UNCHANGED vars
  PROVE  ViewOK'
<1>1. UNCHANGED <<consumerMap, mainq, appTracks, destroyed, alive>>
  BY DEF SetMediasoupDevice, SetSendTransport, SetRecvTransport, EnableAudio,
         MuteAudio, EnableVideo, LocalUnchanged, InputFrameCheck,
         InputFrameCall, IsMutedQuery, SfuNewConsumer, SfuConsumerPaused,
         SfuConsumerClosed, SfuNewDataConsumer, SfuDataConsumerClosed,
         SfuSend, vars
<1>. QED  BY <1>1, ViewFrame, RegisteredFrame

LEMMA NextView ==
  ASSUME IInv, ViewOK, [Next]_vars
  PROVE  ViewOK'
<1>1. CASE \E p \in Peers, b \in BOOLEAN : MuteAudioOf(p, b) \/ MuteVideo(p, b)
  <2>1. "audio" \in Kinds /\ "video" \in Kinds
    BY DEF Kinds
  <2>. QED  BY <1>1, <2>1, MuteView DEF MuteAudioOf, MuteVideo
<1>2. CASE RunTask
  BY <1>2, RunTaskView
<1>3. CASE DeliverEvent
  BY <1>3, DeliverView
<1>4. CASE Destroy
  <2>1. CASE \E t \in Tracks : producerMap[t] = "null"
    BY <1>4, <2>1, ViewFrame, RegisteredFrame DEF Destroy
  <2>2. CASE ~\E t \in Tracks : producerMap[t] = "null"
    BY <1>4, <2>2, ViewAfterDestroy DEF Destroy
  <2>. QED  BY <2>1, <2>2
<1>5. CASE Release
  BY <1>5, ViewAfterDestroy DEF Release
<1>. QED  BY <1>1, <1>2, <1>3, <1>4, <1>5, QuietView DEF Next

LEMMA InitView == Init => ViewOK
<1> SUFFICES ASSUME Init PROVE ViewOK
  OBVIOUS
<1>1. Registered = {} /\ appTracks = {} /\ Len(mainq) = 0 /\ alive
  BY DEF Init, Registered
<1>. QED  BY <1>1 DEF ViewOK, ViewOf, NoLaterViewEvent

-----------------------------------------------------------------------------
(* Theorems                                                                 *)

\* The type invariant, ConsumerIndexed and ViewOK together hold in every
\* reachable state, whatever the interleaving of SFU notifications,
\* mediasoup-thread tasks, observer callbacks and application calls.
THEOREM AInvInvariant == Spec => []AInv
<1>1. Init => AInv
  BY InitIInv, InitView DEF AInv
<1>2. AInv /\ [Next]_vars => AInv'
  BY NextIInv, NextView DEF AInv
<1>. QED  BY <1>1, <1>2, PTL DEF Spec

\* Whenever the callback thread has drained every event posted before
\* destroy(), the observer has been told of exactly the consumers in
\* _consumerMap: no onCreateRemote*Track is lost or reordered after its
\* onRemoveRemote*Track, for any number of peers, tracks and consumers
\* (AppViewConsistent).
THEOREM AppViewConsistentInvariant == Spec => []AppViewConsistent
<1>1. AInv => AppViewConsistent
  <2> SUFFICES ASSUME AInv, ~destroyed, mainq = <<>>
               PROVE  appTracks = Registered
    BY DEF AppViewConsistent
  <2>1. \A c \in CIds : c \in appTracks <=> c \in Registered
    BY DEF AInv, ViewOK, ViewOf, NoLaterViewEvent
  <2>2. appTracks \subseteq CIds /\ Registered \subseteq CIds
    BY DEF AInv, IInv, TypeOK, Registered
  <2>. QED  BY <2>1, <2>2
<1>. QED  BY <1>1, AInvInvariant, PTL

=============================================================================
