------------------------- MODULE SdkLifecycle_proofs -------------------------
(***************************************************************************)
(* Proofs about SdkLifecycle for every set of thread names and tracks:    *)
(* the type invariant, that RtcClient's observer thread is running        *)
(* (CallbackThreadLive) and that the pusher's reader never calls through  *)
(* a reset _room_client (ReaderSafe).                                      *)
(***************************************************************************)
EXTENDS SdkLifecycle, TLAPS

USE LifecycleAssumption

\* The inductive strengthening.  The provider exists exactly between
\* Core::init and Core::destroy and then holds all its threads; every
\* thread in its map is running; the reader thread runs only between the
\* pusher's ReaderStart and ReaderStop, and the client is live from
\* RtcClient::init up to destroy().
LInv ==
  /\ TypeOK
  /\ threadsMap \subseteq running
  /\ provider <=> (1 < pc /\ pc <= Len(Program(role)))
  /\ provider => threadsMap = ThreadNames
  /\ 2 < pc /\ pc <= Len(Program(role)) => callbackThread \in running
  /\ reader \in {"running", "inCall"} => role = 0 /\ pc \in 4..5
  /\ (role = 0 /\ pc \in 3..6) => roomClient
  /\ fault # "inputFrame"

\* Which statement main() is at tells the program and the counter.
LEMMA AtFacts ==
  ASSUME role \in Roles, pc \in 1..(Len(Program(role)) + 1)
  PROVE  /\ Len(Program(role)) = IF role = 0 THEN 7 ELSE 6
         /\ At("CoreInit") => pc = 1
         /\ At("ClientInit") => pc = 2
         /\ At("ReaderStart") => role = 0 /\ pc = 3
         /\ At("SetYuvCallback") => role = 1 /\ pc = 3
         /\ At("Wait") => pc = 4
         /\ At("ReaderStop") => role = 0 /\ pc = 5
         /\ At("ClientDestroy") => \/ role = 0 /\ pc = 6
                                   \/ role = 1 /\ pc = 5
         /\ At("CoreDestroy") => \/ role = 0 /\ pc = 7
                                 \/ role = 1 /\ pc = 6
<1>1. CASE role = 0
  <2>1. Program(role) = PusherProgram
    BY <1>1 DEF Program
  <2>2. QED
    BY <2>1, <1>1 DEF At, PusherProgram
<1>2. CASE role = 1
  <2>1. Program(role) = PullerProgram
    BY <1>2 DEF Program
  <2>2. QED
    BY <2>1, <1>2 DEF At, PullerProgram
<1>3. QED
  BY <1>1, <1>2 DEF Roles

LEMMA InitLInv == Init => LInv
<1> SUFFICES ASSUME Init PROVE LInv
  OBVIOUS
<1>1. role \in Roles /\ pc = 1
  BY DEF Init, Roles
<1>2. Len(Program(role)) \in {6, 7}
  BY <1>1, AtFacts
<1>3. events \in Seq(Event)
  BY DEF Init
<1>4. receivers \in [Tracks -> {"none", "withCb", "noCb"}]
  BY DEF Init
<1>5. pc \in 1..(Len(Program(role)) + 1)
  BY <1>1, <1>2
<1>6. TypeOK
  BY <1>1, <1>3, <1>4, <1>5, Zenon DEF Init, TypeOK
<1>7. QED
  BY <1>1, <1>2, <1>6 DEF Init, LInv

\* The statements of main().
LEMMA MainLInv ==
  ASSUME LInv,
         CoreInit \/ ClientInit \/ ReaderStart \/ SetYuvCallback \/ Wait
         \/ ReaderStop \/ ClientDestroy \/ CoreDestroy
  PROVE  LInv'
<1>0. /\ role \in Roles /\ pc \in 1..(Len(Program(role)) + 1)
     /\ Len(Program(role)) = IF role = 0 THEN 7 ELSE 6
  BY AtFacts DEF LInv, TypeOK
<1>1. CASE CoreInit
  <2>1. pc = 1
    BY <1>1, <1>0, AtFacts DEF CoreInit
  <2>2. role' = role /\ Len(Program(role))' = Len(Program(role))
    BY <1>1 DEF CoreInit
  <2>3. ~provider
    BY <1>0, <2>1 DEF LInv
  <2>4. /\ provider' /\ tpInited' /\ tpDestroy'
        /\ threadsMap' = threadsMap \cup ThreadNames
        /\ running' = running \cup ThreadNames
    BY <1>1, <2>3 DEF CoreInit, FactoryInit, Create
  <2>5. QED
    BY <1>1, <1>0, <2>1, <2>2, <2>4 DEF CoreInit, Running, At, Advance, LInv, TypeOK
<1>2. CASE ClientInit
  <2>1. pc = 2
    BY <1>2, <1>0, AtFacts DEF ClientInit
  <2>2. role' = role /\ Len(Program(role))' = Len(Program(role))
    BY <1>2 DEF ClientInit
  <2>3. QED
    BY <1>2, <1>0, <2>1, <2>2 DEF ClientInit, GetThread, Running, At, Advance, LInv, TypeOK
<1>3. CASE ReaderStart
  <2>1. role = 0 /\ pc = 3
    BY <1>3, <1>0, AtFacts DEF ReaderStart
  <2>2. role' = role /\ Len(Program(role))' = Len(Program(role))
    BY <1>3 DEF ReaderStart
  <2>3. QED
    BY <1>3, <1>0, <2>1, <2>2 DEF ReaderStart, Running, At, Advance, LInv, TypeOK
<1>4. CASE SetYuvCallback
  <2>1. role = 1 /\ pc = 3
    BY <1>4, <1>0, AtFacts DEF SetYuvCallback
  <2>2. role' = role /\ Len(Program(role))' = Len(Program(role))
    BY <1>4 DEF SetYuvCallback
  <2>3. QED
    BY <1>4, <1>0, <2>1, <2>2 DEF SetYuvCallback, Running, At, Advance, LInv, TypeOK
<1>5. CASE Wait
  <2>1. pc = 4
    BY <1>5, <1>0, AtFacts DEF Wait
  <2>2. role' = role /\ Len(Program(role))' = Len(Program(role))
    BY <1>5 DEF Wait
  <2>3. QED
    BY <1>5, <1>0, <2>1, <2>2 DEF Wait, Running, At, Advance, LInv, TypeOK
<1>6. CASE ReaderStop
  <2>1. role = 0 /\ pc = 5
    BY <1>6, <1>0, AtFacts DEF ReaderStop
  <2>2. role' = role /\ Len(Program(role))' = Len(Program(role))
    BY <1>6 DEF ReaderStop
  <2>3. QED
    BY <1>6, <1>0, <2>1, <2>2 DEF ReaderStop, Running, At, Advance, LInv, TypeOK
<1>7. CASE ClientDestroy
  <2>1. (role = 0 /\ pc = 6) \/ (role = 1 /\ pc = 5)
    BY <1>7, <1>0, AtFacts DEF ClientDestroy
  <2>2. role' = role /\ Len(Program(role))' = Len(Program(role))
    BY <1>7 DEF ClientDestroy
  <2>3. pc' \in 1..(Len(Program(role)) + 1)
    BY <1>7, <1>0, <2>1 DEF ClientDestroy, At, Advance
  <2>4. TypeOK'
    BY <1>7, <1>0, <2>2, <2>3 DEF ClientDestroy, LInv, TypeOK
  <2>5. reader \notin {"running", "inCall"}
    BY <1>0, <2>1 DEF LInv
  <2>6. QED
    BY <1>7, <1>0, <2>1, <2>2, <2>4, <2>5 DEF ClientDestroy, At, Advance, LInv
<1>8. CASE CoreDestroy
  <2>1. (role = 0 /\ pc = 7) \/ (role = 1 /\ pc = 6)
    BY <1>8, <1>0, AtFacts DEF CoreDestroy
  <2>2. role' = role /\ Len(Program(role))' = Len(Program(role))
    BY <1>8 DEF CoreDestroy
  <2>3. pc = Len(Program(role)) /\ provider
    BY <1>0, <2>1 DEF LInv
  <2>4. /\ provider' = FALSE /\ threadsMap' = {} /\ running' = running
        /\ tpInited' = FALSE /\ tpDestroy' = TRUE
    BY <1>8, <2>3 DEF CoreDestroy, FactoryDestroy
  <2>5. pc' = Len(Program(role)) + 1
    BY <1>8, <2>3 DEF CoreDestroy, Advance
  <2>6. pc' \in 1..(Len(Program(role)) + 1)
    BY <1>0, <2>5
  <2>7. TypeOK'
    BY <1>8, <1>0, <2>2, <2>4, <2>6 DEF CoreDestroy, LInv, TypeOK
  <2>8. reader \notin {"running", "inCall"}
    BY <2>1, <1>0 DEF LInv
  <2>9. QED
    BY <1>8, <1>0, <2>2, <2>3, <2>4, <2>5, <2>8, <2>7 DEF CoreDestroy, LInv
<1>9. QED
  BY <1>1, <1>2, <1>3, <1>4, <1>5, <1>6, <1>7, <1>8

\* The room's events and the callback and reader threads.
LEMMA OtherLInv ==
  ASSUME LInv,
         RoomConnected \/ (\E t \in Tracks : RemoteTrack(t) \/ RemoteTrackRemoved(t))
         \/ DeliverConnected \/ EnableVideoCall \/ DeliverTrack \/ DeliverRemove
         \/ ReaderCallback \/ ReaderInput
  PROVE  LInv'
<1>1. CASE RoomConnected
  BY <1>1 DEF RoomConnected, LInv, TypeOK, Event
<1>2. CASE \E t \in Tracks : RemoteTrack(t)
  BY <1>2 DEF RemoteTrack, LInv, TypeOK, Event
<1>3. CASE DeliverConnected
  BY <1>3 DEF DeliverConnected, LInv, TypeOK
<1>4. CASE EnableVideoCall
  BY <1>4 DEF EnableVideoCall, LInv, TypeOK
<1>5. CASE DeliverTrack
  BY <1>5 DEF DeliverTrack, LInv, TypeOK, Event
<1>6. CASE ReaderCallback
  BY <1>6 DEF ReaderCallback, LInv, TypeOK
<1>7. CASE ReaderInput
  BY <1>7, AtFacts DEF ReaderInput, LInv, TypeOK
<1>8. CASE \E t \in Tracks : RemoteTrackRemoved(t)
  BY <1>8 DEF RemoteTrackRemoved, LInv, TypeOK, Event
<1>9. CASE DeliverRemove
  <2>1. PICK ptr \in RemovedTrackPtrs :
          /\ fault' = IF ptr = "null" THEN "onRemoveRemoteVideoTrack" ELSE "none"
          /\ receivers' = IF ptr # "null" /\ role = 1
                            THEN [receivers EXCEPT ![Head(events).t] = "none"]
                            ELSE receivers
    BY <1>9 DEF DeliverRemove
  <2>2. Head(events) \in Event
    BY <1>9 DEF DeliverRemove, LInv, TypeOK
  <2>3. receivers' \in [Tracks -> {"none", "withCb", "noCb"}]
    BY <2>1, <2>2 DEF LInv, TypeOK, Event
  <2>4. QED
    BY <1>9, <2>1, <2>3 DEF DeliverRemove, LInv, TypeOK
<1>10. QED
  BY <1>1, <1>2, <1>3, <1>4, <1>5, <1>6, <1>7, <1>8, <1>9

LEMMA NextLInv == LInv /\ [Next]_vars => LInv'
<1> SUFFICES ASSUME LInv, [Next]_vars PROVE LInv'
  OBVIOUS
<1>1. CASE Next
  BY <1>1, MainLInv, OtherLInv DEF Next
<1>2. CASE UNCHANGED vars
  BY <1>2 DEF vars, LInv, TypeOK
<1>3. QED
  BY <1>1, <1>2

\* LInv holds in every state of every behaviour.
THEOREM LInvInvariant == Spec => []LInv
BY InitLInv, NextLInv, PTL DEF Spec

\* Every variable keeps its type (TypeOK) in every reachable state.
THEOREM LifecycleTypeCorrect == Spec => []TypeOK
BY LInvInvariant, PTL DEF LInv

\* RtcClient::init registers its observer on a running thread, in both
\* test programs and for every set of thread names containing "main"
\* (CallbackThreadLive).
THEOREM CallbackThreadLiveInvariant == Spec => []CallbackThreadLive
<1>1. LInv => CallbackThreadLive
  BY DEF LInv, CallbackThreadLive
<1>2. QED
  BY <1>1, LInvInvariant, PTL

\* The pusher's reader thread never calls RtcClient::inputFrame through the
\* _room_client that destroy() has reset (ReaderSafe).
THEOREM ReaderSafeInvariant == Spec => []ReaderSafe
<1>1. LInv => ReaderSafe
  BY DEF LInv, ReaderSafe
<1>2. QED
  BY <1>1, LInvInvariant, PTL
=============================================================================
