------------------------- MODULE RegistryAbstract -------------------------
(***************************************************************************)
(* What MediaController promises about its remote-consumer registry,      *)
(* stated without threads, queues or the SFU: a consumer id is either     *)
(* absent or held "live" or "paused", and the index names the peer of     *)
(* every held consumer.  The registry changes in four ways only:          *)
(*   Register   - a consumer is created and indexed under its own peer;   *)
(*   SetStates  - a set of held consumers is paused or resumed;           *)
(*   Unregister - a held consumer leaves the registry and the index;     *)
(*   Clear      - every consumer is dropped (the index is kept).          *)
(* Nothing else ever writes either map: no pause of an unknown id, no     *)
(* index entry removed from under a held consumer, no peer rewritten.     *)
(***************************************************************************)
CONSTANTS
  CIds,      \* consumer ids
  Peers,     \* peer ids
  PeerOf,    \* the peer each consumer id belongs to
  NoPeer     \* no index entry

VARIABLES
  consumers, \* consumer id -> "none" | "live" | "paused"
  peerIndex  \* consumer id -> peer | NoPeer

avars == <<consumers, peerIndex>>

Held == {c \in CIds : consumers[c] # "none"}

Init ==
  /\ consumers = [c \in CIds |-> "none"]
  /\ peerIndex = [c \in CIds |-> NoPeer]

Register(c) ==
  /\ consumers' = [consumers EXCEPT ![c] = "live"]
  /\ peerIndex' = [peerIndex EXCEPT ![c] = PeerOf[c]]

SetStates(S, st) ==
  /\ S \subseteq Held
  /\ consumers' = [c \in CIds |-> IF c \in S THEN st ELSE consumers[c]]
  /\ UNCHANGED peerIndex

Unregister(c) ==
  /\ c \in Held
  /\ consumers' = [consumers EXCEPT ![c] = "none"]
  /\ peerIndex' = [peerIndex EXCEPT ![c] = NoPeer]

Clear ==
  /\ consumers' = [c \in CIds |-> "none"]
  /\ UNCHANGED peerIndex

Next ==
  \/ \E c \in CIds : Register(c) \/ Unregister(c)
  \/ \E S \in SUBSET CIds, st \in {"live", "paused"} : SetStates(S, st)
  \/ Clear

Spec == Init /\ [][Next]_avars

\* The abstract registry's own invariant: every held consumer is indexed
\* under its peer.
Indexed == \A c \in Held : peerIndex[c] = PeerOf[c]
=============================================================================
