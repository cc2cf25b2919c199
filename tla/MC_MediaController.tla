------------------------ MODULE MC_MediaController ------------------------
(* Small instance of MediaController for TLC: one track, two peers, an   *)
(* audio consumer of p1, a video consumer of p2 and a data consumer of p1  *)
(* (p1 thus has both a consumer and a data-consumer index entry).          *)
EXTENDS MediaController

CONSTANTS t1, p1, p2, c1, c2, c3, d1

MCTracks == {t1}
MCPeers == {p1, p2}
MCCIds == {c1, c2}
MCDIds == {d1}
MCKindOf == [c \in {c1, c2} |-> IF c = c1 THEN "audio" ELSE "video"]
MCPeerOf == [i \in {c1, c2, d1} |-> IF i = c2 THEN p2 ELSE p1]
\* Variant: p1 has two audio consumers c1 and c3 and the data consumer d1.
MCCIds2 == {c1, c3}
MCKindOf2 == [c \in {c1, c3} |-> "audio"]
MCPeerOf2 == [i \in {c1, c3, d1} |-> p1]
MCCanProduce == {"audio", "video"}
=============================================================================
