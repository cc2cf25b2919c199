--------------------------- MODULE MC_SdkLifecycle ---------------------------
(* TLC instance of SdkLifecycle: the Linux thread names and two remote     *)
(* video tracks.                                                            *)
EXTENDS SdkLifecycle

CONSTANTS t1, t2

MCThreadNames == {"transport", "mediasoup", "communication", "main"}

MCTracks == {t1, t2}
=============================================================================
