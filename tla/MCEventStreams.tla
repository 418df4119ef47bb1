--------------------------- MODULE MCEventStreams ---------------------------
(* EventStreams for TLC: one slice in the pool of each of two streams.       *)
EXTENDS EventStreams, TLC

CONSTANTS sliceA, sliceB

MCHome == (sliceA :> 0) @@ (sliceB :> 1)
=============================================================================
