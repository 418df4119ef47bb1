------------------------- MODULE MCSchedulerStreams -------------------------
(* SchedulerStreams for TLC: a buffer created on each of three streams, and *)
(* a fourth stream, which shares the first one's slot of the pool.          *)
EXTENDS SchedulerStreams, TLC

CONSTANTS bufA, bufB, bufC

MCOwner == (bufA :> 0) @@ (bufB :> 1) @@ (bufC :> 2)
MCArgLists == {<<bufA>>, <<bufA, bufB>>, <<bufB, bufC>>}
=============================================================================
