---------------------------- MODULE MCCpuWorkers ----------------------------
(* CpuWorkers for TLC: streams are interchangeable; workers are not, since  *)
(* a barrier launch uses the first ones.                                    *)
EXTENDS CpuWorkers, TLC

CONSTANTS s1, s2

TwoEach == [s \in Streams |-> 2]
TwoAndOne == [s \in Streams |-> IF s = s1 THEN 2 ELSE 1]

Symmetry == Permutations(Streams)
=============================================================================
