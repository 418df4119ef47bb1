-------------------------- MODULE MCDeviceRegistry -------------------------
(* DeviceRegistry for TLC: one device with an upstream and a downstream     *)
(* runner, a fusion-like service on the first that submits to a compute     *)
(* service on the second, and a second service on one of the runners.       *)
EXTENDS DeviceRegistry, TLC

CONSTANTS up, down, fusion, other, compute

MCUpstream == {up}
MCRunnerOf == [k \in Keys |-> IF k = compute THEN down ELSE up]
MCDownstream == [k \in Keys |-> IF k = fusion THEN compute ELSE NoKey]

Symmetry == Permutations(Callers)
=============================================================================
