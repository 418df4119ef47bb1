-------------------------- MODULE MCDeviceChannel --------------------------
(* DeviceChannel for TLC: clients and closers are interchangeable. *)
EXTENDS DeviceChannelQueue, TLC

Symmetry == Permutations(Clients) \cup Permutations(Closers)

\* Bound of the safety run: not every client uses up its calls, so two clients with
\* MaxCalls = 2 make three calls between them.
SomeCallLeft == \E c \in Clients : calls[c] < MaxCalls
=============================================================================
