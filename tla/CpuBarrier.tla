----------------------------- MODULE CpuBarrier -----------------------------
(* The spin barrier behind sync_ruda(), called by the units of one launch   *)
(* of a CPU kernel (src/ruda-driver/cpu/src/execution/barrier.rs).  The     *)
(* units share a RudaBarrier of two counters: arrived counts the units that *)
(* reached the barrier, exited those that saw it full, and the last one to  *)
(* exit clears both so that the same barrier serves the next sync_ruda().   *)
(* Every load, fetch_add and store is a step of its own.                    *)
EXTENDS Integers, FiniteSets

CONSTANTS
    Units,       \* the units of the launch, one per worker thread
    MaxRounds    \* how many times the kernel calls sync_ruda()

ASSUME UnitsAssumption == IsFiniteSet(Units) /\ Units # {}
ASSUME RoundsAssumption == MaxRounds \in Nat

VARIABLES
    arrived,     \* RudaBarrier::arrived
    exited,      \* RudaBarrier::exited
    pc,          \* where each unit is in sync_ruda()
    round        \* how many calls of sync_ruda() each unit has returned from

vars == <<arrived, exited, pc, round>>

units == Cardinality(Units)

Points == {"kernel", "enter", "arrive", "spin", "leave", "clear", "reopen"}

Init ==
    /\ arrived = 0
    /\ exited = 0
    /\ pc = [u \in Units |-> "kernel"]
    /\ round = [u \in Units |-> 0]

Goto(u, point) == pc' = [pc EXCEPT ![u] = point]

\* sync_ruda() returns to the kernel.
Return(u) ==
    /\ Goto(u, "kernel")
    /\ round' = [round EXCEPT ![u] = @ + 1]

\* A unit calls sync_ruda(); a launch of one unit returns at once.
Call(u) ==
    /\ pc[u] = "kernel"
    /\ round[u] < MaxRounds
    /\ IF units <= 1 THEN Return(u) ELSE Goto(u, "enter") /\ UNCHANGED round
    /\ UNCHANGED <<arrived, exited>>

\* Mutant: no first loop, so a fast unit joins the round that is being left.
SeeReopened_Skipped(u) ==
    /\ pc[u] = "enter"
    /\ Goto(u, "arrive")
    /\ UNCHANGED <<arrived, exited, round>>

\* The load of exited that ends the first loop: the previous round is over.
SeeReopened(u) ==
    /\ pc[u] = "enter"
    /\ exited = 0
    /\ Goto(u, "arrive")
    /\ UNCHANGED <<arrived, exited, round>>

Arrive(u) ==
    /\ pc[u] = "arrive"
    /\ arrived' = arrived + 1
    /\ Goto(u, "spin")
    /\ UNCHANGED <<exited, round>>

\* Mutant: the barrier is taken for full one unit early.
SeeFull_Early(u) ==
    /\ pc[u] = "spin"
    /\ arrived + 1 >= units
    /\ Goto(u, "leave")
    /\ UNCHANGED <<arrived, exited, round>>

\* The load of arrived that ends the second loop: every unit is here.
SeeFull(u) ==
    /\ pc[u] = "spin"
    /\ arrived >= units
    /\ Goto(u, "leave")
    /\ UNCHANGED <<arrived, exited, round>>

\* Mutant: the last unit out is not recognised, and nobody clears the counters.
Leave_Never(u) ==
    /\ pc[u] = "leave"
    /\ exited' = exited + 1
    /\ Return(u)
    /\ UNCHANGED arrived

\* exited.fetch_add: the last unit to leave goes on to clear the counters.
Leave(u) ==
    /\ pc[u] = "leave"
    /\ exited' = exited + 1
    /\ IF exited + 1 = units THEN Goto(u, "clear") /\ UNCHANGED round ELSE Return(u)
    /\ UNCHANGED arrived

ClearArrived(u) ==
    /\ pc[u] = "clear"
    /\ arrived' = 0
    /\ Goto(u, "reopen")
    /\ UNCHANGED <<exited, round>>

ClearExited(u) ==
    /\ pc[u] = "reopen"
    /\ exited' = 0
    /\ Return(u)
    /\ UNCHANGED arrived

----------------------------------------------------------------------------
Step(u) ==
    \/ Call(u)
    \/ SeeReopened(u)
    \/ Arrive(u)
    \/ SeeFull(u)
    \/ Leave(u)
    \/ ClearArrived(u)
    \/ ClearExited(u)

\* The kernel has returned in every unit.
Finished == \A u \in Units : pc[u] = "kernel" /\ round[u] = MaxRounds

Next == \E u \in Units : Step(u)

Spec == Init /\ [][Next]_vars

\* Each unit runs on a thread of its own, and its spin loops read fresh
\* values: a unit that can move does.
FairSpec == Spec /\ \A u \in Units : WF_vars(Step(u))

----------------------------------------------------------------------------
TypeOK ==
    /\ arrived \in 0 .. units
    /\ exited \in 0 .. units
    /\ pc \in [Units -> Points]
    /\ round \in [Units -> Nat]

\* Units at the barrier: counted in arrived, sync_ruda() not yet returned.
AtBarrier == {u \in Units : pc[u] \in {"spin", "leave", "clear", "reopen"}}

\* The barrier separates: a unit has returned from a call of sync_ruda() that
\* another unit has not returned from only if that other unit has arrived in
\* it; nobody overtakes a unit that is still computing, however the loads and
\* the clearing of the two counters interleave over successive rounds.
BarrierSeparates ==
    \A u, v \in Units :
        round[u] > round[v] => round[u] = round[v] + 1 /\ v \in AtBarrier

\* Every unit gets through every call of sync_ruda(): the spin loops end,
\* since the last unit out reopens the barrier.
BarrierReleases == <>Finished
=============================================================================
