-------------------------- MODULE CpuBarrierProofs --------------------------
(***************************************************************************)
(* The CPU barrier separates its rounds, for any number of units and any   *)
(* number of calls.  BarrierSeparates is not inductive: why nobody is      *)
(* overtaken lies in what the two counters count, which differs between    *)
(* the time the barrier fills (exited = 0) and the time it empties.        *)
(***************************************************************************)
EXTENDS CpuBarrier, FiniteSetTheorems, TLAPS

\* Units that have arrived and have not yet incremented exited.
Late == {u \in Units : pc[u] \in {"spin", "leave"}}

\* The unit that found itself the last one out, until it has cleared both
\* counters.
Clearing == {u \in Units : pc[u] \in {"clear", "reopen"}}

Filling ==
    exited = 0 => arrived = Cardinality(Late) /\ Clearing = {}

Emptying ==
    exited # 0 =>
        /\ exited = units - Cardinality(Late)
        /\ \A u \in Units : pc[u] # "arrive"
        /\ exited < units => arrived = units /\ Clearing = {}

Clearer ==
    /\ \A u, v \in Clearing : u = v
    /\ exited = units => Clearing # {}
    /\ \A u \in Units : pc[u] = "reopen" => arrived = 0

\* A unit that saw the barrier full saw it for good.
Full == \A u \in Units : pc[u] = "leave" => arrived = units

\* Who is how far: the units inside the barrier are one call behind those that
\* left, and there is no other difference.
RoundsAgree ==
    \A u, v \in Units :
        /\ exited = 0 => round[u] = round[v]
        /\ exited # 0 /\ u \in AtBarrier /\ v \notin AtBarrier => round[v] = round[u] + 1
        /\ exited # 0 /\ (u \in AtBarrier <=> v \in AtBarrier) => round[u] = round[v]

Inv == TypeOK /\ Filling /\ Emptying /\ Clearer /\ Full /\ RoundsAgree

LEMMA UnitsCount == units \in Nat /\ units > 0 /\ IsFiniteSet(Units)
<1>1. IsFiniteSet(Units) /\ units \in Nat /\ units # 0
    BY UnitsAssumption, FS_CardinalityType, FS_EmptySet DEF units
<1>. QED
    BY <1>1

\* What the size of Late says about it.
LEMMA LateCount ==
    /\ IsFiniteSet(Late)
    /\ Cardinality(Late) \in 0 .. units
    /\ Cardinality(Late) = units => Late = Units
    /\ Cardinality(Late) = 0 => Late = {}
<1>1. Late \in SUBSET Units
    BY DEF Late
<1>2. /\ IsFiniteSet(Late) /\ Cardinality(Late) <= units
      /\ Cardinality(Late) = units => Late = Units
    BY <1>1, UnitsCount, FS_Subset DEF units
<1>3. Cardinality(Late) \in Nat /\ (Cardinality(Late) = 0 => Late = {})
    BY <1>2, FS_CardinalityType, FS_EmptySet
<1>. QED
    BY <1>2, <1>3, UnitsCount

LEMMA InitInv == Init => Inv
<1>. SUFFICES ASSUME Init PROVE Inv
    OBVIOUS
<1>1. Late = {} /\ Clearing = {}
    BY DEF Init, Late, Clearing
<1>2. Cardinality(Late) = 0
    BY <1>1, FS_EmptySet
<1>. QED
    BY <1>1, <1>2, UnitsCount
    DEF Init, Inv, TypeOK, Points, Filling, Emptying, Clearer, Full, RoundsAgree

\* A call by the only unit of a launch returns at once.
LEMMA CallInv == \A u \in Units : Inv /\ Call(u) => Inv'
<1>. SUFFICES ASSUME NEW u \in Units, Inv, Call(u) PROVE Inv'
    OBVIOUS
<1>1. /\ pc \in [Units -> Points] /\ round \in [Units -> Nat] /\ pc[u] = "kernel"
      /\ arrived' = arrived /\ exited' = exited
    BY DEF Inv, TypeOK, Call
<1>2. pc' = [pc EXCEPT ![u] = "kernel"] \/ pc' = [pc EXCEPT ![u] = "enter"]
    BY DEF Call, Return, Goto
<1>3. /\ pc'[u] \in {"kernel", "enter"} /\ pc' \in [Units -> Points]
      /\ \A v \in Units : v # u => pc'[v] = pc[v]
    BY <1>1, <1>2 DEF Points
<1>4. Late' = Late /\ Clearing' = Clearing /\ AtBarrier' = AtBarrier
    BY <1>1, <1>3 DEF Late, Clearing, AtBarrier
<1>5. CASE units <= 1
    <2>1. Units = {u}
        BY <1>5, UnitsCount, FS_Subset, FS_Singleton DEF units
    <2>2. round' \in [Units -> Nat]
        BY <1>1, <1>5 DEF Call, Return
    <2>. QED
        BY <1>1, <1>3, <1>4, <2>1, <2>2
        DEF Inv, TypeOK, Filling, Emptying, Clearer, Full, RoundsAgree
<1>6. CASE ~(units <= 1)
    <2>1. round' = round
        BY <1>6 DEF Call
    <2>. QED
        BY <1>1, <1>3, <1>4, <2>1
        DEF Inv, TypeOK, Filling, Emptying, Clearer, Full, RoundsAgree
<1>. QED
    BY <1>5, <1>6

LEMMA SeeReopenedInv == \A u \in Units : Inv /\ SeeReopened(u) => Inv'
<1>. SUFFICES ASSUME NEW u \in Units, Inv, SeeReopened(u) PROVE Inv'
    OBVIOUS
<1>1. /\ pc \in [Units -> Points] /\ pc[u] = "enter" /\ exited = 0
      /\ pc' = [pc EXCEPT ![u] = "arrive"]
      /\ arrived' = arrived /\ exited' = exited /\ round' = round
    BY DEF Inv, TypeOK, SeeReopened, Goto
<1>2. /\ pc'[u] = "arrive" /\ pc' \in [Units -> Points]
      /\ \A v \in Units : v # u => pc'[v] = pc[v]
    BY <1>1 DEF Points
<1>3. Late' = Late /\ Clearing' = Clearing /\ AtBarrier' = AtBarrier
    BY <1>1, <1>2 DEF Late, Clearing, AtBarrier
<1>. QED
    BY <1>1, <1>2, <1>3 DEF Inv, TypeOK, Filling, Emptying, Clearer, Full, RoundsAgree

\* Arriving fills the barrier; a unit already past the second loop would have
\* seen all units in Late, this one included.
LEMMA ArriveInv == \A u \in Units : Inv /\ Arrive(u) => Inv'
<1>. SUFFICES ASSUME NEW u \in Units, Inv, Arrive(u) PROVE Inv'
    OBVIOUS
<1>1. /\ pc \in [Units -> Points] /\ pc[u] = "arrive"
      /\ pc' = [pc EXCEPT ![u] = "spin"]
      /\ arrived' = arrived + 1 /\ exited' = exited /\ round' = round
    BY DEF Inv, TypeOK, Arrive, Goto
<1>2. /\ pc'[u] = "spin" /\ pc' \in [Units -> Points]
      /\ \A v \in Units : v # u => pc'[v] = pc[v]
    BY <1>1 DEF Points
<1>3. exited = 0 /\ arrived = Cardinality(Late) /\ Clearing = {}
    BY <1>1 DEF Inv, Emptying, Filling
<1>4. u \notin Late /\ Late' = Late \cup {u} /\ Clearing' = {}
    BY <1>1, <1>2, <1>3 DEF Late, Clearing
<1>5. Cardinality(Late') = arrived'
    <2>1. Cardinality(Late \cup {u}) = Cardinality(Late) + 1
        BY <1>4, LateCount, FS_AddElement
    <2>. QED
        BY <1>1, <1>3, <1>4, <2>1
<1>6. arrived # units /\ arrived \in 0 .. units
    BY <1>3, <1>4, LateCount
<1>7. arrived' \in 0 .. units
    BY <1>1, <1>6, UnitsCount
<1>8. \A v \in Units : pc'[v] # "leave" /\ pc'[v] # "reopen"
    BY <1>1, <1>2, <1>3, <1>6 DEF Inv, Full, Clearing
<1>9. exited # units
    BY <1>3, UnitsCount
<1>10. TypeOK' /\ Filling' /\ Emptying'
    <2>1. TypeOK'
        BY <1>1, <1>2, <1>3, <1>7 DEF Inv, TypeOK
    <2>2. Filling' /\ Emptying'
        BY <1>1, <1>3, <1>4, <1>5 DEF Filling, Emptying
    <2>. QED
        BY <2>1, <2>2
<1>11. Clearer' /\ Full'
    BY <1>1, <1>4, <1>8, <1>9 DEF Clearer, Full
<1>12. RoundsAgree'
    BY <1>1, <1>3 DEF Inv, RoundsAgree
<1>. QED
    BY <1>10, <1>11, <1>12 DEF Inv

LEMMA SeeFullInv == \A u \in Units : Inv /\ SeeFull(u) => Inv'
<1>. SUFFICES ASSUME NEW u \in Units, Inv, SeeFull(u) PROVE Inv'
    OBVIOUS
<1>1. /\ pc \in [Units -> Points] /\ pc[u] = "spin" /\ arrived >= units
      /\ pc' = [pc EXCEPT ![u] = "leave"]
      /\ arrived' = arrived /\ exited' = exited /\ round' = round
    BY DEF Inv, TypeOK, SeeFull, Goto
<1>2. /\ pc'[u] = "leave" /\ pc' \in [Units -> Points]
      /\ \A v \in Units : v # u => pc'[v] = pc[v]
    BY <1>1 DEF Points
<1>3. Late' = Late /\ Clearing' = Clearing /\ AtBarrier' = AtBarrier
    BY <1>1, <1>2 DEF Late, Clearing, AtBarrier
<1>4. arrived = units
    BY <1>1, UnitsCount DEF Inv, TypeOK
<1>. QED
    BY <1>1, <1>2, <1>3, <1>4
    DEF Inv, TypeOK, Filling, Emptying, Clearer, Full, RoundsAgree

\* The first unit to leave finds everybody at the barrier.
LEMMA LeaveInv == \A u \in Units : Inv /\ Leave(u) => Inv'
<1>. SUFFICES ASSUME NEW u \in Units, Inv, Leave(u) PROVE Inv'
    OBVIOUS
<1>1. /\ pc \in [Units -> Points] /\ round \in [Units -> Nat] /\ pc[u] = "leave"
      /\ arrived = units /\ arrived' = units /\ exited' = exited + 1
      /\ exited \in 0 .. units
    BY DEF Inv, TypeOK, Leave, Full
<1>2. /\ pc'[u] \in {"clear", "kernel"} /\ pc' \in [Units -> Points]
      /\ \A v \in Units : v # u => pc'[v] = pc[v]
    BY <1>1 DEF Leave, Return, Goto, Points
<1>3. u \in Late /\ Late' = Late \ {u}
    BY <1>1, <1>2 DEF Late
<1>4. Cardinality(Late') = Cardinality(Late) - 1
    BY <1>3, LateCount, FS_RemoveElement
<1>5. exited = units - Cardinality(Late)
    BY <1>1, UnitsCount, LateCount DEF Inv, Filling, Emptying
<1>6. exited < units
    BY <1>3, <1>5, LateCount, UnitsCount, FS_EmptySet
<1>7. Clearing = {}
    BY <1>1, <1>6 DEF Inv, Filling, Emptying
<1>8. exited = 0 => Late = Units
    BY <1>5, LateCount, UnitsCount
<1>9. \A v \in Units : pc'[v] # "arrive"
    BY <1>1, <1>2, <1>8 DEF Inv, Emptying, Late
<1>10. exited' # 0 /\ exited' = units - Cardinality(Late') /\ exited' \in 0 .. units
    BY <1>1, <1>4, <1>5, <1>6, LateCount, UnitsCount
<1>11. \A v \in Units : pc'[v] # "reopen" /\ (pc'[v] = "clear" => v = u)
    BY <1>2, <1>7 DEF Clearing
<1>12. CASE exited + 1 = units
    <2>1. pc'[u] = "clear" /\ round' = round
        BY <1>1, <1>12 DEF Leave, Goto
    <2>2. Clearing' = {u} /\ AtBarrier' = AtBarrier
        BY <1>1, <1>2, <1>11, <2>1 DEF Clearing, AtBarrier
    <2>3. RoundsAgree'
        <3>1. CASE exited = 0
            BY <1>8, <1>10, <2>1, <2>2, <3>1 DEF Inv, RoundsAgree, Late, AtBarrier
        <3>2. CASE exited # 0
            BY <1>10, <2>1, <2>2, <3>2 DEF Inv, RoundsAgree
        <3>. QED
            BY <3>1, <3>2
    <2>. QED
        BY <1>1, <1>2, <1>9, <1>10, <1>11, <1>12, <2>1, <2>2, <2>3
        DEF Inv, TypeOK, Filling, Emptying, Clearer, Full
<1>13. CASE exited + 1 # units
    <2>1. /\ pc'[u] = "kernel" /\ round'[u] = round[u] + 1 /\ round' \in [Units -> Nat]
          /\ \A v \in Units : v # u => round'[v] = round[v]
        BY <1>1, <1>13 DEF Leave, Return, Goto
    <2>2. Clearing' = {} /\ u \in AtBarrier /\ AtBarrier' = AtBarrier \ {u}
        BY <1>1, <1>2, <1>11, <2>1 DEF Clearing, AtBarrier
    <2>3. RoundsAgree'
        <3>1. CASE exited = 0
            <4>1. AtBarrier = Units
                BY <1>8, <3>1 DEF Late, AtBarrier
            <4>2. \A v, w \in Units : round[v] = round[w]
                BY <3>1 DEF Inv, RoundsAgree
            <4>. QED
                BY <1>1, <1>10, <2>1, <2>2, <4>1, <4>2 DEF RoundsAgree
        <3>2. CASE exited # 0
            BY <1>1, <1>10, <2>1, <2>2, <3>2 DEF Inv, RoundsAgree
        <3>. QED
            BY <3>1, <3>2
    <2>4. exited' # units
        BY <1>1, <1>13
    <2>. QED
        BY <1>1, <1>2, <1>9, <1>10, <1>11, <2>1, <2>2, <2>3, <2>4
        DEF Inv, TypeOK, Filling, Emptying, Clearer, Full
<1>. QED
    BY <1>12, <1>13

\* The clearing unit is alone at the barrier.
LEMMA ClearingAlone ==
    ASSUME Inv, NEW u \in Clearing
    PROVE  /\ exited = units /\ Late = {} /\ Clearing = {u} /\ AtBarrier = {u}
           /\ \A v \in Units : pc[v] \notin {"arrive", "spin", "leave"}
           /\ \A v \in Units : v # u => pc[v] \notin {"clear", "reopen"}
<1>1. exited # 0
    BY DEF Inv, Filling
<1>2. exited = units
    BY <1>1, UnitsCount DEF Inv, TypeOK, Emptying
<1>3. Late = {}
    BY <1>1, <1>2, LateCount, UnitsCount DEF Inv, Emptying
<1>4. Clearing = {u}
    BY DEF Inv, Clearer
<1>5. AtBarrier = {u}
    BY <1>3, <1>4 DEF Late, Clearing, AtBarrier
<1>. QED
    BY <1>1, <1>2, <1>3, <1>4, <1>5 DEF Inv, Emptying, Late, Clearing

LEMMA ClearArrivedInv == \A u \in Units : Inv /\ ClearArrived(u) => Inv'
<1>. SUFFICES ASSUME NEW u \in Units, Inv, ClearArrived(u) PROVE Inv'
    OBVIOUS
<1>1. /\ pc \in [Units -> Points] /\ pc[u] = "clear" /\ pc' = [pc EXCEPT ![u] = "reopen"]
      /\ arrived' = 0 /\ exited' = exited /\ round' = round
    BY DEF Inv, TypeOK, ClearArrived, Goto
<1>2. u \in Clearing
    BY <1>1 DEF Clearing
<1>3. /\ pc'[u] = "reopen" /\ pc' \in [Units -> Points]
      /\ \A v \in Units : v # u => pc'[v] = pc[v]
    BY <1>1 DEF Points
<1>4. /\ exited = units
      /\ \A v \in Units : pc[v] \notin {"arrive", "spin", "leave"}
      /\ Clearing = {u}
    BY <1>2, ClearingAlone
<1>5. Late' = Late /\ Clearing' = Clearing /\ AtBarrier' = AtBarrier
    BY <1>1, <1>3 DEF Late, Clearing, AtBarrier
<1>6. exited # 0 /\ ~(exited < units) /\ 0 \in 0 .. units
    BY <1>4, UnitsCount
<1>. QED
    BY <1>1, <1>3, <1>4, <1>5, <1>6
    DEF Inv, TypeOK, Filling, Emptying, Clearer, Full, RoundsAgree

LEMMA ClearExitedInv == \A u \in Units : Inv /\ ClearExited(u) => Inv'
<1>. SUFFICES ASSUME NEW u \in Units, Inv, ClearExited(u) PROVE Inv'
    OBVIOUS
<1>1. /\ pc \in [Units -> Points] /\ round \in [Units -> Nat]
      /\ pc[u] = "reopen" /\ pc' = [pc EXCEPT ![u] = "kernel"]
      /\ round' = [round EXCEPT ![u] = round[u] + 1]
      /\ arrived' = 0 /\ exited' = 0
    BY DEF Inv, TypeOK, ClearExited, Return, Goto, Clearer
<1>2. u \in Clearing
    BY <1>1 DEF Clearing
<1>3. /\ pc'[u] = "kernel" /\ pc' \in [Units -> Points]
      /\ \A v \in Units : v # u => pc'[v] = pc[v]
    BY <1>1 DEF Points
<1>4. /\ exited = units /\ AtBarrier = {u}
      /\ \A v \in Units : pc[v] \notin {"arrive", "spin", "leave"}
      /\ \A v \in Units : v # u => pc[v] \notin {"clear", "reopen"}
    BY <1>2, ClearingAlone
<1>5. Late' = {} /\ Clearing' = {}
    BY <1>3, <1>4 DEF Late, Clearing
<1>6. Cardinality(Late') = 0
    BY <1>5, FS_EmptySet
<1>7. \A v, w \in Units : round'[v] = round'[w]
    <2>1. exited # 0
        BY <1>4, UnitsCount
    <2>2. \A v \in Units : v # u => round[v] = round[u] + 1
        BY <1>4, <2>1 DEF Inv, RoundsAgree
    <2>. QED
        BY <1>1, <2>2
<1>8. 0 # units /\ 0 \in 0 .. units /\ round' \in [Units -> Nat]
    BY <1>1, UnitsCount
<1>9. \A v \in Units : pc'[v] # "leave" /\ pc'[v] # "reopen"
    BY <1>3, <1>4
<1>. QED
    BY <1>1, <1>3, <1>5, <1>6, <1>7, <1>8, <1>9
    DEF Inv, TypeOK, Filling, Emptying, Clearer, Full, RoundsAgree

LEMMA NextInv == Inv /\ [Next]_vars => Inv'
<1>. SUFFICES ASSUME Inv, [Next]_vars PROVE Inv'
    OBVIOUS
<1>1. CASE UNCHANGED vars
    BY <1>1 DEF vars, Inv, TypeOK, Filling, Emptying, Clearer, Full, RoundsAgree,
                Late, Clearing, AtBarrier
<1>2. ASSUME NEW u \in Units, Step(u) PROVE Inv'
    BY <1>2, CallInv, SeeReopenedInv, ArriveInv, SeeFullInv, LeaveInv, ClearArrivedInv,
       ClearExitedInv DEF Step
<1>. QED
    BY <1>1, <1>2 DEF Next

\* The counters of RudaBarrier keep to the number of units, and every unit is
\* at a known point of sync_ruda().
THEOREM BarrierTypeCorrect == Spec => []TypeOK
<1>1. Inv => TypeOK
    BY DEF Inv
<1>. QED
    BY <1>1, InitInv, NextInv, PTL DEF Spec

\* For every number of units and of calls: sync_ruda() returns to a unit only
\* once all the others have arrived in the same call, although the counters
\* are reused without a lock.
THEOREM BarrierSafe == Spec => []BarrierSeparates
<1>1. Inv => BarrierSeparates
    <2>. SUFFICES ASSUME Inv, NEW u \in Units, NEW v \in Units, round[u] > round[v]
                  PROVE  round[u] = round[v] + 1 /\ v \in AtBarrier
        BY DEF BarrierSeparates
    <2>1. round[u] \in Nat /\ round[v] \in Nat
        BY DEF Inv, TypeOK
    <2>2. exited # 0
        BY <2>1 DEF Inv, RoundsAgree
    <2>3. ~(u \in AtBarrier <=> v \in AtBarrier)
        BY <2>1, <2>2 DEF Inv, RoundsAgree
    <2>4. ~(u \in AtBarrier /\ v \notin AtBarrier)
        BY <2>1, <2>2 DEF Inv, RoundsAgree
    <2>. QED
        BY <2>1, <2>2, <2>3, <2>4 DEF Inv, RoundsAgree
<1>. QED
    BY <1>1, InitInv, NextInv, PTL DEF Spec
=============================================================================
