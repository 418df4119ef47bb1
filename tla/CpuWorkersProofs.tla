-------------------------- MODULE CpuWorkersProofs --------------------------
(* Proofs about CpuWorkers: launches of a stream follow each other, barrier  *)
(* launches exclude each other and a write meets no unit of its stream, for  *)
(* every number of streams, workers, units and calls.                        *)
EXTENDS CpuWorkers, FiniteSetTheorems, TLAPS

HostLabels == {"idle", "settle", "write", "copy", "sync", "flush", "drain", "dispatch", "submit"}
WorkerLabels == {"recv", "scan", "run", "free", "publish"}
Launch == [stream : Streams, units : UnitCounts, par : BOOLEAN, prerequisite : Nat, end : Nat]

\* The types of the variables.
HostTypes ==
    /\ host \in [Streams -> HostLabels] /\ calls \in [Streams -> Nat]
    /\ wish \in [Streams -> Wishes] /\ todo \in [Streams -> Nat]
    /\ runner \in Streams \cup {NoStream} /\ workers \in InitialWorkers .. MaxWorkers
LaunchTypes ==
    /\ next \in [Streams -> Nat] /\ completed \in [Streams -> Nat]
    /\ launches \in Seq(Launch) /\ active \subseteq Launches
    /\ remaining \in Seq(Nat) /\ Len(remaining) = Len(launches)
    /\ started \in Seq(Nat) /\ Len(started) = Len(launches)
    /\ parallel \in 0 .. Len(launches)
WorkerTypes ==
    /\ inbox \in [Workers -> Seq(Launches)] /\ pending \in [Workers -> Seq(Launches)]
    /\ scan \in [Workers -> Nat] /\ at \in [Workers -> WorkerLabels]
    /\ job \in [Workers -> 0 .. Len(launches)]
TypesInv == HostTypes /\ LaunchTypes /\ WorkerTypes

\* The thread that submits units, or waits in flush(), holds the mutex; there is a worker for
\* each unit it has to submit.  A write that copies has seen its stream settled.
HostAt(s) ==
    /\ host[s] \in {"submit", "drain"} => runner = s
    /\ host[s] = "submit" => /\ launches # <<>> /\ todo[s] \in 1 .. wish[s].units
                             /\ wish[s].par => wish[s].units <= workers
    /\ host[s] = "copy" => completed[s] >= next[s]
HostInv == \A s \in Streams : HostAt(s)

\* A worker that counted the last unit off its launch.
Finishing(w) == at[w] \in {"free", "publish"}

\* The sequence numbers of the launches of a stream do not overlap, completed stands at the
\* border of two launches, and what lies before it is over.
StreamAt(l) ==
    LET s == launches[l].stream
    IN  /\ launches[l].prerequisite < launches[l].end /\ launches[l].end <= next[s]
        /\ \A k \in Launches : k < l /\ launches[k].stream = s =>
              launches[k].end <= launches[l].prerequisite
        /\ completed[s] <= launches[l].prerequisite \/ completed[s] >= launches[l].end
        /\ completed[s] >= launches[l].end =>
              remaining[l] = 0 /\ \A w \in Workers : Finishing(w) => job[w] # l
StreamInv == (\A s \in Streams : completed[s] <= next[s]) /\ \A l \in Launches : StreamAt(l)

\* A launch with a unit that has started was reached by its stream; one worker finishes it,
\* and a barrier launch keeps parallel until then.
WorkerAt(w) ==
    /\ at[w] = "scan" => scan[w] \in DOMAIN pending[w]
    /\ at[w] = "run" \/ Finishing(w) => job[w] \in Launches /\ Reached(job[w])
    /\ Finishing(w) => /\ remaining[job[w]] = 0
                       /\ \A v \in Workers : Finishing(v) /\ job[v] = job[w] => v = w
    /\ at[w] \in {"run", "free"} /\ launches[job[w]].par => parallel = job[w]
    /\ at[w] = "free" => launches[job[w]].par
WorkerInv == \A w \in Workers : WorkerAt(w)

\* Where a unit of a launch can be once it is submitted, and those that are not.
Place == {"inbox", "pending", "run"} \X Workers \X Nat
Holds(p, l) ==
    \/ p[1] = "inbox" /\ p[3] \in DOMAIN inbox[p[2]] /\ inbox[p[2]][p[3]] = l
    \/ p[1] = "pending" /\ p[3] \in DOMAIN pending[p[2]] /\ pending[p[2]][p[3]] = l
    \/ p[1] = "run" /\ p[3] = 0 /\ at[p[2]] = "run" /\ job[p[2]] = l
Placed(l) == {p \in Place : Holds(p, l)}
Submitting == runner # NoStream /\ host[runner] = "submit"
Unsent(l) == IF l = Len(launches) /\ Submitting THEN todo[runner] ELSE 0

\* remaining counts the units of a launch that have not completed.
UnitsAt(l) == IsFiniteSet(Placed(l)) /\ Cardinality(Placed(l)) + Unsent(l) <= remaining[l]
UnitsInv == \A l \in Launches : UnitsAt(l)

WorkersInv == TypesInv /\ HostInv /\ StreamInv /\ WorkerInv /\ UnitsInv

----------------------------------------------------------------------------
(* Numbers and finite sets *)

\* A nonempty finite set of numbers has a largest member.
LEMMA LargestOf ==
    ASSUME NEW S \in SUBSET Nat, S # {}, IsFiniteSet(S)
    PROVE  Largest(S) \in S /\ \A m \in S : m <= Largest(S)
<1>. DEFINE Bad == {T \in SUBSET S : T # {} /\ ~\E n \in T : \A m \in T : m <= n}
<1>1. Bad = {}
  <2>1. SUFFICES ASSUME Bad # {} PROVE FALSE
    OBVIOUS
  <2>2. Bad \subseteq FiniteSubsetsOf(S)
    BY FS_FiniteSubsetsOfFinite, Zenon
  <2>3. IsWellFoundedOn(StrictSubsetOrdering(S), FiniteSubsetsOf(S))
    BY FS_StrictSubsetOrderingWellFounded, Zenon
  <2>4. PICK T \in Bad : \A U \in Bad : ~(<<U, T>> \in StrictSubsetOrdering(S))
    <3>. HIDE DEF Bad
    <3>. QED
        BY <2>1, <2>2, <2>3, WFMin, Zenon
  <2>5. PICK x \in T : TRUE
    BY Zenon
  <2>6. T \ {x} \notin Bad
    <3>1. <<T \ {x}, T>> \in StrictSubsetOrdering(S)
        BY <2>5, Zenon DEF StrictSubsetOrdering
    <3>. QED
        BY <2>4, <3>1, Zenon
  <2>7. CASE T \ {x} = {}
    <3>1. T = {x} /\ x \in Nat
        BY <2>5, <2>7
    <3>. QED
        BY <3>1
  <2>8. CASE T \ {x} # {}
    <3>1. PICK n \in T \ {x} : \A m \in T \ {x} : m <= n
        BY <2>6, <2>8
    <3>2. n \in Nat /\ x \in Nat /\ T \subseteq Nat
        BY <2>5, <3>1
    <3>3. CASE x <= n
        BY <3>1, <3>2, <3>3
    <3>4. CASE n < x
        BY <2>5, <3>1, <3>2, <3>4
    <3>. QED
        BY <3>2, <3>3, <3>4
  <2>. QED
    BY <2>7, <2>8, Zenon
<1>2. \E n \in S : \A m \in S : m <= n
    BY <1>1, Zenon
<1>. QED
    BY <1>2, Zenon DEF Largest

\* What the size of the worker pool is bounded by.
LEMMA PoolSize ==
    /\ MaxWorkers \in Nat /\ InitialWorkers \in Nat \ {0} /\ InitialWorkers <= MaxWorkers
    /\ \A n \in UnitCounts : n \in Nat \ {0} /\ n <= MaxWorkers
    /\ Largest(UnitCounts) \in UnitCounts
<1>1. IsFiniteSet({InitialWorkers} \cup UnitCounts)
    <2>1. IsFiniteSet({InitialWorkers}) /\ IsFiniteSet(UnitCounts)
        BY FS_Singleton, WorkersAssumption, Zenon
    <2>. QED
        BY <2>1, FS_Union, Zenon
<1>2. {InitialWorkers} \cup UnitCounts \in SUBSET Nat /\ UnitCounts \in SUBSET Nat
    BY WorkersAssumption
<1>3. /\ MaxWorkers \in {InitialWorkers} \cup UnitCounts
      /\ \A m \in {InitialWorkers} \cup UnitCounts : m <= MaxWorkers
    BY <1>1, <1>2, LargestOf, Zenon DEF MaxWorkers
<1>4. Largest(UnitCounts) \in UnitCounts
    BY <1>2, LargestOf, WorkersAssumption, Zenon
<1>. QED
    BY <1>2, <1>3, <1>4, WorkersAssumption, Zenon

\* A counter of a vector that is raised.
LEMMA RaisedFacts ==
    ASSUME NEW q \in Seq(Nat), NEW i \in 1 .. Len(q)
    PROVE  /\ [q EXCEPT ![i] = @ + 1] \in Seq(Nat)
           /\ Len([q EXCEPT ![i] = @ + 1]) = Len(q)
    OBVIOUS

\* What is left when the element at place i is taken out.
LEMMA RemovedFacts ==
    ASSUME NEW S, NEW q \in Seq(S), NEW i \in 1 .. Len(q)
    PROVE  /\ Removed(q, i) \in Seq(S) /\ Len(Removed(q, i)) = Len(q) - 1
           /\ \A j \in 1 .. (Len(q) - 1) :
                 Removed(q, i)[j] = IF j < i THEN q[j] ELSE q[j + 1]
<1>. DEFINE a == SubSeq(q, 1, i - 1)
            b == SubSeq(q, i + 1, Len(q))
<1>1. /\ a \in Seq(S) /\ Len(a) = i - 1 /\ \A j \in 1 .. (i - 1) : a[j] = q[j]
    OBVIOUS
<1>2. /\ b \in Seq(S) /\ Len(b) = Len(q) - i /\ \A j \in 1 .. (Len(q) - i) : b[j] = q[i + j]
    OBVIOUS
<1>3. Removed(q, i) = a \o b
    BY Zenon DEF Removed
<1>. HIDE DEF a, b
<1>4. Removed(q, i) \in Seq(S) /\ Len(Removed(q, i)) = Len(q) - 1
    BY <1>1, <1>2, <1>3
<1>5. ASSUME NEW j \in 1 .. (Len(q) - 1)
      PROVE  Removed(q, i)[j] = IF j < i THEN q[j] ELSE q[j + 1]
    <2>1. CASE j < i
        BY <1>1, <1>2, <1>3, <2>1
    <2>2. CASE ~(j < i)
        <3>1. (a \o b)[j] = b[j - Len(a)] /\ j - Len(a) \in 1 .. (Len(q) - i)
            BY <1>1, <1>2, <2>2
        <3>2. b[j - Len(a)] = q[i + (j - Len(a))] /\ i + (j - Len(a)) = j + 1
            BY <1>1, <1>2, <2>2, <3>1
        <3>. QED
            BY <1>3, <2>2, <3>1, <3>2
    <2>. QED
        BY <2>1, <2>2, Zenon
<1>. QED
    BY <1>4, <1>5, Zenon

\* Places that map one to one to old places are not more than these.
LEMMA Moved ==
    ASSUME NEW S, NEW T, IsFiniteSet(T), NEW f \in [S -> T],
           \A x, y \in S : f[x] = f[y] => x = y
    PROVE  IsFiniteSet(S) /\ Cardinality(S) <= Cardinality(T)
<1>1. f \in Injection(S, T)
    BY Zenon DEF Injection, IsInjective
<1>. QED
    BY <1>1, FS_Injection, Zenon

\* The three counts of a place that is added, one that is given up, and none.
LEMMA CountFacts ==
    ASSUME NEW S, IsFiniteSet(S), NEW x
    PROVE  /\ Cardinality(S) \in Nat
           /\ IsFiniteSet(S \cup {x}) /\ Cardinality(S \cup {x}) \in Nat
           /\ Cardinality(S \cup {x}) <= Cardinality(S) + 1
           /\ IsFiniteSet(S \ {x})
           /\ x \in S => Cardinality(S \ {x}) = Cardinality(S) - 1 /\ Cardinality(S) >= 1
<1>1. Cardinality(S) \in Nat /\ Cardinality(S \ {x}) \in Nat /\ Cardinality(S \cup {x}) \in Nat
    BY FS_CardinalityType, FS_AddElement, FS_RemoveElement, Zenon
<1>2. IsFiniteSet(S \cup {x}) /\ IsFiniteSet(S \ {x})
    BY FS_AddElement, FS_RemoveElement, Zenon
<1>3. Cardinality(S \cup {x}) = IF x \in S THEN Cardinality(S) ELSE Cardinality(S) + 1
    BY FS_AddElement, Zenon
<1>4. x \in S => Cardinality(S \ {x}) = Cardinality(S) - 1
    BY FS_RemoveElement, Zenon
<1>. QED
    BY <1>1, <1>2, <1>3, <1>4

----------------------------------------------------------------------------
(* What the invariants depend on *)

\* An idle pool: no launch, no unit, every thread idle.
LEMMA WorkersInit == Init => WorkersInv
<1>. SUFFICES ASSUME Init PROVE WorkersInv
    OBVIOUS
<1>1. Launches = {} /\ Len(launches) = 0 /\ launches = <<>>
    BY DEF Init, Launches
<1>2. HostTypes
    BY PoolSize, WorkersAssumption DEF Init, HostTypes, HostLabels, Wishes
<1>3. LaunchTypes
    BY <1>1 DEF Init, LaunchTypes
<1>4. WorkerTypes
    BY <1>1 DEF Init, WorkerTypes, WorkerLabels
<1>5. HostInv
    BY DEF Init, HostInv, HostAt
<1>6. StreamInv
    BY <1>1 DEF Init, StreamInv
<1>7. WorkerInv
    BY DEF Init, WorkerInv, WorkerAt, Finishing
<1>8. UnitsInv
    BY <1>1, Zenon DEF UnitsInv
<1>. QED
    BY <1>2, <1>3, <1>4, <1>5, <1>6, <1>7, <1>8, Zenon DEF WorkersInv, TypesInv

\* The facts about the launches in the form the steps use them.
LEMMA LaunchFacts ==
    ASSUME LaunchTypes
    PROVE  /\ Len(launches) \in Nat /\ Launches = DOMAIN launches
           /\ \A l \in Launches :
                 /\ l \in Nat \ {0} /\ l <= Len(launches) /\ launches[l] \in Launch
                 /\ launches[l].stream \in Streams /\ launches[l].units \in UnitCounts
                 /\ launches[l].prerequisite \in Nat /\ launches[l].end \in Nat
                 /\ remaining[l] \in Nat /\ started[l] \in Nat
                 /\ completed[launches[l].stream] \in Nat /\ next[launches[l].stream] \in Nat
<1>1. Len(launches) \in Nat /\ Launches = DOMAIN launches
    BY DEF LaunchTypes, Launches
<1>2. ASSUME NEW l \in Launches
      PROVE  /\ l \in Nat \ {0} /\ l <= Len(launches) /\ launches[l] \in Launch
             /\ remaining[l] \in Nat /\ started[l] \in Nat
    BY DEF LaunchTypes, Launches
<1>3. ASSUME NEW l \in Launches
      PROVE  /\ launches[l].stream \in Streams /\ launches[l].units \in UnitCounts
             /\ launches[l].prerequisite \in Nat /\ launches[l].end \in Nat
    BY <1>2 DEF Launch
<1>4. ASSUME NEW l \in Launches
      PROVE  completed[launches[l].stream] \in Nat /\ next[launches[l].stream] \in Nat
    BY <1>3 DEF LaunchTypes
<1>. QED
    BY <1>1, <1>2, <1>3, <1>4, Zenon

\* StreamInv speaks of the launches, the counters and the workers that finish a launch.
LEMMA KeepStreams ==
    ASSUME StreamInv, UNCHANGED <<next, completed, launches, remaining>>,
           \A w \in Workers : Finishing(w)' => Finishing(w) /\ job'[w] = job[w]
    PROVE  StreamInv'
<1>1. Launches' = Launches
    BY Zenon DEF Launches
<1>2. ASSUME NEW l \in Launches PROVE StreamAt(l)'
    <2>1. StreamAt(l)
        BY <1>2, Zenon DEF StreamInv
    <2>. QED
        BY <1>1, <2>1, Zenon DEF StreamAt
<1>. QED
    BY <1>1, <1>2, Zenon DEF StreamInv

\* WorkerAt speaks of one worker and of those that finish the same launch.
LEMMA KeepWorker ==
    ASSUME NEW v \in Workers, WorkerAt(v), UNCHANGED <<completed, launches, remaining>>,
           pending'[v] = pending[v], scan'[v] = scan[v], at'[v] = at[v], job'[v] = job[v],
           \A u \in Workers : Finishing(u)' => Finishing(u) /\ job'[u] = job[u],
           at[v] \in {"run", "free"} /\ launches[job[v]].par => parallel' = parallel
    PROVE  WorkerAt(v)'
<1>1. Launches' = Launches /\ (Reached(job[v]) <=> Reached(job[v])')
    BY Zenon DEF Launches, Reached
<1>2. Finishing(v)' <=> Finishing(v)
    BY Zenon DEF Finishing
<1>. QED
    BY <1>1, <1>2, Zenon DEF WorkerAt, Reached

\* The units of a launch are counted as before when its places and its counter are.
LEMMA KeepUnits ==
    ASSUME UnitsInv, LaunchTypes, UNCHANGED <<launches, remaining>>,
           \A l \in Launches : Placed(l)' = Placed(l),
           \A l \in Launches : Unsent(l) \in Nat /\ Unsent(l)' \in Nat /\ Unsent(l)' <= Unsent(l)
    PROVE  UnitsInv'
<1>1. Launches' = Launches
    BY Zenon DEF Launches
<1>2. ASSUME NEW l \in Launches PROVE UnitsAt(l)'
    <2>1. UnitsAt(l) /\ remaining'[l] = remaining[l] /\ remaining[l] \in Nat
        BY <1>2, LaunchFacts, Zenon DEF UnitsInv
    <2>2. IsFiniteSet(Placed(l)) /\ Cardinality(Placed(l)) + Unsent(l) <= remaining[l]
        BY <2>1, Zenon DEF UnitsAt
    <2>3. IsFiniteSet(Placed(l)') /\ Cardinality(Placed(l)') = Cardinality(Placed(l))
        BY <2>2, Zenon
    <2>4. Cardinality(Placed(l)) \in Nat
        BY <2>2, FS_CardinalityType, Zenon
    <2>5. Cardinality(Placed(l)') + Unsent(l)' <= remaining'[l]
        BY <2>1, <2>2, <2>3, <2>4
    <2>. QED
        BY <2>3, <2>5, Zenon DEF UnitsAt
<1>. QED
    BY <1>1, <1>2, Zenon DEF UnitsInv

\* The units that are still to be sent are a number.
LEMMA UnsentType ==
    ASSUME HostTypes, NEW l
    PROVE  Unsent(l) \in Nat
<1>1. runner # NoStream => todo[runner] \in Nat
    BY DEF HostTypes
<1>. QED
    BY <1>1 DEF Unsent, Submitting

----------------------------------------------------------------------------
(* The threads that drive the streams *)

\* A step of the thread of s that submits nothing.
LEMMA HostMoves ==
    ASSUME WorkersInv, HostTypes', NEW s \in Streams, NEW x \in HostLabels \ {"submit"},
           host' = [host EXCEPT ![s] = x], runner' \in {runner, s, NoStream},
           active' \subseteq Launches,
           UNCHANGED <<todo, counters, workers, parallel, launches, locals>>
    PROVE  LaunchTypes' /\ WorkerTypes' /\ StreamInv' /\ WorkerInv' /\ UnitsInv'
<1>. USE DEF counters, locals
<1>1. LaunchTypes' /\ WorkerTypes'
    BY Zenon DEF WorkersInv, TypesInv, LaunchTypes, WorkerTypes, Launches
<1>2. \A w \in Workers : Finishing(w)' => Finishing(w) /\ job'[w] = job[w]
    BY Zenon DEF Finishing
<1>3. StreamInv'
    BY <1>2, KeepStreams, Zenon DEF WorkersInv
<1>4. WorkerInv'
    BY <1>2, KeepWorker, Zenon DEF WorkersInv, WorkerInv
<1>5. UnitsInv'
    <2>1. \A l \in Launches : Placed(l)' = Placed(l)
        BY Zenon DEF Placed, Holds
    <2>2. ASSUME NEW l \in Launches
          PROVE  Unsent(l) \in Nat /\ Unsent(l)' \in Nat /\ Unsent(l)' <= Unsent(l)
        <3>1. Unsent(l) \in Nat
            BY UnsentType, Zenon DEF WorkersInv, TypesInv
        <3>2. CASE Submitting'
            <4>1. runner' \in Streams /\ host'[runner'] = "submit"
                BY <3>2, Zenon DEF HostTypes, Submitting
            <4>2. runner' # s
                BY <4>1, Zenon DEF WorkersInv, TypesInv, HostTypes
            <4>3. runner' = runner /\ Submitting
                BY <3>2, <4>1, <4>2 DEF Submitting, WorkersInv, TypesInv, HostTypes
            <4>. QED
                BY <3>1, <3>2, <4>3 DEF Unsent
        <3>3. CASE ~Submitting'
            BY <3>1, <3>3 DEF Unsent
        <3>. QED
            BY <3>2, <3>3, Zenon
    <2>. QED
        BY <2>1, <2>2, KeepUnits, Zenon DEF WorkersInv, TypesInv
<1>. QED
    BY <1>1, <1>3, <1>4, <1>5, Zenon

\* What the other threads are held to stays true when the thread of s goes to x.
LEMMA HostKept ==
    ASSUME HostTypes, HostInv, NEW s \in Streams, NEW x \in HostLabels \ {"submit"},
           host' = [host EXCEPT ![s] = x], \A r \in Streams \ {s} : wish'[r] = wish[r],
           runner' = runner \/ \A r \in Streams \ {s} : host[r] \notin {"submit", "drain"},
           x = "drain" => runner' = s, x = "copy" => completed[s] >= next[s],
           UNCHANGED <<todo, next, completed, workers, launches>>
    PROVE  HostInv'
<1>1. ASSUME NEW r \in Streams, r # s PROVE HostAt(r)'
    <2>1. HostAt(r) /\ host'[r] = host[r] /\ wish'[r] = wish[r]
        BY <1>1 DEF HostTypes, HostInv
    <2>. QED
        BY <1>1, <2>1, Zenon DEF HostAt
<1>2. HostAt(s)'
    <2>1. host'[s] = x
        BY DEF HostTypes
    <2>. QED
        BY <2>1, Zenon DEF HostAt, HostLabels
<1>. QED
    BY <1>1, <1>2, Zenon DEF HostInv

\* A thread asks for a launch or for a write.
LEMMA CallStep == ASSUME WorkersInv, NEW s \in Streams, Call(s) PROVE WorkersInv'
<1>1. PICK x \in {"settle", "dispatch", "write", "sync", "flush"} : host' = [host EXCEPT ![s] = x]
    BY Zenon DEF Call, Goto
<1>2. x \in HostLabels \ {"submit"} /\ x \notin {"drain", "copy"}
    BY DEF HostLabels
<1>3. HostTypes /\ HostInv /\ active \subseteq Launches
    BY Zenon DEF WorkersInv, TypesInv, LaunchTypes
<1>4. HostTypes'
    <2>1. host' \in [Streams -> HostLabels]
        BY <1>1, <1>2, <1>3 DEF HostTypes
    <2>2. calls' \in [Streams -> Nat]
        BY <1>3 DEF HostTypes, Call
    <2>3. wish' \in [Streams -> Wishes]
        BY <1>3 DEF HostTypes, Call, Wishes
    <2>. QED
        BY <1>3, <2>1, <2>2, <2>3, Zenon DEF HostTypes, Call, shared
<1>5. \A r \in Streams \ {s} : wish'[r] = wish[r]
    BY <1>3 DEF HostTypes, Call
<1>6. UNCHANGED <<todo, counters, runner, workers, active, parallel, launches, locals>>
    BY Zenon DEF Call, shared
<1>7. HostInv'
    BY <1>1, <1>2, <1>3, <1>5, <1>6, HostKept, Zenon DEF counters
<1>8. LaunchTypes' /\ WorkerTypes' /\ StreamInv' /\ WorkerInv' /\ UnitsInv'
    BY <1>1, <1>2, <1>3, <1>4, <1>6, HostMoves, Zenon
<1>. QED
    BY <1>4, <1>7, <1>8, Zenon DEF WorkersInv, TypesInv

\* Settle, Write, Sync and Flush move the thread of s, and may take or release the mutex.
LEMMA QuietStep ==
    ASSUME WorkersInv, NEW s \in Streams, NEW x \in HostLabels \ {"submit"},
           host' = [host EXCEPT ![s] = x], runner' \in {runner, s, NoStream},
           runner' = runner \/ \A r \in Streams \ {s} : host[r] \notin {"submit", "drain"},
           x = "drain" => runner' = s, x = "copy" => completed[s] >= next[s],
           active' \subseteq Launches,
           UNCHANGED <<calls, wish, todo, counters, workers, parallel, launches, locals>>
    PROVE  WorkersInv'
<1>1. HostTypes /\ HostInv
    BY Zenon DEF WorkersInv, TypesInv
<1>2. HostTypes'
    <2>1. host' \in [Streams -> HostLabels]
        BY <1>1 DEF HostTypes
    <2>2. runner' \in Streams \cup {NoStream}
        BY <1>1, Zenon DEF HostTypes
    <2>. QED
        BY <1>1, <2>1, <2>2, Zenon DEF HostTypes
<1>3. HostInv'
    BY <1>1, HostKept, Zenon DEF counters
<1>4. LaunchTypes' /\ WorkerTypes' /\ StreamInv' /\ WorkerInv' /\ UnitsInv'
    BY <1>2, HostMoves, Zenon
<1>. QED
    BY <1>2, <1>3, <1>4, Zenon DEF WorkersInv, TypesInv

\* A launch with shared memory goes on once its stream is settled.
LEMMA SettleStep == ASSUME WorkersInv, NEW s \in Streams, Settle(s) PROVE WorkersInv'
<1>1. "dispatch" \in HostLabels \ {"submit"} /\ "dispatch" # "drain" /\ "dispatch" # "copy"
    BY DEF HostLabels
<1>2. active' \subseteq Launches
    BY Zenon DEF WorkersInv, TypesInv, LaunchTypes, Settle, shared
<1>. QED
    BY <1>1, <1>2, QuietStep, Zenon DEF Settle, Goto, shared

\* A write starts to copy once its stream is settled, and ends.
LEMMA WriteStep == ASSUME WorkersInv, NEW s \in Streams, Write(s) PROVE WorkersInv'
<1>1. /\ "copy" \in HostLabels \ {"submit"} /\ "copy" # "drain"
      /\ "idle" \in HostLabels \ {"submit"} /\ "idle" # "drain" /\ "idle" # "copy"
    BY DEF HostLabels
<1>2. active' \subseteq Launches
    BY Zenon DEF WorkersInv, TypesInv, LaunchTypes, Write, shared
<1>3. CASE host' = [host EXCEPT ![s] = "copy"] /\ Settled(s)
    BY <1>1, <1>2, <1>3, QuietStep, Zenon DEF Write, Settled, shared
<1>4. CASE host' = [host EXCEPT ![s] = "idle"]
    BY <1>1, <1>2, <1>4, QuietStep, Zenon DEF Write, shared
<1>. QED
    BY <1>3, <1>4, Zenon DEF Write, Goto

\* sync() of a settled stream reclaims the launches that are complete.
LEMMA SyncStep == ASSUME WorkersInv, NEW s \in Streams, Sync(s) PROVE WorkersInv'
<1>1. "idle" \in HostLabels \ {"submit"} /\ "idle" # "drain" /\ "idle" # "copy"
    BY DEF HostLabels
<1>2. active' \subseteq Launches
    BY Zenon DEF WorkersInv, TypesInv, LaunchTypes, Sync
<1>. QED
    BY <1>1, <1>2, QuietStep, Zenon DEF Sync, Goto

\* flush() takes the mutex, and gives it up when every active launch is complete.
LEMMA FlushStep == ASSUME WorkersInv, NEW s \in Streams, Flush(s) PROVE WorkersInv'
<1>1. /\ "drain" \in HostLabels \ {"submit"} /\ "drain" # "copy"
      /\ "idle" \in HostLabels \ {"submit"} /\ "idle" # "drain" /\ "idle" # "copy"
    BY DEF HostLabels
<1>2. \A r \in Streams : host[r] \in {"submit", "drain"} => runner = r /\ r # NoStream
    BY WorkersAssumption, Zenon DEF WorkersInv, HostInv, HostAt
<1>3. active \subseteq Launches
    BY Zenon DEF WorkersInv, TypesInv, LaunchTypes
<1>4. CASE /\ runner = NoStream /\ runner' = s
           /\ host' = [host EXCEPT ![s] = "drain"] /\ UNCHANGED active
    <2>1. \A r \in Streams \ {s} : host[r] \notin {"submit", "drain"}
        BY <1>2, <1>4, Zenon
    <2>. QED
        BY <1>1, <1>3, <1>4, <2>1, QuietStep, Zenon DEF Flush
<1>5. CASE /\ host[s] = "drain" /\ runner' = NoStream /\ active' = {}
           /\ host' = [host EXCEPT ![s] = "idle"]
    <2>1. \A r \in Streams \ {s} : host[r] \notin {"submit", "drain"}
        BY <1>2, <1>5, Zenon
    <2>2. active' \subseteq Launches
        BY <1>5, Zenon
    <2>. QED
        BY <1>1, <1>5, <2>1, <2>2, QuietStep, Zenon DEF Flush
<1>. QED
    BY <1>4, <1>5, Zenon DEF Flush, Goto

\* What a vector that grows by one element holds.
LEMMA AppendFacts ==
    ASSUME NEW S, NEW q \in Seq(S), NEW e \in S
    PROVE  /\ Append(q, e) \in Seq(S) /\ Len(Append(q, e)) = Len(q) + 1
           /\ Append(q, e)[Len(q) + 1] = e /\ Append(q, e) # <<>>
           /\ \A j \in 1 .. Len(q) : Append(q, e)[j] = q[j]
<1>1. /\ Append(q, e) \in Seq(S) /\ Len(Append(q, e)) = Len(q) + 1
      /\ Append(q, e)[Len(q) + 1] = e
      /\ \A j \in 1 .. Len(q) : Append(q, e)[j] = q[j]
    OBVIOUS
<1>2. Append(q, e) # <<>>
    BY <1>1
<1>. QED
    BY <1>1, <1>2, Zenon

\* A launch enters the vector, its stream reserves its units and the pool grows.
LEMMA DispatchStep == ASSUME WorkersInv, NEW s \in Streams, Dispatch(s) PROVE WorkersInv'
<1>. PICK n : n = Len(launches) + 1
    BY Zenon
<1>. DEFINE new == [stream |-> s, units |-> wish[s].units, par |-> wish[s].par,
                    prerequisite |-> next[s], end |-> next[s] + wish[s].units]
<1>1. HostTypes /\ LaunchTypes /\ WorkerTypes /\ HostInv
    BY Zenon DEF WorkersInv, TypesInv
<1>2. /\ wish[s].units \in UnitCounts /\ wish[s].par \in BOOLEAN
      /\ wish[s].units \in Nat \ {0} /\ wish[s].units <= MaxWorkers
      /\ next[s] \in Nat /\ n \in Nat \ {0} /\ Len(launches) \in Nat
    <2>1. wish[s] \in Wishes /\ next[s] \in Nat /\ launches \in Seq(Launch)
        BY <1>1, Zenon DEF HostTypes, LaunchTypes
    <2>2. wish[s].units \in UnitCounts /\ wish[s].par \in BOOLEAN
        BY <2>1 DEF Wishes
    <2>3. wish[s].units \in Nat \ {0} /\ wish[s].units <= MaxWorkers
        BY <2>2, PoolSize
    <2>4. n \in Nat \ {0} /\ Len(launches) \in Nat
        BY <2>1
    <2>. QED
        BY <2>1, <2>2, <2>3, <2>4, Zenon
<1>3. new \in Launch
    BY <1>2 DEF Launch
<1>4. /\ launches' = Append(launches, new) /\ remaining' = Append(remaining, new.units)
      /\ started' = Append(started, 0)
    BY Zenon DEF Dispatch
<1>5. /\ launches' \in Seq(Launch) /\ Len(launches') = n /\ launches'[n] = new
      /\ remaining' \in Seq(Nat) /\ Len(remaining') = n /\ remaining'[n] = wish[s].units
      /\ started' \in Seq(Nat) /\ Len(started') = n
      /\ \A l \in Launches : launches'[l] = launches[l] /\ remaining'[l] = remaining[l]
      /\ launches' # <<>>
    <2>. HIDE DEF new
    <2>1. new.units = wish[s].units /\ Launches = 1 .. Len(launches)
        BY DEF new, Launches
    <2>2. /\ launches \in Seq(Launch) /\ remaining \in Seq(Nat) /\ started \in Seq(Nat)
          /\ Len(remaining) = Len(launches) /\ Len(started) = Len(launches)
        BY <1>1, Zenon DEF LaunchTypes
    <2>3. /\ launches' \in Seq(Launch) /\ Len(launches') = n /\ launches'[n] = new
          /\ launches' # <<>> /\ \A l \in Launches : launches'[l] = launches[l]
        <3>. DEFINE grown == Append(launches, new)
        <3>1. /\ grown \in Seq(Launch) /\ Len(grown) = Len(launches) + 1
              /\ grown[Len(launches) + 1] = new /\ grown # <<>>
              /\ \A l \in 1 .. Len(launches) : grown[l] = launches[l]
            BY <1>3, <2>2, AppendFacts
        <3>2. launches' = grown
            BY <1>4, Zenon
        <3>. HIDE DEF grown
        <3>. QED
            BY <2>1, <3>1, <3>2, Zenon
    <2>4. /\ remaining' \in Seq(Nat) /\ Len(remaining') = n /\ remaining'[n] = wish[s].units
          /\ \A l \in Launches : remaining'[l] = remaining[l]
        BY <1>2, <1>4, <2>1, <2>2
    <2>5. started' \in Seq(Nat) /\ Len(started') = n
        BY <1>2, <1>4, <2>2
    <2>. QED
        BY <2>3, <2>4, <2>5, Zenon
<1>6. /\ Launches' = Launches \cup {n} /\ n \notin Launches
      /\ \A l \in Launches : l \in Nat \ {0} /\ l < n
    BY <1>2, <1>5 DEF Launches
<1>7. /\ next' = [next EXCEPT ![s] = @ + wish[s].units] /\ host' = [host EXCEPT ![s] = "submit"]
      /\ todo' = [todo EXCEPT ![s] = wish[s].units] /\ runner = NoStream /\ runner' = s
      /\ workers' = Grown(wish[s]) /\ active' \subseteq active \cup {n}
      /\ UNCHANGED <<calls, wish, completed, parallel, locals>>
    BY Zenon DEF Dispatch, Goto
<1>. HIDE DEF new
<1>8. new.stream = s /\ new.prerequisite = next[s] /\ new.end = next[s] + wish[s].units
    BY DEF new
<1>9. workers' \in InitialWorkers .. MaxWorkers /\ (wish[s].par => wish[s].units <= workers')
    BY <1>1, <1>2, <1>7, PoolSize DEF HostTypes, Grown
<1>10. HostTypes'
    <2>1. host' \in [Streams -> HostLabels]
        BY <1>1, <1>7 DEF HostTypes, HostLabels
    <2>2. todo' \in [Streams -> Nat]
        BY <1>1, <1>2, <1>7 DEF HostTypes
    <2>. QED
        BY <1>1, <1>7, <1>9, <2>1, <2>2, Zenon DEF HostTypes
<1>11. LaunchTypes'
    <2>1. next' \in [Streams -> Nat]
        BY <1>1, <1>2, <1>7 DEF LaunchTypes
    <2>2. parallel' \in 0 .. Len(launches')
        BY <1>1, <1>2, <1>5, <1>7 DEF LaunchTypes
    <2>3. active' \subseteq Launches'
        BY <1>1, <1>6, <1>7, Zenon DEF LaunchTypes
    <2>4. completed' \in [Streams -> Nat]
        BY <1>1, <1>7, Zenon DEF LaunchTypes
    <2>. QED
        BY <1>5, <2>1, <2>2, <2>3, <2>4, Zenon DEF LaunchTypes
<1>12. WorkerTypes'
    <2>1. Seq(Launches) \subseteq Seq(Launches')
        BY <1>6
    <2>2. inbox' \in [Workers -> Seq(Launches')] /\ pending' \in [Workers -> Seq(Launches')]
        BY <1>1, <1>7, <2>1 DEF WorkerTypes, locals
    <2>3. job' \in [Workers -> 0 .. Len(launches')]
        <3>1. 0 .. Len(launches) \subseteq 0 .. Len(launches')
            BY <1>2, <1>5
        <3>. QED
            BY <1>1, <1>7, <3>1 DEF WorkerTypes, locals
    <2>. QED
        BY <1>1, <1>7, <2>2, <2>3, Zenon DEF WorkerTypes, locals
<1>13. HostInv'
    <2>1. ASSUME NEW r \in Streams, r # s PROVE HostAt(r)'
        <3>1. HostAt(r) /\ host'[r] = host[r] /\ next'[r] = next[r] /\ runner # r
            BY <1>1, <1>7, <2>1, WorkersAssumption DEF HostTypes, HostInv, LaunchTypes
        <3>. QED
            BY <1>7, <3>1, Zenon DEF HostAt
    <2>2. HostAt(s)'
        <3>1. host'[s] = "submit" /\ todo'[s] = wish[s].units
            BY <1>1, <1>7 DEF HostTypes
        <3>2. todo'[s] \in 1 .. wish'[s].units /\ (wish'[s].par => wish'[s].units <= workers')
            BY <1>2, <1>7, <1>9, <3>1
        <3>. QED
            BY <1>5, <1>7, <3>1, <3>2, Zenon DEF HostAt
    <2>. QED
        BY <2>1, <2>2, Zenon DEF HostInv
<1>14. \A w \in Workers : (Finishing(w)' <=> Finishing(w)) /\ job'[w] = job[w]
    BY <1>7, Zenon DEF Finishing, locals
<1>15. \A r \in Streams : next[r] \in Nat /\ next'[r] \in Nat /\ next[r] <= next'[r]
    BY <1>1, <1>2, <1>7, SMTT(20) DEF LaunchTypes
<1>16. \A w \in Workers : at[w] = "run" \/ Finishing(w) => job[w] \in Launches
    BY Zenon DEF WorkersInv, WorkerInv, WorkerAt
<1>17. StreamInv'
    <2>1. \A r \in Streams : completed[r] \in Nat /\ completed[r] <= next[r]
        BY <1>1, Zenon DEF WorkersInv, StreamInv, LaunchTypes
    <2>2. \A r \in Streams : completed'[r] <= next'[r]
        BY <1>7, <1>15, <2>1
    <2>3. ASSUME NEW l \in Launches PROVE StreamAt(l)'
        <3>1. StreamAt(l) /\ launches'[l] = launches[l] /\ remaining'[l] = remaining[l]
            BY <1>5, <2>3, Zenon DEF WorkersInv, StreamInv
        <3>2. launches[l].end <= next'[launches[l].stream]
            BY <1>1, <1>15, <2>3, <3>1, LaunchFacts DEF StreamAt
        <3>3. \A k \in Launches' : k < l => k \in Launches /\ launches'[k] = launches[k]
            BY <1>2, <1>5, <1>6
        <3>. QED
            BY <1>7, <1>14, <3>1, <3>2, <3>3, Zenon DEF StreamAt
    <2>4. StreamAt(n)'
        <3>1. \A k \in Launches' : k < n => k \in Launches /\ launches'[k] = launches[k]
            BY <1>5, <1>6
        <3>2. \A k \in Launches : launches[k].stream = s => launches[k].end <= next[s]
            BY Zenon DEF WorkersInv, StreamInv, StreamAt
        <3>3. next[s] < next[s] + wish[s].units /\ next'[s] = next[s] + wish[s].units
            BY <1>1, <1>2, <1>7 DEF LaunchTypes
        <3>4. completed'[s] <= next[s] /\ ~(completed'[s] >= next[s] + wish[s].units)
            BY <1>2, <1>7, <2>1
        <3>5. next[s] + wish[s].units <= next'[s]
            BY <1>15, <3>3
        <3>. QED
            BY <1>5, <1>8, <3>1, <3>2, <3>3, <3>4, <3>5, Zenon DEF StreamAt
    <2>. QED
        BY <1>6, <2>2, <2>3, <2>4, Zenon DEF StreamInv
<1>18. WorkerInv'
    <2>1. SUFFICES ASSUME NEW w \in Workers PROVE WorkerAt(w)'
        BY Zenon DEF WorkerInv
    <2>2. WorkerAt(w) /\ UNCHANGED <<at, scan, pending, job, parallel, completed>>
        BY <1>7, Zenon DEF WorkersInv, WorkerInv, locals
    <2>3. CASE at[w] = "run" \/ Finishing(w)
        <3>1. /\ job[w] \in Launches /\ launches'[job[w]] = launches[job[w]]
              /\ remaining'[job[w]] = remaining[job[w]] /\ job[w] \in Launches'
            BY <1>5, <1>6, <1>16, <2>3, Zenon
        <3>. QED
            BY <1>14, <2>2, <3>1, Zenon DEF WorkerAt, Reached
    <2>4. CASE ~(at[w] = "run" \/ Finishing(w))
        BY <2>2, <2>4, Zenon DEF WorkerAt, Finishing
    <2>. QED
        BY <2>3, <2>4, Zenon
<1>19. UnitsInv'
    <2>1. \A l : Placed(l)' = Placed(l)
        BY <1>7, Zenon DEF Placed, Holds, locals
    <2>2. ASSUME NEW l \in Launches PROVE UnitsAt(l)'
        <3>1. /\ UnitsAt(l) /\ Unsent(l) \in Nat
              /\ remaining'[l] = remaining[l] /\ remaining[l] \in Nat
            BY <1>1, <1>5, <2>2, UnsentType, LaunchFacts, Zenon DEF WorkersInv, UnitsInv
        <3>2. Unsent(l)' = 0
            BY <1>5, <1>6, <2>2, Zenon DEF Unsent
        <3>3. IsFiniteSet(Placed(l)) /\ Cardinality(Placed(l)) \in Nat
            BY <3>1, FS_CardinalityType, Zenon DEF UnitsAt
        <3>4. Cardinality(Placed(l)) + 0 <= remaining'[l]
            BY <3>1, <3>3 DEF UnitsAt
        <3>. QED
            BY <2>1, <3>2, <3>3, <3>4, Zenon DEF UnitsAt
    <2>3. UnitsAt(n)'
        <3>1. Placed(n) = {}
            <4>1. SUFFICES ASSUME NEW p \in Place, Holds(p, n) PROVE FALSE
                BY Zenon DEF Placed
            <4>2. p[2] \in Workers
                BY DEF Place
            <4>3. /\ inbox[p[2]] \in Seq(Launches) /\ pending[p[2]] \in Seq(Launches)
                BY <1>1, <4>2, Zenon DEF WorkerTypes
            <4>4. /\ \A j \in DOMAIN inbox[p[2]] : inbox[p[2]][j] \in Launches
                  /\ \A j \in DOMAIN pending[p[2]] : pending[p[2]][j] \in Launches
                BY <4>3
            <4>. QED
                BY <1>6, <1>16, <4>1, <4>2, <4>4, Zenon DEF Holds
        <3>2. Unsent(n)' = wish[s].units
            <4>1. host'[s] = "submit" /\ todo'[s] = wish[s].units /\ s # NoStream
                BY <1>1, <1>7, WorkersAssumption DEF HostTypes
            <4>. QED
                BY <1>5, <1>7, <4>1, Zenon DEF Unsent, Submitting
        <3>3. IsFiniteSet({}) /\ Cardinality({}) + wish[s].units <= remaining'[n]
            BY <1>2, <1>5, FS_EmptySet
        <3>. QED
            BY <2>1, <3>1, <3>2, <3>3, Zenon DEF UnitsAt
    <2>. QED
        BY <1>6, <2>2, <2>3, Zenon DEF UnitsInv
<1>. QED
    BY <1>10, <1>11, <1>12, <1>13, <1>17, <1>18, <1>19, Zenon DEF WorkersInv, TypesInv

\* A unit of the newest launch is sent to the inbox of a worker.
LEMMA SubmitStep == ASSUME WorkersInv, NEW s \in Streams, Submit(s) PROVE WorkersInv'
<1>. DEFINE n == Len(launches)
<1>1. HostTypes /\ LaunchTypes /\ WorkerTypes /\ HostInv /\ HostAt(s) /\ host[s] = "submit"
    BY Zenon DEF WorkersInv, TypesInv, HostInv, Submit
<1>2. /\ runner = s /\ launches # <<>> /\ todo[s] \in 1 .. wish[s].units
      /\ wish[s].par => wish[s].units <= workers
    BY <1>1, Zenon DEF HostAt
<1>3. /\ wish[s].units \in Nat \ {0} /\ todo[s] \in Nat \ {0} /\ todo[s] <= wish[s].units
      /\ workers \in Nat /\ workers <= MaxWorkers /\ n \in Launches
    BY <1>1, <1>2, PoolSize DEF HostTypes, Wishes, LaunchTypes, Launches
<1>4. PICK w \in Targets(wish[s], todo[s]) : inbox' = [inbox EXCEPT ![w] = Append(@, n)]
    BY Zenon DEF Submit
<1>5. w \in Workers
    BY <1>2, <1>3, <1>4, PoolSize, SMTT(20) DEF Targets, Workers
<1>6. /\ todo' = [todo EXCEPT ![s] = @ - 1]
      /\ UNCHANGED <<calls, wish, next, completed, remaining, started, workers, active, parallel,
                     launches, pending, scan, at, job>>
    BY Zenon DEF Submit, counters
<1>7. \/ todo[s] > 1 /\ UNCHANGED <<host, runner>>
      \/ todo[s] = 1 /\ host' = [host EXCEPT ![s] = "idle"] /\ runner' = NoStream
    BY <1>3 DEF Submit, Goto
<1>. HIDE DEF n
<1>8. HostTypes'
    <2>1. todo' \in [Streams -> Nat]
        BY <1>1, <1>3, <1>6 DEF HostTypes
    <2>2. host' \in [Streams -> HostLabels]
        BY <1>1, <1>7 DEF HostTypes, HostLabels
    <2>3. runner' \in Streams \cup {NoStream}
        BY <1>1, <1>7, Zenon DEF HostTypes
    <2>. QED
        BY <1>1, <1>6, <2>1, <2>2, <2>3, Zenon DEF HostTypes
<1>9. LaunchTypes'
    BY <1>1, <1>6, Zenon DEF LaunchTypes, Launches
<1>10. WorkerTypes'
    <2>1. inbox' \in [Workers -> Seq(Launches)]
        BY <1>1, <1>3, <1>4, <1>5 DEF WorkerTypes
    <2>. QED
        BY <1>1, <1>6, <2>1, Zenon DEF WorkerTypes, Launches
<1>11. HostInv'
    <2>1. ASSUME NEW r \in Streams, r # s PROVE HostAt(r)'
        <3>1. HostAt(r) /\ host'[r] = host[r] /\ todo'[r] = todo[r] /\ runner # r
            BY <1>1, <1>2, <1>6, <1>7, <2>1 DEF HostTypes, HostInv
        <3>. QED
            BY <1>6, <3>1, Zenon DEF HostAt
    <2>2. HostAt(s)'
        <3>1. todo'[s] = todo[s] - 1
            BY <1>1, <1>6 DEF HostTypes
        <3>2. CASE todo[s] > 1 /\ UNCHANGED <<host, runner>>
            <4>1. todo'[s] \in 1 .. wish[s].units
                BY <1>3, <3>1, <3>2
            <4>. QED
                BY <1>1, <1>2, <1>6, <3>2, <4>1, Zenon DEF HostAt
        <3>3. CASE host' = [host EXCEPT ![s] = "idle"]
            <4>1. host'[s] = "idle"
                BY <1>1, <3>3 DEF HostTypes
            <4>. QED
                BY <4>1, Zenon DEF HostAt
        <3>. QED
            BY <1>7, <3>2, <3>3, Zenon
    <2>. QED
        BY <2>1, <2>2, Zenon DEF HostInv
<1>12. \A v \in Workers : Finishing(v)' => Finishing(v) /\ job'[v] = job[v]
    BY <1>6, Zenon DEF Finishing
<1>13. StreamInv'
    BY <1>6, <1>12, KeepStreams, Zenon DEF WorkersInv
<1>14. WorkerInv'
    BY <1>6, <1>12, KeepWorker, Zenon DEF WorkersInv, WorkerInv
<1>15. UnitsInv'
    <2>1. SUFFICES ASSUME NEW l \in Launches PROVE UnitsAt(l)'
        BY <1>6, Zenon DEF UnitsInv, Launches
    <2>2. /\ IsFiniteSet(Placed(l)) /\ Cardinality(Placed(l)) + Unsent(l) <= remaining[l]
          /\ remaining'[l] = remaining[l] /\ remaining[l] \in Nat
        BY <1>1, <1>6, <2>1, LaunchFacts, Zenon DEF WorkersInv, UnitsInv, UnitsAt
    <2>. DEFINE new == <<"inbox", w, Len(inbox[w]) + 1>>
    <2>3. ASSUME NEW p \in Placed(l)', p \notin Placed(l) PROVE p = new /\ l = n
        <3>1. /\ p = <<p[1], p[2], p[3]>> /\ p[2] \in Workers /\ p \in Place /\ Holds(p, l)'
              /\ ~Holds(p, l)
            BY <2>3 DEF Placed, Place
        <3>2. p[1] = "inbox" /\ p[3] \in DOMAIN inbox'[p[2]] /\ inbox'[p[2]][p[3]] = l
            BY <1>6, <3>1, Zenon DEF Holds
        <3>3. p[2] = w
            BY <1>1, <1>4, <3>1, <3>2 DEF Holds, WorkerTypes
        <3>4. inbox'[w] = Append(inbox[w], n) /\ inbox[w] \in Seq(Launches)
            BY <1>1, <1>4, <1>5 DEF WorkerTypes
        <3>5. p[3] = Len(inbox[w]) + 1 /\ l = n
            BY <3>1, <3>2, <3>3, <3>4 DEF Holds
        <3>. QED
            BY <3>1, <3>2, <3>3, <3>5, Zenon
    <2>. HIDE DEF new
    <2>4. Unsent(l) \in Nat
        BY <1>1, UnsentType, Zenon
    <2>5. Cardinality(Placed(l)) \in Nat
        BY <2>2, FS_CardinalityType, Zenon
    <2>6. CASE l # n
        <3>1. Unsent(l)' = 0
            BY <1>6, <2>6, Zenon DEF Unsent, n
        <3>2. Placed(l)' \in SUBSET Placed(l)
            BY <2>3, <2>6, Zenon
        <3>3. IsFiniteSet(Placed(l)') /\ Cardinality(Placed(l)') <= Cardinality(Placed(l))
            BY <2>2, <3>2, FS_Subset, Zenon
        <3>4. Cardinality(Placed(l)') \in Nat
            BY <3>3, FS_CardinalityType, Zenon
        <3>5. Cardinality(Placed(l)') + Unsent(l)' <= remaining'[l]
            BY <2>2, <2>4, <2>5, <3>1, <3>3, <3>4
        <3>. QED
            BY <3>3, <3>5, Zenon DEF UnitsAt
    <2>7. CASE l = n
        <3>1. s # NoStream /\ todo'[s] = todo[s] - 1
            BY <1>1, <1>6, WorkersAssumption DEF HostTypes
        <3>2. Unsent(l) = todo[s]
            BY <1>1, <1>2, <2>7, <3>1, Zenon DEF Unsent, Submitting, n
        <3>3. Unsent(l)' = todo[s] - 1
            <4>1. CASE todo[s] > 1 /\ UNCHANGED <<host, runner>>
                BY <1>1, <1>2, <1>6, <2>7, <3>1, <4>1, Zenon DEF Unsent, Submitting, n
            <4>2. CASE todo[s] = 1 /\ runner' = NoStream
                BY <4>2 DEF Unsent, Submitting
            <4>. QED
                BY <1>7, <4>1, <4>2, Zenon
        <3>4. Placed(l)' \in SUBSET (Placed(l) \cup {new})
            BY <2>3, Zenon
        <3>5. /\ IsFiniteSet(Placed(l) \cup {new}) /\ Cardinality(Placed(l) \cup {new}) \in Nat
              /\ Cardinality(Placed(l) \cup {new}) <= Cardinality(Placed(l)) + 1
            BY <2>2, CountFacts, Zenon
        <3>6. /\ IsFiniteSet(Placed(l)')
              /\ Cardinality(Placed(l)') <= Cardinality(Placed(l) \cup {new})
            BY <3>4, <3>5, FS_Subset, Zenon
        <3>7. Cardinality(Placed(l)') \in Nat
            BY <3>6, FS_CardinalityType, Zenon
        <3>8. Cardinality(Placed(l)') + Unsent(l)' <= remaining'[l]
            BY <1>3, <2>2, <2>5, <3>2, <3>3, <3>5, <3>6, <3>7
        <3>. QED
            BY <3>6, <3>8, Zenon DEF UnitsAt
    <2>. QED
        BY <2>6, <2>7, Zenon
<1>. QED
    BY <1>8, <1>9, <1>10, <1>11, <1>13, <1>14, <1>15, Zenon DEF WorkersInv, TypesInv

----------------------------------------------------------------------------
(* The workers *)

\* What a worker leaves alone.
LEMMA HostsRest ==
    ASSUME HostTypes, HostInv, UNCHANGED <<hosts, runner, workers, launches, next>>,
           \A s \in Streams : completed[s] >= next[s] => completed'[s] >= next[s]
    PROVE  HostTypes' /\ HostInv' /\ \A l : Unsent(l)' = Unsent(l)
<1>. USE DEF hosts
<1>1. HostTypes'
    BY Zenon DEF HostTypes
<1>2. ASSUME NEW s \in Streams PROVE HostAt(s)'
    <2>1. HostAt(s)
        BY Zenon DEF HostInv
    <2>. QED
        BY <2>1, Zenon DEF HostAt
<1>3. \A l : Unsent(l)' = Unsent(l)
    BY Zenon DEF Unsent, Submitting
<1>. QED
    BY <1>1, <1>2, <1>3, Zenon DEF HostInv

\* Units that only move from place to place are counted as before.
LEMMA UnitsMoved ==
    ASSUME UnitsInv, LaunchTypes, HostTypes, UNCHANGED <<launches, remaining>>,
           \A l : Unsent(l)' = Unsent(l),
           \A l \in Launches : \E f \in [Placed(l)' -> Placed(l)] :
               \A p, q \in Placed(l)' : f[p] = f[q] => p = q
    PROVE  UnitsInv'
<1>1. SUFFICES ASSUME NEW l \in Launches PROVE UnitsAt(l)'
    BY Zenon DEF UnitsInv, Launches
<1>2. /\ IsFiniteSet(Placed(l)) /\ Cardinality(Placed(l)) + Unsent(l) <= remaining[l]
      /\ remaining'[l] = remaining[l] /\ remaining[l] \in Nat
    BY <1>1, LaunchFacts, Zenon DEF UnitsInv, UnitsAt
<1>3. Unsent(l) \in Nat /\ Unsent(l)' = Unsent(l)
    BY UnsentType, Zenon
<1>4. IsFiniteSet(Placed(l)') /\ Cardinality(Placed(l)') <= Cardinality(Placed(l))
    BY <1>1, <1>2, Moved, Zenon
<1>5. Cardinality(Placed(l)) \in Nat /\ Cardinality(Placed(l)') \in Nat
    BY <1>2, <1>4, FS_CardinalityType, Zenon
<1>6. Cardinality(Placed(l)') + Unsent(l)' <= remaining'[l]
    BY <1>2, <1>3, <1>4, <1>5
<1>. QED
    BY <1>4, <1>6, Zenon DEF UnitsAt

\* A unit that runs has not been counted off.
LEMMA RunningUnit ==
    ASSUME WorkersInv, NEW w \in Workers, at[w] = "run"
    PROVE  /\ job[w] \in Launches /\ remaining[job[w]] \in Nat \ {0}
           /\ <<"run", w, 0>> \in Placed(job[w])
<1>1. job[w] \in Launches
    BY Zenon DEF WorkersInv, WorkerInv, WorkerAt
<1>2. <<"run", w, 0>> \in Placed(job[w])
    BY DEF Placed, Place, Holds
<1>3. /\ IsFiniteSet(Placed(job[w]))
      /\ Cardinality(Placed(job[w])) + Unsent(job[w]) <= remaining[job[w]]
    BY <1>1, Zenon DEF WorkersInv, UnitsInv, UnitsAt
<1>4. Cardinality(Placed(job[w])) \in Nat /\ Cardinality(Placed(job[w])) >= 1
    BY <1>2, <1>3, CountFacts, Zenon
<1>5. Unsent(job[w]) \in Nat /\ remaining[job[w]] \in Nat
    BY <1>1, UnsentType, LaunchFacts, Zenon DEF WorkersInv, TypesInv
<1>. QED
    BY <1>1, <1>2, <1>3, <1>4, <1>5

\* A worker moves one unit from its inbox to pending, if there is one, and starts to scan.
LEMMA ReceiveStep == ASSUME WorkersInv, NEW w \in Workers, Receive(w) PROVE WorkersInv'
<1>1. HostTypes /\ LaunchTypes /\ WorkerTypes /\ HostInv
    BY Zenon DEF WorkersInv, TypesInv
<1>2. /\ at[w] = "recv" /\ at' = [at EXCEPT ![w] = "scan"] /\ scan' = [scan EXCEPT ![w] = 1]
      /\ UNCHANGED <<hosts, counters, shared, job>>
    BY Zenon DEF Receive
<1>3. \/ /\ inbox[w] # <<>> /\ inbox' = [inbox EXCEPT ![w] = Tail(@)]
         /\ pending' = [pending EXCEPT ![w] = Append(@, Head(inbox[w]))]
      \/ pending[w] # <<>> /\ UNCHANGED <<pending, inbox>>
    BY Zenon DEF Receive
<1>4. inbox[w] \in Seq(Launches) /\ pending[w] \in Seq(Launches)
    BY <1>1, Zenon DEF WorkerTypes
<1>5. HostTypes' /\ HostInv' /\ \A l : Unsent(l)' = Unsent(l)
    BY <1>1, <1>2, HostsRest, Zenon DEF counters, shared
<1>6. LaunchTypes'
    BY <1>1, <1>2, Zenon DEF LaunchTypes, Launches, counters, shared
<1>7. /\ at'[w] = "scan" /\ scan'[w] = 1
      /\ \A v \in Workers \ {w} : at'[v] = at[v] /\ scan'[v] = scan[v]
    BY <1>1, <1>2 DEF WorkerTypes
<1>8. /\ inbox' \in [Workers -> Seq(Launches)] /\ pending' \in [Workers -> Seq(Launches)]
      /\ pending'[w] # <<>> /\ \A v \in Workers \ {w} : pending'[v] = pending[v]
    <2>1. CASE pending[w] # <<>> /\ UNCHANGED <<pending, inbox>>
        BY <1>1, <2>1, Zenon DEF WorkerTypes
    <2>2. CASE /\ inbox[w] # <<>> /\ inbox' = [inbox EXCEPT ![w] = Tail(@)]
               /\ pending' = [pending EXCEPT ![w] = Append(@, Head(inbox[w]))]
        <3>1. /\ Tail(inbox[w]) \in Seq(Launches) /\ Head(inbox[w]) \in Launches
              /\ Append(pending[w], Head(inbox[w])) \in Seq(Launches)
              /\ Append(pending[w], Head(inbox[w])) # <<>>
            BY <1>4, <2>2
        <3>. QED
            BY <1>1, <2>2, <3>1 DEF WorkerTypes
    <2>. QED
        BY <1>3, <2>1, <2>2, Zenon
<1>9. WorkerTypes'
    <2>1. at' \in [Workers -> WorkerLabels] /\ scan' \in [Workers -> Nat]
        BY <1>1, <1>2 DEF WorkerTypes, WorkerLabels
    <2>. QED
        BY <1>1, <1>2, <1>8, <2>1, Zenon DEF WorkerTypes, Launches, shared
<1>10. \A v \in Workers : Finishing(v)' => Finishing(v) /\ job'[v] = job[v]
    BY <1>2, <1>7, Zenon DEF Finishing
<1>11. StreamInv'
    BY <1>2, <1>10, KeepStreams, Zenon DEF WorkersInv, counters, shared
<1>12. WorkerInv'
    <2>1. ASSUME NEW v \in Workers, v # w PROVE WorkerAt(v)'
        <3>1. /\ WorkerAt(v) /\ pending'[v] = pending[v] /\ scan'[v] = scan[v] /\ at'[v] = at[v]
              /\ UNCHANGED <<completed, launches, remaining, job, parallel>>
            BY <1>2, <1>7, <1>8, <2>1, Zenon DEF WorkersInv, WorkerInv, counters, shared
        <3>. QED
            BY <1>10, <3>1, KeepWorker, Zenon
    <2>2. WorkerAt(w)'
        <3>1. pending'[w] \in Seq(Launches) /\ pending'[w] # <<>>
            BY <1>8, Zenon
        <3>2. 1 \in DOMAIN pending'[w]
            BY <3>1
        <3>. QED
            BY <1>7, <3>2, Zenon DEF WorkerAt, Finishing
    <2>. QED
        BY <2>1, <2>2, Zenon DEF WorkerInv
<1>13. UnitsInv'
    <2>1. UnitsInv /\ UNCHANGED <<launches, remaining>>
        BY <1>2, Zenon DEF WorkersInv, counters, shared
    <2>2. CASE UNCHANGED <<pending, inbox>>
        <3>1. ASSUME NEW l, NEW p \in Place PROVE Holds(p, l)' <=> Holds(p, l)
            <4>1. p[2] \in Workers
                BY DEF Place
            <4>2. at'[p[2]] = "run" <=> at[p[2]] = "run"
                BY <1>2, <1>7, <4>1, Zenon
            <4>. QED
                BY <1>2, <2>2, <4>2, Zenon DEF Holds
        <3>2. \A l : Placed(l)' = Placed(l)
            BY <3>1, Zenon DEF Placed
        <3>3. ASSUME NEW l
              PROVE  Unsent(l) \in Nat /\ Unsent(l)' \in Nat /\ Unsent(l)' <= Unsent(l)
            <4>1. Unsent(l) \in Nat /\ Unsent(l)' = Unsent(l)
                BY <1>1, <1>5, UnsentType, Zenon
            <4>. QED
                BY <4>1
        <3>. QED
            BY <1>1, <2>1, <3>2, <3>3, KeepUnits, Zenon
    <2>3. CASE /\ inbox[w] # <<>> /\ inbox' = [inbox EXCEPT ![w] = Tail(@)]
               /\ pending' = [pending EXCEPT ![w] = Append(@, Head(inbox[w]))]
        <3>. DEFINE Old(p) ==
                 IF p[2] # w THEN p
                 ELSE IF p[1] = "inbox" THEN <<"inbox", w, p[3] + 1>>
                 ELSE IF p[3] = Len(pending[w]) + 1 THEN <<"inbox", w, 1>> ELSE p
        <3>1. /\ inbox'[w] = Tail(inbox[w]) /\ pending'[w] = Append(pending[w], Head(inbox[w]))
              /\ \A v \in Workers \ {w} : inbox'[v] = inbox[v] /\ pending'[v] = pending[v]
            BY <1>1, <2>3 DEF WorkerTypes
        <3>2. ASSUME NEW l, NEW p \in Placed(l)'
              PROVE  /\ p = <<p[1], p[2], p[3]>> /\ p[2] \in Workers /\ p[3] \in Nat /\ p \in Place
                     /\ Holds(p, l)' /\ (p[2] = w => p[1] \in {"inbox", "pending"})
                     /\ p[2] = w /\ p[1] = "inbox" => p[3] >= 1
            <4>1. /\ p = <<p[1], p[2], p[3]>> /\ p[2] \in Workers /\ p[3] \in Nat /\ p \in Place
                  /\ Holds(p, l)'
                BY DEF Placed, Place
            <4>2. p[2] = w => p[1] \in {"inbox", "pending"}
                BY <1>7, <4>1, Zenon DEF Holds
            <4>3. p[2] = w /\ p[1] = "inbox" => p[3] \in DOMAIN Tail(inbox[w])
                BY <3>1, <4>1, Zenon DEF Holds
            <4>4. p[2] = w /\ p[1] = "inbox" => p[3] >= 1
                BY <1>4, <2>3, <4>1, <4>3
            <4>. QED
                BY <4>1, <4>2, <4>4, Zenon
        <3>3. ASSUME NEW l, NEW p \in Placed(l)' PROVE Old(p) \in Placed(l)
            <4>. /\ p[2] \in Workers /\ p[3] \in Nat /\ p \in Place
                 /\ Holds(p, l)' /\ (p[2] = w => p[1] \in {"inbox", "pending"})
                BY <3>2, <3>3, Zenon
            <4>1. CASE p[2] # w
                <5>1. /\ inbox'[p[2]] = inbox[p[2]] /\ pending'[p[2]] = pending[p[2]]
                      /\ at'[p[2]] = at[p[2]] /\ job' = job
                    BY <1>2, <1>7, <3>1, <4>1, Zenon
                <5>2. Holds(p, l)
                    BY <5>1, Zenon DEF Holds
                <5>. QED
                    BY <4>1, <5>2, Zenon DEF Placed
            <4>2. CASE p[2] = w /\ p[1] = "inbox"
                <5>1. p[3] \in DOMAIN Tail(inbox[w]) /\ Tail(inbox[w])[p[3]] = l
                    BY <3>1, <4>2, Zenon DEF Holds
                <5>2. p[3] + 1 \in DOMAIN inbox[w] /\ inbox[w][p[3] + 1] = l
                    BY <1>4, <2>3, <5>1
                <5>3. <<"inbox", w, p[3] + 1>> \in Placed(l)
                    BY <5>2 DEF Placed, Place, Holds
                <5>. QED
                    BY <4>2, <5>3, Zenon
            <4>3. CASE p[2] = w /\ p[1] = "pending"
                <5>1. /\ p[3] \in DOMAIN Append(pending[w], Head(inbox[w]))
                      /\ Append(pending[w], Head(inbox[w]))[p[3]] = l
                    BY <3>1, <4>3, Zenon DEF Holds
                <5>2. CASE p[3] = Len(pending[w]) + 1
                    <6>1. 1 \in DOMAIN inbox[w] /\ inbox[w][1] = l
                        BY <1>4, <2>3, <5>1, <5>2
                    <6>2. <<"inbox", w, 1>> \in Placed(l)
                        BY <6>1 DEF Placed, Place, Holds
                    <6>. QED
                        BY <4>3, <5>2, <6>2
                <5>3. CASE p[3] # Len(pending[w]) + 1
                    <6>1. p[3] \in DOMAIN pending[w] /\ pending[w][p[3]] = l
                        BY <1>4, <5>1, <5>3
                    <6>2. p \in Placed(l)
                        BY <4>3, <6>1, Zenon DEF Placed, Holds
                    <6>. QED
                        BY <4>3, <5>3, <6>2
                <5>. QED
                    BY <5>2, <5>3, Zenon
            <4>. QED
                BY <4>1, <4>2, <4>3, Zenon
        <3>4. ASSUME NEW l, NEW p \in Placed(l)', NEW q \in Placed(l)', Old(p) = Old(q)
              PROVE  p = q
            BY <3>2, <3>4
        <3>5. ASSUME NEW l \in Launches
              PROVE  \E f \in [Placed(l)' -> Placed(l)] :
                         \A p, q \in Placed(l)' : f[p] = f[q] => p = q
            <4>. DEFINE g == [p \in Placed(l)' |-> Old(p)]
            <4>1. g \in [Placed(l)' -> Placed(l)]
                BY <3>3
            <4>2. \A p, q \in Placed(l)' : g[p] = g[q] => p = q
                <5>. HIDE DEF Old
                <5>. QED
                    BY <3>4
            <4>. QED
                BY <4>1, <4>2, Zenon
        <3>. QED
            BY <1>1, <1>5, <2>1, <3>5, UnitsMoved, Zenon
    <2>. QED
        BY <1>3, <2>2, <2>3, Zenon
<1>. QED
    BY <1>5, <1>6, <1>9, <1>11, <1>12, <1>13, Zenon DEF WorkersInv, TypesInv

\* is_ready refuses the unit: the worker looks at the next one, or receives again.
LEMMA SkipStep ==
    ASSUME WorkersInv, NEW w \in Workers, at[w] = "scan",
           \/ /\ scan[w] < Len(pending[w])
              /\ scan' = [scan EXCEPT ![w] = @ + 1] /\ UNCHANGED at
           \/ at' = [at EXCEPT ![w] = "recv"] /\ UNCHANGED scan,
           UNCHANGED <<hosts, counters, shared, inbox, pending, job>>
    PROVE  WorkersInv'
<1>1. HostTypes /\ LaunchTypes /\ WorkerTypes /\ HostInv
    BY Zenon DEF WorkersInv, TypesInv
<1>2. HostTypes' /\ HostInv' /\ \A l : Unsent(l)' = Unsent(l)
    BY <1>1, HostsRest, Zenon DEF counters, shared
<1>3. LaunchTypes'
    BY <1>1, Zenon DEF LaunchTypes, Launches, counters, shared
<1>4. /\ pending[w] \in Seq(Launches) /\ scan[w] \in DOMAIN pending[w] /\ scan[w] \in Nat
      /\ DOMAIN pending[w] = 1 .. Len(pending[w]) /\ Len(pending[w]) \in Nat
    <2>1. pending[w] \in Seq(Launches) /\ scan[w] \in DOMAIN pending[w] /\ scan[w] \in Nat
        BY <1>1, Zenon DEF WorkersInv, WorkerInv, WorkerAt, WorkerTypes
    <2>. QED
        BY <2>1
<1>5. /\ (at'[w] = "scan" /\ scan'[w] \in DOMAIN pending[w]) \/ at'[w] = "recv"
      /\ \A v \in Workers \ {w} : at'[v] = at[v] /\ scan'[v] = scan[v]
      /\ at' \in [Workers -> WorkerLabels] /\ scan' \in [Workers -> Nat]
    <2>1. CASE scan[w] < Len(pending[w]) /\ scan' = [scan EXCEPT ![w] = @ + 1] /\ UNCHANGED at
        <3>1. scan[w] + 1 \in DOMAIN pending[w] /\ scan[w] + 1 \in Nat
            BY <1>4, <2>1
        <3>. QED
            BY <1>1, <2>1, <3>1 DEF WorkerTypes
    <2>2. CASE at' = [at EXCEPT ![w] = "recv"] /\ UNCHANGED scan
        BY <1>1, <2>2 DEF WorkerTypes, WorkerLabels
    <2>. QED
        BY <2>1, <2>2, Zenon
<1>6. WorkerTypes'
    BY <1>1, <1>5, Zenon DEF WorkerTypes, Launches, shared
<1>7. \A v \in Workers : Finishing(v)' => Finishing(v) /\ job'[v] = job[v]
    BY <1>5, Zenon DEF Finishing
<1>8. StreamInv'
    BY <1>7, KeepStreams, Zenon DEF WorkersInv, counters, shared
<1>9. WorkerInv'
    <2>1. ASSUME NEW v \in Workers, v # w PROVE WorkerAt(v)'
        <3>1. /\ WorkerAt(v) /\ scan'[v] = scan[v] /\ at'[v] = at[v]
              /\ UNCHANGED <<completed, launches, remaining, job, parallel>>
            BY <1>5, <2>1, Zenon DEF WorkersInv, WorkerInv, counters, shared
        <3>. QED
            BY <1>7, <3>1, KeepWorker, Zenon
    <2>2. WorkerAt(w)'
        BY <1>5, Zenon DEF WorkerAt, Finishing
    <2>. QED
        BY <2>1, <2>2, Zenon DEF WorkerInv
<1>10. UnitsInv'
    <2>1. UnitsInv /\ UNCHANGED <<launches, remaining>>
        BY Zenon DEF WorkersInv, counters, shared
    <2>2. ASSUME NEW l, NEW p \in Place PROVE Holds(p, l)' <=> Holds(p, l)
        <3>1. p[2] \in Workers
            BY DEF Place
        <3>2. at'[p[2]] = "run" <=> at[p[2]] = "run"
            BY <1>5, <3>1, Zenon
        <3>. QED
            BY <3>2, Zenon DEF Holds
    <2>3. \A l : Placed(l)' = Placed(l)
        BY <2>2, Zenon DEF Placed
    <2>4. ASSUME NEW l
          PROVE  Unsent(l) \in Nat /\ Unsent(l)' \in Nat /\ Unsent(l)' <= Unsent(l)
        <3>1. Unsent(l) \in Nat /\ Unsent(l)' = Unsent(l)
            BY <1>1, <1>2, UnsentType, Zenon
        <3>. QED
            BY <3>1
    <2>. QED
        BY <1>1, <2>1, <2>3, <2>4, KeepUnits, Zenon
<1>. QED
    BY <1>2, <1>3, <1>6, <1>8, <1>9, <1>10, Zenon DEF WorkersInv, TypesInv

\* is_ready admits the unit at place i of pending, which the worker takes out and runs.
LEMMA TakeStep ==
    ASSUME WorkersInv, NEW w \in Workers, at[w] = "scan",
           NEW i, i = scan[w], NEW m, m = pending[w][i], Reached(m), Admitted(m),
           parallel' = IF launches[m].par THEN m ELSE parallel,
           pending' = [pending EXCEPT ![w] = Removed(@, i)],
           job' = [job EXCEPT ![w] = m], started' = [started EXCEPT ![m] = @ + 1],
           at' = [at EXCEPT ![w] = "run"],
           UNCHANGED <<hosts, next, completed, remaining, runner, workers, active, launches,
                       inbox, scan>>
    PROVE  WorkersInv'
<1>1. HostTypes /\ LaunchTypes /\ WorkerTypes /\ HostInv
    BY Zenon DEF WorkersInv, TypesInv
<1>2. HostTypes' /\ HostInv' /\ \A l : Unsent(l)' = Unsent(l)
    BY <1>1, HostsRest, Zenon
<1>3. pending[w] \in Seq(Launches) /\ i \in DOMAIN pending[w]
    BY <1>1, Zenon DEF WorkersInv, WorkerInv, WorkerAt, WorkerTypes
<1>4. m \in Launches /\ i \in 1 .. Len(pending[w]) /\ Len(pending[w]) \in Nat
    BY <1>3
<1>5. /\ Removed(pending[w], i) \in Seq(Launches)
      /\ DOMAIN Removed(pending[w], i) = 1 .. (Len(pending[w]) - 1)
      /\ \A j \in 1 .. (Len(pending[w]) - 1) :
            Removed(pending[w], i)[j] = IF j < i THEN pending[w][j] ELSE pending[w][j + 1]
    <2>1. /\ Removed(pending[w], i) \in Seq(Launches)
          /\ Len(Removed(pending[w], i)) = Len(pending[w]) - 1
          /\ \A j \in 1 .. (Len(pending[w]) - 1) :
                Removed(pending[w], i)[j] = IF j < i THEN pending[w][j] ELSE pending[w][j + 1]
        BY <1>3, <1>4, RemovedFacts, ZenonT(40)
    <2>2. DOMAIN Removed(pending[w], i) = 1 .. (Len(pending[w]) - 1)
        BY <2>1
    <2>. QED
        BY <2>1, <2>2, Zenon
<1>6. LaunchTypes'
    <2>1. started' \in Seq(Nat) /\ Len(started') = Len(launches)
        <3>1. started \in Seq(Nat) /\ m \in 1 .. Len(started) /\ Len(started) = Len(launches)
            BY <1>1, <1>4, Zenon DEF LaunchTypes, Launches
        <3>. QED
            BY <3>1, RaisedFacts, Zenon
    <2>2. parallel' \in 0 .. Len(launches)
        BY <1>1, <1>4 DEF LaunchTypes, Launches
    <2>. QED
        BY <1>1, <2>1, <2>2, Zenon DEF LaunchTypes, Launches
<1>7. WorkerTypes'
    <2>1. pending' \in [Workers -> Seq(Launches)]
        BY <1>1, <1>5, Zenon DEF WorkerTypes
    <2>2. at' \in [Workers -> WorkerLabels]
        BY <1>1 DEF WorkerTypes, WorkerLabels
    <2>3. job' \in [Workers -> 0 .. Len(launches)]
        <3>1. m \in 0 .. Len(launches)
            BY <1>1, <1>4 DEF Launches, LaunchTypes
        <3>. QED
            BY <1>1, <3>1, Zenon DEF WorkerTypes
    <2>. QED
        BY <1>1, <2>1, <2>2, <2>3, Zenon DEF WorkerTypes, Launches
<1>8. /\ at'[w] = "run" /\ job'[w] = m /\ pending'[w] = Removed(pending[w], i)
      /\ \A v \in Workers \ {w} : at'[v] = at[v] /\ job'[v] = job[v] /\ pending'[v] = pending[v]
    BY <1>1 DEF WorkerTypes
<1>9. \A v \in Workers : Finishing(v)' => Finishing(v) /\ job'[v] = job[v]
    BY <1>8, Zenon DEF Finishing
<1>10. StreamInv'
    BY <1>9, KeepStreams, Zenon DEF WorkersInv
<1>11. WorkerInv'
    <2>1. ASSUME NEW v \in Workers, v # w PROVE WorkerAt(v)'
        <3>1. WorkerAt(v) /\ pending'[v] = pending[v] /\ at'[v] = at[v] /\ job'[v] = job[v]
            BY <1>8, <2>1, Zenon DEF WorkersInv, WorkerInv
        <3>2. ASSUME at[v] \in {"run", "free"}, launches[job[v]].par PROVE parallel' = parallel
            <4>1. parallel = job[v] /\ job[v] \in Launches
                BY <3>1, <3>2, Zenon DEF WorkerAt, Finishing
            <4>2. parallel # 0
                BY <1>1, <4>1 DEF Launches, LaunchTypes
            <4>. QED
                BY <4>2, Zenon DEF Admitted
        <3>. QED
            BY <1>9, <3>1, <3>2, KeepWorker, Zenon
    <2>2. WorkerAt(w)'
        <3>1. m \in Launches' /\ Reached(m)' /\ (launches'[m].par => parallel' = m)
            BY <1>4, Zenon DEF Launches, Reached
        <3>2. at'[w] # "scan" /\ ~Finishing(w)'
            BY <1>8 DEF Finishing
        <3>. QED
            BY <1>8, <3>1, <3>2, Zenon DEF WorkerAt, Reached
    <2>. QED
        BY <2>1, <2>2, Zenon DEF WorkerInv
<1>12. UnitsInv'
    <2>. DEFINE Old(p) ==
             IF p[2] # w THEN p
             ELSE IF p[1] = "run" THEN <<"pending", w, i>>
             ELSE IF p[1] = "pending" /\ p[3] >= i THEN <<"pending", w, p[3] + 1>> ELSE p
    <2>1. i \in Nat \ {0}
        BY <1>4
    <2>2. ASSUME NEW l, NEW p \in Placed(l)'
          PROVE  /\ p = <<p[1], p[2], p[3]>> /\ p[1] \in {"inbox", "pending", "run"}
                 /\ p[2] \in Workers /\ p[3] \in Nat /\ p \in Place
                 /\ Holds(p, l)' /\ (p[1] = "run" => p[3] = 0)
        <3>1. /\ p = <<p[1], p[2], p[3]>> /\ p[1] \in {"inbox", "pending", "run"}
              /\ p[2] \in Workers /\ p[3] \in Nat /\ p \in Place /\ Holds(p, l)'
            BY DEF Placed, Place
        <3>2. p[1] = "run" => p[3] = 0
            BY <3>1, Zenon DEF Holds
        <3>. QED
            BY <3>1, <3>2, ZenonT(40)
    <2>3. ASSUME NEW l, NEW p \in Placed(l)' PROVE Old(p) \in Placed(l)
        <3>. p[2] \in Workers /\ p[3] \in Nat /\ p \in Place /\ Holds(p, l)'
            BY <2>2, <2>3, Zenon
        <3>1. CASE p[2] # w
            <4>1. /\ inbox' = inbox /\ pending'[p[2]] = pending[p[2]]
                  /\ at'[p[2]] = at[p[2]] /\ job'[p[2]] = job[p[2]]
                BY <1>8, <3>1, Zenon
            <4>2. Holds(p, l)
                BY <4>1, Zenon DEF Holds
            <4>. QED
                BY <3>1, <4>2, Zenon DEF Placed
        <3>2. CASE p[2] = w /\ p[1] = "inbox"
            <4>1. p \in Placed(l)
                BY <3>2, Zenon DEF Placed, Holds
            <4>2. Old(p) = p
                BY <3>2
            <4>. QED
                BY <4>1, <4>2, ZenonT(40)
        <3>3. CASE p[2] = w /\ p[1] = "run"
            <4>1. l = m
                BY <1>8, <3>3, ZenonT(40) DEF Holds
            <4>2. <<"pending", w, i>> \in Placed(l)
                BY <1>3, <2>1, <4>1 DEF Placed, Place, Holds
            <4>. QED
                BY <3>3, <4>2, Zenon
        <3>4. CASE p[2] = w /\ p[1] = "pending"
            <4>1. p[3] \in 1 .. (Len(pending[w]) - 1) /\ Removed(pending[w], i)[p[3]] = l
                BY <1>5, <1>8, <3>4, ZenonT(40) DEF Holds
            <4>2. CASE p[3] >= i
                <5>1. PICK j \in 1 .. (Len(pending[w]) - 1) : j = p[3]
                    BY <4>1, ZenonT(40)
                <5>2. j + 1 \in DOMAIN pending[w] /\ ~(j < i)
                    BY <1>3, <1>4, <4>2, <5>1
                <5>3. Removed(pending[w], i)[j] = pending[w][j + 1]
                    BY <1>5, <5>2, Zenon
                <5>4. p[3] + 1 \in DOMAIN pending[w] /\ pending[w][p[3] + 1] = l
                    BY <4>1, <5>1, <5>2, <5>3, Zenon
                <5>5. <<"pending", w, p[3] + 1>> \in Placed(l)
                    <6>1. <<"pending", w, p[3] + 1>> \in Place
                        BY <4>1, SMTT(20) DEF Place
                    <6>2. Holds(<<"pending", w, p[3] + 1>>, l)
                        BY <5>4 DEF Holds
                    <6>. QED
                        BY <6>1, <6>2, Zenon DEF Placed
                <5>. QED
                    BY <3>4, <4>2, <5>5
            <4>3. CASE ~(p[3] >= i)
                <5>1. p[3] < i
                    BY <1>4, <4>1, <4>3
                <5>2. Removed(pending[w], i)[p[3]] = pending[w][p[3]]
                    BY <1>5, <4>1, <5>1, Zenon
                <5>3. p[3] \in DOMAIN pending[w]
                    BY <1>3, <1>4, <4>1
                <5>4. p \in Placed(l)
                    BY <3>4, <4>1, <5>2, <5>3, Zenon DEF Placed, Holds
                <5>. QED
                    BY <3>4, <4>3, <5>4, SMTT(20)
            <4>. QED
                BY <4>2, <4>3, Zenon
        <3>5. p[1] \in {"inbox", "pending", "run"}
            BY <2>2, <2>3, Zenon
        <3>. QED
            BY <3>1, <3>2, <3>3, <3>4, <3>5, Zenon
    <2>4. ASSUME NEW l, NEW p \in Placed(l)', NEW q \in Placed(l)', Old(p) = Old(q) PROVE p = q
        BY <2>1, <2>2, <2>4
    <2>5. ASSUME NEW l \in Launches
          PROVE  \E f \in [Placed(l)' -> Placed(l)] :
                     \A p, q \in Placed(l)' : f[p] = f[q] => p = q
        <3>. DEFINE g == [p \in Placed(l)' |-> Old(p)]
        <3>1. g \in [Placed(l)' -> Placed(l)]
            BY <2>3
        <3>2. \A p, q \in Placed(l)' : g[p] = g[q] => p = q
            <4>. HIDE DEF Old
            <4>. QED
                BY <2>4
        <3>. QED
            BY <3>1, <3>2, Zenon
    <2>. QED
        BY <1>1, <1>2, <2>5, UnitsMoved, Zenon DEF WorkersInv
<1>. QED
    BY <1>2, <1>6, <1>7, <1>10, <1>11, <1>12, Zenon DEF WorkersInv, TypesInv

\* is_ready decides on the unit at which a worker looks.
LEMMA CheckStep == ASSUME WorkersInv, NEW w \in Workers, Check(w) PROVE WorkersInv'
<1>1. at[w] = "scan"
    BY Zenon DEF Check
<1>2. CASE Reached(pending[w][scan[w]]) /\ Admitted(pending[w][scan[w]])
    BY <1>1, <1>2, TakeStep, Zenon DEF Check
<1>3. CASE ~(Reached(pending[w][scan[w]]) /\ Admitted(pending[w][scan[w]]))
    BY <1>1, <1>3, SkipStep, Zenon DEF Check, counters, shared
<1>. QED
    BY <1>2, <1>3, Zenon

\* A unit ends and is counted off; the last one of a launch goes on to free and publish.
LEMMA CompleteStep == ASSUME WorkersInv, NEW w \in Workers, Complete(w) PROVE WorkersInv'
<1>. DEFINE m == job[w]
<1>1. HostTypes /\ LaunchTypes /\ WorkerTypes /\ HostInv
    BY Zenon DEF WorkersInv, TypesInv
<1>2. /\ at[w] = "run" /\ remaining' = [remaining EXCEPT ![m] = @ - 1]
      /\ at' = [at EXCEPT ![w] = IF remaining[m] # 1 THEN "recv"
                                 ELSE IF launches[m].par THEN "free" ELSE "publish"]
      /\ UNCHANGED <<hosts, next, completed, started, shared, inbox, pending, scan, job>>
    BY Zenon DEF Complete
<1>3. m \in Launches /\ remaining[m] \in Nat \ {0} /\ <<"run", w, 0>> \in Placed(m)
    BY <1>2, RunningUnit, Zenon
<1>4. WorkerAt(w) /\ Reached(m)
    BY <1>2, Zenon DEF WorkersInv, WorkerInv, WorkerAt
<1>. HIDE DEF m
<1>5. /\ remaining' \in Seq(Nat) /\ Len(remaining') = Len(launches)
      /\ remaining'[m] = remaining[m] - 1
      /\ \A l \in Launches \ {m} : remaining'[l] = remaining[l]
    BY <1>1, <1>2, <1>3, SMTT(20) DEF LaunchTypes, Launches
<1>6. HostTypes' /\ HostInv' /\ \A l : Unsent(l)' = Unsent(l)
    BY <1>1, <1>2, HostsRest, Zenon DEF shared
<1>7. LaunchTypes'
    BY <1>1, <1>2, <1>5, Zenon DEF LaunchTypes, Launches, shared
<1>8. /\ at'[w] \in {"recv", "free", "publish"} /\ (at'[w] # "recv" => remaining[m] = 1)
      /\ at'[w] = "free" => launches[m].par
      /\ \A v \in Workers \ {w} : at'[v] = at[v]
      /\ at' \in [Workers -> WorkerLabels]
    BY <1>1, <1>2 DEF WorkerTypes, WorkerLabels
<1>9. WorkerTypes'
    BY <1>1, <1>2, <1>8, Zenon DEF WorkerTypes, Launches, shared
<1>10. \A v \in Workers : v # w => (Finishing(v)' <=> Finishing(v)) /\ (Finishing(v) => job[v] # m)
    <2>1. \A v \in Workers : Finishing(v) => remaining[job[v]] = 0
        BY Zenon DEF WorkersInv, WorkerInv, WorkerAt
    <2>. QED
        BY <1>3, <1>8, <2>1, Zenon DEF Finishing
<1>11. Launches' = Launches /\ job' = job /\ launches' = launches
    BY <1>2, Zenon DEF Launches, shared
<1>12. StreamInv'
    <2>1. ASSUME NEW l \in Launches PROVE StreamAt(l)'
        <3>1. StreamAt(l)
            BY <2>1, Zenon DEF WorkersInv, StreamInv
        <3>2. CASE l = m
            <4>1. ~(completed[launches[m].stream] >= launches[m].end)
                BY <1>3, <3>1, <3>2, Zenon DEF StreamAt
            <4>. QED
                BY <1>2, <1>11, <3>1, <3>2, <4>1, Zenon DEF StreamAt
        <3>3. CASE l # m
            <4>1. \A v \in Workers : Finishing(v)' /\ job[v] = l => Finishing(v)
                BY <1>10, <3>3, Zenon DEF m
            <4>2. remaining'[l] = remaining[l]
                BY <1>5, <2>1, <3>3, Zenon
            <4>. QED
                BY <1>2, <1>11, <3>1, <4>1, <4>2, Zenon DEF StreamAt
        <3>. QED
            BY <3>2, <3>3, Zenon
    <2>. QED
        BY <1>2, <1>11, <2>1, Zenon DEF WorkersInv, StreamInv
<1>13. WorkerInv'
    <2>1. UNCHANGED <<completed, scan, pending, parallel>>
        BY <1>2, Zenon DEF shared
    <2>2. ASSUME NEW v \in Workers, v # w PROVE WorkerAt(v)'
        <3>1. WorkerAt(v) /\ at'[v] = at[v]
            BY <1>8, <2>2, Zenon DEF WorkersInv, WorkerInv
        <3>2. Reached(job[v])' <=> Reached(job[v])
            BY <1>11, <2>1, Zenon DEF Reached
        <3>3. ASSUME Finishing(v)'
              PROVE  /\ remaining'[job[v]] = 0
                     /\ \A u \in Workers : Finishing(u)' /\ job[u] = job[v] => u = v
            <4>1. Finishing(v) /\ job[v] # m /\ job[v] \in Launches
                BY <1>10, <2>2, <3>1, <3>3, Zenon DEF WorkerAt
            <4>2. remaining'[job[v]] = 0
                BY <1>5, <3>1, <4>1, Zenon DEF WorkerAt
            <4>3. \A u \in Workers : Finishing(u)' /\ job[u] = job[v] => Finishing(u)
                BY <1>10, <4>1, Zenon DEF m
            <4>. QED
                BY <3>1, <4>1, <4>2, <4>3, Zenon DEF WorkerAt
        <3>4. Finishing(v)' <=> Finishing(v)
            BY <1>10, <2>2, Zenon
        <3>. QED
            BY <1>11, <2>1, <3>1, <3>2, <3>3, <3>4, Zenon DEF WorkerAt, Reached
    <2>3. WorkerAt(w)'
        <3>1. Reached(m)' /\ m \in Launches' /\ job'[w] = m
            BY <1>3, <1>4, <1>11, <2>1, Zenon DEF Reached, m
        <3>2. at'[w] # "recv" => remaining'[m] = 0
            BY <1>3, <1>5, <1>8
        <3>3. at'[w] # "scan" /\ at'[w] # "run"
            BY <1>8
        <3>4. \A u \in Workers : Finishing(u)' /\ job[u] = m => u = w
            BY <1>10, Zenon
        <3>5. launches[m].par => parallel = m
            BY <1>2, <1>4, Zenon DEF WorkerAt, m
        <3>6. /\ Finishing(w)' => /\ remaining'[job'[w]] = 0
                                  /\ \A u \in Workers : Finishing(u)' /\ job'[u] = job'[w] => u = w
            BY <1>11, <3>1, <3>2, <3>4, Zenon DEF Finishing
        <3>7. /\ launches'[job'[w]].par => parallel' = job'[w]
              /\ at'[w] = "free" => launches'[job'[w]].par
            BY <1>8, <1>11, <2>1, <3>1, <3>5, Zenon
        <3>8. job'[w] \in Launches' /\ Reached(job[w])'
            BY <3>1, Zenon DEF m
        <3>. QED
            BY <3>3, <3>6, <3>7, <3>8, Zenon DEF WorkerAt
    <2>. QED
        BY <2>2, <2>3, Zenon DEF WorkerInv
<1>14. UnitsInv'
    <2>1. SUFFICES ASSUME NEW l \in Launches PROVE UnitsAt(l)'
        BY <1>11, Zenon DEF UnitsInv
    <2>2. /\ IsFiniteSet(Placed(l)) /\ Cardinality(Placed(l)) + Unsent(l) <= remaining[l]
          /\ remaining[l] \in Nat
        BY <1>1, <2>1, LaunchFacts, Zenon DEF WorkersInv, UnitsInv, UnitsAt
    <2>3. Unsent(l) \in Nat /\ Unsent(l)' = Unsent(l) /\ Cardinality(Placed(l)) \in Nat
        BY <1>1, <1>6, <2>2, UnsentType, FS_CardinalityType, Zenon
    <2>4. ASSUME NEW p \in Placed(l)' PROVE p \in Placed(l) /\ p # <<"run", w, 0>>
        <3>1. p \in Place /\ p[2] \in Workers /\ Holds(p, l)'
            BY DEF Placed, Place
        <3>2. at'[p[2]] = "run" => p[2] # w /\ at[p[2]] = "run"
            BY <1>8, <3>1, Zenon
        <3>3. Holds(p, l)
            BY <1>2, <3>1, <3>2, Zenon DEF Holds
        <3>4. p # <<"run", w, 0>>
            BY <3>1, <3>2 DEF Holds
        <3>. QED
            BY <3>1, <3>3, <3>4, Zenon DEF Placed
    <2>5. CASE l # m
        <3>1. Placed(l)' \in SUBSET Placed(l)
            BY <2>4, Zenon
        <3>2. IsFiniteSet(Placed(l)') /\ Cardinality(Placed(l)') <= Cardinality(Placed(l))
            BY <2>2, <3>1, FS_Subset, Zenon
        <3>3. Cardinality(Placed(l)') \in Nat /\ remaining'[l] = remaining[l]
            BY <1>5, <2>1, <2>5, <3>2, FS_CardinalityType, Zenon
        <3>4. Cardinality(Placed(l)') + Unsent(l)' <= remaining'[l]
            BY <2>2, <2>3, <3>2, <3>3
        <3>. QED
            BY <3>2, <3>4, Zenon DEF UnitsAt
    <2>6. CASE l = m
        <3>1. Placed(l)' \in SUBSET (Placed(l) \ {<<"run", w, 0>>})
            BY <2>4, Zenon
        <3>2. /\ IsFiniteSet(Placed(l) \ {<<"run", w, 0>>})
              /\ Cardinality(Placed(l) \ {<<"run", w, 0>>}) = Cardinality(Placed(l)) - 1
            BY <1>3, <2>2, <2>6, CountFacts, Zenon
        <3>3. /\ IsFiniteSet(Placed(l)')
              /\ Cardinality(Placed(l)') <= Cardinality(Placed(l) \ {<<"run", w, 0>>})
            BY <3>1, <3>2, FS_Subset, Zenon
        <3>4. Cardinality(Placed(l)') \in Nat /\ remaining'[l] = remaining[l] - 1
            BY <1>5, <2>6, <3>3, FS_CardinalityType, Zenon
        <3>5. Cardinality(Placed(l)') + Unsent(l)' <= remaining'[l]
            BY <2>2, <2>3, <3>2, <3>3, <3>4
        <3>. QED
            BY <3>3, <3>5, Zenon DEF UnitsAt
    <2>. QED
        BY <2>5, <2>6, Zenon
<1>. QED
    BY <1>6, <1>7, <1>9, <1>12, <1>13, <1>14, Zenon DEF WorkersInv, TypesInv

\* A worker that goes on after the last unit of its launch; no unit changes its place.
LEMMA PlacesRest ==
    ASSUME WorkersInv, NEW w \in Workers, Finishing(w), at'[w] # "run",
           \A v \in Workers \ {w} : at'[v] = at[v],
           UNCHANGED <<hosts, runner, launches, remaining, inbox, pending, job>>
    PROVE  UnitsInv'
<1>1. ASSUME NEW l, NEW p \in Place PROVE Holds(p, l)' <=> Holds(p, l)
    <2>1. p[2] \in Workers
        BY DEF Place
    <2>2. at'[p[2]] = "run" <=> at[p[2]] = "run"
        BY <2>1, Zenon DEF Finishing
    <2>. QED
        BY <2>2, Zenon DEF Holds
<1>2. \A l : Placed(l)' = Placed(l)
    BY <1>1, Zenon DEF Placed
<1>3. ASSUME NEW l PROVE Unsent(l) \in Nat /\ Unsent(l)' \in Nat /\ Unsent(l)' <= Unsent(l)
    <2>1. Unsent(l)' = Unsent(l)
        BY Zenon DEF Unsent, Submitting, hosts
    <2>2. Unsent(l) \in Nat
        BY UnsentType, Zenon DEF WorkersInv, TypesInv
    <2>. QED
        BY <2>1, <2>2
<1>. QED
    BY <1>2, <1>3, KeepUnits, Zenon DEF WorkersInv, TypesInv

\* The last unit of a launch with barriers gives up parallel.
LEMMA FreeStep == ASSUME WorkersInv, NEW w \in Workers, Free(w) PROVE WorkersInv'
<1>1. HostTypes /\ LaunchTypes /\ WorkerTypes /\ HostInv
    BY Zenon DEF WorkersInv, TypesInv
<1>2. /\ at[w] = "free" /\ parallel' = 0 /\ at' = [at EXCEPT ![w] = "publish"]
      /\ UNCHANGED <<hosts, counters, runner, workers, active, launches, inbox, pending, scan, job>>
    BY Zenon DEF Free
<1>3. HostTypes' /\ HostInv'
    BY <1>1, <1>2, HostsRest, Zenon DEF counters
<1>4. LaunchTypes'
    <2>1. parallel' \in 0 .. Len(launches)
        BY <1>1, <1>2 DEF LaunchTypes
    <2>. QED
        BY <1>1, <1>2, <2>1, Zenon DEF LaunchTypes, Launches, counters
<1>5. /\ at'[w] = "publish" /\ \A v \in Workers \ {w} : at'[v] = at[v]
      /\ at' \in [Workers -> WorkerLabels]
    BY <1>1, <1>2 DEF WorkerTypes, WorkerLabels
<1>6. WorkerTypes'
    BY <1>1, <1>2, <1>5, Zenon DEF WorkerTypes, Launches
<1>7. \A v \in Workers : Finishing(v)' => Finishing(v) /\ job'[v] = job[v]
    BY <1>2, <1>5, Zenon DEF Finishing
<1>8. StreamInv'
    BY <1>2, <1>7, KeepStreams, Zenon DEF WorkersInv, counters
<1>9. WorkerInv'
    <2>1. \A v \in Workers : WorkerAt(v)
        BY Zenon DEF WorkersInv, WorkerInv
    <2>2. Finishing(w)
        BY <1>2, Zenon DEF Finishing
    <2>3. ASSUME NEW v \in Workers, v # w PROVE WorkerAt(v)'
        <3>1. ~(at[v] \in {"run", "free"} /\ launches[job[v]].par)
            <4>1. SUFFICES ASSUME at[v] \in {"run", "free"}, launches[job[v]].par PROVE FALSE
                BY Zenon
            <4>2. job[v] = job[w]
                BY <1>2, <2>1, <4>1, Zenon DEF WorkerAt
            <4>3. at[v] # "free"
                BY <2>1, <2>2, <2>3, <4>2, Zenon DEF WorkerAt, Finishing
            <4>4. remaining[job[v]] \in Nat \ {0}
                BY <4>1, <4>3, RunningUnit, Zenon
            <4>. QED
                BY <2>1, <2>2, <4>2, <4>4, Zenon DEF WorkerAt
        <3>. QED
            BY <1>2, <1>5, <1>7, <2>1, <2>3, <3>1, KeepWorker, Zenon DEF counters
    <2>4. WorkerAt(w)'
        <3>1. /\ job[w] \in Launches' /\ Reached(job[w])' /\ remaining'[job[w]] = 0
              /\ \A v \in Workers : Finishing(v)' /\ job[v] = job[w] => v = w
            BY <1>2, <1>7, <2>1, <2>2, Zenon DEF WorkerAt, Reached, Launches, counters
        <3>2. at'[w] \notin {"scan", "run", "free"}
            BY <1>5
        <3>. QED
            BY <1>2, <3>1, <3>2, Zenon DEF WorkerAt, Reached
    <2>. QED
        BY <2>3, <2>4, Zenon DEF WorkerInv
<1>10. UnitsInv'
    <2>1. Finishing(w) /\ at'[w] # "run"
        BY <1>2, <1>5 DEF Finishing
    <2>. QED
        BY <1>2, <1>5, <2>1, PlacesRest, Zenon DEF counters
<1>. QED
    BY <1>3, <1>4, <1>6, <1>8, <1>9, <1>10, Zenon DEF WorkersInv, TypesInv

\* The last unit of a launch moves the counter of its stream to the end of the launch.
LEMMA PublishStep == ASSUME WorkersInv, NEW w \in Workers, Publish(w) PROVE WorkersInv'
<1>. DEFINE m == job[w]
            c == launches[m].stream
<1>1. HostTypes /\ LaunchTypes /\ WorkerTypes /\ HostInv
    BY Zenon DEF WorkersInv, TypesInv
<1>2. /\ at[w] = "publish" /\ at' = [at EXCEPT ![w] = "recv"]
      /\ completed' = [completed EXCEPT ![c] = @ + (launches[m].end - launches[m].prerequisite)]
      /\ UNCHANGED <<hosts, next, remaining, started, shared, inbox, pending, scan, job>>
    BY Zenon DEF Publish
<1>3. Finishing(w) /\ WorkerAt(w) /\ \A v \in Workers : WorkerAt(v)
    BY <1>2, Zenon DEF Finishing, WorkersInv, WorkerInv
<1>4. m \in Launches /\ Reached(m) /\ remaining[m] = 0 /\ StreamAt(m)
    BY <1>3, Zenon DEF WorkerAt, WorkersInv, StreamInv
<1>5. /\ c \in Streams /\ launches[m].prerequisite \in Nat /\ launches[m].end \in Nat
      /\ completed[c] \in Nat /\ next[c] \in Nat
    BY <1>1, <1>4, LaunchFacts, Zenon
<1>. HIDE DEF m, c
<1>6. completed[c] = launches[m].prerequisite
    <2>1. completed[c] >= launches[m].prerequisite
        BY <1>4, Zenon DEF Reached, c
    <2>2. ~(completed[c] >= launches[m].end)
        BY <1>3, <1>4, Zenon DEF StreamAt, m, c
    <2>3. completed[c] <= launches[m].prerequisite \/ completed[c] >= launches[m].end
        BY <1>4, Zenon DEF StreamAt, c
    <2>. QED
        BY <1>5, <2>1, <2>2, <2>3
<1>7. launches[m].prerequisite < launches[m].end /\ launches[m].end <= next[c]
    BY <1>4, Zenon DEF StreamAt, c
<1>8. /\ completed'[c] = launches[m].end /\ completed[c] <= completed'[c]
      /\ \A s \in Streams \ {c} : completed'[s] = completed[s]
      /\ completed' \in [Streams -> Nat]
    <2>1. completed[c] + (launches[m].end - launches[m].prerequisite) = launches[m].end
        BY <1>5, <1>6
    <2>. QED
        BY <1>1, <1>2, <1>5, <1>6, <1>7, <2>1 DEF LaunchTypes
<1>9. \A s \in Streams : /\ completed[s] \in Nat /\ completed'[s] \in Nat /\ next[s] \in Nat
                         /\ completed[s] <= completed'[s]
    BY <1>1, <1>8, SMTT(20) DEF LaunchTypes
<1>10. HostTypes' /\ HostInv'
    <2>1. \A s \in Streams : completed[s] >= next[s] => completed'[s] >= next[s]
        BY <1>9
    <2>. QED
        BY <1>1, <1>2, <2>1, HostsRest, Zenon DEF shared
<1>11. LaunchTypes'
    BY <1>1, <1>2, <1>8, Zenon DEF LaunchTypes, Launches, shared
<1>12. /\ at'[w] = "recv" /\ \A v \in Workers \ {w} : at'[v] = at[v]
       /\ at' \in [Workers -> WorkerLabels]
    BY <1>1, <1>2 DEF WorkerTypes, WorkerLabels
<1>13. WorkerTypes'
    BY <1>1, <1>2, <1>12, Zenon DEF WorkerTypes, Launches, shared
<1>14. \A v \in Workers : Finishing(v)' <=> Finishing(v) /\ v # w
    BY <1>12 DEF Finishing
<1>15. Launches' = Launches /\ UNCHANGED <<launches, remaining, job, next>>
    BY <1>2, Zenon DEF Launches, shared
<1>16. StreamInv'
    <2>1. \A s \in Streams : completed'[s] <= next'[s]
        <3>1. \A s \in Streams : completed[s] <= next[s]
            BY Zenon DEF WorkersInv, StreamInv
        <3>. QED
            BY <1>7, <1>8, <1>15, <3>1, Zenon
    <2>2. ASSUME NEW l \in Launches PROVE StreamAt(l)'
        <3>. DEFINE s == launches[l].stream
        <3>1. StreamAt(l)
            BY <2>2, Zenon DEF WorkersInv, StreamInv
        <3>2. /\ s \in Streams /\ launches[l].prerequisite \in Nat /\ launches[l].end \in Nat
              /\ launches[l].prerequisite < launches[l].end
            BY <1>1, <2>2, <3>1, LaunchFacts, Zenon DEF StreamAt
        <3>3. CASE s # c
            BY <1>8, <1>14, <1>15, <3>1, <3>2, <3>3, Zenon DEF StreamAt
        <3>4. CASE l = m
            <4>1. completed'[s] >= launches[l].end
                BY <1>5, <1>8, <3>4 DEF c
            <4>2. \A v \in Workers : Finishing(v)' => job[v] # l
                BY <1>3, <1>14, <3>4, Zenon DEF WorkerAt, m
            <4>. QED
                BY <1>4, <1>15, <3>1, <3>4, <4>1, <4>2, ZenonT(40) DEF StreamAt
        <3>5. CASE s = c /\ l < m
            <4>1. launches[l].end <= launches[m].prerequisite
                BY <1>4, <2>2, <3>5, Zenon DEF StreamAt, c
            <4>2. completed[s] >= launches[l].end /\ completed'[s] >= launches[l].end
                BY <1>5, <1>6, <1>8, <3>2, <3>5, <4>1
            <4>. QED
                BY <1>14, <1>15, <3>1, <4>2, Zenon DEF StreamAt
        <3>6. CASE s = c /\ m < l
            <4>1. launches[m].end <= launches[l].prerequisite
                BY <1>4, <3>1, <3>6, Zenon DEF StreamAt, c
            <4>2. completed'[s] <= launches[l].prerequisite /\ ~(completed'[s] >= launches[l].end)
                BY <1>5, <1>8, <3>2, <3>6, <4>1
            <4>. QED
                BY <1>15, <3>1, <4>2, Zenon DEF StreamAt
        <3>7. l < m \/ l = m \/ m < l
            BY <1>4, <2>2 DEF Launches
        <3>. QED
            BY <3>3, <3>4, <3>5, <3>6, <3>7, Zenon
    <2>. QED
        BY <1>15, <2>1, <2>2, Zenon DEF StreamInv
<1>17. WorkerInv'
    <2>1. ASSUME NEW v \in Workers, v # w PROVE WorkerAt(v)'
        <3>1. WorkerAt(v) /\ at'[v] = at[v] /\ UNCHANGED <<scan, pending, parallel>>
            BY <1>2, <1>3, <1>12, <2>1, Zenon DEF shared
        <3>2. ASSUME NEW l \in Launches, Reached(l)
              PROVE  completed'[launches[l].stream] >= launches[l].prerequisite
            <4>1. /\ completed[launches[l].stream] >= launches[l].prerequisite
                  /\ launches[l].stream \in Streams /\ launches[l].prerequisite \in Nat
                BY <1>1, <3>2, LaunchFacts, Zenon DEF Reached
            <4>2. completed'[launches[l].stream] >= launches[l].prerequisite
                BY <1>9, <4>1
            <4>. QED
                BY <4>2, Zenon
        <3>3. Finishing(v)' <=> Finishing(v)
            BY <1>14, <2>1, Zenon
        <3>4. at[v] = "run" \/ Finishing(v) =>
                  job[v] \in Launches /\
                  completed'[launches[job[v]].stream] >= launches[job[v]].prerequisite
            BY <3>1, <3>2, Zenon DEF WorkerAt
        <3>. QED
            BY <1>14, <1>15, <3>1, <3>3, <3>4, Zenon DEF WorkerAt, Reached
    <2>2. WorkerAt(w)'
        BY <1>12 DEF WorkerAt, Finishing
    <2>. QED
        BY <2>1, <2>2, Zenon DEF WorkerInv
<1>18. UnitsInv'
    <2>1. at'[w] # "run"
        BY <1>12
    <2>. QED
        BY <1>2, <1>3, <1>12, <2>1, PlacesRest, Zenon DEF shared
<1>. QED
    BY <1>10, <1>11, <1>13, <1>16, <1>17, <1>18, Zenon DEF WorkersInv, TypesInv

----------------------------------------------------------------------------
(* The theorems *)

\* Every step preserves the invariant.
LEMMA WorkersStep == ASSUME WorkersInv, [Next]_vars PROVE WorkersInv'
<1>1. ASSUME NEW s \in Streams, Call(s) \/ Host(s) PROVE WorkersInv'
    BY <1>1, CallStep, SettleStep, WriteStep, SyncStep, FlushStep, DispatchStep, SubmitStep, Zenon
    DEF Host
<1>2. ASSUME NEW w \in Workers, Worker(w) PROVE WorkersInv'
    BY <1>2, ReceiveStep, CheckStep, CompleteStep, FreeStep, PublishStep, Zenon DEF Worker
<1>3. CASE UNCHANGED vars
    <2>. USE <1>3 DEF vars, hosts, counters, shared, locals
    <2>1. TypesInv'
        BY Zenon DEF WorkersInv, TypesInv, HostTypes, LaunchTypes, WorkerTypes, Launches
    <2>2. \A w \in Workers : Finishing(w)' => Finishing(w) /\ job'[w] = job[w]
        BY Zenon DEF Finishing
    <2>3. HostInv'
        BY HostsRest, Zenon DEF WorkersInv, TypesInv
    <2>4. StreamInv'
        BY <2>2, KeepStreams, Zenon DEF WorkersInv
    <2>5. WorkerInv'
        BY <2>2, KeepWorker, Zenon DEF WorkersInv, WorkerInv
    <2>6. UnitsInv'
        BY Zenon DEF WorkersInv, UnitsInv, UnitsAt, Placed, Holds, Unsent, Submitting, Launches
    <2>. QED
        BY <2>1, <2>3, <2>4, <2>5, <2>6, Zenon DEF WorkersInv
<1>. QED
    BY <1>1, <1>2, <1>3, Zenon DEF Next

\* The inductive invariant holds in every reachable state.
THEOREM WorkersInvariant == Spec => []WorkersInv
<1>1. Init => WorkersInv
    BY WorkersInit, Zenon
<1>2. WorkersInv /\ [Next]_vars => WorkersInv'
    BY WorkersStep, Zenon
<1>. QED
    BY <1>1, <1>2, PTL DEF Spec

\* The types of the runner, its streams and its workers; a stream never completes more units
\* than it has reserved, and a launch never counts below zero.
THEOREM WorkerTypesHold == Spec => []TypeOK
<1>1. ASSUME WorkersInv PROVE TypeOK
    <2>1. HostTypes /\ LaunchTypes /\ WorkerTypes
        BY <1>1, Zenon DEF WorkersInv, TypesInv
    <2>2. \A s \in Streams : completed[s] <= next[s]
        BY <1>1, Zenon DEF WorkersInv, StreamInv
    <2>3. remaining \in [Launches -> Nat] /\ started \in [Launches -> Nat]
        BY <2>1 DEF LaunchTypes, Launches
    <2>4. \A w \in Workers : inbox[w] \in Seq(Launches) /\ pending[w] \in Seq(Launches)
        BY <2>1, Zenon DEF WorkerTypes
    <2>. QED
        BY <2>1, <2>2, <2>3, <2>4, Zenon
        DEF TypeOK, HostTypes, LaunchTypes, WorkerTypes, HostLabels, WorkerLabels
<1>. QED
    BY <1>1, WorkersInvariant, PTL

\* A unit runs only after the earlier launches of its stream are over, although the workers
\* take units out of order.
THEOREM StreamsRunInOrder == Spec => []StreamOrder
<1>1. ASSUME WorkersInv PROVE StreamOrder
    <2>1. SUFFICES ASSUME NEW k \in Launches, NEW l \in Launches, k < l,
                          launches[k].stream = launches[l].stream,
                          NEW w \in Workers, at[w] = "run", job[w] = l
                   PROVE  remaining[k] = 0
        BY Zenon DEF StreamOrder, Computing
    <2>2. completed[launches[l].stream] >= launches[l].prerequisite
        BY <1>1, <2>1, Zenon DEF WorkersInv, WorkerInv, WorkerAt, Reached
    <2>3. launches[k].end <= launches[l].prerequisite
        BY <1>1, <2>1, Zenon DEF WorkersInv, StreamInv, StreamAt
    <2>4. completed[launches[k].stream] >= launches[k].end
        BY <1>1, <2>1, <2>2, <2>3, LaunchFacts DEF WorkersInv, TypesInv
    <2>. QED
        BY <1>1, <2>4, Zenon DEF WorkersInv, StreamInv, StreamAt
<1>. QED
    BY <1>1, WorkersInvariant, PTL

\* The units of two launches with barriers never run at the same time.
THEOREM BarrierLaunchesExclude == Spec => []OneBarrierLaunch
<1>1. ASSUME WorkersInv PROVE OneBarrierLaunch
    BY <1>1, Zenon DEF WorkersInv, WorkerInv, WorkerAt, OneBarrierLaunch, Computing
<1>. QED
    BY <1>1, WorkersInvariant, PTL

\* A thread that copies data into a buffer does so after every launch of its stream is over.
THEOREM WritesMeetNoUnit == Spec => []WriteIsAlone
<1>1. ASSUME WorkersInv PROVE WriteIsAlone
    <2>1. SUFFICES ASSUME NEW s \in Streams, NEW l \in Launches, host[s] = "copy",
                          launches[l].stream = s
                   PROVE  remaining[l] = 0
        BY Zenon DEF WriteIsAlone
    <2>2. completed[s] >= next[s]
        BY <1>1, <2>1, Zenon DEF WorkersInv, HostInv, HostAt
    <2>3. StreamAt(l) /\ launches[l].end <= next[s]
        BY <1>1, <2>1, Zenon DEF WorkersInv, StreamInv, StreamAt
    <2>4. completed[s] >= launches[l].end
        BY <1>1, <2>1, <2>2, <2>3, LaunchFacts DEF WorkersInv, TypesInv
    <2>. QED
        BY <2>1, <2>3, <2>4, Zenon DEF StreamAt
<1>. QED
    BY <1>1, WorkersInvariant, PTL

=============================================================================
