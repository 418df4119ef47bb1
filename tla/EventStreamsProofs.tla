------------------------- MODULE EventStreamsProofs -------------------------
(* Proofs about EventStreams: what a stream has noted as synchronized is     *)
(* ordered before it, and a recorded allocation is kept until the work it    *)
(* was recorded with is finished, for every number of streams, slices and    *)
(* commands.                                                                 *)
EXTENDS EventStreams, WellFoundedInduction, TLAPS

Kernel == [stream : Regular, cursor : Nat, clock : Clock]
Notes == UNION {[D -> Nat] : D \in SUBSET Regular}
Below(c, d) == \A j \in Regular : c[j] <= d[j]

\* The kernels that notes M cover are counted by clock.
Ordered(M, clock) ==
    \A o \in DOMAIN M, k \in DOMAIN kernels :
        kernels[k].stream = o /\ kernels[k].cursor <= M[o] => kernels[k].clock[o] <= clock[o]

\* The device thread: every clock counts kernels there are, and a stream knows its own.
ServerInv ==
    /\ cursor \in [Regular -> Nat]
    /\ known \in [Streams -> Clock]
    /\ last_synced \in [Regular -> Notes]
    /\ kernels \in Seq(Kernel)
    /\ \A i \in Regular : \A o \in DOMAIN last_synced[i] : o # i /\ last_synced[i][o] <= cursor[o]
    /\ \A i \in Streams : \A j \in Regular : known[i][j] <= Len(kernels)
    /\ \A k \in DOMAIN kernels :
          LET s == kernels[k].stream IN kernels[k].clock[s] <= known[s][s]

GcInv ==
    /\ sending \in Seq(GcTask) /\ waiting \in Seq(GcTask) /\ gcQueue \in Seq(GcTask)
    /\ Len(waiting) <= 1 /\ Len(gcQueue) <= GcCapacity

DeviceInv ==
    /\ poisoned \in BOOLEAN /\ done \in [Regular -> Nat]
    /\ \A i \in Regular : done[i] <= known[i][i]

MemoryInv ==
    /\ held \subseteq Memory /\ bound \in [Memory -> Nat] /\ life \in [Memory -> Nat]
    /\ recorded \subseteq Recording /\ leaked \subseteq Memory
    /\ \A r \in recorded : r.cursor <= cursor[r.stream]

\* The tasks the GC thread has to handle; those that keep a recorded allocation wait for an
\* event that does not precede the work it was recorded with.
Elements(queue) == {queue[n] : n \in DOMAIN queue}
Tasks == Elements(sending) \cup Elements(gcQueue) \cup Elements(waiting)
Covers(t, r) ==
    /\ r.memory \in t.keeps
    /\ \A k \in Work(r) : kernels[k].clock[r.stream] <= t.event[r.stream]

\* A recorded allocation that must not be given out is forgotten or kept by a task.
WorkDone(r) == \A k \in Work(r) : Finished(k)
Guarded(r) == r.memory \in leaked \/ \E t \in Tasks : Covers(t, r)
Safe(r) == poisoned \/ WorkDone(r) \/ (life[r.memory] = r.life /\ Guarded(r))
RecordInv == \A r \in recorded : Safe(r)

EventsInv == ServerInv /\ SyncedIsOrdered /\ GcInv /\ DeviceInv /\ MemoryInv /\ RecordInv

\* What a command of stream i may do to the kernels: add one of its own.
Enqueued(i, clock) ==
    /\ kernels' \in Seq(Kernel) /\ Len(kernels) <= Len(kernels')
    /\ DOMAIN kernels \subseteq DOMAIN kernels'
    /\ \A k \in DOMAIN kernels : kernels'[k] = kernels[k]
    /\ \A k \in DOMAIN kernels' \ DOMAIN kernels :
          /\ kernels'[k].stream = i /\ kernels'[k].cursor = cursor[i] + 1
          /\ kernels'[k].clock = clock

----------------------------------------------------------------------------
(* Clocks *)

\* The maximum of a bounded, nonempty set of natural numbers exists.
LEMMA MaxOf ==
    ASSUME NEW S \in SUBSET Nat, S # {}, NEW b \in Nat, \A x \in S : x <= b
    PROVE  Max(S) \in S /\ \A x \in S : x <= Max(S)
<1>. DEFINE U == {n \in Nat : \A x \in S : x <= n}
<1>1. PICK m \in U : \A n \in U : ~(<<n, m>> \in OpToRel(<, Nat))
    <2>1. U \subseteq Nat /\ U # {}
        OBVIOUS
    <2>. QED
        BY <2>1, NatLessThanWellFounded, WFMin, Zenon
<1>2. \A n \in U : ~(n < m)
    BY <1>1, Zenon DEF OpToRel
<1>3. m \in S
    <2>1. SUFFICES ASSUME m \notin S PROVE FALSE
        OBVIOUS
    <2>a. m \in Nat /\ \A x \in S : x \in Nat /\ x <= m /\ x # m
        BY <2>1, Zenon
    <2>2. \A x \in S : x \in Nat /\ x < m
        BY <2>a
    <2>3. m \in Nat /\ m # 0
        <3>1. PICK x \in S : TRUE
            BY Zenon
        <3>. QED
            BY <2>a, <3>1
    <2>4. m - 1 \in Nat /\ m - 1 < m /\ \A x \in S : x <= m - 1
        BY <2>2, <2>3
    <2>5. m - 1 \in U
        BY <2>4
    <2>. QED
        BY <2>4, <2>5, <1>2, Zenon
<1>4. \E x \in S : \A y \in S : x >= y
    BY <1>3
<1>5. Max(S) \in S /\ \A y \in S : Max(S) >= y
    BY <1>4, Zenon DEF Max
<1>. QED
    BY <1>5

\* Joined is the least clock that is not below any of those it joins.
LEMMA JoinedIs ==
    ASSUME NEW b \in Nat, NEW clock \in Clock, NEW events \in SUBSET Clock,
           \A j \in Regular : clock[j] <= b,
           \A e \in events : \A j \in Regular : e[j] <= b
    PROVE  /\ Joined(clock, events) \in Clock /\ Below(clock, Joined(clock, events))
           /\ \A j \in Regular : Joined(clock, events)[j] <= b
           /\ \A e \in events : Below(e, Joined(clock, events))
<1>. DEFINE S(j) == {clock[j]} \cup {e[j] : e \in events}
<1>1. ASSUME NEW j \in Regular
      PROVE  /\ Max(S(j)) \in Nat /\ clock[j] <= Max(S(j)) /\ Max(S(j)) <= b
             /\ \A e \in events : e[j] <= Max(S(j))
    <2>1. clock[j] \in Nat /\ \A e \in events : e[j] \in Nat
        BY DEF Clock
    <2>2. S(j) \in SUBSET Nat /\ S(j) # {} /\ \A x \in S(j) : x <= b
        BY <2>1
    <2>3. Max(S(j)) \in S(j) /\ \A x \in S(j) : x <= Max(S(j))
        BY <2>2, MaxOf, Zenon
    <2>. QED
        BY <2>2, <2>3, Zenon
<1>2. Joined(clock, events) = [j \in Regular |-> Max(S(j))]
    BY Zenon DEF Joined
<1>. HIDE DEF S
<1>. QED
    BY <1>1, <1>2, Zenon DEF Below, Clock

\* Streams are the slots of the pool, and the special one is none of the others.
LEMMA StreamFacts ==
    /\ Regular \subseteq Streams /\ Special \in Streams /\ Special \notin Regular
    /\ \A id \in StreamIds : stream_index(id) \in Regular
<1>1. \A id \in StreamIds : id % MaxStreams \in 0 .. MaxStreams - 1
    BY EventAssumption
<1>2. \A i \in Regular : i < MaxStreams
    BY <1>1, EventAssumption DEF Regular, stream_index
<1>3. Special \notin Regular
    BY <1>2, EventAssumption DEF Special
<1>. QED
    BY <1>3, Zenon DEF Regular, Streams

\* What a stream notes is a partial map from the other streams to cursors.
LEMMA NotesAre ==
    ASSUME NEW f \in Notes
    PROVE  DOMAIN f \in SUBSET Regular /\ \A o \in DOMAIN f : f[o] \in Nat
<1>1. PICK D \in SUBSET Regular : f \in [D -> Nat]
    BY Zenon DEF Notes
<1>. QED
    BY <1>1, Zenon

----------------------------------------------------------------------------
(* The device thread *)

\* What waiting for the streams of a command gives: the clock known before it, the clocks
\* of the streams waited for, and no more than the kernels there are.
LEMMA WaitJoins ==
    ASSUME ServerInv, NEW i \in Regular, NEW waited \in SUBSET Regular
    PROVE  LET J == Joined(known[i], {known[o] : o \in waited})
           IN  /\ J \in Clock /\ Below(known[i], J) /\ \A o \in waited : Below(known[o], J)
               /\ \A j \in Regular : J[j] <= Len(kernels)
<1>1. /\ known \in [Streams -> Clock] /\ Len(kernels) \in Nat
      /\ \A s \in Streams : \A j \in Regular : known[s][j] <= Len(kernels)
    BY DEF ServerInv
<1>2. \A s \in Regular : known[s] \in Clock /\ \A j \in Regular : known[s][j] <= Len(kernels)
    BY <1>1, StreamFacts, Zenon
<1>3. /\ {known[o] : o \in waited} \in SUBSET Clock
      /\ \A e \in {known[o] : o \in waited} : \A j \in Regular : e[j] <= Len(kernels)
    BY <1>2, Zenon
<1>. QED
    BY <1>1, <1>2, <1>3, JoinedIs, Zenon

\* What a stream notes of the streams it waited for: their cursors, and these cover the
\* kernels it now comes after.
LEMMA MarkedIs ==
    ASSUME ServerInv, SyncedIsOrdered, NEW i \in Regular, NEW origins,
           NEW waited \in SUBSET (Regular \ {i}), NEW clock \in Clock, Below(known[i], clock),
           \A o \in waited : Below(known[o], clock)
    PROVE  LET M == Marked(i, origins, waited)
           IN  /\ M \in Notes
               /\ \A o \in DOMAIN M : o \in Regular \ {i} /\ M[o] <= cursor[o]
               /\ Ordered(M, clock)
<1>. DEFINE M == Marked(i, origins, waited)
            D == DOMAIN last_synced[i]
<1>1. cursor \in [Regular -> Nat] /\ last_synced[i] \in Notes
    BY Zenon DEF ServerInv
<1>2. D \in SUBSET Regular /\ \A o \in D : last_synced[i][o] \in Nat
    BY <1>1, NotesAre, Zenon
<1>3. \A o \in D : o # i /\ last_synced[i][o] <= cursor[o]
    BY Zenon DEF ServerInv
<1>4. M = [o \in waited \cup D |-> IF o \in waited THEN cursor[o] ELSE last_synced[i][o]]
    BY Zenon DEF Marked
<1>5. /\ DOMAIN M = waited \cup D
      /\ \A o \in DOMAIN M : M[o] = IF o \in waited THEN cursor[o] ELSE last_synced[i][o]
    BY <1>4, Zenon
<1>6. M \in Notes
    <2>1. waited \cup D \in SUBSET Regular
        BY <1>2, Zenon
    <2>2. M \in [waited \cup D -> Nat]
        BY <1>1, <1>2, <1>4, <2>1, Zenon
    <2>. QED
        BY <2>1, <2>2, Zenon DEF Notes
<1>7. \A o \in Regular : cursor[o] <= cursor[o]
    BY <1>1
<1>. HIDE DEF M, D
<1>8. ASSUME NEW o \in DOMAIN M, NEW k \in DOMAIN kernels, kernels[k].stream = o,
             kernels[k].cursor <= M[o]
      PROVE  kernels[k].clock[o] <= clock[o]
    <2>1. /\ o \in Regular /\ kernels[k].clock[o] \in Nat /\ clock[o] \in Nat
          /\ known[o][o] \in Nat /\ known[i][o] \in Nat
        <3>1. o \in Regular /\ o \in Streams /\ i \in Streams
            BY <1>2, <1>5, StreamFacts, Zenon
        <3>2. kernels[k] \in Kernel /\ known \in [Streams -> Clock]
            BY DEF ServerInv
        <3>3. kernels[k].clock \in Clock /\ known[o] \in Clock /\ known[i] \in Clock
            BY <3>1, <3>2 DEF Kernel
        <3>. QED
            BY <3>1, <3>3, Zenon DEF Clock
    <2>2. CASE o \in waited
        <3>1. kernels[k].clock[o] <= known[o][o] /\ known[o][o] <= clock[o]
            BY <2>1, <2>2, <1>8, Zenon DEF ServerInv, Below
        <3>. QED
            BY <2>1, <3>1
    <2>3. CASE o \notin waited
        <3>1. o \in D /\ M[o] = last_synced[i][o]
            BY <2>3, <1>5, Zenon
        <3>2. kernels[k].clock[o] <= known[i][o] /\ known[i][o] <= clock[o]
            BY <2>1, <3>1, <1>8, Zenon DEF SyncedIsOrdered, Below, D
        <3>. QED
            BY <2>1, <3>2
    <2>. QED
        BY <2>2, <2>3, Zenon
<1>9. \A o \in DOMAIN M : o \in Regular \ {i} /\ M[o] <= cursor[o]
    BY <1>2, <1>3, <1>5, <1>7, Zenon
<1>10. Ordered(M, clock)
    BY <1>8, Zenon DEF Ordered
<1>. QED
    BY <1>6, <1>9, <1>10, Zenon DEF M

\* A stream that waits: what the others have noted stays ordered, what it notes is.
LEMMA SyncedMove ==
    ASSUME ServerInv, SyncedIsOrdered, NEW i \in Regular, NEW M \in Notes,
           last_synced' = [last_synced EXCEPT ![i] = M],
           known' \in [Streams -> Clock], \A s \in Regular : Below(known[s], known'[s]),
           Ordered(M, known'[i])
    PROVE  \A s \in Regular : Ordered(last_synced'[s], known'[s])
<1>. SUFFICES ASSUME NEW s \in Regular, NEW o \in DOMAIN last_synced'[s],
                     NEW k \in DOMAIN kernels, kernels[k].stream = o,
                     kernels[k].cursor <= last_synced'[s][o]
              PROVE  kernels[k].clock[o] <= known'[s][o]
    BY Zenon DEF Ordered
<1>1. last_synced'[s] = IF s = i THEN M ELSE last_synced[s]
    BY Zenon DEF ServerInv
<1>2. CASE s = i
    BY <1>1, <1>2, Zenon DEF Ordered
<1>3. CASE s # i
    <2>1. kernels[k].clock[o] <= known[s][o]
        BY <1>1, <1>3, Zenon DEF SyncedIsOrdered
    <2>2. kernels[k] \in Kernel /\ known \in [Streams -> Clock] /\ s \in Streams
        BY StreamFacts DEF ServerInv
    <2>3. kernels[k].clock \in Clock /\ kernels[k].stream \in Regular
        BY <2>2 DEF Kernel
    <2>4. /\ o \in Regular /\ kernels[k].clock[o] \in Nat
          /\ known[s][o] \in Nat /\ known'[s][o] \in Nat
        BY <2>2, <2>3, Zenon DEF Clock
    <2>5. known[s][o] <= known'[s][o]
        BY <2>4, Zenon DEF Below
    <2>. QED
        BY <2>1, <2>4, <2>5
<1>. QED
    BY <1>2, <1>3, Zenon

\* What every step of the device thread keeps of ServerInv when the clocks only grow.
LEMMA ServerMove ==
    ASSUME ServerInv, SyncedIsOrdered, NEW i \in Regular, NEW M \in Notes,
           last_synced' = [last_synced EXCEPT ![i] = M],
           \A o \in DOMAIN M : o \in Regular \ {i} /\ M[o] <= cursor[o],
           known' \in [Streams -> Clock], Below(known[i], known'[i]),
           \A s \in Regular \ {i} : known'[s] = known[s]
    PROVE  /\ last_synced' \in [Regular -> Notes]
           /\ \A s \in Regular : \A o \in DOMAIN last_synced'[s] :
                 /\ o \in Regular \ {s} /\ last_synced'[s][o] \in Nat
                 /\ last_synced'[s][o] <= cursor[o]
           /\ \A s \in Regular : Below(known[s], known'[s])
           /\ \A k \in DOMAIN kernels :
                 LET s == kernels[k].stream IN kernels[k].clock[s] <= known'[s][s]
<1>1. /\ known \in [Streams -> Clock] /\ last_synced \in [Regular -> Notes]
      /\ \A s \in Regular : \A o \in DOMAIN last_synced[s] : o # s /\ last_synced[s][o] <= cursor[o]
    BY Zenon DEF ServerInv
<1>2. \A s \in Regular : last_synced'[s] = IF s = i THEN M ELSE last_synced[s]
    BY <1>1, Zenon
<1>3. \A s \in Regular : \A o \in DOMAIN last_synced[s] : o \in Regular /\ last_synced[s][o] \in Nat
    BY <1>1, NotesAre, Zenon
<1>4. \A o \in DOMAIN M : M[o] \in Nat
    BY NotesAre, Zenon
<1>5. \A s \in Regular : known[s] \in Clock /\ known'[s] \in Clock
    BY <1>1, StreamFacts, Zenon
<1>6. ASSUME NEW s \in Regular PROVE Below(known[s], known'[s])
    <2>1. CASE s = i
        BY <2>1, Zenon
    <2>2. CASE s # i
        BY <2>2, <1>5 DEF Below, Clock
    <2>. QED
        BY <2>1, <2>2, Zenon
<1>7. ASSUME NEW k \in DOMAIN kernels, NEW s \in Regular, kernels[k].stream = s
      PROVE  kernels[k].clock[s] <= known'[s][s]
    <2>1. kernels[k].clock[s] <= known[s][s]
        BY <1>7, Zenon DEF ServerInv
    <2>2. kernels[k] \in Kernel
        BY DEF ServerInv
    <2>3. kernels[k].clock[s] \in Nat /\ known[s][s] \in Nat /\ known'[s][s] \in Nat
        BY <2>2, <1>5 DEF Kernel, Clock
    <2>4. known[s][s] <= known'[s][s]
        BY <1>6, Zenon DEF Below
    <2>. QED
        BY <2>1, <2>3, <2>4
<1>8. \A k \in DOMAIN kernels : kernels[k].stream \in Regular
    <2>1. \A k \in DOMAIN kernels : kernels[k] \in Kernel
        BY DEF ServerInv
    <2>. QED
        BY <2>1 DEF Kernel
<1>9. last_synced' \in [Regular -> Notes]
    BY <1>1, Zenon
<1>10. \A s \in Regular : \A o \in DOMAIN last_synced'[s] :
          o \in Regular \ {s} /\ last_synced'[s][o] \in Nat /\ last_synced'[s][o] <= cursor[o]
    BY <1>1, <1>2, <1>3, <1>4, Zenon
<1>. QED
    BY <1>6, <1>7, <1>8, <1>9, <1>10, Zenon

\* A command whose waits fail.
LEMMA FailStep ==
    ASSUME ServerInv, SyncedIsOrdered, NEW id \in StreamIds, NEW buffers \in SUBSET Memory,
           Fail(id, buffers)
    PROVE  ServerInv' /\ SyncedIsOrdered' /\ \A s \in Regular : Below(known[s], known'[s])
<1>. DEFINE i == stream_index(id)
            origins == Origins(i, buffers)
<1>1. PICK waited \in SUBSET origins :
          /\ last_synced' = [last_synced EXCEPT ![i] = Marked(i, origins, waited)]
          /\ known' = [known EXCEPT ![i] = Joined(@, {known[o] : o \in waited})]
    BY Zenon DEF Fail
<1>2. UNCHANGED <<cursor, kernels>>
    BY Zenon DEF Fail
<1>3. i \in Regular /\ i \in Streams /\ waited \in SUBSET (Regular \ {i})
    BY StreamFacts, Zenon DEF Origins
<1>. DEFINE J == Joined(known[i], {known[o] : o \in waited})
            M == Marked(i, origins, waited)
<1>4. /\ J \in Clock /\ Below(known[i], J) /\ \A o \in waited : Below(known[o], J)
      /\ \A j \in Regular : J[j] <= Len(kernels)
    BY <1>3, WaitJoins, Zenon
<1>5. /\ M \in Notes
      /\ \A o \in DOMAIN M : o \in Regular \ {i} /\ M[o] <= cursor[o]
      /\ Ordered(M, J)
    BY <1>3, <1>4, MarkedIs, Zenon
<1>6. last_synced' = [last_synced EXCEPT ![i] = M]
    BY <1>1, Zenon
<1>. HIDE DEF i, J, M
<1>7. /\ known' \in [Streams -> Clock] /\ known'[i] = J
      /\ \A s \in Streams \ {i} : known'[s] = known[s]
    BY <1>1, <1>3, <1>4, Zenon DEF ServerInv, J
<1>8. /\ last_synced' \in [Regular -> Notes]
      /\ \A s \in Regular : \A o \in DOMAIN last_synced'[s] :
            o \in Regular \ {s} /\ last_synced'[s][o] \in Nat /\ last_synced'[s][o] <= cursor[o]
      /\ \A s \in Regular : Below(known[s], known'[s])
      /\ \A k \in DOMAIN kernels :
            LET s == kernels[k].stream IN kernels[k].clock[s] <= known'[s][s]
    BY <1>3, <1>4, <1>5, <1>6, <1>7, StreamFacts, ServerMove, Zenon
<1>9. \A s \in Streams : \A j \in Regular : known'[s][j] <= Len(kernels)
    BY <1>4, <1>7, Zenon DEF ServerInv
<1>10. ServerInv'
    BY <1>2, <1>7, <1>8, <1>9, Zenon DEF ServerInv
<1>11. SyncedIsOrdered'
    <2>1. \A s \in Regular : Ordered(last_synced'[s], known'[s])
        BY <1>3, <1>5, <1>6, <1>7, <1>8, SyncedMove, Zenon
    <2>. QED
        BY <2>1, <1>2 DEF SyncedIsOrdered, Ordered
<1>. QED
    BY <1>8, <1>10, <1>11, Zenon

\* A kernel that is enqueued and the kernels before it.
LEMMA KernelsAppend ==
    ASSUME kernels \in Seq(Kernel), NEW K \in Kernel, kernels' = Append(kernels, K)
    PROVE  /\ Len(kernels) \in Nat /\ kernels' \in Seq(Kernel) /\ Len(kernels') = Len(kernels) + 1
           /\ DOMAIN kernels \subseteq DOMAIN kernels' /\ Len(kernels) + 1 \in DOMAIN kernels'
           /\ \A k \in DOMAIN kernels' : k \in DOMAIN kernels \/ k = Len(kernels) + 1
           /\ \A k \in DOMAIN kernels : kernels'[k] = kernels[k]
           /\ kernels'[Len(kernels) + 1] = K
<1>1. /\ Len(kernels) \in Nat /\ kernels' \in Seq(Kernel) /\ Len(kernels') = Len(kernels) + 1
      /\ \A k \in 1 .. Len(kernels) : kernels'[k] = kernels[k]
      /\ kernels'[Len(kernels) + 1] = K
    OBVIOUS
<1>2. DOMAIN kernels = 1 .. Len(kernels) /\ DOMAIN kernels' = 1 .. Len(kernels) + 1
    BY <1>1
<1>. QED
    BY <1>1, <1>2

\* The event that the special stream flushes for a command.
LEMMA GcEvent ==
    ASSUME ServerInv, NEW n \in Nat, Len(kernels) <= n, NEW clock \in Clock,
           \A j \in Regular : clock[j] <= n
    PROVE  LET event == GcClock(known[Special], clock)
           IN  event \in Clock /\ \A j \in Regular : event[j] <= n
<1>1. /\ known \in [Streams -> Clock] /\ Len(kernels) \in Nat
      /\ \A s \in Streams : \A j \in Regular : known[s][j] <= Len(kernels)
    BY DEF ServerInv
<1>2. known[Special] \in Clock /\ \A j \in Regular : known[Special][j] <= Len(kernels)
    BY <1>1, StreamFacts, Zenon
<1>3. \A j \in Regular : known[Special][j] <= n
    BY <1>1, <1>2 DEF Clock
<1>4. {clock} \in SUBSET Clock /\ \A e \in {clock} : \A j \in Regular : e[j] <= n
    BY Zenon
<1>. QED
    BY <1>2, <1>3, <1>4, JoinedIs, Zenon DEF GcClock

\* A command whose dependencies are met, with the clock its stream is left with.
LEMMA CommandStep ==
    ASSUME ServerInv, SyncedIsOrdered, NEW i \in Regular, NEW origins \in SUBSET (Regular \ {i}),
           NEW clock \in Clock, NEW tasks,
           Resolve(i, origins), Drop(i, clock, origins, tasks), Enqueued(i, clock),
           Below(Joined(known[i], {known[o] : o \in origins}), clock),
           \A j \in Regular : clock[j] <= Len(kernels')
    PROVE  /\ ServerInv' /\ SyncedIsOrdered' /\ \A s \in Regular : Below(known[s], known'[s])
           /\ \/ sending' = tasks
              \/ \E event \in Clock : sending' = Append(tasks, [event |-> event, keeps |-> {}])
<1>. DEFINE J == Joined(known[i], {known[o] : o \in origins})
            event == GcClock(known[Special], clock)
            M == Marked(i, origins, origins)
            n == Len(kernels')
<1>1. /\ last_synced' = [last_synced EXCEPT ![i] = M]
      /\ cursor' = [cursor EXCEPT ![i] = @ + 1]
    BY Zenon DEF Resolve
<1>2. i \in Streams /\ i # Special /\ origins \in SUBSET Regular
    BY StreamFacts, Zenon
<1>3. J \in Clock /\ Below(known[i], J) /\ \A o \in origins : Below(known[o], J)
    BY <1>2, WaitJoins, Zenon
<1>4. Below(J, clock)
    OBVIOUS
<1>5. n \in Nat /\ Len(kernels) \in Nat /\ Len(kernels) <= n
    BY DEF Enqueued, ServerInv
<1>. HIDE DEF J, n
<1>6. event \in Clock /\ \A j \in Regular : clock[j] <= n /\ event[j] <= n
    BY <1>5, GcEvent, Zenon DEF n
<1>. HIDE DEF event
<1>7. /\ known' \in [Streams -> Clock] /\ known'[i] = clock
      /\ \A s \in Streams \ {i, Special} : known'[s] = known[s]
      /\ known'[Special] = known[Special] \/ known'[Special] = event
    <2>1. known \in [Streams -> Clock]
        BY Zenon DEF ServerInv
    <2>2. \/ known' = [known EXCEPT ![i] = clock]
          \/ known' = [known EXCEPT ![i] = clock, ![Special] = event]
        BY Zenon DEF Drop, event
    <2>. QED
        BY <2>1, <2>2, <1>2, <1>6, StreamFacts
<1>8. \A s \in Regular \ {i} : known'[s] = known[s]
    BY <1>7, StreamFacts, Zenon
<1>9. Below(known[i], clock) /\ \A o \in origins : Below(known[o], clock)
    <2>. SUFFICES ASSUME NEW o \in origins \cup {i}, NEW j \in Regular PROVE known[o][j] <= clock[j]
        BY Zenon DEF Below
    <2>1. known[o][j] <= J[j] /\ J[j] <= clock[j]
        BY <1>3, <1>4, Zenon DEF Below
    <2>2. o \in Streams /\ known \in [Streams -> Clock]
        BY <1>2, StreamFacts, Zenon DEF ServerInv
    <2>3. known[o][j] \in Nat /\ J[j] \in Nat /\ clock[j] \in Nat
        BY <1>3, <2>2, Zenon DEF Clock
    <2>. QED
        BY <2>1, <2>3
<1>10. /\ M \in Notes /\ Ordered(M, clock)
       /\ \A o \in DOMAIN M : o \in Regular \ {i} /\ M[o] <= cursor[o]
    BY <1>9, MarkedIs, Zenon
<1>. HIDE DEF M
<1>11. /\ last_synced' \in [Regular -> Notes]
       /\ \A s \in Regular : \A o \in DOMAIN last_synced'[s] :
             o \in Regular \ {s} /\ last_synced'[s][o] \in Nat /\ last_synced'[s][o] <= cursor[o]
       /\ \A s \in Regular : Below(known[s], known'[s])
       /\ \A k \in DOMAIN kernels :
             LET s == kernels[k].stream IN kernels[k].clock[s] <= known'[s][s]
    BY <1>1, <1>7, <1>8, <1>9, <1>10, ServerMove, Zenon
<1>12. \A s \in Regular : Ordered(last_synced'[s], known'[s])
    BY <1>1, <1>7, <1>10, <1>11, SyncedMove, Zenon
<1>13. /\ cursor' \in [Regular -> Nat]
       /\ \A s \in Regular : cursor[s] \in Nat /\ cursor'[s] \in Nat /\ cursor[s] <= cursor'[s]
    BY <1>1 DEF ServerInv
<1>14. ASSUME NEW s \in Regular, NEW o \in DOMAIN last_synced'[s]
       PROVE  o # s /\ last_synced'[s][o] <= cursor'[o]
    <2>1. /\ o \in Regular /\ o # s /\ last_synced'[s][o] \in Nat
          /\ last_synced'[s][o] <= cursor[o]
        BY <1>11, Zenon
    <2>. QED
        BY <2>1, <1>13
<1>15. \A s \in Streams : \A j \in Regular : known'[s][j] <= n
    <2>1. \A s \in Streams : \A j \in Regular : known[s][j] <= n
        BY <1>5, StreamFacts DEF ServerInv, Clock
    <2>. QED
        BY <2>1, <1>6, <1>7, Zenon
<1>16. ASSUME NEW k \in DOMAIN kernels', NEW s, s = kernels'[k].stream
       PROVE  kernels'[k].clock[s] <= known'[s][s]
    <2>1. CASE k \in DOMAIN kernels
        BY <2>1, <1>11, <1>16, Zenon DEF Enqueued
    <2>2. CASE k \notin DOMAIN kernels
        <3>1. s = i /\ kernels'[k].clock = known'[i] /\ known'[i][i] \in Nat
            BY <2>2, <1>7, <1>16, Zenon DEF Clock, Enqueued
        <3>. QED
            BY <3>1
    <2>. QED
        BY <2>1, <2>2
<1>17. ServerInv'
    <2>1. kernels' \in Seq(Kernel) /\ Len(kernels') = n
        BY Zenon DEF Enqueued, n
    <2>. QED
        BY <2>1, <1>7, <1>11, <1>13, <1>14, <1>15, <1>16, Zenon DEF ServerInv
<1>18. SyncedIsOrdered'
    <2>. SUFFICES ASSUME NEW s \in Regular, NEW o \in DOMAIN last_synced'[s],
                         NEW k \in DOMAIN kernels', kernels'[k].stream = o,
                         kernels'[k].cursor <= last_synced'[s][o]
                  PROVE  kernels'[k].clock[o] <= known'[s][o]
        BY Zenon DEF SyncedIsOrdered
    <2>1. CASE k \in DOMAIN kernels
        BY <2>1, <1>12, Zenon DEF Ordered, Enqueued
    <2>2. CASE k \notin DOMAIN kernels
        <3>1. o = i /\ cursor[i] + 1 <= last_synced'[s][i]
            BY <2>2, Zenon DEF Enqueued
        <3>2. /\ last_synced'[s][i] \in Nat /\ last_synced'[s][i] <= cursor[i]
              /\ cursor[i] \in Nat
            BY <3>1, <1>11, <1>13, Zenon
        <3>. QED
            BY <3>1, <3>2
    <2>. QED
        BY <2>1, <2>2
<1>19. sending' = tasks \/ sending' = Append(tasks, [event |-> event, keeps |-> {}])
    BY Zenon DEF Drop, event
<1>. QED
    BY <1>6, <1>11, <1>17, <1>18, <1>19, Zenon

\* A step that leaves the streams and the kernels alone.
LEMMA ServerFrame ==
    ASSUME ServerInv, SyncedIsOrdered, UNCHANGED <<last_synced, known, kernels>>,
           cursor' \in [Regular -> Nat], \A i \in Regular : cursor[i] <= cursor'[i]
    PROVE  ServerInv' /\ SyncedIsOrdered' /\ \A s \in Regular : Below(known[s], known'[s])
<1>1. ASSUME NEW i \in Regular, NEW o \in DOMAIN last_synced[i]
      PROVE  o # i /\ last_synced[i][o] <= cursor'[o]
    <2>1. last_synced[i] \in Notes /\ o # i /\ last_synced[i][o] <= cursor[o]
          /\ cursor \in [Regular -> Nat]
        BY Zenon DEF ServerInv
    <2>2. o \in Regular /\ last_synced[i][o] \in Nat
        BY <2>1, NotesAre, Zenon
    <2>. QED
        BY <2>1, <2>2
<1>2. ServerInv'
    BY <1>1, Zenon DEF ServerInv
<1>3. SyncedIsOrdered'
    BY Zenon DEF SyncedIsOrdered
<1>4. known \in [Streams -> Clock] /\ Regular \subseteq Streams
    BY StreamFacts, Zenon DEF ServerInv
<1>5. \A s \in Regular : Below(known[s], known'[s])
    BY <1>4 DEF Below, Clock
<1>. QED
    BY <1>2, <1>3, <1>5, Zenon

----------------------------------------------------------------------------
(* The device, the GC thread and the memory *)

\* The device is not ahead of the streams, which only move on.
LEMMA DeviceFrame ==
    ASSUME ServerInv, ServerInv', DeviceInv, UNCHANGED done, poisoned' \in BOOLEAN,
           \A s \in Regular : Below(known[s], known'[s])
    PROVE  DeviceInv'
<1>1. ASSUME NEW s \in Regular PROVE done[s] <= known'[s][s]
    <2>1. done[s] <= known[s][s] /\ known[s][s] <= known'[s][s]
        BY Zenon DEF DeviceInv, Below
    <2>2. known \in [Streams -> Clock] /\ known' \in [Streams -> Clock] /\ s \in Streams
        BY StreamFacts, Zenon DEF ServerInv
    <2>3. done[s] \in Nat /\ known[s][s] \in Nat /\ known'[s][s] \in Nat
        BY <2>2, Zenon DEF DeviceInv, Clock
    <2>. QED
        BY <2>1, <2>3
<1>. QED
    BY <1>1, Zenon DEF DeviceInv

\* A device stream finishes a kernel it was given.
LEMMA FinishDevice ==
    ASSUME ServerInv, DeviceInv, NEW k \in DOMAIN kernels, Finish(k)
    PROVE  DeviceInv' /\ \A s \in Regular : done[s] <= done'[s]
<1>. DEFINE i == kernels[k].stream
<1>1. /\ done[i] + 1 = kernels[k].clock[i] /\ done' = [done EXCEPT ![i] = @ + 1]
      /\ UNCHANGED <<known, kernels, poisoned>>
    BY Zenon DEF Finish, serverVars
<1>2. kernels[k] \in Kernel
    BY DEF ServerInv
<1>3. i \in Regular
    BY <1>2 DEF Kernel
<1>4. kernels[k].clock[i] <= known[i][i]
    BY Zenon DEF ServerInv
<1>. HIDE DEF i
<1>5. /\ poisoned \in BOOLEAN /\ done \in [Regular -> Nat]
      /\ \A s \in Regular : done[s] <= known[s][s]
    BY Zenon DEF DeviceInv
<1>6. done' \in [Regular -> Nat] /\ \A s \in Regular : done'[s] <= known[s][s]
    BY <1>1, <1>3, <1>4, <1>5
<1>7. \A s \in Regular : done[s] <= done'[s]
    BY <1>1, <1>3, <1>5
<1>8. poisoned' \in BOOLEAN
    BY <1>1, <1>5, Zenon
<1>. QED
    BY <1>1, <1>6, <1>7, <1>8, Zenon DEF DeviceInv

\* A step that records nothing.
LEMMA MemoryFrame ==
    ASSUME ServerInv, MemoryInv, UNCHANGED recorded,
           held' \subseteq Memory, bound' \in [Memory -> Nat], life' \in [Memory -> Nat],
           leaked' \subseteq Memory, cursor' \in [Regular -> Nat],
           \A i \in Regular : cursor[i] <= cursor'[i]
    PROVE  MemoryInv'
<1>1. ASSUME NEW r \in recorded PROVE r.cursor <= cursor'[r.stream]
    <2>1. r \in Recording /\ r.cursor <= cursor[r.stream]
        BY Zenon DEF MemoryInv
    <2>2. r.stream \in Regular /\ r.cursor \in Nat
        BY <2>1 DEF Recording
    <2>. QED
        BY <2>1, <2>2 DEF ServerInv
<1>. QED
    BY <1>1, Zenon DEF MemoryInv

\* The work an allocation was recorded with is not added to.
LEMMA WorkStable ==
    ASSUME ServerInv, NEW i \in Regular, NEW clock, Enqueued(i, clock),
           NEW r \in Recording, r.cursor <= cursor[r.stream]
    PROVE  Work(r)' = Work(r) /\ \A k \in Work(r) : kernels'[k] = kernels[k]
<1>1. /\ DOMAIN kernels \subseteq DOMAIN kernels'
      /\ \A k \in DOMAIN kernels : kernels'[k] = kernels[k]
      /\ \A k \in DOMAIN kernels' \ DOMAIN kernels :
            kernels'[k].stream = i /\ kernels'[k].cursor = cursor[i] + 1
    BY Zenon DEF Enqueued
<1>2. r.cursor \in Nat /\ cursor[i] \in Nat
    BY DEF Recording, ServerInv
<1>3. ASSUME NEW k \in Work(r)' PROVE k \in DOMAIN kernels
    <2>1. k \in DOMAIN kernels' /\ kernels'[k].stream = r.stream /\ kernels'[k].cursor < r.cursor
        BY Zenon DEF Work
    <2>2. k \notin DOMAIN kernels => cursor[i] + 1 < r.cursor /\ r.cursor <= cursor[i]
        BY <1>1, <2>1, Zenon
    <2>. QED
        BY <1>2, <2>2
<1>4. Work(r)' \subseteq Work(r) /\ Work(r) \subseteq Work(r)'
    BY <1>1, <1>3, Zenon DEF Work
<1>5. \A k \in Work(r) : k \in DOMAIN kernels
    BY Zenon DEF Work
<1>. QED
    BY <1>1, <1>4, <1>5, Zenon

\* What a step must keep for a recorded allocation to stay safe.
LEMMA SafeStable ==
    ASSUME ServerInv, DeviceInv, DeviceInv', NEW r \in Recording, Safe(r),
           Work(r)' = Work(r), \A k \in Work(r) : kernels'[k] = kernels[k],
           \A s \in Regular : done[s] <= done'[s], poisoned => poisoned',
           Guarded(r) => life'[r.memory] = life[r.memory],
           leaked \subseteq leaked',
           \A t \in Tasks : Covers(t, r) =>
               t \in Tasks' \/ poisoned' \/ WorkDone(r) \/ r.memory \in leaked'
    PROVE  Safe(r)'
<1>1. ASSUME WorkDone(r) PROVE WorkDone(r)'
    <2>1. ASSUME NEW k \in Work(r)
          PROVE  done'[kernels'[k].stream] >= kernels'[k].clock[kernels'[k].stream]
        <3>1. /\ k \in DOMAIN kernels /\ kernels'[k] = kernels[k]
              /\ done[kernels[k].stream] >= kernels[k].clock[kernels[k].stream]
            BY <1>1, Zenon DEF WorkDone, Finished, Work
        <3>2. kernels[k] \in Kernel
            BY <3>1 DEF ServerInv
        <3>3. /\ kernels[k].stream \in Regular
              /\ kernels[k].clock[kernels[k].stream] \in Nat
            BY <3>2 DEF Kernel, Clock
        <3>4. \A s \in Regular : done[s] \in Nat /\ done'[s] \in Nat
            BY Zenon DEF DeviceInv
        <3>. QED
            BY <3>1, <3>3, <3>4
    <2>. QED
        BY <2>1, Zenon DEF WorkDone, Finished
<1>2. ASSUME NEW t, Covers(t, r) PROVE Covers(t, r)'
    BY <1>2, Zenon DEF Covers
<1>3. CASE poisoned \/ WorkDone(r)
    BY <1>1, <1>3, Zenon DEF Safe
<1>4. CASE life[r.memory] = r.life /\ Guarded(r)
    <2>1. CASE r.memory \in leaked
        BY <1>4, <2>1, Zenon DEF Safe, Guarded
    <2>2. ASSUME NEW t \in Tasks, Covers(t, r) PROVE Safe(r)'
        <3>1. CASE t \in Tasks'
            BY <1>2, <1>4, <2>2, <3>1, Zenon DEF Safe, Guarded
        <3>2. CASE poisoned' \/ WorkDone(r)
            BY <1>1, <3>2, Zenon DEF Safe
        <3>3. CASE r.memory \in leaked'
            BY <1>4, <3>3, Zenon DEF Safe, Guarded
        <3>. QED
            BY <2>2, <3>1, <3>2, <3>3, Zenon
    <2>. QED
        BY <1>4, <2>1, <2>2, Zenon DEF Guarded
<1>. QED
    BY <1>3, <1>4, Zenon DEF Safe

\* The same for all of them, for a step that records nothing and adds no kernel.
LEMMA RecordFrame ==
    ASSUME ServerInv, DeviceInv, DeviceInv', MemoryInv, RecordInv,
           UNCHANGED <<kernels, recorded>>,
           \A s \in Regular : done[s] <= done'[s], poisoned => poisoned',
           \A r \in recorded : Guarded(r) => life'[r.memory] = life[r.memory],
           leaked \subseteq leaked',
           \A r \in recorded : \A t \in Tasks : Covers(t, r) =>
               t \in Tasks' \/ poisoned' \/ WorkDone(r) \/ r.memory \in leaked'
    PROVE  RecordInv'
<1>1. ASSUME NEW r \in recorded PROVE Safe(r)'
    <2>1. r \in Recording /\ Safe(r)
        BY Zenon DEF MemoryInv, RecordInv
    <2>2. Work(r)' = Work(r) /\ \A k \in Work(r) : kernels'[k] = kernels[k]
        BY Zenon DEF Work
    <2>. QED
        BY <2>1, <2>2, SafeStable, Zenon
<1>. QED
    BY <1>1, Zenon DEF RecordInv

\* The tasks of the queues as these change.
LEMMA ElementsAre ==
    /\ Elements(<<>>) = {}
    /\ \A x : Elements(<<x>>) = {x}
    /\ \A q \in Seq(GcTask), x \in GcTask : Elements(Append(q, x)) = Elements(q) \cup {x}
    /\ \A q \in Seq(GcTask) : q # <<>> => Elements(q) = {Head(q)} \cup Elements(Tail(q))
<1>1. Elements(<<>>) = {} /\ \A x : Elements(<<x>>) = {x}
    BY DEF Elements
<1>2. ASSUME NEW q \in Seq(GcTask), NEW x \in GcTask
      PROVE  Elements(Append(q, x)) = Elements(q) \cup {x}
    <2>1. /\ DOMAIN Append(q, x) = DOMAIN q \cup {Len(q) + 1} /\ Append(q, x)[Len(q) + 1] = x
          /\ \A n \in DOMAIN q : Append(q, x)[n] = q[n]
        OBVIOUS
    <2>. QED
        BY <2>1, Zenon DEF Elements
<1>3. ASSUME NEW q \in Seq(GcTask), q # <<>>
      PROVE  Elements(q) = {Head(q)} \cup Elements(Tail(q))
    <2>1. Head(q) = q[1] /\ 1 \in DOMAIN q /\ Len(Tail(q)) = Len(q) - 1 /\ Len(q) \in Nat
        BY <1>3
    <2>2. ASSUME NEW n \in DOMAIN q, n # 1 PROVE n - 1 \in DOMAIN Tail(q) /\ Tail(q)[n - 1] = q[n]
        BY <1>3, <2>2
    <2>3. ASSUME NEW n \in DOMAIN Tail(q) PROVE n + 1 \in DOMAIN q /\ Tail(q)[n] = q[n + 1]
        BY <1>3
    <2>4. \A y \in Elements(q) : y = Head(q) \/ y \in Elements(Tail(q))
        BY <2>1, <2>2, Zenon DEF Elements
    <2>5. Head(q) \in Elements(q)
        BY <2>1 DEF Elements
    <2>6. \A y \in Elements(Tail(q)) : y \in Elements(q)
        BY <2>3 DEF Elements
    <2>. QED
        BY <2>4, <2>5, <2>6, Zenon
<1>. QED
    BY <1>1, <1>2, <1>3, Zenon

\* A slice that a task keeps has a handle left.
LEMMA GuardedIsKept ==
    ASSUME NEW r, Guarded(r)
    PROVE  r.memory \in Kept
BY Zenon DEF Guarded, Covers, Tasks, Elements, Kept, HeldBy

\* A command whose dependencies are met, for the whole state but what it records.
LEMMA CommandInv ==
    ASSUME EventsInv, NEW i \in Regular, NEW origins \in SUBSET (Regular \ {i}),
           NEW clock \in Clock, NEW tasks \in Seq(GcTask), sending = <<>>,
           Resolve(i, origins), Drop(i, clock, origins, tasks), Enqueued(i, clock),
           Below(Joined(known[i], {known[o] : o \in origins}), clock),
           \A j \in Regular : clock[j] <= Len(kernels'),
           UNCHANGED <<deviceVars, held, bound, life, gcQueue, waiting>>
    PROVE  /\ ServerInv' /\ SyncedIsOrdered' /\ GcInv' /\ DeviceInv'
           /\ UNCHANGED leaked /\ Elements(tasks) \subseteq Tasks'
           /\ cursor' \in [Regular -> Nat] /\ cursor'[i] = cursor[i] + 1
           /\ \A s \in Regular : cursor[s] <= cursor'[s]
           /\ \A r \in recorded : Safe(r)'
<1>1. ServerInv /\ SyncedIsOrdered /\ GcInv /\ DeviceInv /\ MemoryInv /\ RecordInv
    BY Zenon DEF EventsInv
<1>2. ServerInv' /\ SyncedIsOrdered' /\ \A s \in Regular : Below(known[s], known'[s])
    BY <1>1, CommandStep, Zenon
<1>3. \/ sending' = tasks
      \/ \E event \in Clock : sending' = Append(tasks, [event |-> event, keeps |-> {}])
    BY <1>1, CommandStep, Zenon
<1>4. sending' \in Seq(GcTask) /\ Elements(tasks) \subseteq Elements(sending')
    <2>1. CASE sending' = tasks
        BY <2>1, Zenon
    <2>2. ASSUME NEW event \in Clock, sending' = Append(tasks, [event |-> event, keeps |-> {}])
          PROVE  sending' \in Seq(GcTask) /\ Elements(tasks) \subseteq Elements(sending')
        <3>. DEFINE t == [event |-> event, keeps |-> {}]
        <3>1. t \in GcTask /\ sending' = Append(tasks, t)
            BY <2>2 DEF GcTask
        <3>. HIDE DEF t
        <3>2. sending' \in Seq(GcTask)
            BY <3>1
        <3>3. Elements(Append(tasks, t)) = Elements(tasks) \cup {t}
            BY <3>1, ElementsAre, Zenon
        <3>. QED
            BY <3>1, <3>2, <3>3
    <2>. QED
        BY <1>3, <2>1, <2>2, Zenon
<1>5. GcInv'
    BY <1>1, <1>4, Zenon DEF GcInv
<1>6. DeviceInv'
    BY <1>1, <1>2, DeviceFrame, Zenon DEF DeviceInv, deviceVars
<1>7. /\ Elements(sending) = {}
      /\ Tasks' = Elements(sending') \cup Elements(gcQueue) \cup Elements(waiting)
    BY ElementsAre DEF Tasks, Elements
<1>8. Tasks \subseteq Tasks' /\ Elements(tasks) \subseteq Tasks'
    BY <1>4, <1>7, Zenon DEF Tasks
<1>9. UNCHANGED leaked
    BY Zenon DEF Drop, ReleaseOrLeak
<1>10. /\ cursor' \in [Regular -> Nat] /\ cursor'[i] = cursor[i] + 1
       /\ \A s \in Regular : cursor[s] <= cursor'[s]
    BY <1>1 DEF Resolve, ServerInv
<1>11. \A s \in Regular : done[s] <= done'[s]
    BY <1>1 DEF DeviceInv, deviceVars
<1>12. ASSUME NEW r \in recorded PROVE Safe(r)'
    <2>1. r \in Recording /\ Safe(r) /\ r.cursor <= cursor[r.stream]
        BY <1>1, Zenon DEF MemoryInv, RecordInv
    <2>2. Work(r)' = Work(r) /\ \A k \in Work(r) : kernels'[k] = kernels[k]
        BY <1>1, <2>1, WorkStable, Zenon
    <2>3. poisoned' = poisoned /\ life' = life
        BY Zenon DEF deviceVars
    <2>. QED
        BY <1>1, <1>6, <1>8, <1>9, <1>11, <2>1, <2>2, <2>3, SafeStable, Zenon
<1>. QED
    BY <1>2, <1>5, <1>6, <1>8, <1>9, <1>10, <1>12, Zenon

\* The clock of a launch: what its stream waited for, and the launch itself.
LEMMA LaunchClock ==
    ASSUME NEW i \in Regular, NEW J \in Clock, NEW n \in Nat, \A j \in Regular : J[j] <= n
    PROVE  LET clock == [J EXCEPT ![i] = @ + 1]
           IN  clock \in Clock /\ Below(J, clock) /\ \A j \in Regular : clock[j] <= n + 1
<1>. DEFINE clock == [J EXCEPT ![i] = @ + 1]
<1>1. \A j \in Regular : J[j] \in Nat
    BY Zenon DEF Clock
<1>2. \A j \in Regular : clock[j] = IF j = i THEN J[j] + 1 ELSE J[j]
    BY Zenon DEF Clock
<1>3. clock \in Clock
    BY <1>1 DEF Clock
<1>. HIDE DEF clock
<1>4. \A j \in Regular : J[j] <= clock[j] /\ clock[j] <= n + 1
    BY <1>1, <1>2
<1>. QED
    BY <1>3, <1>4, Zenon DEF Below, clock

\* A launch.
LEMMA LaunchStep ==
    ASSUME EventsInv, NEW id \in StreamIds, NEW buffers \in SUBSET Memory, Launch(id, buffers)
    PROVE  EventsInv'
<1>. DEFINE i == stream_index(id)
            origins == Origins(i, buffers)
            J == Joined(known[i], {known[o] : o \in origins})
            clock == [J EXCEPT ![i] = @ + 1]
            K == [stream |-> i, cursor |-> cursor[i] + 1, clock |-> clock]
<1>1. /\ sending = <<>> /\ Resolve(i, origins)
      /\ \/ kernels' = Append(kernels, K) /\ Drop(i, clock, origins, <<>>)
         \/ UNCHANGED kernels /\ Drop(i, J, origins, <<>>)
      /\ UNCHANGED <<deviceVars, held, bound, life, recorded, gcQueue, waiting>>
    BY Zenon DEF Launch, Idle, memoryVars
<1>2. i \in Regular /\ origins \in SUBSET (Regular \ {i}) /\ origins \in SUBSET Regular
    BY StreamFacts, Zenon DEF Origins
<1>3. ServerInv /\ MemoryInv /\ kernels \in Seq(Kernel) /\ cursor \in [Regular -> Nat]
    BY Zenon DEF EventsInv, ServerInv
<1>4. J \in Clock /\ \A j \in Regular : J[j] <= Len(kernels)
    BY <1>2, <1>3, WaitJoins, Zenon
<1>5. Len(kernels) \in Nat /\ <<>> \in Seq(GcTask)
    BY <1>3
<1>. HIDE DEF i, origins, J
<1>6. clock \in Clock /\ Below(J, clock) /\ \A j \in Regular : clock[j] <= Len(kernels) + 1
    BY <1>2, <1>4, <1>5, LaunchClock, Zenon
<1>. HIDE DEF clock
<1>7. PICK c \in Clock : /\ Drop(i, c, origins, <<>>) /\ Enqueued(i, c) /\ Below(J, c)
                         /\ \A j \in Regular : c[j] <= Len(kernels')
    <2>1. CASE kernels' = Append(kernels, K) /\ Drop(i, clock, origins, <<>>)
        <3>1. K \in Kernel /\ K.stream = i /\ K.cursor = cursor[i] + 1 /\ K.clock = clock
            BY <1>2, <1>3, <1>6 DEF Kernel
        <3>. HIDE DEF K
        <3>2. /\ kernels' \in Seq(Kernel) /\ Len(kernels') = Len(kernels) + 1
              /\ DOMAIN kernels \subseteq DOMAIN kernels'
              /\ \A k \in DOMAIN kernels' : k \in DOMAIN kernels \/ k = Len(kernels) + 1
              /\ \A k \in DOMAIN kernels : kernels'[k] = kernels[k]
              /\ kernels'[Len(kernels) + 1] = K
            BY <1>3, <2>1, <3>1, KernelsAppend, Zenon
        <3>3. Len(kernels) <= Len(kernels')
            BY <1>5, <3>2
        <3>4. Enqueued(i, clock)
            BY <3>1, <3>2, <3>3, Zenon DEF Enqueued
        <3>. QED
            BY <1>6, <2>1, <3>2, <3>4, Zenon
    <2>2. CASE UNCHANGED kernels /\ Drop(i, J, origins, <<>>)
        <3>1. Len(kernels) <= Len(kernels')
            BY <1>5, <2>2
        <3>2. Enqueued(i, J)
            BY <1>3, <2>2, <3>1, Zenon DEF Enqueued
        <3>3. Below(J, J)
            BY <1>4 DEF Below, Clock
        <3>. QED
            BY <1>4, <2>2, <3>2, <3>3, Zenon
    <2>. QED
        BY <1>1, <2>1, <2>2, Zenon
<1>8. /\ ServerInv' /\ SyncedIsOrdered' /\ GcInv' /\ DeviceInv' /\ UNCHANGED leaked
      /\ cursor' \in [Regular -> Nat] /\ \A s \in Regular : cursor[s] <= cursor'[s]
      /\ \A r \in recorded : Safe(r)'
    BY <1>1, <1>2, <1>5, <1>7, CommandInv, Zenon DEF J
<1>9. MemoryInv'
    BY <1>1, <1>3, <1>8, MemoryFrame, Zenon DEF MemoryInv
<1>10. RecordInv'
    BY <1>1, <1>8, Zenon DEF RecordInv
<1>. QED
    BY <1>8, <1>9, <1>10, Zenon DEF EventsInv

\* A recorded allocation is kept by the task that is sent with it: the event of its stream
\* comes after every kernel that the stream was given.
LEMMA RecordStep ==
    ASSUME EventsInv, NEW id \in StreamIds, NEW m \in Memory, RecordAllocation(id, m)
    PROVE  EventsInv'
<1>. DEFINE i == stream_index(id)
<1>0. PICK origins, J, task, new :
        /\ origins = Origins(i, {m}) /\ J = Joined(known[i], {known[o] : o \in origins})
        /\ task = [event |-> J, keeps |-> {m}]
        /\ new = [memory |-> m, life |-> life[m], stream |-> i, cursor |-> cursor[i] + 1]
    BY Zenon
<1>1. /\ sending = <<>> /\ Resolve(i, origins) /\ Drop(i, J, origins, <<task>>)
      /\ recorded' = recorded \cup {new}
      /\ UNCHANGED <<kernels, deviceVars, held, bound, life, gcQueue, waiting>>
    BY <1>0, Zenon DEF RecordAllocation, Idle
<1>2. i \in Regular /\ origins \in SUBSET (Regular \ {i}) /\ origins \in SUBSET Regular
    BY <1>0, StreamFacts, Zenon DEF Origins
<1>3. /\ ServerInv /\ MemoryInv /\ kernels \in Seq(Kernel) /\ cursor \in [Regular -> Nat]
      /\ known \in [Streams -> Clock]
    BY Zenon DEF EventsInv, ServerInv
<1>4. J \in Clock /\ Below(known[i], J) /\ \A j \in Regular : J[j] <= Len(kernels)
    BY <1>0, <1>2, <1>3, WaitJoins, Zenon
<1>. HIDE DEF i
<1>5. task \in GcTask /\ <<task>> \in Seq(GcTask) /\ task.event = J /\ task.keeps = {m}
    BY <1>0, <1>4 DEF GcTask
<1>6. /\ new \in Recording /\ new.memory = m /\ new.life = life[m] /\ new.stream = i
      /\ new.cursor = cursor[i] + 1
    BY <1>0, <1>2, <1>3 DEF Recording, MemoryInv
<1>7. Enqueued(i, J) /\ Below(J, J)
    BY <1>1, <1>3, <1>4 DEF Enqueued, Below, Clock
<1>8. /\ ServerInv' /\ SyncedIsOrdered' /\ GcInv' /\ DeviceInv' /\ UNCHANGED leaked
      /\ Elements(<<task>>) \subseteq Tasks'
      /\ cursor' \in [Regular -> Nat] /\ cursor'[i] = cursor[i] + 1
      /\ \A s \in Regular : cursor[s] <= cursor'[s]
      /\ \A r \in recorded : Safe(r)'
    BY <1>0, <1>1, <1>2, <1>4, <1>5, <1>7, CommandInv, Zenon
<1>9. MemoryInv'
    <2>1. ASSUME NEW r \in recorded PROVE r \in Recording /\ r.cursor <= cursor'[r.stream]
        <3>1. r \in Recording /\ r.cursor <= cursor[r.stream]
            BY <1>3, Zenon DEF MemoryInv
        <3>2. r.stream \in Regular /\ r.cursor \in Nat
            BY <3>1 DEF Recording
        <3>. QED
            BY <1>3, <1>8, <3>1, <3>2
    <2>2. new.cursor <= cursor'[new.stream]
        BY <1>2, <1>3, <1>6, <1>8
    <2>. QED
        BY <1>1, <1>3, <1>6, <1>8, <2>1, <2>2, Zenon DEF MemoryInv
<1>10. ASSUME NEW k \in Work(new)' PROVE kernels'[k].clock[new.stream] <= J[new.stream]
    <2>1. k \in DOMAIN kernels /\ kernels[k].stream = i /\ kernels' = kernels
        BY <1>1, <1>6, Zenon DEF Work
    <2>2. kernels[k].clock[i] <= known[i][i] /\ known[i][i] <= J[i]
        BY <1>2, <1>3, <1>4, <2>1, Zenon DEF ServerInv, Below
    <2>3. kernels[k] \in Kernel /\ i \in Streams
        BY <1>2, <1>3, <2>1, StreamFacts
    <2>4. kernels[k].clock[i] \in Nat /\ known[i][i] \in Nat /\ J[i] \in Nat
        BY <1>2, <1>3, <1>4, <2>3 DEF Kernel, Clock
    <2>. QED
        BY <1>6, <2>1, <2>2, <2>4
<1>11. Safe(new)'
    <2>1. task \in Tasks'
        BY <1>8, ElementsAre, Zenon
    <2>2. Covers(task, new)'
        BY <1>5, <1>6, <1>10, Zenon DEF Covers
    <2>. QED
        BY <1>1, <1>6, <2>1, <2>2, Zenon DEF Safe, Guarded
<1>12. RecordInv'
    BY <1>1, <1>8, <1>11, Zenon DEF RecordInv
<1>. QED
    BY <1>8, <1>9, <1>12, Zenon DEF EventsInv

\* The GC thread drops what a task holds once the device has passed its event.
LEMMA CollectDone ==
    ASSUME ServerInv, GcInv, DeviceInv, Collect, NEW r \in Recording, Covers(waiting[1], r)
    PROVE  WorkDone(r)
<1>. DEFINE e == waiting[1].event
<1>1. waiting \in Seq(GcTask) /\ waiting # <<>> /\ Reached(e)
    BY Zenon DEF GcInv, Collect
<1>2. waiting[1] \in GcTask
    BY <1>1
<1>3. e \in Clock
    BY <1>2 DEF GcTask
<1>. HIDE DEF e
<1>4. ASSUME NEW k \in Work(r) PROVE Finished(k)
    <2>1. k \in DOMAIN kernels /\ kernels[k].stream = r.stream /\ r.stream \in Regular
        BY DEF Work, Recording
    <2>2. kernels[k].clock[r.stream] <= e[r.stream] /\ done[r.stream] >= e[r.stream]
        BY <1>1, <2>1, Zenon DEF Covers, Reached, e
    <2>3. kernels[k] \in Kernel
        BY <2>1 DEF ServerInv
    <2>4. kernels[k].clock[r.stream] \in Nat /\ e[r.stream] \in Nat /\ done[r.stream] \in Nat
        BY <1>3, <2>1, <2>3 DEF Kernel, Clock, DeviceInv
    <2>5. done[r.stream] >= kernels[k].clock[r.stream]
        BY <2>2, <2>4
    <2>. QED
        BY <2>1, <2>5, Zenon DEF Finished
<1>. QED
    BY <1>4, Zenon DEF WorkDone

----------------------------------------------------------------------------
(* The inductive invariant *)

LEMMA EventsInit == Init => EventsInv
<1>. SUFFICES ASSUME Init PROVE EventsInv
    OBVIOUS
<1>1. kernels = <<>> /\ DOMAIN kernels = {} /\ Len(kernels) = 0 /\ kernels \in Seq(Kernel)
    BY DEF Init
<1>2. /\ \A i \in Regular : DOMAIN last_synced[i] = {}
      /\ last_synced \in [Regular -> Notes]
    <2>1. <<>> \in [{} -> Nat] /\ DOMAIN <<>> = {}
        OBVIOUS
    <2>2. <<>> \in Notes
        BY <2>1, Zenon DEF Notes
    <2>. QED
        BY <2>1, <2>2, Zenon DEF Init
<1>3. /\ known \in [Streams -> Clock] /\ cursor \in [Regular -> Nat] /\ done \in [Regular -> Nat]
      /\ \A i \in Streams : \A j \in Regular : known[i][j] = 0
      /\ \A i \in Regular : done[i] = 0
    BY DEF Init, Clock
<1>4. /\ \A i \in Streams : \A j \in Regular : known[i][j] <= Len(kernels)
      /\ \A i \in Regular : done[i] <= known[i][i]
    BY <1>1, <1>3, StreamFacts
<1>5. ServerInv
    BY <1>1, <1>2, <1>3, <1>4, Zenon DEF ServerInv
<1>6. SyncedIsOrdered
    BY <1>1, Zenon DEF SyncedIsOrdered
<1>7. GcInv
    BY EventAssumption DEF Init, GcInv
<1>8. poisoned \in BOOLEAN
    BY Zenon DEF Init
<1>9. DeviceInv
    BY <1>3, <1>4, <1>8, Zenon DEF DeviceInv
<1>10. MemoryInv /\ RecordInv
    BY DEF Init, MemoryInv, RecordInv
<1>. QED
    BY <1>5, <1>6, <1>7, <1>9, <1>10, Zenon DEF EventsInv

LEMMA EventsStep == EventsInv /\ [Next]_vars => EventsInv'
<1>. SUFFICES ASSUME EventsInv, [Next]_vars PROVE EventsInv'
    OBVIOUS
<1>a. ServerInv /\ SyncedIsOrdered /\ GcInv /\ DeviceInv /\ MemoryInv /\ RecordInv
    BY Zenon DEF EventsInv
<1>b. /\ cursor \in [Regular -> Nat] /\ \A i \in Regular : cursor[i] <= cursor[i]
      /\ \A s \in Regular : done[s] <= done[s]
    BY <1>a DEF ServerInv, DeviceInv
<1>c. /\ held \subseteq Memory /\ bound \in [Memory -> Nat] /\ life \in [Memory -> Nat]
      /\ leaked \subseteq Memory
    BY <1>a, Zenon DEF MemoryInv
\* What a step that enqueues nothing has to show.
<1>d. ASSUME UNCHANGED <<last_synced, known, kernels>>, cursor' \in [Regular -> Nat],
             \A i \in Regular : cursor[i] <= cursor'[i]
      PROVE  ServerInv' /\ SyncedIsOrdered' /\ \A s \in Regular : Below(known[s], known'[s])
    BY <1>a, <1>d, ServerFrame, Zenon
<1>e. ASSUME UNCHANGED <<sending, waiting, gcQueue>> PROVE GcInv' /\ Tasks' = Tasks
    BY <1>a, <1>e, Zenon DEF GcInv, Tasks, Elements
<1>f. ASSUME UNCHANGED done, poisoned' \in BOOLEAN, ServerInv',
             \A s \in Regular : Below(known[s], known'[s])
      PROVE  DeviceInv' /\ \A s \in Regular : done[s] <= done'[s]
    BY <1>a, <1>b, <1>f, DeviceFrame, Zenon
<1>g. poisoned \in BOOLEAN
    BY <1>a, Zenon DEF DeviceInv
<1>. USE DEF serverVars, deviceVars, memoryVars, gcVars
<1>1. ASSUME NEW m \in Memory, Allocate(m) PROVE EventsInv'
    <2>1. /\ UNCHANGED <<last_synced, known, kernels, sending, deviceVars, recorded, gcVars>>
          /\ cursor' = [cursor EXCEPT ![stream_index(Home[m])] = @ + 1]
          /\ m \notin Kept
        BY <1>1, Zenon DEF Allocate
    <2>2. stream_index(Home[m]) \in Regular
        BY EventAssumption, StreamFacts, Zenon
    <2>3. cursor' \in [Regular -> Nat] /\ \A i \in Regular : cursor[i] <= cursor'[i]
        BY <1>b, <2>1, <2>2
    <2>4. /\ held' \subseteq Memory /\ bound' \in [Memory -> Nat] /\ life' \in [Memory -> Nat]
          /\ life' = [life EXCEPT ![m] = @ + 1]
        BY <1>1, <1>b, <1>c, <2>2 DEF Allocate
    <2>5. MemoryInv'
        BY <1>a, <1>c, <2>1, <2>3, <2>4, MemoryFrame, Zenon
    <2>6. /\ ServerInv' /\ SyncedIsOrdered' /\ GcInv' /\ DeviceInv' /\ Tasks' = Tasks
          /\ \A s \in Regular : done[s] <= done'[s]
        BY <1>d, <1>e, <1>f, <1>g, <2>1, <2>3, Zenon
    <2>7. \A r \in recorded : Guarded(r) => life'[r.memory] = life[r.memory]
        <3>1. \A r \in recorded : Guarded(r) => r.memory # m
            BY <2>1, GuardedIsKept, Zenon
        <3>2. \A x : x # m => life'[x] = life[x]
            BY <1>c, <2>4
        <3>. QED
            BY <3>1, <3>2, Zenon
    <2>8. RecordInv'
        BY <1>a, <2>1, <2>6, <2>7, RecordFrame, Zenon
    <2>. QED
        BY <2>5, <2>6, <2>8, Zenon DEF EventsInv
<1>2. ASSUME NEW m \in Memory, Release(m) PROVE EventsInv'
    <2>1. UNCHANGED <<serverVars, deviceVars, bound, life, recorded, gcVars>> /\ held' = held \ {m}
        BY <1>2, Zenon DEF Release
    <2>2. held' \subseteq Memory
        BY <1>c, <2>1, Zenon
    <2>3. MemoryInv'
        BY <1>a, <1>b, <1>c, <2>1, <2>2, MemoryFrame, Zenon
    <2>4. /\ ServerInv' /\ SyncedIsOrdered' /\ GcInv' /\ DeviceInv' /\ Tasks' = Tasks
          /\ \A s \in Regular : done[s] <= done'[s]
        BY <1>b, <1>d, <1>e, <1>f, <1>g, <2>1, Zenon
    <2>5. RecordInv'
        BY <1>a, <2>1, <2>4, RecordFrame, Zenon
    <2>. QED
        BY <2>3, <2>4, <2>5, Zenon DEF EventsInv
<1>3. ASSUME NEW id \in StreamIds, NEW buffers \in SUBSET Memory, Fail(id, buffers)
      PROVE  EventsInv'
    <2>1. UNCHANGED <<cursor, kernels, sending, deviceVars, memoryVars, gcVars>>
        BY <1>3, Zenon DEF Fail
    <2>2. ServerInv' /\ SyncedIsOrdered' /\ \A s \in Regular : Below(known[s], known'[s])
        BY <1>3, <1>a, FailStep, Zenon
    <2>3. /\ GcInv' /\ DeviceInv' /\ Tasks' = Tasks /\ \A s \in Regular : done[s] <= done'[s]
        BY <1>e, <1>f, <1>g, <2>1, <2>2, Zenon
    <2>4. MemoryInv'
        BY <1>a, <1>b, <1>c, <2>1, MemoryFrame, Zenon
    <2>5. RecordInv'
        BY <1>a, <2>1, <2>3, RecordFrame, Zenon
    <2>. QED
        BY <2>2, <2>3, <2>4, <2>5, Zenon DEF EventsInv
<1>4. ASSUME NEW id \in StreamIds, NEW buffers \in SUBSET Memory, Launch(id, buffers)
      PROVE  EventsInv'
    BY <1>4, LaunchStep, Zenon
<1>5. ASSUME NEW id \in StreamIds, NEW m \in Memory, RecordAllocation(id, m) PROVE EventsInv'
    BY <1>5, RecordStep, Zenon
\* What a step of the device or of the GC thread has to show.
<1>h. ASSUME UNCHANGED <<cursor, last_synced, known, kernels, memoryVars>>, leaked' \subseteq Memory
      PROVE  /\ ServerInv' /\ SyncedIsOrdered' /\ MemoryInv'
             /\ \A s \in Regular : Below(known[s], known'[s])
             /\ UNCHANGED <<kernels, recorded>>
             /\ \A r \in recorded : Guarded(r) => life'[r.memory] = life[r.memory]
    BY <1>a, <1>b, <1>c, <1>d, <1>h, MemoryFrame, Zenon
<1>6. CASE Send
    <2>1. /\ UNCHANGED <<cursor, last_synced, known, kernels, deviceVars, memoryVars, waiting,
                         leaked>>
          /\ sending # <<>> /\ Len(gcQueue) < GcCapacity
          /\ gcQueue' = Append(gcQueue, Head(sending)) /\ sending' = Tail(sending)
        BY <1>6, Zenon DEF Send
    <2>2. sending \in Seq(GcTask) /\ waiting \in Seq(GcTask) /\ gcQueue \in Seq(GcTask)
        BY <1>a, Zenon DEF GcInv
    <2>3. /\ Head(sending) \in GcTask /\ sending' \in Seq(GcTask) /\ gcQueue' \in Seq(GcTask)
          /\ Len(gcQueue') <= GcCapacity
        BY <2>1, <2>2, EventAssumption
    <2>4. GcInv'
        BY <1>a, <2>1, <2>3, Zenon DEF GcInv
    <2>5. /\ Elements(sending) = {Head(sending)} \cup Elements(Tail(sending))
          /\ Elements(Append(gcQueue, Head(sending))) = Elements(gcQueue) \cup {Head(sending)}
        BY <2>1, <2>2, <2>3, ElementsAre, Zenon
    <2>6. Tasks' = Tasks
        <3>1. Tasks' = Elements(sending') \cup Elements(gcQueue') \cup Elements(waiting')
            BY Zenon DEF Tasks, Elements
        <3>. QED
            BY <2>1, <2>5, <3>1 DEF Tasks
    <2>7. DeviceInv' /\ \A s \in Regular : done[s] <= done'[s]
        BY <1>c, <1>f, <1>g, <1>h, <2>1, Zenon
    <2>8. RecordInv'
        BY <1>a, <1>c, <1>h, <2>1, <2>6, <2>7, RecordFrame, Zenon
    <2>. QED
        BY <1>c, <1>h, <2>1, <2>4, <2>7, <2>8, Zenon DEF EventsInv
<1>7. ASSUME NEW k \in DOMAIN kernels, Finish(k) PROVE EventsInv'
    <2>1. UNCHANGED <<serverVars, poisoned, memoryVars, gcVars>>
        BY <1>7, Zenon DEF Finish
    <2>2. DeviceInv' /\ \A s \in Regular : done[s] <= done'[s]
        BY <1>a, <1>7, FinishDevice, Zenon
    <2>3. GcInv' /\ Tasks' = Tasks
        BY <1>e, <2>1, Zenon
    <2>4. RecordInv'
        BY <1>a, <1>c, <1>h, <2>1, <2>2, <2>3, RecordFrame, Zenon
    <2>. QED
        BY <1>c, <1>h, <2>1, <2>2, <2>3, <2>4, Zenon DEF EventsInv
<1>8. CASE Poison
    <2>1. UNCHANGED <<serverVars, done, memoryVars, gcVars>> /\ poisoned' /\ poisoned' \in BOOLEAN
        BY <1>8, Zenon DEF Poison
    <2>2. /\ GcInv' /\ Tasks' = Tasks /\ DeviceInv' /\ \A s \in Regular : done[s] <= done'[s]
        BY <1>c, <1>e, <1>f, <1>h, <2>1, Zenon
    <2>3. RecordInv'
        BY <2>1, Zenon DEF RecordInv, Safe
    <2>. QED
        BY <1>c, <1>h, <2>1, <2>2, <2>3, Zenon DEF EventsInv
<1>9. CASE Receive
    <2>1. /\ UNCHANGED <<serverVars, deviceVars, memoryVars, leaked>>
          /\ waiting = <<>> /\ gcQueue # <<>>
          /\ waiting' = <<Head(gcQueue)>> /\ gcQueue' = Tail(gcQueue)
        BY <1>9, Zenon DEF Receive
    <2>2. /\ sending \in Seq(GcTask) /\ gcQueue \in Seq(GcTask) /\ Len(gcQueue) <= GcCapacity
        BY <1>a, Zenon DEF GcInv
    <2>3. /\ waiting' \in Seq(GcTask) /\ Len(waiting') <= 1 /\ gcQueue' \in Seq(GcTask)
          /\ Len(gcQueue') <= GcCapacity
        BY <2>1, <2>2, EventAssumption
    <2>4. GcInv'
        BY <2>1, <2>2, <2>3, Zenon DEF GcInv
    <2>5. /\ Elements(gcQueue) = {Head(gcQueue)} \cup Elements(Tail(gcQueue))
          /\ Elements(<<Head(gcQueue)>>) = {Head(gcQueue)} /\ Elements(<<>>) = {}
        BY <2>1, <2>2, ElementsAre, Zenon
    <2>6. Tasks' = Tasks
        <3>1. Tasks' = Elements(sending') \cup Elements(gcQueue') \cup Elements(waiting')
            BY Zenon DEF Tasks, Elements
        <3>. QED
            BY <2>1, <2>5, <3>1 DEF Tasks
    <2>7. DeviceInv' /\ \A s \in Regular : done[s] <= done'[s]
        BY <1>c, <1>f, <1>g, <1>h, <2>1, Zenon
    <2>8. RecordInv'
        BY <1>a, <1>c, <1>h, <2>1, <2>6, <2>7, RecordFrame, Zenon
    <2>. QED
        BY <1>c, <1>h, <2>1, <2>4, <2>7, <2>8, Zenon DEF EventsInv
<1>10. CASE Collect \/ CollectFailed
    <2>1. /\ UNCHANGED <<serverVars, deviceVars, memoryVars, gcQueue>>
          /\ waiting # <<>> /\ waiting' = <<>>
        BY <1>10, Zenon DEF Collect, CollectFailed
    <2>2. waiting \in Seq(GcTask) /\ Len(waiting) <= 1
        BY <1>a, Zenon DEF GcInv
    <2>3. waiting[1] \in GcTask /\ DOMAIN waiting = {1}
        <3>1. Len(waiting) \in Nat /\ Len(waiting) # 0 /\ DOMAIN waiting = 1 .. Len(waiting)
            BY <2>1, <2>2
        <3>2. Len(waiting) = 1 /\ 1 .. 1 = {1}
            BY <2>2, <3>1
        <3>3. waiting[1] \in GcTask
            BY <2>2, <3>2
        <3>. QED
            BY <3>1, <3>2, <3>3, Zenon
    <2>4. waiting[1].keeps \subseteq Memory
        BY <2>3 DEF GcTask
    <2>5. GcInv'
        BY <1>a, <2>1 DEF GcInv
    <2>6. leaked' \subseteq Memory /\ leaked \subseteq leaked'
        BY <1>c, <1>10, <2>4, Zenon DEF Collect, CollectFailed, ReleaseOrLeak
    <2>7. Elements(waiting) = {waiting[1]}
        BY <2>3, Zenon DEF Elements
    <2>8. \A t \in Tasks : t \in Tasks' \/ t = waiting[1]
        <3>1. Tasks' = Elements(sending') \cup Elements(gcQueue') \cup Elements(waiting')
            BY Zenon DEF Tasks, Elements
        <3>. QED
            BY <2>1, <2>7, <3>1 DEF Tasks
    <2>9. DeviceInv' /\ \A s \in Regular : done[s] <= done'[s]
        BY <1>f, <1>g, <1>h, <2>1, <2>6, Zenon
    <2>10. ASSUME NEW r \in recorded, Covers(waiting[1], r)
           PROVE  poisoned' \/ WorkDone(r) \/ r.memory \in leaked'
        <3>1. CASE Collect
            BY <1>a, <2>10, <3>1, CollectDone, Zenon DEF MemoryInv
        <3>2. CASE CollectFailed
            <4>1. r.memory \in waiting[1].keeps
                BY <2>10, Zenon DEF Covers
            <4>2. leaked' = leaked \cup waiting[1].keeps \/ poisoned
                BY <3>2, Zenon DEF CollectFailed, ReleaseOrLeak
            <4>. QED
                BY <2>1, <4>1, <4>2, Zenon
        <3>. QED
            BY <1>10, <3>1, <3>2, Zenon
    <2>11. \A r \in recorded : \A t \in Tasks : Covers(t, r) =>
               t \in Tasks' \/ poisoned' \/ WorkDone(r) \/ r.memory \in leaked'
        BY <2>8, <2>10, Zenon
    <2>12. RecordInv'
        BY <1>a, <1>h, <2>1, <2>6, <2>9, <2>11, RecordFrame, Zenon
    <2>. QED
        BY <1>h, <2>1, <2>5, <2>6, <2>9, <2>12, Zenon DEF EventsInv
<1>11. CASE UNCHANGED vars
    <2>1. UNCHANGED <<serverVars, deviceVars, memoryVars, gcVars>>
        BY <1>11, Zenon DEF vars
    <2>2. /\ GcInv' /\ Tasks' = Tasks /\ DeviceInv' /\ \A s \in Regular : done[s] <= done'[s]
        BY <1>c, <1>e, <1>f, <1>g, <1>h, <2>1, Zenon
    <2>3. RecordInv'
        BY <1>a, <1>c, <1>h, <2>1, <2>2, RecordFrame, Zenon
    <2>. QED
        BY <1>c, <1>h, <2>1, <2>2, <2>3, Zenon DEF EventsInv
<1>. QED
    BY <1>1, <1>2, <1>3, <1>4, <1>5, <1>6, <1>7, <1>8, <1>9, <1>10, <1>11, Zenon DEF Next

\* The inductive invariant holds in every reachable state.
THEOREM EventsInvariant == Spec => []EventsInv
    BY EventsInit, EventsStep, PTL DEF Spec

\* The types of the streams, the kernels, the slices and the GC tasks; the device is never
\* ahead of what it was given and the channel to the GC thread never exceeds its bound.
THEOREM EventTypes == Spec => []TypeOK
<1>1. EventsInv => TypeOK
  <2>. SUFFICES ASSUME EventsInv PROVE TypeOK
    OBVIOUS
  <2>1. ServerInv /\ GcInv /\ DeviceInv /\ MemoryInv
    BY Zenon DEF EventsInv
  <2>2. ASSUME NEW i \in Regular, NEW o \in DOMAIN last_synced[i]
        PROVE  o \in Regular \ {i} /\ last_synced[i][o] \in 0 .. cursor[o]
    <3>1. /\ last_synced[i] \in Notes /\ o # i /\ last_synced[i][o] <= cursor[o]
          /\ cursor \in [Regular -> Nat]
        BY <2>1, Zenon DEF ServerInv
    <3>2. o \in Regular /\ last_synced[i][o] \in Nat
        BY <3>1, NotesAre, Zenon
    <3>. QED
        BY <3>1, <3>2
  <2>3. \A k \in DOMAIN kernels : kernels[k].clock \in Clock
    <3>1. \A k \in DOMAIN kernels : kernels[k] \in Kernel
        BY <2>1 DEF ServerInv
    <3>. QED
        BY <3>1 DEF Kernel
  <2>4. \A queue \in {sending, waiting, gcQueue} : \A n \in DOMAIN queue : queue[n] \in GcTask
    <3>1. \A queue \in Seq(GcTask) : \A n \in DOMAIN queue : queue[n] \in GcTask
        OBVIOUS
    <3>. QED
        BY <3>1, <2>1, Zenon DEF GcInv
  <2>. QED
    BY <2>1, <2>2, <2>3, <2>4, Zenon DEF TypeOK, ServerInv, GcInv, DeviceInv, MemoryInv
<1>. QED
    BY <1>1, EventsInvariant, PTL

\* What update_shared_bindings skips may be skipped: the kernels of another stream up to the
\* cursor noted in last_synced precede what this stream is given next, also after a command
\* whose waits failed half way.
THEOREM SkippedWaitsAreOrdered == Spec => []SyncedIsOrdered
<1>1. EventsInv => SyncedIsOrdered
    BY Zenon DEF EventsInv
<1>. QED
    BY <1>1, EventsInvariant, PTL

\* record_allocation keeps its promise: a slice recorded on a stream is not given out again
\* before the kernels that stream had been given are finished, whatever the client, the
\* other streams and the failing waits of the GC thread do, as long as the device runs.
THEOREM RecordedAllocationsKept == Spec => []RecordedIsKept
<1>1. EventsInv => RecordedIsKept
    BY Zenon DEF EventsInv, RecordInv, Safe, WorkDone, RecordedIsKept
<1>. QED
    BY <1>1, EventsInvariant, PTL
=============================================================================
