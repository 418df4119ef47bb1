----------------------- MODULE SchedulerStreamsProofs -----------------------
(* Proofs about SchedulerStreams: for any number of streams, slots, tasks,  *)
(* buffers and argument lists, and for both strategies, no task is lost or  *)
(* sent twice, and a task is sent after those it depends on.                *)
EXTENDS SchedulerStreams, FiniteSetTheorems, WellFoundedInduction, TLAPS

----------------------------------------------------------------------------
(* The order of nested loops.                                               *)

\* A finite set of numbers has a largest one: num_tasks_max is one of the
\* numbers of tasks and bounds them all.
LEMMA LargestOf ==
    ASSUME NEW S \in SUBSET Nat, S # {}, IsFiniteSet(S)
    PROVE  Largest(S) \in S /\ \A m \in S : m <= Largest(S)
<1>. DEFINE Bad == {T \in SUBSET S : T # {} /\ ~\E n \in T : \A m \in T : m <= n}
<1>1. Bad = {}
  <2>1. SUFFICES ASSUME Bad # {} PROVE FALSE
    OBVIOUS
  <2>2. Bad \subseteq FiniteSubsetsOf(S)
    BY FS_FiniteSubsetsOfFinite, Zenon
  <2>3. IsWellFoundedOn(StrictSubsetOrdering(S), FiniteSubsetsOf(S))
    BY FS_StrictSubsetOrderingWellFounded, Zenon
  <2>4. PICK T \in Bad : \A U \in Bad : ~(<<U, T>> \in StrictSubsetOrdering(S))
    <3>. HIDE DEF Bad
    <3>. QED
        BY <2>1, <2>2, <2>3, WFMin, Zenon
  <2>5. PICK x \in T : TRUE
    BY Zenon
  <2>6. T \ {x} \notin Bad
    <3>1. <<T \ {x}, T>> \in StrictSubsetOrdering(S)
        BY <2>5, Zenon DEF StrictSubsetOrdering
    <3>. QED
        BY <2>4, <3>1, Zenon
  <2>7. CASE T \ {x} = {}
    <3>1. T = {x} /\ x \in Nat
        BY <2>5, <2>7
    <3>. QED
        BY <3>1
  <2>8. CASE T \ {x} # {}
    <3>1. PICK n \in T \ {x} : \A m \in T \ {x} : m <= n
        BY <2>6, <2>8
    <3>2. n \in Nat /\ x \in Nat /\ T \subseteq Nat
        BY <2>5, <3>1
    <3>3. CASE x <= n
        BY <3>1, <3>2, <3>3
    <3>4. CASE n < x
        BY <2>5, <3>1, <3>2, <3>4
    <3>. QED
        BY <3>2, <3>3, <3>4
  <2>. QED
    BY <2>7, <2>8, Zenon
<1>2. \E n \in S : \A m \in S : m <= n
    BY <1>1, Zenon
<1>. QED
    BY <1>2, Zenon DEF Largest

\* InOrder lists every step of the loops once, and the earlier ones first.
LEMMA InOrderFacts ==
    ASSUME NEW P \in SUBSET (Nat \X Nat), IsFiniteSet(P)
    PROVE  /\ Cardinality(P) \in Nat
           /\ InOrder(P) \in [1 .. Cardinality(P) -> P]
           /\ \A p \in P : \E n \in 1 .. Cardinality(P) : InOrder(P)[n] = p
           /\ \A m, n \in 1 .. Cardinality(P) :
                /\ InOrder(P)[m] = InOrder(P)[n] => m = n
                /\ Before(InOrder(P)[m], InOrder(P)[n]) => m < n
<1>. DEFINE below(p) == {q \in P : Before(q, p)}
            rank == [p \in P |-> Cardinality(below(p))]
            N == Cardinality(P)
<1>1. N \in Nat
    BY FS_CardinalityType, Zenon
<1>2. ASSUME NEW p \in P PROVE rank[p] \in 0 .. (N - 1)
  <2>1. below(p) \in SUBSET P
    OBVIOUS
  <2>2. p \notin below(p)
    BY DEF Before
  <2>3. IsFiniteSet(below(p)) /\ Cardinality(below(p)) <= N /\ Cardinality(below(p)) # N
    <3>. HIDE DEF below
    <3>. QED
        BY <2>1, <2>2, FS_Subset, Zenon
  <2>4. Cardinality(below(p)) \in Nat
    BY <2>3, FS_CardinalityType, Zenon
  <2>. HIDE DEF below
  <2>. QED
    BY <1>1, <2>3, <2>4
<1>3. ASSUME NEW p \in P, NEW q \in P, Before(p, q) PROVE rank[p] < rank[q]
  <2>1. below(p) \in SUBSET below(q)
    BY <1>3 DEF Before
  <2>2. p \in below(q) /\ p \notin below(p)
    BY <1>3 DEF Before
  <2>3. IsFiniteSet(below(q))
    <3>1. below(q) \in SUBSET P
        OBVIOUS
    <3>. HIDE DEF below
    <3>. QED
        BY <3>1, FS_Subset, Zenon
  <2>4. /\ Cardinality(below(p)) <= Cardinality(below(q))
        /\ Cardinality(below(p)) # Cardinality(below(q))
    <3>. HIDE DEF below
    <3>. QED
        BY <2>1, <2>2, <2>3, FS_Subset, Zenon
  <2>5. rank[p] \in Nat /\ rank[q] \in Nat
    BY <1>1, <1>2
  <2>. HIDE DEF below
  <2>. QED
    BY <2>4, <2>5
<1>4. ASSUME NEW p \in P, NEW q \in P, p # q PROVE Before(p, q) \/ Before(q, p)
  <2>1. PICK a \in Nat, b \in Nat : p = <<a, b>>
    OBVIOUS
  <2>2. PICK c \in Nat, d \in Nat : q = <<c, d>>
    OBVIOUS
  <2>. QED
    BY <1>4, <2>1, <2>2 DEF Before
<1>5. ASSUME NEW p \in P, NEW q \in P, rank[p] = rank[q] PROVE p = q
  <2>1. rank[p] \in Int /\ rank[q] \in Int
    BY <1>2
  <2>2. ~(rank[p] < rank[q]) /\ ~(rank[q] < rank[p])
    <3>. HIDE DEF rank
    <3>. QED
        BY <1>5, <2>1
  <2>. QED
    BY <1>3, <1>4, <2>2, Zenon
<1>. HIDE DEF rank
<1>6. rank \in Injection(P, 0 .. (N - 1))
  <2>1. rank \in [P -> 0 .. (N - 1)]
    BY <1>2, Zenon DEF rank
  <2>. QED
    BY <2>1, <1>5, Zenon DEF Injection, IsInjective
<1>7. IsFiniteSet(0 .. (N - 1)) /\ Cardinality(0 .. (N - 1)) = N
  <2>1. 0 \in Int /\ N - 1 \in Int
    BY <1>1
  <2>2. /\ IsFiniteSet(0 .. (N - 1))
        /\ Cardinality(0 .. (N - 1)) = IF 0 > N - 1 THEN 0 ELSE (N - 1) - 0 + 1
    BY <2>1, FS_Interval, Zenon
  <2>. HIDE DEF N
  <2>. QED
    BY <1>1, <2>2
<1>8. rank \in Surjection(P, 0 .. (N - 1))
    BY <1>6, <1>7, FS_Injection, Zenon
<1>9. ASSUME NEW n \in 1 .. N PROVE \E p \in P : rank[p] = n - 1
  <2>1. n - 1 \in 0 .. (N - 1)
    BY <1>1
  <2>. QED
    BY <1>8, <2>1, Zenon DEF Surjection
<1>10. ASSUME NEW n \in 1 .. N PROVE InOrder(P)[n] \in P /\ rank[InOrder(P)[n]] = n - 1
  <2>1. InOrder(P)[n] = CHOOSE p \in P : Cardinality(below(p)) = n - 1
    BY Zenon DEF InOrder
  <2>2. \A p \in P : rank[p] = Cardinality(below(p))
    BY Zenon DEF rank
  <2>. HIDE DEF below
  <2>3. \E p \in P : Cardinality(below(p)) = n - 1
    BY <1>9, <2>2, Zenon
  <2>. QED
    BY <2>1, <2>2, <2>3, Zenon
<1>11. InOrder(P) \in [1 .. N -> P]
  <2>1. InOrder(P) = [n \in 1 .. N |-> InOrder(P)[n]]
    BY SMTT(20) DEF InOrder
  <2>. QED
    BY <1>10, <2>1, Zenon
<1>12. ASSUME NEW p \in P PROVE \E n \in 1 .. N : InOrder(P)[n] = p
  <2>1. rank[p] + 1 \in 1 .. N /\ (rank[p] + 1) - 1 = rank[p]
    BY <1>1, <1>2
  <2>2. rank[InOrder(P)[rank[p] + 1]] = rank[p] /\ InOrder(P)[rank[p] + 1] \in P
    BY <1>10, <2>1
  <2>. QED
    BY <1>5, <2>1, <2>2, Zenon
<1>13. ASSUME NEW m \in 1 .. N, NEW n \in 1 .. N
       PROVE  /\ InOrder(P)[m] = InOrder(P)[n] => m = n
              /\ Before(InOrder(P)[m], InOrder(P)[n]) => m < n
  <2>1. rank[InOrder(P)[m]] = m - 1 /\ rank[InOrder(P)[n]] = n - 1
    BY <1>10
  <2>2. Before(InOrder(P)[m], InOrder(P)[n]) => rank[InOrder(P)[m]] < rank[InOrder(P)[n]]
    BY <1>3, <1>10
  <2>. QED
    BY <1>1, <2>1, <2>2
<1>. QED
    BY <1>1, <1>11, <1>12, <1>13, Zenon

\* A set of numbers that is not empty has a least one.
LEMMA LeastOf ==
    ASSUME NEW S \in SUBSET Nat, S # {}
    PROVE  \E n \in S : \A m \in S : n <= m
<1>1. PICK n \in S : \A m \in S : ~(<<m, n>> \in OpToRel(<, Nat))
    BY NatLessThanWellFounded, WFMin, Zenon
<1>2. ASSUME NEW m \in S PROVE n <= m
  <2>1. <<m, n>> \notin OpToRel(<, Nat)
    BY <1>1, Zenon
  <2>2. ~(m < n)
    BY <2>1 DEF OpToRel
  <2>. QED
    BY <2>2
<1>. QED
    BY <1>2, Zenon

----------------------------------------------------------------------------
(* What an execution sends.                                                 *)

\* The sequence e sends the tasks of the lists of the slots F, each of them once and those of
\* a list in their order; at[n] is the list and the place in it that e[n] comes from.
Sends(e, at, L, F) ==
    /\ at \in [DOMAIN e -> F \X Nat]
    /\ \A n \in DOMAIN e : at[n][2] \in DOMAIN L[at[n][1]] /\ e[n] = L[at[n][1]][at[n][2]]
    /\ \A i \in F : \A k \in DOMAIN L[i] : \E n \in DOMAIN e : at[n] = <<i, k>>
    /\ \A m, n \in DOMAIN e :
          /\ at[m] = at[n] => m = n
          /\ at[m][1] = at[n][1] /\ at[m][2] < at[n][2] => m < n

\* The steps P of two loops stand for the places of the lists of the slots F, those of a list
\* in their order: to[p] is the list and the place that step p takes.
Walks(P, to, L, F) ==
    /\ P \in SUBSET (Nat \X Nat) /\ IsFiniteSet(P)
    /\ to \in [P -> F \X Nat]
    /\ \A p \in P : to[p][2] \in DOMAIN L[to[p][1]]
    /\ \A i \in F : \A k \in DOMAIN L[i] : \E p \in P : to[p] = <<i, k>>
    /\ \A p, q \in P :
          /\ to[p] = to[q] => p = q
          /\ to[p][1] = to[q][1] /\ to[p][2] < to[q][2] => Before(p, q)

\* What such loops send.
Taken(P, to, L) ==
    [n \in DOMAIN InOrder(P) |-> L[to[InOrder(P)[n]][1]][to[InOrder(P)[n]][2]]]

\* They send the tasks of these lists.
LEMMA LoopSends ==
    ASSUME NEW S, NEW F, NEW L, \A i \in F : L[i] \in Seq(S), NEW P, NEW to, Walks(P, to, L, F),
           NEW e, e = Taken(P, to, L)
    PROVE  e \in Seq(S) /\ \E at : Sends(e, at, L, F)
<1>0. /\ P \in SUBSET (Nat \X Nat) /\ IsFiniteSet(P)
      /\ to \in [P -> F \X Nat]
      /\ \A p \in P : to[p][2] \in DOMAIN L[to[p][1]]
      /\ \A i \in F : \A k \in DOMAIN L[i] : \E p \in P : to[p] = <<i, k>>
      /\ \A p, q \in P :
            /\ to[p] = to[q] => p = q
            /\ to[p][1] = to[q][1] /\ to[p][2] < to[q][2] => Before(p, q)
    BY Zenon DEF Walks
<1>. DEFINE N == Cardinality(P)
            at == [n \in 1 .. N |-> to[InOrder(P)[n]]]
<1>1. /\ N \in Nat
      /\ InOrder(P) \in [1 .. N -> P]
      /\ \A p \in P : \E n \in 1 .. N : InOrder(P)[n] = p
      /\ \A m, n \in 1 .. N : /\ InOrder(P)[m] = InOrder(P)[n] => m = n
                              /\ Before(InOrder(P)[m], InOrder(P)[n]) => m < n
    BY <1>0, InOrderFacts, Zenon
<1>. HIDE DEF N
<1>2. DOMAIN e = 1 .. N
    BY <1>1, Zenon DEF Taken
<1>3. ASSUME NEW n \in 1 .. N
      PROVE  /\ at[n] \in F \X Nat /\ at[n][2] \in DOMAIN L[at[n][1]]
             /\ e[n] = L[at[n][1]][at[n][2]] /\ e[n] \in S
  <2>1. InOrder(P)[n] \in P /\ at[n] = to[InOrder(P)[n]] /\ n \in DOMAIN InOrder(P)
    BY <1>1, Zenon
  <2>2. e[n] = L[to[InOrder(P)[n]][1]][to[InOrder(P)[n]][2]]
    BY <2>1, Zenon DEF Taken
  <2>3. at[n] \in F \X Nat /\ at[n][2] \in DOMAIN L[at[n][1]] /\ e[n] = L[at[n][1]][at[n][2]]
    BY <1>0, <2>1, <2>2, Zenon
  <2>. HIDE DEF at
  <2>4. at[n][1] \in F
    BY <2>3
  <2>5. L[at[n][1]] \in Seq(S)
    BY <2>4, Zenon
  <2>6. L[at[n][1]][at[n][2]] \in S
    BY <2>3, <2>5
  <2>. QED
    BY <2>3, <2>6, Zenon
<1>4. e \in Seq(S)
  <2>1. e = [n \in 1 .. N |-> e[n]]
    BY <1>1, <1>2 DEF Taken
  <2>2. e \in [1 .. N -> S]
    BY <1>3, <2>1, Zenon
  <2>. QED
    BY <1>1, <2>2
<1>5. at \in [DOMAIN e -> F \X Nat]
    BY <1>2, <1>3, Zenon
<1>6. ASSUME NEW i \in F, NEW k \in DOMAIN L[i] PROVE \E n \in DOMAIN e : at[n] = <<i, k>>
  <2>1. PICK p \in P : to[p] = <<i, k>>
    BY <1>0, Zenon
  <2>2. PICK n \in 1 .. N : InOrder(P)[n] = p
    BY <1>1, Zenon
  <2>3. at[n] = <<i, k>>
    BY <2>1, <2>2, Zenon
  <2>. HIDE DEF at
  <2>. QED
    BY <1>2, <2>3, Zenon
<1>7. ASSUME NEW m \in DOMAIN e, NEW n \in DOMAIN e
      PROVE  /\ at[m] = at[n] => m = n
             /\ at[m][1] = at[n][1] /\ at[m][2] < at[n][2] => m < n
  <2>1. /\ InOrder(P)[m] \in P /\ at[m] = to[InOrder(P)[m]]
        /\ InOrder(P)[n] \in P /\ at[n] = to[InOrder(P)[n]]
    BY <1>1, <1>2, Zenon
  <2>. HIDE DEF at
  <2>2. at[m] = at[n] => InOrder(P)[m] = InOrder(P)[n]
    BY <1>0, <2>1, Zenon
  <2>3. at[m][1] = at[n][1] /\ at[m][2] < at[n][2] => Before(InOrder(P)[m], InOrder(P)[n])
    BY <1>0, <2>1, Zenon
  <2>4. /\ InOrder(P)[m] = InOrder(P)[n] => m = n
        /\ Before(InOrder(P)[m], InOrder(P)[n]) => m < n
    BY <1>1, <1>2, Zenon
  <2>. QED
    BY <2>2, <2>3, <2>4, Zenon
<1>. HIDE DEF at
<1>8. \A n \in DOMAIN e : at[n][2] \in DOMAIN L[at[n][1]] /\ e[n] = L[at[n][1]][at[n][2]]
    BY <1>2, <1>3, Zenon
<1>9. Sends(e, at, L, F)
    BY <1>5, <1>6, <1>7, <1>8, Zenon DEF Sends
<1>. QED
    BY <1>4, <1>9, Zenon

\* A list of streams, as stream_ids of execute_streams: some of them may share a slot.
IsList(ids) == DOMAIN ids \subseteq Nat /\ IsFiniteSet(DOMAIN ids) /\ \A k \in DOMAIN ids : ids[k] \in StreamIds
SlotsOf(ids) == {stream_index(ids[k]) : k \in DOMAIN ids}

\* The slot of a stream is a slot of the pool.
LEMMA IndexInSlots ==
    \A id \in StreamIds : stream_index(id) \in Slots
    BY SchedulerAssumption DEF stream_index, Slots

\* The first streams of their slots: one for each slot the list names.
LEMMA UniqueFacts ==
    ASSUME NEW ids, IsList(ids)
    PROVE  /\ UniqueIndices(ids) \subseteq Nat /\ IsFiniteSet(UniqueIndices(ids))
           /\ \A k \in UniqueIndices(ids) : stream_index(ids[k]) \in SlotsOf(ids)
           /\ \A i \in SlotsOf(ids) : \E k \in UniqueIndices(ids) : stream_index(ids[k]) = i
           /\ \A j, k \in UniqueIndices(ids) : stream_index(ids[j]) = stream_index(ids[k]) => j = k
<1>. DEFINE U == UniqueIndices(ids)
<1>1. U \in SUBSET DOMAIN ids /\ DOMAIN ids \subseteq Nat /\ IsFiniteSet(DOMAIN ids)
    BY Zenon DEF UniqueIndices, IsList
<1>2. IsFiniteSet(U)
    BY <1>1, FS_Subset, Zenon
<1>3. ASSUME NEW i \in SlotsOf(ids) PROVE \E k \in U : stream_index(ids[k]) = i
  <2>. DEFINE K == {k \in DOMAIN ids : stream_index(ids[k]) = i}
  <2>1. K \in SUBSET Nat /\ K # {}
    BY <1>1, Zenon DEF SlotsOf
  <2>2. PICK k \in K : \A j \in K : k <= j
    BY <2>1, LeastOf, Zenon
  <2>3. ASSUME NEW j \in DOMAIN ids, j < k PROVE stream_index(ids[j]) # stream_index(ids[k])
    <3>1. j \in K => k <= j
        BY <2>2, Zenon
    <3>2. j \in Nat /\ k \in Nat
        BY <1>1, <2>1
    <3>3. j \notin K
        BY <2>3, <3>1, <3>2
    <3>. QED
        BY <2>2, <3>3, Zenon
  <2>. QED
    BY <2>2, <2>3, Zenon DEF UniqueIndices
<1>4. ASSUME NEW j \in U, NEW k \in U, stream_index(ids[j]) = stream_index(ids[k]) PROVE j = k
  <2>1. ~(j < k) /\ ~(k < j)
    BY <1>4, Zenon DEF UniqueIndices
  <2>2. j \in Nat /\ k \in Nat
    BY <1>1
  <2>. QED
    BY <2>1, <2>2
<1>. QED
    BY <1>1, <1>2, <1>3, <1>4, Zenon DEF SlotsOf

\* num_tasks_max bounds the number of tasks of every schedule.
LEMMA RoundsFacts ==
    ASSUME NEW S, NEW L \in [Slots -> Seq(S)], NEW ids, IsList(ids), DOMAIN ids # {}
    PROVE  /\ Rounds(L, ids) \in Nat
           /\ \A k \in UniqueIndices(ids) :
                 /\ stream_index(ids[k]) \in Slots
                 /\ Schedule(L, ids, k) = L[stream_index(ids[k])]
                 /\ Schedule(L, ids, k) \in Seq(S)
                 /\ DOMAIN Schedule(L, ids, k) \subseteq 1 .. Rounds(L, ids)
<1>. DEFINE U == UniqueIndices(ids)
            D == Lengths(L, ids)
            length == [k \in U |-> Len(Schedule(L, ids, k))]
<1>1. U \subseteq Nat /\ IsFiniteSet(U) /\ U \subseteq DOMAIN ids
    BY UniqueFacts, Zenon DEF UniqueIndices
<1>2. U # {}
  <2>1. SlotsOf(ids) # {}
    BY Zenon DEF SlotsOf
  <2>. QED
    BY <2>1, UniqueFacts, Zenon
<1>3. ASSUME NEW k \in U
      PROVE  /\ stream_index(ids[k]) \in Slots /\ Schedule(L, ids, k) = L[stream_index(ids[k])]
             /\ Schedule(L, ids, k) \in Seq(S)
    BY <1>1, IndexInSlots, Zenon DEF IsList, Schedule
<1>4. ASSUME NEW k \in U PROVE Len(Schedule(L, ids, k)) \in Nat
    BY <1>3
<1>5. D \in SUBSET Nat /\ D # {}
    BY <1>2, <1>4, Zenon DEF Lengths
<1>6. IsFiniteSet(D)
  <2>1. length \in Surjection(U, D)
    BY Zenon DEF Lengths, Surjection
  <2>. QED
    BY <1>1, <2>1, FS_Surjection, Zenon
<1>7. Rounds(L, ids) \in D /\ \A m \in D : m <= Rounds(L, ids)
    BY <1>5, <1>6, LargestOf, Zenon DEF Rounds
<1>8. Rounds(L, ids) \in Nat
    BY <1>5, <1>7, Zenon
<1>9. ASSUME NEW k \in U PROVE DOMAIN Schedule(L, ids, k) \subseteq 1 .. Rounds(L, ids)
  <2>1. Len(Schedule(L, ids, k)) <= Rounds(L, ids)
    BY <1>7, Zenon DEF Lengths
  <2>. QED
    BY <1>3, <1>4, <1>8, <2>1
<1>. QED
    BY <1>3, <1>8, <1>9, Zenon

\* sequence() sends the tasks of the slots the list names.
LEMMA SequencedSends ==
    ASSUME NEW S, NEW L \in [Slots -> Seq(S)], NEW ids, IsList(ids), DOMAIN ids # {}
    PROVE  /\ Sequenced(L, ids) \in Seq(S)
           /\ \E at : Sends(Sequenced(L, ids), at, L, SlotsOf(ids))
<1>. DEFINE U == UniqueIndices(ids)
            R == Rounds(L, ids)
            F == SlotsOf(ids)
            P == UNION {{k} \X DOMAIN Schedule(L, ids, k) : k \in U}
            to == [p \in P |-> <<stream_index(ids[p[1]]), p[2]>>]
<1>1. /\ U \subseteq Nat /\ IsFiniteSet(U)
      /\ \A k \in U : stream_index(ids[k]) \in F
      /\ \A i \in F : \E k \in U : stream_index(ids[k]) = i
      /\ \A j, k \in U : stream_index(ids[j]) = stream_index(ids[k]) => j = k
    BY UniqueFacts, Zenon
<1>2. /\ R \in Nat
      /\ \A k \in U : /\ stream_index(ids[k]) \in Slots
                      /\ Schedule(L, ids, k) = L[stream_index(ids[k])]
                      /\ Schedule(L, ids, k) \in Seq(S)
                      /\ DOMAIN Schedule(L, ids, k) \subseteq 1 .. R
    BY RoundsFacts, Zenon
<1>. HIDE DEF U, R, F
<1>3. ASSUME NEW p \in P
      PROVE  /\ p = <<p[1], p[2]>> /\ p[1] \in U /\ p[2] \in DOMAIN L[stream_index(ids[p[1]])]
             /\ p[1] \in Nat /\ p[2] \in 1 .. R /\ p[2] \in Nat
  <2>1. PICK k \in U : p \in {k} \X DOMAIN Schedule(L, ids, k)
    BY Zenon
  <2>. HIDE DEF P
  <2>2. p = <<p[1], p[2]>> /\ p[1] = k /\ p[2] \in DOMAIN Schedule(L, ids, k)
    BY <2>1
  <2>3. p[2] \in DOMAIN L[stream_index(ids[p[1]])] /\ p[2] \in 1 .. R
    BY <1>2, <2>2, Zenon
  <2>4. p[2] \in Nat
    BY <1>2, <2>3
  <2>. QED
    BY <1>1, <2>2, <2>3, <2>4, Zenon
<1>4. ASSUME NEW k \in U, NEW n \in DOMAIN L[stream_index(ids[k])] PROVE <<k, n>> \in P
    BY <1>2
<1>5. Sequenced(L, ids) =
        [n \in DOMAIN InOrder(P) |-> Schedule(L, ids, InOrder(P)[n][1])[InOrder(P)[n][2]]]
    BY Zenon DEF Sequenced, U
<1>. HIDE DEF P
<1>6. P \in SUBSET (Nat \X Nat)
    BY <1>3
<1>7. IsFiniteSet(P)
  <2>1. IsFiniteSet(1 .. R)
    BY <1>2, FS_Interval
  <2>2. IsFiniteSet(U \X (1 .. R))
    BY <1>1, <2>1, FS_Product, Zenon
  <2>3. P \in SUBSET (U \X (1 .. R))
    BY <1>3
  <2>. QED
    BY <2>2, <2>3, FS_Subset, Zenon
<1>8. ASSUME NEW p \in P
      PROVE  /\ to[p] = <<stream_index(ids[p[1]]), p[2]>> /\ to[p] \in F \X Nat
             /\ to[p][1] = stream_index(ids[p[1]]) /\ to[p][2] = p[2]
             /\ to[p][2] \in DOMAIN L[to[p][1]]
  <2>1. to[p] = <<stream_index(ids[p[1]]), p[2]>>
    BY Zenon
  <2>. HIDE DEF to
  <2>2. to[p][1] = stream_index(ids[p[1]]) /\ to[p][2] = p[2]
    BY <2>1
  <2>. QED
    BY <1>1, <1>3, <2>1, <2>2
<1>9. to \in [P -> F \X Nat]
    BY <1>8, Zenon
<1>. HIDE DEF to
<1>10. ASSUME NEW i \in F, NEW n \in DOMAIN L[i] PROVE \E p \in P : to[p] = <<i, n>>
  <2>1. PICK k \in U : stream_index(ids[k]) = i
    BY <1>1, Zenon
  <2>2. <<k, n>> \in P
    BY <1>4, <2>1, Zenon
  <2>3. to[<<k, n>>] = <<stream_index(ids[<<k, n>>[1]]), <<k, n>>[2]>>
    BY <1>8, <2>2, Zenon
  <2>4. to[<<k, n>>] = <<i, n>>
    BY <2>1, <2>3, Zenon
  <2>. QED
    BY <2>2, <2>4, Zenon
<1>11. ASSUME NEW p \in P, NEW q \in P
       PROVE  /\ to[p] = to[q] => p = q
              /\ to[p][1] = to[q][1] /\ to[p][2] < to[q][2] => Before(p, q)
  <2>1. to[p][1] = to[q][1] => p[1] = q[1]
    BY <1>1, <1>3, <1>8
  <2>2. to[p][2] = p[2] /\ to[q][2] = q[2] /\ p = <<p[1], p[2]>> /\ q = <<q[1], q[2]>>
    BY <1>3, <1>8, Zenon
  <2>3. to[p] = to[q] => p = q
    BY <2>1, <2>2, Zenon
  <2>4. to[p][1] = to[q][1] /\ to[p][2] < to[q][2] => Before(p, q)
    BY <2>1, <2>2, Zenon DEF Before
  <2>. QED
    BY <2>3, <2>4, Zenon
<1>12. \A i \in F : L[i] \in Seq(S)
    BY <1>1, <1>2, Zenon
<1>13. ASSUME NEW n \in DOMAIN InOrder(P)
       PROVE  Schedule(L, ids, InOrder(P)[n][1])[InOrder(P)[n][2]]
                 = L[to[InOrder(P)[n]][1]][to[InOrder(P)[n]][2]]
  <2>1. InOrder(P)[n] \in P
    BY <1>6, <1>7, InOrderFacts, Zenon
  <2>. QED
    BY <1>2, <1>3, <1>8, <2>1, Zenon
<1>14. Sequenced(L, ids) = Taken(P, to, L)
    BY <1>5, <1>13, Zenon DEF Taken
<1>15. \A p \in P : to[p][2] \in DOMAIN L[to[p][1]]
    BY <1>8, Zenon
<1>16. \A i \in F : \A n \in DOMAIN L[i] : \E p \in P : to[p] = <<i, n>>
    BY <1>10, Zenon
<1>17. \A p, q \in P :
          /\ to[p] = to[q] => p = q
          /\ to[p][1] = to[q][1] /\ to[p][2] < to[q][2] => Before(p, q)
    BY <1>11, Zenon
<1>18. /\ Sequenced(L, ids) \in Seq(S)
       /\ \E at : Sends(Sequenced(L, ids), at, L, F)
  <2>1. Walks(P, to, L, F)
    BY <1>6, <1>7, <1>9, <1>15, <1>16, <1>17, Zenon DEF Walks
  <2>. QED
    BY <1>12, <1>14, <2>1, LoopSends, Zenon
<1>. QED
    BY <1>18, Zenon DEF F

\* interleave() sends the tasks of the slots the list names.
LEMMA InterleavedSends ==
    ASSUME NEW S, NEW L \in [Slots -> Seq(S)], NEW ids, IsList(ids), DOMAIN ids # {}
    PROVE  /\ Interleaved(L, ids) \in Seq(S)
           /\ \E at : Sends(Interleaved(L, ids), at, L, SlotsOf(ids))
<1>. DEFINE U == UniqueIndices(ids)
            R == Rounds(L, ids)
            F == SlotsOf(ids)
            P == {p \in (1 .. R) \X U : p[1] \in DOMAIN Schedule(L, ids, p[2])}
            to == [p \in P |-> <<stream_index(ids[p[2]]), p[1]>>]
<1>1. /\ U \subseteq Nat /\ IsFiniteSet(U)
      /\ \A k \in U : stream_index(ids[k]) \in F
      /\ \A i \in F : \E k \in U : stream_index(ids[k]) = i
      /\ \A j, k \in U : stream_index(ids[j]) = stream_index(ids[k]) => j = k
    BY UniqueFacts, Zenon
<1>2. /\ R \in Nat
      /\ \A k \in U : /\ stream_index(ids[k]) \in Slots
                      /\ Schedule(L, ids, k) = L[stream_index(ids[k])]
                      /\ Schedule(L, ids, k) \in Seq(S)
                      /\ DOMAIN Schedule(L, ids, k) \subseteq 1 .. R
    BY RoundsFacts, Zenon
<1>. HIDE DEF U, R, F
<1>3. ASSUME NEW p \in P
      PROVE  /\ p = <<p[1], p[2]>> /\ p[2] \in U /\ p[1] \in DOMAIN L[stream_index(ids[p[2]])]
             /\ p[2] \in Nat /\ p[1] \in 1 .. R /\ p[1] \in Nat
  <2>1. p \in (1 .. R) \X U /\ p[1] \in DOMAIN Schedule(L, ids, p[2])
    BY Zenon
  <2>. HIDE DEF P
  <2>2. p = <<p[1], p[2]>> /\ p[1] \in 1 .. R /\ p[2] \in U
    BY <2>1
  <2>3. p[1] \in DOMAIN L[stream_index(ids[p[2]])]
    BY <1>2, <2>1, <2>2, Zenon
  <2>4. p[1] \in Nat
    BY <1>2, <2>2
  <2>. QED
    BY <1>1, <2>2, <2>3, <2>4, Zenon
<1>4. ASSUME NEW k \in U, NEW n \in DOMAIN L[stream_index(ids[k])] PROVE <<n, k>> \in P
    BY <1>2
<1>5. Interleaved(L, ids) =
        [n \in DOMAIN InOrder(P) |-> Schedule(L, ids, InOrder(P)[n][2])[InOrder(P)[n][1]]]
    BY Zenon DEF Interleaved, U, R
<1>. HIDE DEF P
<1>6. P \in SUBSET (Nat \X Nat)
    BY <1>3
<1>7. IsFiniteSet(P)
  <2>1. IsFiniteSet(1 .. R)
    BY <1>2, FS_Interval
  <2>2. IsFiniteSet((1 .. R) \X U)
    BY <1>1, <2>1, FS_Product, Zenon
  <2>3. P \in SUBSET ((1 .. R) \X U)
    BY <1>3
  <2>. QED
    BY <2>2, <2>3, FS_Subset, Zenon
<1>8. ASSUME NEW p \in P
      PROVE  /\ to[p] = <<stream_index(ids[p[2]]), p[1]>> /\ to[p] \in F \X Nat
             /\ to[p][1] = stream_index(ids[p[2]]) /\ to[p][2] = p[1]
             /\ to[p][2] \in DOMAIN L[to[p][1]]
  <2>1. to[p] = <<stream_index(ids[p[2]]), p[1]>>
    BY Zenon
  <2>. HIDE DEF to
  <2>2. to[p][1] = stream_index(ids[p[2]]) /\ to[p][2] = p[1]
    BY <2>1
  <2>. QED
    BY <1>1, <1>3, <2>1, <2>2
<1>9. to \in [P -> F \X Nat]
    BY <1>8, Zenon
<1>. HIDE DEF to
<1>10. ASSUME NEW i \in F, NEW n \in DOMAIN L[i] PROVE \E p \in P : to[p] = <<i, n>>
  <2>1. PICK k \in U : stream_index(ids[k]) = i
    BY <1>1, Zenon
  <2>2. <<n, k>> \in P
    BY <1>4, <2>1, Zenon
  <2>3. to[<<n, k>>] = <<stream_index(ids[<<n, k>>[2]]), <<n, k>>[1]>>
    BY <1>8, <2>2, Zenon
  <2>4. to[<<n, k>>] = <<i, n>>
    BY <2>1, <2>3, Zenon
  <2>. QED
    BY <2>2, <2>4, Zenon
<1>11. ASSUME NEW p \in P, NEW q \in P
       PROVE  /\ to[p] = to[q] => p = q
              /\ to[p][1] = to[q][1] /\ to[p][2] < to[q][2] => Before(p, q)
  <2>1. to[p][1] = to[q][1] => p[2] = q[2]
    BY <1>1, <1>3, <1>8
  <2>2. to[p][2] = p[1] /\ to[q][2] = q[1] /\ p = <<p[1], p[2]>> /\ q = <<q[1], q[2]>>
    BY <1>3, <1>8, Zenon
  <2>3. to[p] = to[q] => p = q
    BY <2>1, <2>2, Zenon
  <2>4. to[p][1] = to[q][1] /\ to[p][2] < to[q][2] => Before(p, q)
    BY <2>1, <2>2, Zenon DEF Before
  <2>. QED
    BY <2>3, <2>4, Zenon
<1>12. \A i \in F : L[i] \in Seq(S)
    BY <1>1, <1>2, Zenon
<1>13. ASSUME NEW n \in DOMAIN InOrder(P)
       PROVE  Schedule(L, ids, InOrder(P)[n][2])[InOrder(P)[n][1]]
                 = L[to[InOrder(P)[n]][1]][to[InOrder(P)[n]][2]]
  <2>1. InOrder(P)[n] \in P
    BY <1>6, <1>7, InOrderFacts, Zenon
  <2>. QED
    BY <1>2, <1>3, <1>8, <2>1, Zenon
<1>14. Interleaved(L, ids) = Taken(P, to, L)
    BY <1>5, <1>13, Zenon DEF Taken
<1>15. \A p \in P : to[p][2] \in DOMAIN L[to[p][1]]
    BY <1>8, Zenon
<1>16. \A i \in F : \A n \in DOMAIN L[i] : \E p \in P : to[p] = <<i, n>>
    BY <1>10, Zenon
<1>17. \A p, q \in P :
          /\ to[p] = to[q] => p = q
          /\ to[p][1] = to[q][1] /\ to[p][2] < to[q][2] => Before(p, q)
    BY <1>11, Zenon
<1>18. /\ Interleaved(L, ids) \in Seq(S)
       /\ \E at : Sends(Interleaved(L, ids), at, L, F)
  <2>1. Walks(P, to, L, F)
    BY <1>6, <1>7, <1>9, <1>15, <1>16, <1>17, Zenon DEF Walks
  <2>. QED
    BY <1>12, <1>14, <2>1, LoopSends, Zenon
<1>. QED
    BY <1>18, Zenon DEF F

\* What execute_streams sends, by either strategy: the tasks of the slots it was given.
LEMMA ExecutedSends ==
    ASSUME NEW S, NEW L \in [Slots -> Seq(S)], NEW ids, IsList(ids)
    PROVE  /\ Executed(L, ids) \in Seq(S)
           /\ \E at : Sends(Executed(L, ids), at, L, SlotsOf(ids))
<1>1. CASE DOMAIN ids = {}
  <2>1. Executed(L, ids) = <<>> /\ SlotsOf(ids) = {}
    BY <1>1, Zenon DEF Executed, SlotsOf
  <2>2. <<>> \in Seq(S) /\ DOMAIN <<>> = {}
    OBVIOUS
  <2>3. Sends(<<>>, [n \in {} |-> n], L, {})
    BY <2>2 DEF Sends
  <2>. QED
    BY <2>1, <2>2, <2>3, Zenon
<1>2. CASE DOMAIN ids # {}
  <2>1. \/ Executed(L, ids) = Interleaved(L, ids)
        \/ Executed(L, ids) = Sequenced(L, ids)
    BY <1>2, Zenon DEF Executed
  <2>. QED
    BY <1>2, <2>1, InterleavedSends, SequencedSends, Zenon
<1>. QED
    BY <1>1, <1>2, Zenon

----------------------------------------------------------------------------
(* The invariant, of the tasks T, the lists L and the compute queue Q: of   *)
(* the state, and of what a call of register passes through.                *)

SlotOf(T, t) == stream_index(T[t].stream)
Needs(T, y) ==
    {SlotOf(T, y)} \cup {stream_index(Owner[T[y].args[k]]) : k \in DOMAIN T[y].args}
In(q, t) == \E k \in DOMAIN q : q[k] = t

Types(T, L, Q) ==
    T \in Seq(Task) /\ L \in [Slots -> Seq(DOMAIN T)] /\ Q \in Seq(DOMAIN T)

\* A list holds tasks of its slot, in the order in which they were registered.
Listed(T, L) ==
    \A i \in Slots : \A k \in DOMAIN L[i] :
        /\ SlotOf(T, L[i][k]) = i
        /\ \A j \in DOMAIN L[i] : j < k => L[i][j] < L[i][k]

\* A task is in the list of its slot or on the queue, and not in both; it is there once.
Placed(T, L, Q) ==
    /\ \A t \in DOMAIN T : In(L[SlotOf(T, t)], t) <=> ~In(Q, t)
    /\ \A j, k \in DOMAIN Q : Q[j] = Q[k] => j = k

\* A task on the queue is behind those it needs; one that waits needs no task that waits in
\* the list of another slot.
Aligned(T, Q) ==
    \A x, y \in DOMAIN T : x < y /\ SlotOf(T, x) \in Needs(T, y) =>
        /\ \A k \in DOMAIN Q : Q[k] = y => \E j \in DOMAIN Q : j < k /\ Q[j] = x
        /\ ~In(Q, y) /\ SlotOf(T, x) # SlotOf(T, y) => In(Q, x)

Ordered(T, L, Q) == Types(T, L, Q) /\ Listed(T, L) /\ Placed(T, L, Q) /\ Aligned(T, Q)

StreamsInv ==
    /\ strategy \in Strategies
    /\ Ordered(tasks, pending, queue)
    /\ \A i \in Slots : Len(pending[i]) < MaxTasks

----------------------------------------------------------------------------
\* The places of a concatenation.
LEMMA ConcatFacts ==
    ASSUME NEW S, NEW u \in Seq(S), NEW v \in Seq(S)
    PROVE  /\ u \o v \in Seq(S) /\ Len(u) \in Nat
           /\ \A k \in DOMAIN u : k \in DOMAIN (u \o v) /\ (u \o v)[k] = u[k] /\ k <= Len(u) /\ k \in Nat
           /\ \A k \in DOMAIN v : /\ Len(u) + k \in DOMAIN (u \o v) /\ (u \o v)[Len(u) + k] = v[k]
                                  /\ k \in Nat /\ k > 0
           /\ \A n \in DOMAIN (u \o v) : n \in DOMAIN u \/ \E k \in DOMAIN v : n = Len(u) + k
           /\ \A t : In(u \o v, t) <=> In(u, t) \/ In(v, t)
<1>1. u \o v \in Seq(S) /\ Len(u) \in Nat
    OBVIOUS
<1>2. \A k \in DOMAIN u : k \in DOMAIN (u \o v) /\ (u \o v)[k] = u[k] /\ k <= Len(u) /\ k \in Nat
    OBVIOUS
<1>3. \A k \in DOMAIN v : /\ Len(u) + k \in DOMAIN (u \o v) /\ (u \o v)[Len(u) + k] = v[k]
                          /\ k \in Nat /\ k > 0
    OBVIOUS
<1>4. ASSUME NEW n \in DOMAIN (u \o v) PROVE n \in DOMAIN u \/ \E k \in DOMAIN v : n = Len(u) + k
  <2>1. n \notin DOMAIN u => n - Len(u) \in DOMAIN v /\ n = Len(u) + (n - Len(u))
    OBVIOUS
  <2>. QED
    BY <2>1, Zenon
<1>. QED
    BY <1>1, <1>2, <1>3, <1>4, ZenonT(40) DEF In

\* What is true of the tasks that are sent: they are the tasks of the lists of the slots F,
\* each is sent once, and those of a slot in the order in which they were registered.
LEMMA SentFacts ==
    ASSUME NEW T, NEW L, NEW Q, Ordered(T, L, Q), NEW F \in SUBSET Slots,
           NEW e \in Seq(DOMAIN T), NEW at, Sends(e, at, L, F)
    PROVE  /\ \A t \in DOMAIN T : In(e, t) <=> SlotOf(T, t) \in F /\ In(L[SlotOf(T, t)], t)
           /\ \A m, n \in DOMAIN e : /\ e[m] = e[n] => m = n
                                     /\ SlotOf(T, e[m]) = SlotOf(T, e[n]) /\ e[m] < e[n] => m < n
<1>0. at \in [DOMAIN e -> F \X Nat]
    BY Zenon DEF Sends
<1>1. /\ \A n \in DOMAIN e : at[n][2] \in DOMAIN L[at[n][1]] /\ e[n] = L[at[n][1]][at[n][2]]
      /\ \A i \in F : \A k \in DOMAIN L[i] : \E n \in DOMAIN e : at[n] = <<i, k>>
      /\ \A m, n \in DOMAIN e :
            /\ at[m] = at[n] => m = n
            /\ at[m][1] = at[n][1] /\ at[m][2] < at[n][2] => m < n
    BY Zenon DEF Sends
<1>2. /\ T \in Seq(Task) /\ L \in [Slots -> Seq(DOMAIN T)]
      /\ \A i \in Slots : \A k \in DOMAIN L[i] :
            /\ SlotOf(T, L[i][k]) = i
            /\ \A j \in DOMAIN L[i] : j < k => L[i][j] < L[i][k]
    BY Zenon DEF Ordered, Types, Listed
<1>3. ASSUME NEW n \in DOMAIN e
      PROVE  /\ at[n][1] \in F /\ at[n][1] \in Slots /\ at[n][2] \in Nat
             /\ SlotOf(T, e[n]) = at[n][1] /\ e[n] \in Nat
  <2>1. at[n] \in F \X Nat
    BY <1>0, Zenon
  <2>2. at[n][1] \in F /\ at[n][2] \in Nat
    BY <2>1
  <2>3. at[n][1] \in Slots
    BY <2>2, Zenon
  <2>4. e[n] \in DOMAIN T
    OBVIOUS
  <2>5. e[n] \in Nat
    BY <1>2, <2>4
  <2>. QED
    BY <1>1, <1>2, <2>2, <2>3, <2>5, SMTT(20)
<1>4. ASSUME NEW t \in DOMAIN T
      PROVE  In(e, t) <=> SlotOf(T, t) \in F /\ In(L[SlotOf(T, t)], t)
  <2>1. ASSUME In(e, t) PROVE SlotOf(T, t) \in F /\ In(L[SlotOf(T, t)], t)
    <3>1. PICK n \in DOMAIN e : e[n] = t
        BY <2>1, Zenon DEF In
    <3>2. SlotOf(T, t) = at[n][1] /\ at[n][1] \in F
        BY <1>3, <3>1
    <3>3. at[n][2] \in DOMAIN L[at[n][1]] /\ t = L[at[n][1]][at[n][2]]
        BY <1>1, <3>1, Zenon
    <3>. QED
        BY <3>2, <3>3, Zenon DEF In
  <2>2. ASSUME SlotOf(T, t) \in F, In(L[SlotOf(T, t)], t) PROVE In(e, t)
    <3>1. PICK k \in DOMAIN L[SlotOf(T, t)] : L[SlotOf(T, t)][k] = t
        BY <2>2, Zenon DEF In
    <3>2. PICK n \in DOMAIN e : at[n] = <<SlotOf(T, t), k>>
        BY <1>1, <2>2, Zenon
    <3>3. at[n][1] = SlotOf(T, t) /\ at[n][2] = k
        BY <3>2
    <3>. QED
        BY <1>1, <3>1, <3>3 DEF In
  <2>. QED
    BY <2>1, <2>2, Zenon
<1>5. ASSUME NEW m \in DOMAIN e, NEW n \in DOMAIN e, SlotOf(T, e[m]) = SlotOf(T, e[n])
      PROVE  /\ at[m][1] = at[n][1]
             /\ at[n][2] < at[m][2] => m > n /\ e[n] < e[m]
             /\ at[m][2] < at[n][2] => m < n /\ e[m] < e[n]
             /\ at[m][2] = at[n][2] => m = n
  <2>1. at[m][1] = at[n][1]
    BY <1>3, <1>5
  <2>2. at[m][2] = at[n][2] => m = n
    <3>1. at[m] \in F \X Nat /\ at[n] \in F \X Nat
        BY <1>0, Zenon
    <3>2. at[m][2] = at[n][2] => at[m] = at[n]
        BY <2>1, <3>1
    <3>. QED
        BY <1>1, <3>2, Zenon
  <2>3. PICK i \in Slots : i = at[n][1] /\ i = at[m][1]
    BY <1>3, <2>1
  <2>4. /\ at[m][2] \in DOMAIN L[i] /\ e[m] = L[i][at[m][2]]
        /\ at[n][2] \in DOMAIN L[i] /\ e[n] = L[i][at[n][2]]
    BY <1>1, <2>3, Zenon
  <2>8. \A k, j \in DOMAIN L[i] : j < k => L[i][j] < L[i][k]
    BY <1>2, Zenon
  <2>6. at[m][2] < at[n][2] => m < n /\ e[m] < e[n]
    <3>1. at[m][2] < at[n][2] => L[i][at[m][2]] < L[i][at[n][2]]
        BY <2>4, <2>8, Zenon
    <3>2. at[m][2] < at[n][2] => m < n
        BY <1>1, <2>1
    <3>. QED
        BY <2>4, <3>1, <3>2
  <2>7. at[n][2] < at[m][2] => n < m /\ e[n] < e[m]
    <3>1. at[n][2] < at[m][2] => L[i][at[n][2]] < L[i][at[m][2]]
        BY <2>4, <2>8, Zenon
    <3>2. at[n][2] < at[m][2] => n < m
        BY <1>1, <2>1
    <3>. QED
        BY <2>4, <3>1, <3>2
  <2>5. m \in Nat /\ n \in Nat
    OBVIOUS
  <2>. QED
    BY <2>1, <2>2, <2>5, <2>6, <2>7
<1>6. ASSUME NEW m \in DOMAIN e, NEW n \in DOMAIN e
      PROVE  /\ e[m] = e[n] => m = n
             /\ SlotOf(T, e[m]) = SlotOf(T, e[n]) /\ e[m] < e[n] => m < n
  <2>1. at[m][2] \in Nat /\ at[n][2] \in Nat /\ e[m] \in Nat /\ e[n] \in Nat
    BY <1>3, Zenon
  <2>2. SlotOf(T, e[m]) = SlotOf(T, e[n]) =>
           /\ at[n][2] < at[m][2] => m > n /\ e[n] < e[m]
           /\ at[m][2] < at[n][2] => m < n /\ e[m] < e[n]
           /\ at[m][2] = at[n][2] => m = n
    BY <1>5, Zenon
  <2>. QED
    BY <2>1, <2>2
<1>. QED
    BY <1>4, <1>6, Zenon

\* The lists that are left when those of the slots F are emptied.
Without(L, F) == [i \in Slots |-> IF i \in F THEN <<>> ELSE L[i]]

\* Sending the tasks of some lists and emptying the lists.
LEMMA FlushKeeps ==
    ASSUME NEW T, NEW L, NEW Q, Ordered(T, L, Q), NEW F \in SUBSET Slots,
           NEW e \in Seq(DOMAIN T), NEW at, Sends(e, at, L, F)
    PROVE  Ordered(T, Without(L, F), Q \o e)
<1>1. /\ \A t \in DOMAIN T : In(e, t) <=> SlotOf(T, t) \in F /\ In(L[SlotOf(T, t)], t)
      /\ \A m, n \in DOMAIN e : /\ e[m] = e[n] => m = n
                                /\ SlotOf(T, e[m]) = SlotOf(T, e[n]) /\ e[m] < e[n] => m < n
    BY SentFacts, Zenon
<1>2. T \in Seq(Task) /\ L \in [Slots -> Seq(DOMAIN T)] /\ Q \in Seq(DOMAIN T)
    BY Zenon DEF Ordered, Types
<1>3. /\ Q \o e \in Seq(DOMAIN T) /\ Len(Q) \in Nat
      /\ \A k \in DOMAIN Q : k \in DOMAIN (Q \o e) /\ (Q \o e)[k] = Q[k] /\ k <= Len(Q) /\ k \in Nat
      /\ \A k \in DOMAIN e : /\ Len(Q) + k \in DOMAIN (Q \o e) /\ (Q \o e)[Len(Q) + k] = e[k]
                             /\ k \in Nat /\ k > 0
      /\ \A n \in DOMAIN (Q \o e) : n \in DOMAIN Q \/ \E k \in DOMAIN e : n = Len(Q) + k
      /\ \A t : In(Q \o e, t) <=> In(Q, t) \/ In(e, t)
    BY <1>2, ConcatFacts, Zenon
<1>4. ASSUME NEW t \in DOMAIN T PROVE SlotOf(T, t) \in Slots
  <2>1. T[t] \in Task
    BY <1>2
  <2>2. T[t].stream \in StreamIds
    BY <2>1 DEF Task
  <2>. QED
    BY <2>2, IndexInSlots, Zenon DEF SlotOf
<1>5. ASSUME NEW i \in Slots
      PROVE  Without(L, F)[i] = IF i \in F THEN <<>> ELSE L[i]
    BY Zenon DEF Without
<1>6. DOMAIN << >> = {} /\ << >> \in Seq(DOMAIN T)
    OBVIOUS
<1>7. Types(T, Without(L, F), Q \o e)
  <2>1. \A i \in Slots : L[i] \in Seq(DOMAIN T)
    BY <1>2, Zenon
  <2>2. Without(L, F) \in [Slots -> Seq(DOMAIN T)]
    BY <1>6, <2>1, Zenon DEF Without
  <2>. QED
    BY <1>2, <1>3, <2>2, Zenon DEF Types
<1>8. Listed(T, Without(L, F))
    BY <1>5, <1>6, Zenon DEF Listed, Ordered
<1>9. \A t \in DOMAIN T : In(L[SlotOf(T, t)], t) <=> ~In(Q, t)
    BY Zenon DEF Ordered, Placed
<1>10. Placed(T, Without(L, F), Q \o e)
  <2>1. ASSUME NEW t \in DOMAIN T
        PROVE  In(Without(L, F)[SlotOf(T, t)], t) <=> ~In(Q \o e, t)
    <3>1. In(Without(L, F)[SlotOf(T, t)], t) <=> SlotOf(T, t) \notin F /\ In(L[SlotOf(T, t)], t)
        BY <1>4, <1>5, <1>6, Zenon DEF In
    <3>. QED
        BY <1>1, <1>3, <1>9, <3>1, Zenon
  <2>2. \A j, k \in DOMAIN Q : Q[j] = Q[k] => j = k
    BY Zenon DEF Ordered, Placed
  <2>3. ASSUME NEW j \in DOMAIN Q, NEW k \in DOMAIN e PROVE Q[j] # e[k]
    <3>1. e[k] \in DOMAIN T
        OBVIOUS
    <3>2. In(e, e[k])
        BY Zenon DEF In
    <3>3. ~In(Q, e[k])
        BY <1>1, <1>9, <3>1, <3>2, Zenon
    <3>. QED
        BY <3>3, Zenon DEF In
  <2>4. ASSUME NEW j \in DOMAIN (Q \o e), NEW k \in DOMAIN (Q \o e), (Q \o e)[j] = (Q \o e)[k]
        PROVE  j = k
    <3>1. CASE j \in DOMAIN Q /\ k \in DOMAIN Q
        BY <1>3, <2>2, <2>4, <3>1, Zenon
    <3>2. ASSUME j \in DOMAIN Q, NEW n \in DOMAIN e, k = Len(Q) + n PROVE FALSE
      <4>1. (Q \o e)[j] = Q[j] /\ (Q \o e)[k] = e[n]
        BY <1>3, <3>2
      <4>. QED
        BY <2>3, <2>4, <3>2, <4>1
    <3>3. ASSUME k \in DOMAIN Q, NEW n \in DOMAIN e, j = Len(Q) + n PROVE FALSE
      <4>1. (Q \o e)[k] = Q[k] /\ (Q \o e)[j] = e[n]
        BY <1>3, <3>3
      <4>. QED
        BY <2>3, <2>4, <3>3, <4>1
    <3>4. ASSUME NEW m \in DOMAIN e, NEW n \in DOMAIN e, j = Len(Q) + m, k = Len(Q) + n PROVE j = k
      <4>1. (Q \o e)[j] = e[m] /\ (Q \o e)[k] = e[n]
        BY <1>3, <3>4, Zenon
      <4>2. m = n
        <5>1. e[m] = e[n]
            BY <2>4, <4>1, Zenon
        <5>. QED
            BY <1>1, <5>1, Zenon
      <4>. QED
        BY <3>4, <4>2
    <3>. QED
        BY <1>3, <3>1, <3>2, <3>3, <3>4, Zenon
  <2>. QED
    BY <2>1, <2>4, Zenon DEF Placed
<1>11. Aligned(T, Q \o e)
  <2>1. SUFFICES ASSUME NEW x \in DOMAIN T, NEW y \in DOMAIN T,
                        x < y, SlotOf(T, x) \in Needs(T, y)
                 PROVE  /\ \A k \in DOMAIN (Q \o e) : (Q \o e)[k] = y =>
                              \E j \in DOMAIN (Q \o e) : j < k /\ (Q \o e)[j] = x
                        /\ ~In(Q \o e, y) /\ SlotOf(T, x) # SlotOf(T, y) => In(Q \o e, x)
    BY Zenon DEF Aligned
  <2>2. /\ \A k \in DOMAIN Q : Q[k] = y => \E j \in DOMAIN Q : j < k /\ Q[j] = x
        /\ ~In(Q, y) /\ SlotOf(T, x) # SlotOf(T, y) => In(Q, x)
    BY <2>1, Zenon DEF Ordered, Aligned
  <2>3. ASSUME NEW n \in DOMAIN e, e[n] = y, In(Q, x)
        PROVE  \E j \in DOMAIN (Q \o e) : j < Len(Q) + n /\ (Q \o e)[j] = x
    <3>1. PICK j \in DOMAIN Q : Q[j] = x
        BY <2>3, Zenon DEF In
    <3>2. j < Len(Q) + n
        BY <1>3, <3>1
    <3>. QED
        BY <1>3, <3>1, <3>2, Zenon
  <2>4. ASSUME NEW n \in DOMAIN e, e[n] = y, ~In(Q, x)
        PROVE  \E j \in DOMAIN (Q \o e) : j < Len(Q) + n /\ (Q \o e)[j] = x
    <3>1. In(e, y) /\ ~In(Q, y)
        BY <1>1, <1>9, <2>4, Zenon DEF In
    <3>2. SlotOf(T, x) = SlotOf(T, y)
        BY <2>2, <2>4, <3>1, Zenon
    <3>3. In(e, x)
        BY <1>1, <1>9, <2>4, <3>1, <3>2, Zenon
    <3>4. PICK m \in DOMAIN e : e[m] = x
        BY <3>3, Zenon DEF In
    <3>5. m < n
        BY <1>1, <2>1, <2>4, <3>2, <3>4, Zenon
    <3>6. Len(Q) + m < Len(Q) + n
        BY <1>3, <3>4, <3>5
    <3>. QED
        BY <1>3, <3>4, <3>6, Zenon
  <2>5. ASSUME NEW k \in DOMAIN (Q \o e), (Q \o e)[k] = y
        PROVE  \E j \in DOMAIN (Q \o e) : j < k /\ (Q \o e)[j] = x
    <3>1. CASE k \in DOMAIN Q
        BY <1>3, <2>2, <2>5, <3>1, Zenon
    <3>2. CASE \E n \in DOMAIN e : k = Len(Q) + n
        BY <1>3, <2>3, <2>4, <2>5, <3>2, Zenon
    <3>. QED
        BY <1>3, <3>1, <3>2, Zenon
  <2>. QED
    BY <1>3, <2>2, <2>5, Zenon
<1>. QED
    BY <1>7, <1>8, <1>10, <1>11, Zenon DEF Ordered

\* A list with one more element.
LEMMA AppendFacts ==
    ASSUME NEW S, NEW q \in Seq(S), NEW x \in S
    PROVE  /\ Append(q, x) \in Seq(S) /\ Len(Append(q, x)) = Len(q) + 1 /\ Len(q) \in Nat
           /\ DOMAIN Append(q, x) = DOMAIN q \cup {Len(q) + 1} /\ Len(q) + 1 \notin DOMAIN q
           /\ \A k \in DOMAIN q : Append(q, x)[k] = q[k] /\ k < Len(q) + 1 /\ k \in Nat
           /\ Append(q, x)[Len(q) + 1] = x
    OBVIOUS

\* A longer sequence has the sequences over the places of a shorter one.
LEMMA SeqMonotone ==
    ASSUME NEW S, NEW R, S \subseteq R, NEW q \in Seq(S)
    PROVE  q \in Seq(R)
    OBVIOUS

\* Registering a task whose arguments need nothing that waits in another list.
LEMMA PushKeeps ==
    ASSUME NEW T, NEW L, NEW Q, Ordered(T, L, Q), NEW task \in Task,
           NEW new, new = Len(T) + 1, NEW T1, T1 = Append(T, task),
           NEW i, i = stream_index(task.stream),
           NEW L1, L1 = [L EXCEPT ![i] = Append(L[i], new)],
           \A x \in DOMAIN T : SlotOf(T, x) \in Needs(T1, new) /\ SlotOf(T, x) # i => In(Q, x)
    PROVE  Ordered(T1, L1, Q)
<1>1. T \in Seq(Task) /\ L \in [Slots -> Seq(DOMAIN T)] /\ Q \in Seq(DOMAIN T)
    BY Zenon DEF Ordered, Types
<1>2. /\ T1 \in Seq(Task) /\ DOMAIN T1 = DOMAIN T \cup {new} /\ new \notin DOMAIN T
      /\ \A t \in DOMAIN T : T1[t] = T[t] /\ t < new /\ t \in Nat
      /\ T1[new] = task /\ new \in Nat
  <2>1. /\ Append(T, task) \in Seq(Task) /\ Len(T) \in Nat
        /\ DOMAIN Append(T, task) = DOMAIN T \cup {Len(T) + 1} /\ Len(T) + 1 \notin DOMAIN T
        /\ \A k \in DOMAIN T : Append(T, task)[k] = T[k] /\ k < Len(T) + 1 /\ k \in Nat
        /\ Append(T, task)[Len(T) + 1] = task
    BY <1>1
  <2>2. new \in Nat
    BY <2>1
  <2>. QED
    BY <2>1, <2>2, Zenon
<1>3. \A t \in DOMAIN T : SlotOf(T1, t) = SlotOf(T, t) /\ Needs(T1, t) = Needs(T, t)
    BY <1>2, Zenon DEF SlotOf, Needs
<1>4. SlotOf(T1, new) = i /\ i \in Slots
  <2>1. task.stream \in StreamIds
    BY DEF Task
  <2>. QED
    BY <1>2, <2>1, IndexInSlots, Zenon DEF SlotOf
<1>5. \A h \in Slots : L[h] \in Seq(DOMAIN T) /\ L[h] \in Seq(DOMAIN T1)
  <2>1. DOMAIN T \subseteq DOMAIN T1
    BY <1>2, Zenon
  <2>. QED
    BY <1>1, <2>1, SeqMonotone, Zenon
<1>6. /\ \A h \in Slots : h # i => L1[h] = L[h]
      /\ L1[i] = Append(L[i], new)
    BY <1>1, <1>4, Zenon
<1>7. /\ L1[i] \in Seq(DOMAIN T1) /\ DOMAIN L1[i] = DOMAIN L[i] \cup {Len(L[i]) + 1}
      /\ \A k \in DOMAIN L[i] : L1[i][k] = L[i][k] /\ k < Len(L[i]) + 1 /\ k \in Nat
      /\ L1[i][Len(L[i]) + 1] = new /\ Len(L[i]) \in Nat
  <2>1. L[i] \in Seq(DOMAIN T1) /\ new \in DOMAIN T1
    BY <1>2, <1>4, <1>5, Zenon
  <2>2. PICK q \in Seq(DOMAIN T1) : q = L[i]
    BY <2>1, Zenon
  <2>3. /\ Append(q, new) \in Seq(DOMAIN T1) /\ DOMAIN Append(q, new) = DOMAIN q \cup {Len(q) + 1}
        /\ \A k \in DOMAIN q : Append(q, new)[k] = q[k] /\ k < Len(q) + 1 /\ k \in Nat
        /\ Append(q, new)[Len(q) + 1] = new /\ Len(q) \in Nat
    BY <2>1
  <2>. QED
    BY <1>6, <2>2, <2>3, Zenon
<1>8. Types(T1, L1, Q)
  <2>1. L1 \in [Slots -> Seq(DOMAIN T1)]
    <3>1. L1 = [h \in Slots |-> L1[h]]
        BY <1>1, Zenon
    <3>. QED
        BY <1>4, <1>5, <1>6, <1>7, <3>1, Zenon
  <2>2. Q \in Seq(DOMAIN T1)
    BY <1>1, <1>2, SeqMonotone, Zenon
  <2>. QED
    BY <1>2, <2>1, <2>2, Zenon DEF Types
<1>9. \A h \in Slots : \A k \in DOMAIN L[h] : L[h][k] \in DOMAIN T
    BY <1>5
<1>10. ASSUME NEW h \in Slots, NEW k \in DOMAIN L[h]
       PROVE  SlotOf(T1, L[h][k]) = h /\ L[h][k] < new
  <2>1. SlotOf(T, L[h][k]) = h
    BY Zenon DEF Ordered, Listed
  <2>. QED
    BY <1>2, <1>3, <1>9, <2>1, Zenon
<1>11. Listed(T1, L1)
  <2>1. ASSUME NEW h \in Slots, h # i, NEW k \in DOMAIN L1[h]
        PROVE  /\ SlotOf(T1, L1[h][k]) = h
               /\ \A j \in DOMAIN L1[h] : j < k => L1[h][j] < L1[h][k]
    <3>1. L1[h] = L[h]
        BY <1>6, <2>1, Zenon
    <3>. QED
        BY <1>10, <2>1, <3>1, Zenon DEF Ordered, Listed
  <2>2. ASSUME NEW k \in DOMAIN L1[i]
        PROVE  /\ SlotOf(T1, L1[i][k]) = i
               /\ \A j \in DOMAIN L1[i] : j < k => L1[i][j] < L1[i][k]
    <3>1. CASE k \in DOMAIN L[i]
      <4>1. SlotOf(T1, L1[i][k]) = i
        <5>1. L1[i][k] = L[i][k]
            BY <1>7, <3>1, Zenon
        <5>2. SlotOf(T1, L[i][k]) = i
            BY <1>4, <1>10, <3>1
        <5>. QED
            BY <5>1, <5>2, Zenon
      <4>2. ASSUME NEW j \in DOMAIN L1[i], j < k PROVE L1[i][j] < L1[i][k]
        <5>1. j \in DOMAIN L[i]
            <6>1. k < Len(L[i]) + 1 /\ k \in Nat /\ Len(L[i]) \in Nat
                BY <1>7, <3>1, Zenon
            <6>2. j # Len(L[i]) + 1
                BY <4>2, <6>1
            <6>. QED
                BY <1>7, <6>2, Zenon
        <5>2. L[i][j] < L[i][k]
            BY <1>4, <3>1, <4>2, <5>1, Zenon DEF Ordered, Listed
        <5>. QED
            BY <1>7, <3>1, <5>1, <5>2, Zenon
      <4>. QED
        BY <4>1, <4>2, Zenon
    <3>2. CASE k = Len(L[i]) + 1
      <4>1. L1[i][k] = new
        BY <1>7, <3>2, Zenon
      <4>2. ASSUME NEW j \in DOMAIN L1[i], j < k PROVE L1[i][j] < L1[i][k]
        <5>1. j # Len(L[i]) + 1
            BY <1>7, <3>2, <4>2
        <5>2. j \in DOMAIN L[i]
            BY <1>7, <5>1, Zenon
        <5>. QED
            BY <1>4, <1>7, <1>10, <4>1, <5>2, Zenon
      <4>. QED
        BY <1>4, <4>1, <4>2, Zenon
    <3>. QED
        BY <1>7, <3>1, <3>2, Zenon
  <2>. QED
    BY <2>1, <2>2, Zenon DEF Listed
<1>12. \A t \in DOMAIN T : In(L[SlotOf(T, t)], t) <=> ~In(Q, t)
    BY Zenon DEF Ordered, Placed
<1>13. ~In(Q, new)
  <2>1. \A k \in DOMAIN Q : Q[k] \in DOMAIN T
    BY <1>1
  <2>. QED
    BY <1>2, <2>1, Zenon DEF In
<1>14. Placed(T1, L1, Q)
  <2>1. In(L1[SlotOf(T1, new)], new)
    BY <1>4, <1>7, Zenon DEF In
  <2>2. ASSUME NEW t \in DOMAIN T PROVE In(L1[SlotOf(T, t)], t) <=> In(L[SlotOf(T, t)], t)
    <3>0. t # new
        BY <1>2, Zenon
    <3>1. CASE SlotOf(T, t) = i
        BY <1>7, <3>0, <3>1, Zenon DEF In
    <3>2. CASE SlotOf(T, t) # i
      <4>1. T[t] \in Task
        BY <1>1
      <4>2. T[t].stream \in StreamIds
        BY <4>1 DEF Task
      <4>3. SlotOf(T, t) \in Slots
        BY <4>2, IndexInSlots, Zenon DEF SlotOf
      <4>. QED
        BY <1>6, <3>2, <4>3, Zenon
    <3>. QED
        BY <3>1, <3>2, Zenon
  <2>3. \A t \in DOMAIN T1 : In(L1[SlotOf(T1, t)], t) <=> ~In(Q, t)
    BY <1>2, <1>3, <1>12, <1>13, <2>1, <2>2, Zenon
  <2>4. \A j, k \in DOMAIN Q : Q[j] = Q[k] => j = k
    BY Zenon DEF Ordered, Placed
  <2>. QED
    BY <2>3, <2>4, Zenon DEF Placed
<1>15. Aligned(T1, Q)
  <2>1. SUFFICES ASSUME NEW x \in DOMAIN T1, NEW y \in DOMAIN T1,
                        x < y, SlotOf(T1, x) \in Needs(T1, y)
                 PROVE  /\ \A k \in DOMAIN Q : Q[k] = y => \E j \in DOMAIN Q : j < k /\ Q[j] = x
                        /\ ~In(Q, y) /\ SlotOf(T1, x) # SlotOf(T1, y) => In(Q, x)
    BY Zenon DEF Aligned
  <2>2. x \in DOMAIN T
    <3>1. \A t \in DOMAIN T1 : t <= new
        BY <1>2
    <3>2. x # new
        BY <1>2, <2>1, <3>1
    <3>. QED
        BY <1>2, <3>2, Zenon
  <2>3. CASE y \in DOMAIN T
    BY <1>3, <2>1, <2>2, <2>3, Zenon DEF Ordered, Aligned
  <2>4. CASE y = new
    <3>1. \A k \in DOMAIN Q : Q[k] # y
        BY <1>13, <2>4, Zenon DEF In
    <3>2. SlotOf(T1, x) # SlotOf(T1, y) => In(Q, x)
        BY <1>3, <1>4, <2>1, <2>2, <2>4, Zenon
    <3>. QED
        BY <3>1, <3>2, Zenon
  <2>. QED
    BY <1>2, <2>3, <2>4, Zenon
<1>. QED
    BY <1>8, <1>11, <1>14, <1>15, Zenon DEF Ordered

----------------------------------------------------------------------------
(* The steps.                                                               *)

\* What an execution does to the lists and to the queue.
LEMMA ExecuteKeeps ==
    ASSUME NEW T, NEW L, NEW Q, Ordered(T, L, Q), NEW ids, IsList(ids)
    PROVE  /\ Ordered(T, Emptied(L, ids), Q \o Executed(L, ids))
           /\ Emptied(L, ids) = Without(L, SlotsOf(ids))
<1>1. L \in [Slots -> Seq(DOMAIN T)]
    BY Zenon DEF Ordered, Types
<1>2. /\ Executed(L, ids) \in Seq(DOMAIN T)
      /\ \E at : Sends(Executed(L, ids), at, L, SlotsOf(ids))
    BY <1>1, ExecutedSends, Zenon
<1>3. SlotsOf(ids) \in SUBSET Slots
    BY IndexInSlots, Zenon DEF SlotsOf, IsList
<1>4. Emptied(L, ids) = Without(L, SlotsOf(ids))
  <2>1. \A i : (\E k \in DOMAIN ids : stream_index(ids[k]) = i) <=> i \in SlotsOf(ids)
    BY Zenon DEF SlotsOf
  <2>. QED
    BY <2>1, Zenon DEF Emptied, Without
<1>. QED
    BY <1>2, <1>3, <1>4, FlushKeeps, Zenon

\* The streams that align_streams flushes: those of the slots, other than its own, that the
\* task needs.
LEMMA ToFlushFacts ==
    ASSUME NEW id \in StreamIds, NEW args \in ArgLists, NEW T, NEW y,
           T[y] = [stream |-> id, args |-> args]
    PROVE  /\ IsList(ToFlush(id, args))
           /\ SlotsOf(ToFlush(id, args)) = Needs(T, y) \ {stream_index(id)}
<1>. DEFINE ids == ToFlush(id, args)
<1>1. args \in Seq(Buffers) /\ Owner \in [Buffers -> StreamIds]
    BY SchedulerAssumption, Zenon
<1>2. \A k \in DOMAIN args : Owner[args[k]] \in StreamIds
    BY <1>1
<1>3. DOMAIN args = 1 .. Len(args) /\ Len(args) \in Nat /\ DOMAIN args \subseteq Nat
    BY <1>1
<1>4. IsFiniteSet(DOMAIN args)
    BY <1>3, FS_Interval
<1>5. /\ DOMAIN ids = {k \in DOMAIN args : stream_index(Owner[args[k]]) # stream_index(id)}
      /\ \A k \in DOMAIN ids : ids[k] = Owner[args[k]]
    BY Zenon DEF ToFlush
<1>6. IsFiniteSet(DOMAIN ids)
  <2>1. DOMAIN ids \in SUBSET DOMAIN args
    BY <1>5, Zenon
  <2>. QED
    BY <1>4, <2>1, FS_Subset, Zenon
<1>. HIDE DEF ids
<1>7. IsList(ids)
    BY <1>2, <1>3, <1>5, <1>6, Zenon DEF IsList
<1>8. T[y].stream = id /\ T[y].args = args
    OBVIOUS
<1>9. Needs(T, y) = {stream_index(id)} \cup {stream_index(Owner[args[k]]) : k \in DOMAIN args}
    BY <1>8, Zenon DEF Needs, SlotOf
<1>10. SlotsOf(ids) = Needs(T, y) \ {stream_index(id)}
  <2>1. ASSUME NEW i \in SlotsOf(ids) PROVE i \in Needs(T, y) \ {stream_index(id)}
    <3>1. PICK k \in DOMAIN ids : stream_index(ids[k]) = i
        BY Zenon DEF SlotsOf
    <3>2. k \in DOMAIN args /\ stream_index(Owner[args[k]]) = i /\ i # stream_index(id)
        BY <1>5, <3>1, Zenon
    <3>. QED
        BY <1>9, <3>2, Zenon
  <2>2. ASSUME NEW i \in Needs(T, y) \ {stream_index(id)} PROVE i \in SlotsOf(ids)
    <3>1. PICK k \in DOMAIN args : stream_index(Owner[args[k]]) = i
        BY <1>9, Zenon
    <3>2. k \in DOMAIN ids /\ ids[k] = Owner[args[k]]
        BY <1>5, <3>1, Zenon
    <3>. QED
        BY <3>1, <3>2, Zenon DEF SlotsOf
  <2>. QED
    BY <2>1, <2>2, Zenon
<1>. QED
    BY <1>7, <1>10, Zenon DEF ids

\* A sequence that is one of the lists, sent as it is.
LEMMA WholeListSends ==
    ASSUME NEW S, NEW L, NEW i, L[i] \in Seq(S)
    PROVE  \E at : Sends(L[i], at, L, {i})
<1>1. PICK q \in Seq(S) : q = L[i]
    BY Zenon
<1>2. DOMAIN q \subseteq Nat
    OBVIOUS
<1>. DEFINE at == [n \in DOMAIN q |-> <<i, n>>]
<1>3. ASSUME NEW n \in DOMAIN q
      PROVE  at[n] = <<i, n>> /\ at[n][1] = i /\ at[n][2] = n /\ at[n] \in {i} \X Nat
  <2>1. n \in Nat
    BY <1>2
  <2>. QED
    BY <2>1
<1>4. at \in [DOMAIN q -> {i} \X Nat]
    BY <1>3, Zenon
<1>. HIDE DEF at
<1>5. \A n \in DOMAIN q : at[n][2] \in DOMAIN L[at[n][1]] /\ q[n] = L[at[n][1]][at[n][2]]
    BY <1>1, <1>3, Zenon
<1>6. \A h \in {i} : \A k \in DOMAIN L[h] : \E n \in DOMAIN q : at[n] = <<h, k>>
    BY <1>1, <1>3, Zenon
<1>7. ASSUME NEW m \in DOMAIN q, NEW n \in DOMAIN q
      PROVE  /\ at[m] = at[n] => m = n
             /\ at[m][1] = at[n][1] /\ at[m][2] < at[n][2] => m < n
    BY <1>3
<1>8. Sends(q, at, L, {i})
    BY <1>4, <1>5, <1>6, <1>7, Zenon DEF Sends
<1>. QED
    BY <1>1, <1>8, Zenon

\* register: the invariant is kept, through the alignment, the push and the execution of a
\* list that became full.
LEMMA RegisterKeeps ==
    ASSUME StreamsInv, NEW id \in StreamIds, NEW args \in ArgLists, Register(id, args)
    PROVE  StreamsInv'
<1>. DEFINE F == ToFlush(id, args)
<1>1. PICK task, new, i, T1 : /\ task = [stream |-> id, args |-> args] /\ new = Len(tasks) + 1
                              /\ i = stream_index(id) /\ T1 = Append(tasks, task)
    BY Zenon
<1>2. PICK L1, Q1 : L1 = Emptied(pending, F) /\ Q1 = queue \o Executed(pending, F)
    BY Zenon
<1>3. PICK list : list = Append(L1[i], new)
    BY Zenon
<1>4. /\ tasks' = T1 /\ strategy' = strategy
      /\ \/ Full(list) /\ pending' = [L1 EXCEPT ![i] = <<>>] /\ queue' = Q1 \o list
         \/ ~Full(list) /\ pending' = [L1 EXCEPT ![i] = list] /\ queue' = Q1
    BY <1>1, <1>2, <1>3, Zenon DEF Register
<1>5. Ordered(tasks, pending, queue) /\ strategy \in Strategies /\ \A h \in Slots : Len(pending[h]) < MaxTasks
    BY Zenon DEF StreamsInv
<1>6. tasks \in Seq(Task) /\ task \in Task /\ task.stream = id
  <2>1. tasks \in Seq(Task)
    BY <1>5, Zenon DEF Ordered, Types
  <2>. QED
    BY <1>1, <2>1 DEF Task
<1>7. /\ T1[new] = task /\ \A x \in DOMAIN tasks : T1[x] = tasks[x]
      /\ T1 \in Seq(Task) /\ new \in DOMAIN T1 /\ i \in Slots
  <2>1. /\ T1[new] = task /\ \A x \in DOMAIN tasks : T1[x] = tasks[x]
        /\ T1 \in Seq(Task) /\ new \in DOMAIN T1
    BY <1>1, <1>6
  <2>. QED
    BY <1>1, <2>1, IndexInSlots, Zenon
<1>8. /\ IsList(F) /\ SlotsOf(F) = Needs(T1, new) \ {i}
  <2>1. T1[new] = [stream |-> id, args |-> args]
    BY <1>1, <1>7, Zenon
  <2>2. /\ IsList(ToFlush(id, args))
        /\ SlotsOf(ToFlush(id, args)) = Needs(T1, new) \ {stream_index(id)}
    BY <2>1, ToFlushFacts, Zenon
  <2>. QED
    BY <1>1, <2>2, Zenon
<1>. HIDE DEF F
<1>9. Ordered(tasks, L1, Q1) /\ L1 = Without(pending, SlotsOf(F))
    BY <1>2, <1>5, <1>8, ExecuteKeeps, Zenon
<1>10. \A h \in Slots : L1[h] = IF h \in SlotsOf(F) THEN <<>> ELSE pending[h]
    BY <1>9, Zenon DEF Without
<1>11. ASSUME NEW x \in DOMAIN tasks, SlotOf(tasks, x) \in Needs(T1, new), SlotOf(tasks, x) # i
       PROVE  In(Q1, x)
  <2>1. SlotOf(tasks, x) \in Slots
    <3>1. tasks[x] \in Task
        BY <1>6
    <3>2. tasks[x].stream \in StreamIds
        BY <3>1 DEF Task
    <3>. QED
        BY <3>2, IndexInSlots, Zenon DEF SlotOf
  <2>2. L1[SlotOf(tasks, x)] = <<>>
    BY <1>8, <1>10, <1>11, <2>1, Zenon
  <2>3. DOMAIN << >> = {}
    OBVIOUS
  <2>4. ~In(L1[SlotOf(tasks, x)], x)
    BY <2>2, <2>3, Zenon DEF In
  <2>. QED
    BY <1>9, <2>4, Zenon DEF Ordered, Placed
<1>12. PICK L2 : L2 = [L1 EXCEPT ![i] = list]
    BY Zenon
<1>13. Ordered(T1, L2, Q1)
  <2>1. \A x \in DOMAIN tasks : SlotOf(tasks, x) \in Needs(T1, new) /\ SlotOf(tasks, x) # i => In(Q1, x)
    BY <1>11, Zenon
  <2>2. i = stream_index(task.stream) /\ L2 = [L1 EXCEPT ![i] = Append(L1[i], new)]
    BY <1>1, <1>3, <1>6, <1>12, Zenon
  <2>. QED
    BY <1>1, <1>6, <1>9, <2>1, <2>2, PushKeeps, Zenon
<1>14. /\ L1 \in [Slots -> Seq(DOMAIN tasks)]
       /\ L2 \in [Slots -> Seq(DOMAIN T1)] /\ L2[i] = list /\ list \in Seq(DOMAIN T1)
       /\ \A h \in Slots : h # i => L2[h] = L1[h]
  <2>1. L1 \in [Slots -> Seq(DOMAIN tasks)] /\ L2 \in [Slots -> Seq(DOMAIN T1)]
    BY <1>9, <1>13, Zenon DEF Ordered, Types
  <2>2. L2[i] = list /\ \A h \in Slots : h # i => L2[h] = L1[h]
    BY <1>7, <1>12, <2>1, Zenon
  <2>. QED
    BY <1>7, <2>1, <2>2, Zenon
<1>15. \A h \in Slots : Len(L1[h]) < MaxTasks
  <2>1. Len(<< >>) = 0 /\ 0 < MaxTasks
    BY SchedulerAssumption
  <2>. QED
    BY <1>5, <1>10, <2>1, Zenon
<1>16. CASE Full(list)
  <2>1. pending' = [L1 EXCEPT ![i] = <<>>] /\ queue' = Q1 \o list
    BY <1>4, <1>16, Zenon
  <2>2. pending' = Without(L2, {i})
    <3>1. \A h \in Slots : [L1 EXCEPT ![i] = <<>>][h] = IF h \in {i} THEN <<>> ELSE L2[h]
        BY <1>14, Zenon
    <3>. QED
        BY <1>14, <2>1, <3>1, Zenon DEF Without
  <2>3. \E at : Sends(list, at, L2, {i})
    BY <1>14, WholeListSends, Zenon
  <2>4. {i} \in SUBSET Slots
    BY <1>7, Zenon
  <2>5. Ordered(T1, Without(L2, {i}), Q1 \o list)
    BY <1>13, <1>14, <2>3, <2>4, FlushKeeps, Zenon
  <2>6. \A h \in Slots : Len(pending'[h]) < MaxTasks
    <3>1. Len(<< >>) = 0 /\ 0 < MaxTasks
        BY SchedulerAssumption
    <3>2. \A h \in Slots : pending'[h] = IF h = i THEN <<>> ELSE L1[h]
        BY <1>14, <2>1, Zenon
    <3>. QED
        BY <1>15, <3>1, <3>2, Zenon
  <2>. QED
    BY <1>4, <1>5, <2>1, <2>2, <2>5, <2>6, Zenon DEF StreamsInv
<1>17. CASE ~Full(list)
  <2>1. pending' = L2 /\ queue' = Q1
    BY <1>4, <1>12, <1>17, Zenon
  <2>2. Len(list) < MaxTasks
    <3>1. Len(list) \in Nat
        BY <1>14
    <3>. QED
        BY <1>17, <3>1, SchedulerAssumption DEF Full
  <2>3. \A h \in Slots : Len(pending'[h]) < MaxTasks
    BY <1>14, <1>15, <2>1, <2>2, Zenon
  <2>. QED
    BY <1>4, <1>5, <1>13, <2>1, <2>3, Zenon DEF StreamsInv
<1>. QED
    BY <1>16, <1>17, Zenon

\* A read, a flush or a sync.
LEMMA ExecuteStepKeeps ==
    ASSUME StreamsInv, NEW ids, IsList(ids), Execute(ids)
    PROVE  StreamsInv'
<1>1. /\ queue' = queue \o Executed(pending, ids) /\ pending' = Emptied(pending, ids)
      /\ strategy' = strategy /\ tasks' = tasks
    BY Zenon DEF Execute
<1>2. Ordered(tasks, pending, queue) /\ strategy \in Strategies /\ \A h \in Slots : Len(pending[h]) < MaxTasks
    BY Zenon DEF StreamsInv
<1>3. /\ Ordered(tasks, pending', queue') /\ pending' = Without(pending, SlotsOf(ids))
    BY <1>1, <1>2, ExecuteKeeps, Zenon
<1>4. \A h \in Slots : Len(pending'[h]) < MaxTasks
  <2>1. Len(<< >>) = 0 /\ 0 < MaxTasks
    BY SchedulerAssumption
  <2>2. \A h \in Slots : pending'[h] = IF h \in SlotsOf(ids) THEN <<>> ELSE pending[h]
    BY <1>3, Zenon DEF Without
  <2>. QED
    BY <1>2, <2>1, <2>2, Zenon
<1>. QED
    BY <1>1, <1>2, <1>3, <1>4, Zenon DEF StreamsInv

\* The invariant holds before the first call.
LEMMA InitStreams ==
    Init => StreamsInv
<1>. SUFFICES ASSUME Init PROVE StreamsInv
    OBVIOUS
<1>1. /\ strategy \in Strategies /\ tasks = <<>> /\ queue = <<>>
      /\ pending = [i \in Slots |-> <<>>]
    BY Zenon DEF Init
<1>2. DOMAIN << >> = {} /\ Len(<< >>) = 0 /\ 0 < MaxTasks
    BY SchedulerAssumption
<1>3. << >> \in Seq(Task) /\ << >> \in Seq(DOMAIN tasks)
    OBVIOUS
<1>4. \A i \in Slots : pending[i] = <<>>
    BY <1>1, Zenon
<1>5. Types(tasks, pending, queue)
    BY <1>1, <1>3, Zenon DEF Types
<1>6. Listed(tasks, pending) /\ Placed(tasks, pending, queue) /\ Aligned(tasks, queue)
    BY <1>1, <1>2, <1>4, Zenon DEF Listed, Placed, Aligned
<1>. QED
    BY <1>1, <1>2, <1>4, <1>5, <1>6, Zenon DEF StreamsInv, Ordered

\* Every step of the scheduler keeps the invariant.
LEMMA NextStreams ==
    StreamsInv /\ [Next]_vars => StreamsInv'
<1>. SUFFICES ASSUME StreamsInv, [Next]_vars PROVE StreamsInv'
    OBVIOUS
<1>1. ASSUME NEW id \in StreamIds, NEW args \in ArgLists, Register(id, args) PROVE StreamsInv'
    BY <1>1, RegisterKeeps, Zenon
<1>2. ASSUME NEW id \in StreamIds, Execute(<<id>>) PROVE StreamsInv'
  <2>1. DOMAIN <<id>> = 1 .. 1 /\ <<id>>[1] = id /\ 1 .. 1 \subseteq Nat /\ \A k \in 1 .. 1 : k = 1
    OBVIOUS
  <2>2. IsFiniteSet(1 .. 1)
    <3>1. 1 \in Int
        OBVIOUS
    <3>. QED
        BY <3>1, FS_Interval, Zenon
  <2>3. IsList(<<id>>)
    BY <2>1, <2>2 DEF IsList
  <2>. QED
    BY <1>2, <2>3, ExecuteStepKeeps, Zenon
<1>3. ASSUME NEW id \in StreamIds, NEW other \in StreamIds, Execute(<<id, other>>) PROVE StreamsInv'
  <2>1. /\ DOMAIN <<id, other>> = 1 .. 2 /\ 1 .. 2 \subseteq Nat
        /\ \A k \in 1 .. 2 : <<id, other>>[k] \in StreamIds
    OBVIOUS
  <2>2. IsFiniteSet(1 .. 2)
    <3>1. 1 \in Int /\ 2 \in Int
        OBVIOUS
    <3>. QED
        BY <3>1, FS_Interval, Zenon
  <2>3. IsList(<<id, other>>)
    BY <2>1, <2>2 DEF IsList
  <2>. QED
    BY <1>3, <2>3, ExecuteStepKeeps, Zenon
<1>4. CASE UNCHANGED vars
    BY <1>4, Zenon DEF vars, StreamsInv
<1>. QED
    BY <1>1, <1>2, <1>3, <1>4, Zenon DEF Next

\* Whatever is called, the tasks are listed, sent once and aligned.
THEOREM StreamsInvariant == Spec => []StreamsInv
    BY InitStreams, NextStreams, PTL DEF Spec

----------------------------------------------------------------------------
\* The lists and the compute queue hold registered tasks, and no list is left with as many
\* tasks as SchedulerMultiStreamOptions::max_tasks: register executes one that is full.
THEOREM TypeCorrect == Spec => []TypeOK
<1>1. StreamsInv => TypeOK
    BY Zenon DEF StreamsInv, Ordered, Types, TypeOK, Registered
<1>. QED
    BY <1>1, StreamsInvariant, PTL

\* A registered task waits in the list of its stream or is on the compute queue, and there is
\* one of it, whatever emptied the lists and whichever strategy is used.
THEOREM TasksKept == Spec => []NoTaskLost
<1>1. ASSUME StreamsInv, NEW t \in Registered
      PROVE  Cardinality(Positions(t)) + Cardinality(Waiting(t)) = 1
  <2>1. /\ Types(tasks, pending, queue) /\ Listed(tasks, pending) /\ Placed(tasks, pending, queue)
        /\ t \in DOMAIN tasks /\ \A h \in Slots : Len(pending[h]) < MaxTasks
    BY <1>1, Zenon DEF StreamsInv, Ordered, Registered
  <2>2. /\ tasks \in Seq(Task) /\ \A h \in Slots : pending[h] \in Seq(DOMAIN tasks)
    BY <2>1, Zenon DEF Types
  <2>3. ASSUME NEW p \in Waiting(t)
        PROVE  /\ p = <<p[1], p[2]>> /\ p[1] \in Slots /\ p[2] \in DOMAIN pending[p[1]]
               /\ pending[p[1]][p[2]] = t
    <3>1. /\ p \in Slots \X (1 .. MaxTasks) /\ p[2] <= Len(pending[p[1]])
          /\ pending[p[1]][p[2]] = t
        BY Zenon DEF Waiting
    <3>2. p = <<p[1], p[2]>> /\ p[1] \in Slots /\ p[2] \in 1 .. MaxTasks
        BY <3>1
    <3>3. p[2] \in DOMAIN pending[p[1]]
        BY <2>2, <3>1, <3>2, SchedulerAssumption
    <3>. QED
        BY <3>1, <3>2, <3>3, Zenon
  <2>4. ASSUME NEW p \in Waiting(t), NEW q \in Waiting(t) PROVE p = q
    <3>1. p[1] = SlotOf(tasks, t) /\ q[1] = SlotOf(tasks, t)
        BY <2>1, <2>3 DEF Listed
    <3>2. PICK i \in Slots : i = p[1] /\ i = q[1]
        BY <2>3, <3>1
    <3>3. p[2] \in DOMAIN pending[i] /\ q[2] \in DOMAIN pending[i] /\ pending[i][p[2]] = t /\ pending[i][q[2]] = t
        BY <2>3, <3>2, Zenon
    <3>4. ~(t < t)
        BY <2>1, <2>2
    <3>5. ~(p[2] < q[2]) /\ ~(q[2] < p[2])
        BY <2>1, <3>3, <3>4, Zenon DEF Listed
    <3>6. p[2] \in Nat /\ q[2] \in Nat
        BY <2>2, <3>3
    <3>7. p[2] = q[2]
        BY <3>5, <3>6
    <3>. QED
        BY <2>3, <3>1, <3>7
  <2>5. ASSUME NEW i \in Slots, NEW k \in DOMAIN pending[i], pending[i][k] = t
        PROVE  <<i, k>> \in Waiting(t)
    <3>1. k \in 1 .. MaxTasks /\ k <= Len(pending[i])
        BY <2>1, <2>2, SchedulerAssumption
    <3>. QED
        BY <2>5, <3>1 DEF Waiting
  <2>6. SlotOf(tasks, t) \in Slots
    <3>1. tasks \in Seq(Task) /\ t \in DOMAIN tasks
        BY <2>1, <2>2, Zenon
    <3>2. tasks[t] \in Task
        BY <3>1
    <3>3. tasks[t].stream \in StreamIds
        BY <3>2 DEF Task
    <3>. QED
        BY <3>3, IndexInSlots, Zenon DEF SlotOf
  <2>7. ASSUME NEW S, \A p, q \in S : p = q
        PROVE  Cardinality(S) = IF S = {} THEN 0 ELSE 1
    <3>1. CASE S = {}
        BY <3>1, FS_EmptySet, Zenon
    <3>2. CASE S # {}
      <4>1. PICK p \in S : TRUE
        BY <3>2, Zenon
      <4>2. S = {p}
        BY <2>7, <4>1
      <4>. QED
        BY <3>2, <4>2, FS_Singleton, Zenon
    <3>. QED
        BY <3>1, <3>2, Zenon
  <2>8. \A j, k \in Positions(t) : j = k
    BY <2>1, Zenon DEF Positions, Placed
  <2>9. In(queue, t) <=> Positions(t) # {}
    BY Zenon DEF In, Positions
  <2>10. In(pending[SlotOf(tasks, t)], t) <=> Waiting(t) # {}
    <3>1. ASSUME In(pending[SlotOf(tasks, t)], t) PROVE Waiting(t) # {}
        BY <2>5, <2>6, <3>1, Zenon DEF In
    <3>2. ASSUME NEW p \in Waiting(t) PROVE In(pending[SlotOf(tasks, t)], t)
      <4>1. p[1] = SlotOf(tasks, t)
        BY <2>1, <2>3 DEF Listed
      <4>. QED
        BY <2>3, <4>1 DEF In
    <3>. QED
        BY <3>1, <3>2, Zenon
  <2>11. Positions(t) = {} <=> Waiting(t) # {}
    BY <2>1, <2>9, <2>10, Zenon DEF Placed
  <2>12. /\ Cardinality(Positions(t)) = IF Positions(t) = {} THEN 0 ELSE 1
         /\ Cardinality(Waiting(t)) = IF Waiting(t) = {} THEN 0 ELSE 1
    BY <2>4, <2>7, <2>8, Zenon
  <2>. QED
    BY <2>11, <2>12
<1>2. StreamsInv => NoTaskLost
    BY <1>1, Zenon DEF NoTaskLost
<1>. QED
    BY <1>2, StreamsInvariant, PTL

\* On the compute queue a task is behind every task registered before it on its own slot and
\* on the slots of its arguments: align_streams flushed these, and neither strategy reorders
\* the tasks of a slot.
THEOREM ArgumentsFirst == Spec => []ArgumentsReady
<1>1. ASSUME StreamsInv, NEW x \in Registered, NEW y \in Registered, x < y,
             SlotOf(tasks, x) \in Needs(tasks, y)
      PROVE  Ahead(x, y)
  <2>1. \A k \in DOMAIN queue : queue[k] = y => \E j \in DOMAIN queue : j < k /\ queue[j] = x
    BY <1>1, Zenon DEF StreamsInv, Ordered, Aligned, Registered
  <2>. QED
    BY <2>1, Zenon DEF Ahead, Positions
<1>2. StreamsInv => ArgumentsReady
    BY <1>1, Zenon DEF ArgumentsReady, SlotOf, Needs
<1>. QED
    BY <1>2, StreamsInvariant, PTL
=============================================================================
