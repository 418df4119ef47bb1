------------------------ MODULE DeviceChannelProofs ------------------------
(***************************************************************************)
(* What the two counters of DeviceChannel count, and the theorems.         *)
(***************************************************************************)
EXTENDS DeviceChannelSteps, FiniteSetTheorems

\* The counted sets are finite and their counts are natural numbers.
LEMMA CountsFinite ==
    ASSUME published \subseteq Slot
    PROVE  /\ IsFiniteSet(Submitters) /\ Cardinality(Submitters) \in Nat
           /\ IsFiniteSet(published) /\ Cardinality(published) \in Nat
<1>1. IsFiniteSet(Clients \cup {Runner})
    BY ConstantsAssumption, FS_AddElement, Zenon
<1>2. IsFiniteSet(Submitters)
    BY <1>1, FS_Subset, Zenon DEF Submitters
<1>3. IsFiniteSet(Slot)
  <2>1. 0 \in Int /\ MaxTask - 1 \in Int
    BY ConstantsAssumption
  <2>. QED
    BY <2>1, FS_Interval, Zenon DEF Slot
<1>4. IsFiniteSet(published)
    BY <1>3, FS_Subset, Zenon
<1>. QED
    BY <1>2, <1>4, FS_CardinalityType, Zenon

\* A full count means that every slot is published.
LEMMA FullCount ==
    ASSUME published \subseteq Slot, Cardinality(published) >= MaxTask
    PROVE  published = Slot
<1>1. IsFiniteSet(Slot) /\ Cardinality(Slot) = MaxTask
    BY ConstantsAssumption, FS_Interval DEF Slot
<1>2. Cardinality(published) <= MaxTask /\ Cardinality(published) \in Nat
    BY <1>1, FS_Subset, FS_CardinalityType, Zenon
<1>. QED
    BY <1>1, <1>2, FS_Subset, ConstantsAssumption

LEMMA SubmissionsCount ==
    ASSUME TypeOK, CountInv, SubmittersChange
    PROVE  submissions' = Cardinality(Submitters')
<1>1. IsFiniteSet(Submitters) /\ submissions = Cardinality(Submitters)
    BY CountsFinite, Zenon DEF TypeOK, CountInv
<1>2. CASE SubmittersKept
    BY <1>1, <1>2, Zenon DEF SubmittersKept
<1>3. ASSUME NEW t \in (Clients \cup {Runner}) \ Submitters,
             Submitters' = Submitters \cup {t}, submissions' = submissions + 1
      PROVE  submissions' = Cardinality(Submitters')
    BY <1>1, <1>3, FS_AddElement, Zenon
<1>4. ASSUME NEW t \in Submitters,
             Submitters' = Submitters \ {t}, submissions' = submissions - 1
      PROVE  submissions' = Cardinality(Submitters')
    BY <1>1, <1>4, FS_RemoveElement, Zenon
<1>. QED
    BY <1>2, <1>3, <1>4, Zenon DEF SubmittersChange

LEMMA PublishedCount ==
    ASSUME TypeOK, CountInv, PublishedChange
    PROVE  enqueued' = Cardinality(published')
<1>1. /\ IsFiniteSet(published) /\ Cardinality(published) \in Nat
      /\ enqueued = Cardinality(published)
    BY CountsFinite, Zenon DEF TypeOK, CountInv
<1>2. CASE PublishedKept
    BY <1>1, <1>2, Zenon DEF PublishedKept
<1>3. CASE enqueued' = 0 /\ published' = {}
    BY <1>3, FS_EmptySet, Zenon
<1>4. ASSUME NEW a \in Nat, NEW b \in Nat, a < b,
             published \cap (a .. b - 1) = {},
             published' = published \cup (a .. b - 1),
             enqueued' = enqueued + (b - a)
      PROVE  enqueued' = Cardinality(published')
  <2>1. IsFiniteSet(a .. b - 1) /\ Cardinality(a .. b - 1) = b - a
    <3>1. b - 1 \in Int /\ a \in Int /\ ~(a > b - 1) /\ (b - 1) - a + 1 = b - a
      BY <1>4
    <3>. QED
      BY <3>1, FS_Interval, Zenon
  <2>2. Cardinality(published \cup (a .. b - 1)) =
            Cardinality(published) + Cardinality(a .. b - 1) - Cardinality({})
    <3>. DEFINE D == a .. b - 1
    <3>1. IsFiniteSet(published) /\ IsFiniteSet(D) /\ published \cap D = {}
      BY <1>1, <1>4, <2>1, Zenon
    <3>. HIDE DEF D
    <3>2. Cardinality(published \cup D) = Cardinality(published) + Cardinality(D)
                                             - Cardinality(published \cap D)
      BY <3>1, FS_Union, Zenon
    <3>3. Cardinality(published \cup D) =
              Cardinality(published) + Cardinality(D) - Cardinality({})
      BY <3>1, <3>2, Zenon
    <3>. QED
      BY <3>3, Zenon DEF D
  <2>3. Cardinality({}) = 0
    BY FS_EmptySet, Zenon
  <2>. QED
    BY <1>1, <1>4, <2>1, <2>2, <2>3
<1>. QED
    BY <1>2, <1>3, <1>4, Zenon DEF PublishedChange

----------------------------------------------------------------------------
(* Theorems *)

LEMMA SafetyInit == Init /\ ~Wraps => SafetyInv
<1>. SUFFICES ASSUME Init, ~Wraps PROVE SafetyInv
    OBVIOUS
<1>. USE ConstantsAssumption DEF Init
<1>1. TypeOK
  <2>1. LabelsOK
    BY Zenon DEF LabelsOK, ClientLabels, CloserLabels, RunnerLabels, Threads
  <2>2. slots \in Buffers
    BY Zenon DEF Content, Buffers
  <2>3. /\ op \in Ops
        /\ lo \in Cursors /\ hi \in Cursors
        /\ wr \in Cursors /\ fill \in Fills
        /\ calls \in CallCounts /\ kind \in Calling
        /\ reply \in Replies
        /\ idle \in 0 .. IdleBudget
    BY DEF CallKinds, Ops, Cursors, Fills, CallCounts, Calling, Replies
  <2>4. /\ closed \in BOOLEAN /\ stopping \in BOOLEAN /\ token \in BOOLEAN
        /\ handle \in BOOLEAN /\ ready \in BOOLEAN /\ stopSeen \in BOOLEAN
    BY Zenon
  <2>5. /\ queuePtr \in {0, 1} /\ available \in Nat /\ enqueued \in Nat
        /\ submissions \in Nat /\ published \subseteq Slot
        /\ holder \in Holders
        /\ reserved \in Seq(Task) /\ executed \in Seq(Task)
    BY DEF Holders
  <2>. QED
    BY <2>1, <2>2, <2>3, <2>4, <2>5, Zenon DEF TypeOK
<1>2. Submitters = {}
    BY Zenon DEF Submitters, SubmitLabels, Threads
<1>3. LocalInv
    BY DEF LocalInv, Resetting, Threads
<1>4. \A t \in Threads : ~Holding(t) /\ Held(t) = {}
    BY Zenon DEF Holding, Held
<1>5. SlotInv
    BY <1>4 DEF SlotInv, Threads
<1>7. CountInv
    BY <1>2, FS_EmptySet, Zenon DEF CountInv
<1>6. BufferInv
    BY <1>4 DEF BufferInv, Resetting, Threads
<1>. QED
    BY <1>1, <1>3, <1>5, <1>6, <1>7, Zenon DEF SafetyInv

LEMMA SafetyStep == SafetyInv /\ [Next]_vars => SafetyInv'
<1>. SUFFICES ASSUME SafetyInv, [Next]_vars PROVE SafetyInv'
    OBVIOUS
<1>1. TypeOK /\ CountInv /\ ~Wraps
    BY Zenon DEF SafetyInv
<1>2. BufferComplete => published = Slot
    BY <1>1, FullCount, Zenon DEF BufferComplete, CountInv, TypeOK
<1>3. SlotInv'
    BY <1>2, SlotStep, Zenon
<1>4. CountInv'
    BY <1>1, SubmissionsStep, SubmissionsCount, PublishedStep, PublishedCount, Zenon
    DEF CountInv
<1>5. submissions' \in Nat
  <2>1. CASE SubmittersKept
    BY <1>1, <2>1, Zenon DEF SubmittersKept, TypeOK
  <2>2. ASSUME NEW t \in Submitters, submissions' = submissions - 1
        PROVE  submissions' \in Nat
    <3>1. submissions \in Nat /\ IsFiniteSet(Submitters) /\ submissions # 0
      BY <1>1, CountsFinite, FS_EmptySet, Zenon DEF TypeOK, CountInv
    <3>. QED
      BY <2>2, <3>1
  <2>3. CASE submissions' = submissions + 1
    BY <1>1, <2>3 DEF TypeOK
  <2>. QED
    BY <1>1, <2>1, <2>2, <2>3, SubmissionsStep, Zenon DEF SubmittersChange
<1>. QED
    BY <1>1, <1>3, <1>4, <1>5, TypeStep, LocalStep, BufferStep, ZenonT(40) DEF SafetyInv

\* The inductive invariant holds in every reachable state.
THEOREM SafetyInvariant == ~Wraps /\ Spec => []SafetyInv
    BY SafetyInit, SafetyStep, PTL DEF Spec

\* Type correctness of the channel.
THEOREM TypeCorrect == ~Wraps /\ Spec => []TypeOK
<1>1. SafetyInv => TypeOK
    BY Zenon DEF SafetyInv
<1>. QED
    BY <1>1, SafetyInvariant, PTL

\* fetch swaps the buffers only when no thread is between its fetch_add on
\* available_index and its publish, whatever the number of clients.
THEOREM FetchIsNotTorn == ~Wraps /\ Spec => []NoTornFetch
<1>1. SafetyInv => NoTornFetch
    BY HoldersKeepBuffer, Zenon DEF SafetyInv
<1>. QED
    BY <1>1, SafetyInvariant, PTL

\* init_task_at never overwrites a closure that has not run.
THEOREM NoClosureOverwritten == ~Wraps /\ Spec => []NoOverwrite
<1>1. SafetyInv => NoOverwrite
  <2>. SUFFICES ASSUME SafetyInv, NEW t \in Threads, pc[t] = "write"
                PROVE  slots[queuePtr][wr[t]] = Stale
    BY Zenon DEF NoOverwrite
  <2>1. TypeOK /\ SlotInv /\ BufferInv /\ NoTornFetch
    BY HoldersKeepBuffer, Zenon DEF SafetyInv
  <2>2. wr[t] \in Held(t) /\ wr[t] >= wr[t]
    BY <2>1 DEF SlotInv, TypeOK, Cursors, Held, Holding
  <2>3. ~Resetting
    BY <2>1, Zenon DEF NoTornFetch, Resetting, Holding
  <2>. QED
    BY <2>1, <2>2, <2>3, Zenon DEF BufferInv
<1>. QED
    BY <1>1, SafetyInvariant, PTL

\* execute_tasks never reads a closure out of a slot that holds none.
THEOREM NoClosureRunTwice == ~Wraps /\ Spec => []NoStaleRun
<1>1. SafetyInv => NoStaleRun
    BY ConstantsAssumption
    DEF SafetyInv, LocalInv, BufferInv, NoStaleRun, TypeOK, Cursors,
        Slot, Threads
<1>. QED
    BY <1>1, SafetyInvariant, PTL

----------------------------------------------------------------------------
(* The refinement of TaskQueue *)

\* Nobody is inside a submission once the queue is closed, and the count is full just when
\* every slot is published.
LEMMA CountsSay == SafetyInv /\ GateInv => NobodyInside /\ CountExact
<1>. SUFFICES ASSUME SafetyInv, GateInv PROVE NobodyInside /\ CountExact
    OBVIOUS
<1>1. TypeOK /\ CountInv /\ published \subseteq Slot
    BY Zenon DEF SafetyInv, TypeOK
<1>2. NobodyInside
  <2>. SUFFICES ASSUME QueueClosed PROVE Submitters = {}
    BY Zenon DEF NobodyInside
  <2>1. Cardinality(Submitters) = 0
    BY <1>1, Zenon DEF GateInv, CountInv
  <2>. QED
    BY <1>1, <2>1, CountsFinite, FS_EmptySet, Zenon
<1>3. BufferComplete => published = Slot
    BY <1>1, FullCount, Zenon DEF BufferComplete, CountInv
<1>4. published = Slot => BufferComplete
  <2>1. Cardinality(Slot) = MaxTask
    BY ConstantsAssumption, FS_Interval DEF Slot
  <2>. QED
    BY <1>1, <2>1, ConstantsAssumption DEF BufferComplete, CountInv
<1>. QED
    BY <1>2, <1>3, <1>4, Zenon DEF CountExact

LEMMA RefinementInit == Init /\ ~Wraps => RefinementInv
<1>. SUFFICES ASSUME Init, ~Wraps PROVE RefinementInv
    OBVIOUS
<1>1. SafetyInv
    BY SafetyInit, Zenon
<1>2. \A t \in Threads : pc[t] = (IF t = Runner THEN "top" ELSE "idle") /\ ~Holding(t)
    BY Zenon DEF Init, Holding
<1>3. pc[Runner] = "top" /\ \A k \in Closers : pc[k] = "idle"
    BY <1>2, ConstantsAssumption, Zenon DEF Threads
<1>4. OrderInv
  <2>1. fill[0] = 0 /\ fill[1] = 0 /\ queuePtr = 0 /\ 1 - queuePtr = 1
    BY DEF Init
  <2>2. Len(reserved) = 0 /\ Len(executed) = 0 /\ available = 0 /\ ~ready
    BY Zenon DEF Init
  <2>3. OldFirst = 0 /\ Progress = 0
    BY <2>1, <2>2 DEF OldFirst, First, Progress
  <2>4. OrderCounts
    BY <2>1, <2>2, <2>3, ConstantsAssumption DEF OrderCounts
  <2>5. \A i \in Slot : slots[queuePtr][i] = Stale
    BY <2>1, Zenon DEF Init
  <2>. QED
    BY <1>2, <2>2, <2>4, <2>5 DEF OrderInv
<1>5. CoverInv
    BY ConstantsAssumption DEF Init, CoverInv, Slot
<1>6. GateInv
    BY <1>3, Zenon DEF Init, GateInv, GateClosers, GateStop, GateFlushed, QueueClosed, Ended,
                ClosingLabels
<1>. QED
    BY <1>1, <1>4, <1>5, <1>6, Zenon DEF RefinementInv

LEMMA RefinementStep == RefinementInv /\ [Next]_vars => RefinementInv'
<1>. SUFFICES ASSUME RefinementInv, [Next]_vars PROVE RefinementInv'
    OBVIOUS
<1>1. SafetyInv /\ GateInv
    BY Zenon DEF RefinementInv
<1>2. NobodyInside /\ CountExact
    BY <1>1, CountsSay, Zenon
<1>3. SafetyInv'
    BY <1>1, SafetyStep, Zenon
<1>4. OrderInv' /\ CoverInv'
    BY OrderStep, CoverStep, Zenon
<1>5. GateInv'
    BY <1>2, GateStep, ZenonT(40)
<1>. QED
    BY <1>3, <1>4, <1>5, Zenon DEF RefinementInv

\* The strengthened invariant of the refinement holds in every reachable state.
THEOREM RefinementInvariant == ~Wraps /\ Spec => []RefinementInv
    BY RefinementInit, RefinementStep, PTL DEF Spec

\* When the runner leaves its loop every accepted task has run and nobody is inside enqueue
\* or flush, whatever calls were in flight when shutdown began.
THEOREM ShutdownDrains == ~Wraps /\ Spec => []DrainedBeforeExit
<1>1. RefinementInv => DrainedBeforeExit
  <2>. SUFFICES ASSUME RefinementInv, Ended
                PROVE  /\ executed = reserved
                       /\ submissions = 0
                       /\ \A c \in Clients : pc[c] \notin {"reserve", "write", "publish"}
    BY Zenon DEF DrainedBeforeExit, Ended
  <2>1. SafetyInv /\ OrderInv /\ GateInv
    BY Zenon DEF RefinementInv
  <2>2. executed = reserved
    BY <2>1, EndedAllRun, Zenon DEF AllRun
  <2>3. QueueClosed /\ submissions = 0
    BY <2>1, Zenon DEF GateInv, QueueClosed
  <2>4. Submitters = {}
    BY <2>1, <2>3, CountsSay, Zenon DEF NobodyInside
  <2>. QED
    BY <2>2, <2>3, <2>4, Zenon DEF Submitters, SubmitLabels
<1>. QED
    BY <1>1, RefinementInvariant, PTL

\* The closure of a blocking call never outlives the stack it borrows: until it has run, its
\* caller is inside the same call of run_scoped.
THEOREM BorrowedStacksLive == ~Wraps /\ Spec => []BorrowedStackAlive
<1>1. Init => BorrowInv
  <2>. SUFFICES ASSUME Init PROVE BorrowInv
    OBVIOUS
  <2>1. Unrun = {} /\ \A c \in Clients : reply[c] = "none"
    BY DEF Init, Unrun
  <2>. QED
    BY <2>1, Zenon DEF BorrowInv
<1>2. RefinementInv /\ BorrowInv => BorrowedStackAlive
  <2>. SUFFICES ASSUME RefinementInv, BorrowInv, NEW i \in Unrun, reserved[i].scoped
                PROVE  /\ calls[reserved[i].from] = reserved[i].n
                       /\ pc[reserved[i].from] \notin {"idle", "panicked"}
    BY Zenon DEF BorrowedStackAlive, Unrun
  <2>1. PICK c \in Clients : reserved[i].from = c
    BY UnrunTask, Zenon DEF RefinementInv, SafetyInv
  <2>2. Blocked(c) /\ calls[c] = reserved[i].n
    BY <2>1, Zenon DEF BorrowInv
  <2>. QED
    BY <2>1, <2>2, Zenon DEF Blocked, SentLabels
<1>. QED
    BY <1>1, <1>2, BorrowStep, RefinementInvariant, PTL DEF Spec

\* The channel implements the abstract queue: enqueue accepts, execute_tasks runs the oldest
\* task, shutdown closes, and the loop of the runner ends with every accepted task run.
THEOREM ChannelImplementsTaskQueue == ~Wraps /\ Spec => ImplementsTaskQueue
<1>1. Init => Queue!Init
  <2>. SUFFICES ASSUME Init PROVE Queue!Init
    OBVIOUS
  <2>1. pc[Runner] = "top" /\ \A k \in Closers : pc[k] = "idle"
    BY ConstantsAssumption, Zenon DEF Init, Threads
  <2>2. ~QueueClosed
    BY <2>1, Zenon DEF Init, QueueClosed
  <2>. QED
    BY <2>1, <2>2 DEF Init, Queue!Init
<1>2. RefinementInv => GateInv /\ AllRun
    BY EndedAllRun, Zenon DEF RefinementInv
<1>3. RefinementInv /\ [Next]_vars /\ (GateInv /\ AllRun)' => [Queue!Next]_(Queue!vars)
  <2>1. RefinementInv => NobodyInside
    BY CountsSay, Zenon DEF RefinementInv
  <2>. QED
    BY <2>1, QueueStep, Zenon
<1>. QED
    BY <1>1, <1>2, <1>3, RefinementInvariant, PTL DEF Spec, ImplementsTaskQueue, Queue!Spec

=============================================================================
