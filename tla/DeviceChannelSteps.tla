------------------------- MODULE DeviceChannelSteps ------------------------
(***************************************************************************)
(* The steps of DeviceChannel by what they do: which of them touch the     *)
(* buffers, where each thread goes, who enters and leaves a submission.    *)
(* Every step keeps the type invariant, the local facts about threads, the *)
(* slots of the client buffer partitioned into published ones and ones     *)
(* held by one thread, and the contents of the two buffers as SafetyInv    *)
(* describes them, for any number of clients and closers, any buffer size  *)
(* and any number of calls.                                                *)
(*                                                                         *)
(* The tasks in the two buffers are in the order of their reservation, no  *)
(* slot is forgotten, and the callers of the tasks that borrow their       *)
(* stacks are blocked: every step preserves OrderInv, CoverInv and         *)
(* BorrowInv.  A shutdown finds no task behind: every step preserves       *)
(* GateInv, and is a step of TaskQueue or leaves it alone.                 *)
(***************************************************************************)
EXTENDS DeviceChannelInv, DeviceChannelOrderInv, TLAPS

LEMMA AfterOpLabel ==
    ASSUME NEW t \in Threads
    PROVE  /\ t \in Clients => AfterOp(t) \in {"begin", "await", "idle"}
           /\ t \in Closers => AfterOp(t) = "stop"
           /\ t = Runner => AfterOp(t) = "top"
    BY ConstantsAssumption, Zenon DEF AfterOp, Threads

LEMMA CursorUpdate ==
    ASSUME NEW f \in Cursors, NEW t \in Threads, NEW v \in 0 .. MaxTask
    PROVE  [f EXCEPT ![t] = v] \in Cursors
    BY Zenon DEF Cursors

LEMMA IndexAddType ==
    ASSUME ~Wraps, available \in Nat, NEW k \in Nat
    PROVE  /\ IndexAdd(k) \in Nat /\ IndexAdd(k) <= MaxTask
           /\ available <= MaxTask => available <= IndexAdd(k)
           /\ available + k <= MaxTask => IndexAdd(k) = available + k
           /\ available + k >= MaxTask => IndexAdd(k) = MaxTask
    BY ConstantsAssumption DEF IndexAdd

\* NoTornFetch, from the counting argument: when all slots are published, or the index is
\* not yet reset, no thread holds a slot.
LEMMA HoldersKeepBuffer == TypeOK /\ SlotInv => NoTornFetch
<1>. SUFFICES ASSUME TypeOK, SlotInv, NEW t \in Threads, Holding(t),
                     pc[Runner] \in {"fetch", "resetCount", "resetIndex"}
              PROVE  FALSE
    BY Zenon DEF NoTornFetch
<1>1. lo[t] \in Held(t) /\ lo[t] \in Slot
    BY ConstantsAssumption DEF SlotInv, TypeOK, Held, Slot, Cursors
<1>. QED
    BY <1>1, Zenon DEF SlotInv

----------------------------------------------------------------------------
(* Steps that leave the buffers alone *)

\* A step is quiet when it leaves the buffers, their counters and the histories alone, and
\* every thread that is writing or publishing where it is.
bufferVars == <<slots, queuePtr, available, enqueued, published, ready, lo, hi, wr,
                reserved, executed, fill>>
Quiet ==
    /\ UNCHANGED bufferVars
    /\ \A t \in Threads : Holding(t)' <=> Holding(t)
    /\ \A t \in Threads : Holding(t) =>
          /\ pc'[t] = pc[t] /\ op'[t] = op[t]
          /\ op[t] = "enqueue" => CurrentTask(t)' = CurrentTask(t)
    /\ pc'[Runner] = "resetCount" <=> pc[Runner] = "resetCount"
    /\ pc'[Runner] = "resetIndex" <=> pc[Runner] = "resetIndex"
    /\ pc'[Runner] = "fetch" => pc[Runner] = "fetch" \/ BufferComplete

\* The steps that are not.
BufferMove ==
    \/ \E c \in Clients : Reserve(c)
    \/ \E t \in Threads : FlushReserve(t) \/ Write(t) \/ Publish(t)
    \/ RunnerExec \/ RunnerFetch \/ RunnerResetCount \/ RunnerResetIndex

\* A step is quiet when one thread, which is neither writing nor publishing, goes on to a
\* label at which it is not either.
LEMMA QuietMove ==
    ASSUME TypeOK, LocalInv, NEW t \in Threads, NEW l,
           pc[t] \notin {"write", "publish", "resetCount", "resetIndex"},
           l \notin {"write", "publish", "resetCount", "resetIndex"},
           l = "fetch" => BufferComplete,
           pc' = [pc EXCEPT ![t] = l], UNCHANGED bufferVars,
           \A u \in Threads \ {t} : op'[u] = op[u],
           \A u \in Clients \ {t} : calls'[u] = calls[u] /\ kind'[u] = kind[u]
    PROVE  Quiet
<1>1. pc'[t] = l /\ \A u \in Threads \ {t} : pc'[u] = pc[u]
    BY Zenon DEF TypeOK, LabelsOK
<1>2. \A u \in Threads : Holding(u)' <=> Holding(u)
    BY <1>1, Zenon DEF Holding
<1>3. ASSUME NEW u \in Threads, Holding(u)
      PROVE  /\ pc'[u] = pc[u] /\ op'[u] = op[u]
             /\ op[u] = "enqueue" => CurrentTask(u)' = CurrentTask(u)
  <2>1. u # t /\ pc'[u] = pc[u] /\ op'[u] = op[u]
    BY <1>1, <1>3, Zenon DEF Holding
  <2>2. op[u] = "enqueue" => u \in Clients
    BY Zenon DEF LocalInv
  <2>. QED
    BY <2>1, <2>2, Zenon DEF CurrentTask
<1>4. /\ pc'[Runner] = "resetCount" <=> pc[Runner] = "resetCount"
      /\ pc'[Runner] = "resetIndex" <=> pc[Runner] = "resetIndex"
      /\ pc'[Runner] = "fetch" => pc[Runner] = "fetch" \/ BufferComplete
    BY <1>1, Zenon DEF Threads
<1>. QED
    BY <1>2, <1>3, <1>4, Zenon DEF Quiet

\* Every step is quiet or one of these moves.
LEMMA QuietSteps ==
    TypeOK /\ LocalInv /\ SlotInv /\ ~Wraps /\ [Next]_vars => Quiet \/ BufferMove
<1>. SUFFICES ASSUME TypeOK, LocalInv, SlotInv, ~Wraps, [Next]_vars, ~BufferMove PROVE Quiet
    OBVIOUS
<1>a. Clients \subseteq Threads /\ Closers \subseteq Threads /\ Runner \in Threads
    BY Zenon DEF Threads
<1>b. /\ op \in [Threads -> {"enqueue", "flush"}] /\ calls \in [Clients -> 0 .. MaxCalls]
      /\ kind \in [Clients -> CallKinds] /\ available \in Nat /\ available <= MaxTask
    BY Zenon DEF TypeOK, Ops, CallCounts, Calling, SlotInv
<1>c. \A t \in Threads : AfterOp(t) \in {"begin", "await", "idle", "stop", "top"}
    BY AfterOpLabel, Zenon DEF Threads
<1>. USE <1>a DEF Goto, shared, ranges, server, caller, history, bufferVars
<1>1. CASE UNCHANGED vars
    BY <1>1, Zenon DEF vars, Quiet, Holding, CurrentTask
<1>2. ASSUME NEW c \in Clients, NEW k \in Kinds, Call(c, k) PROVE Quiet
    BY <1>2, <1>b, QuietMove, Zenon DEF Call
<1>3. ASSUME NEW c \in Clients, ReserveRetry(c) PROVE Quiet
  <2>1. available' = available
    BY <1>3, <1>b, IndexAddType, ConstantsAssumption DEF ReserveRetry
  <2>. QED
    BY <1>3, <2>1, Zenon DEF ReserveRetry, Quiet, Holding, CurrentTask
<1>4. ASSUME NEW c \in Clients, Await(c) PROVE Quiet
    BY <1>4, QuietMove, Zenon DEF Await
<1>5. ASSUME NEW t \in Threads, Begin(t) PROVE Quiet
    BY <1>5, QuietMove, Zenon DEF Begin
<1>6. ASSUME NEW t \in Threads, BeginClosed(t) PROVE Quiet
    BY <1>6, <1>c, QuietMove, Zenon DEF BeginClosed
<1>7. ASSUME NEW t \in Threads, FlushFull(t) PROVE Quiet
  <2>1. available' = available
    BY <1>7, <1>b, IndexAddType, ConstantsAssumption DEF FlushFull
  <2>. QED
    BY <1>7, <2>1, QuietMove, Zenon DEF FlushFull
<1>8. ASSUME NEW t \in Threads, Wake(t) PROVE Quiet
    BY <1>8, QuietMove, Zenon DEF Wake
<1>9. ASSUME NEW t \in Threads, Release(t) PROVE Quiet
    BY <1>9, <1>b, <1>c, QuietMove, Zenon DEF Release
<1>10. ASSUME NEW k \in Closers, ShutdownLock(k) PROVE Quiet
    BY <1>10, QuietMove, Zenon DEF ShutdownLock
<1>11. ASSUME NEW k \in Closers, ShutdownPoisoned(k) PROVE Quiet
    BY <1>11, QuietMove, Zenon DEF ShutdownPoisoned
<1>12. ASSUME NEW k \in Closers, ShutdownClose(k) PROVE Quiet
    BY <1>12, QuietMove, Zenon DEF ShutdownClose
<1>13. ASSUME NEW k \in Closers, ShutdownDrained(k) PROVE Quiet
    BY <1>13, QuietMove, Zenon DEF ShutdownDrained
<1>14. ASSUME NEW k \in Closers, ShutdownStop(k) PROVE Quiet
    BY <1>14, QuietMove, Zenon DEF ShutdownStop
<1>15. ASSUME NEW k \in Closers, ShutdownWake(k) PROVE Quiet
    BY <1>15, QuietMove, Zenon DEF ShutdownWake
<1>16. ASSUME NEW k \in Closers, ShutdownJoin(k) PROVE Quiet
    BY <1>16, QuietMove, Zenon DEF ShutdownJoin
<1>17. CASE RunnerLoadStop
    BY <1>17, QuietMove, Zenon DEF RunnerLoadStop
<1>18. CASE RunnerLoadSize
    BY <1>18, QuietMove, Zenon DEF RunnerLoadSize
<1>19. CASE RunnerLoadIndex
    BY <1>19, QuietMove, Zenon DEF RunnerLoadIndex
<1>20. CASE RunnerSpin
    BY <1>20, QuietMove, Zenon DEF RunnerSpin
<1>21. CASE RunnerPark
    BY <1>21, QuietMove, Zenon DEF RunnerPark
<1>22. CASE RunnerUnpark
    BY <1>22, QuietMove, Zenon DEF RunnerUnpark
<1>23. CASE RunnerExit
    BY <1>23, QuietMove, Zenon DEF RunnerExit
<1>24. CASE RunnerSpuriousWake
    BY <1>24, QuietMove, Zenon DEF RunnerSpuriousWake
<1>. QED
    BY <1>1, <1>2, <1>3, <1>4, <1>5, <1>6, <1>7, <1>8, <1>9, <1>10, <1>11, <1>12, <1>13,
       <1>14, <1>15, <1>16, <1>17, <1>18, <1>19, <1>20, <1>21, <1>22, <1>23, <1>24, Zenon
    DEF Next, ClientStep, ChannelStep, CloserStep, RunnerStep, BufferMove

----------------------------------------------------------------------------
(* Reservations *)

\* Thread t reserves the slots from available_index up to its new value.
Takes(t) ==
    /\ pc[t] = "reserve" /\ available < MaxTask
    /\ available' \in Nat /\ available < available' /\ available' <= MaxTask
    /\ op[t] = "enqueue" => available' = available + 1
    /\ pc' = [pc EXCEPT ![t] = "write"]
    /\ lo' = [lo EXCEPT ![t] = available] /\ hi' = [hi EXCEPT ![t] = available']
    /\ wr' = [wr EXCEPT ![t] = available]
    /\ UNCHANGED <<slots, queuePtr, enqueued, published, op, ready>>

\* Both enqueue and flush reserve that way.
LEMMA ReserveTakes ==
    ASSUME TypeOK, ~Wraps, NEW t \in Threads, (t \in Clients /\ Reserve(t)) \/ FlushReserve(t)
    PROVE  Takes(t)
<1>1. available \in Nat /\ MaxTask \in Nat \ {0}
    BY ConstantsAssumption, Zenon DEF TypeOK
<1>2. CASE Reserve(t)
  <2>1. available < MaxTask /\ available' = IndexAdd(1)
    BY <1>2, Zenon DEF Reserve
  <2>2. available' = available + 1 /\ available' \in Nat /\ available' <= MaxTask
    BY <1>1, <2>1, IndexAddType
  <2>3. available < available'
    BY <1>1, <2>2
  <2>. QED
    BY <1>2, <2>2, <2>3, Zenon DEF Reserve, Takes, Goto, server
<1>3. CASE FlushReserve(t)
  <2>1. available < MaxTask /\ available' = IndexAdd(MaxTask)
    BY <1>3, Zenon DEF FlushReserve
  <2>2. available' = MaxTask /\ available' \in Nat /\ available' <= MaxTask
    BY <1>1, <2>1, IndexAddType
  <2>3. available < available' /\ op[t] # "enqueue"
    BY <1>3, <2>1, <2>2, Zenon DEF FlushReserve
  <2>. QED
    BY <1>3, <2>2, <2>3, Zenon DEF FlushReserve, Takes, Goto, server
<1>. QED
    BY <1>2, <1>3, Zenon

\* What a reservation does to the slots that threads hold.
LEMMA TakesHeld ==
    ASSUME TypeOK, SlotInv, NEW t \in Threads, Takes(t)
    PROVE  /\ Holding(t)' /\ pc'[t] = "write" /\ ~Holding(t)
           /\ lo'[t] = available /\ wr'[t] = available /\ hi'[t] = available'
           /\ Held(t)' = available .. available' - 1
           /\ \A u \in Threads \ {t} :
                 /\ lo'[u] = lo[u] /\ hi'[u] = hi[u] /\ wr'[u] = wr[u] /\ pc'[u] = pc[u]
                 /\ Holding(u)' <=> Holding(u)
                 /\ Held(u)' = Held(u)
           /\ pc[Runner] \notin {"fetch", "resetCount", "resetIndex"}
           /\ pc'[Runner] \notin {"fetch", "resetCount", "resetIndex"}
<1>1. /\ pc'[t] = "write" /\ lo'[t] = available /\ wr'[t] = available /\ hi'[t] = available'
      /\ \A u \in Threads \ {t} :
            lo'[u] = lo[u] /\ hi'[u] = hi[u] /\ wr'[u] = wr[u] /\ pc'[u] = pc[u]
    BY Zenon DEF Takes, TypeOK, LabelsOK, Cursors
<1>2. ~Holding(t) /\ Holding(t)' /\ Held(t)' = available .. available' - 1
    BY <1>1, Zenon DEF Takes, Holding, Held
<1>3. \A u \in Threads \ {t} : (Holding(u)' <=> Holding(u)) /\ Held(u)' = Held(u)
    BY <1>1, Zenon DEF Holding, Held
<1>4. pc[Runner] \notin {"fetch", "resetCount", "resetIndex"}
  <2>1. available \in Nat /\ available < MaxTask /\ MaxTask \in Nat
    BY ConstantsAssumption, Zenon DEF Takes, TypeOK
  <2>2. MaxTask - 1 \in Slot /\ ~(MaxTask - 1 < available)
    BY <2>1 DEF Slot
  <2>. QED
    BY <2>1, <2>2 DEF SlotInv
<1>5. pc'[Runner] \notin {"fetch", "resetCount", "resetIndex"}
    BY <1>1, <1>4, Zenon DEF Threads
<1>. QED
    BY <1>1, <1>2, <1>3, <1>4, <1>5, Zenon

----------------------------------------------------------------------------
(* Labels *)

\* A step keeps the labels right when it takes one thread to a label of its kind.
LEMMA LabelsMove ==
    ASSUME LabelsOK, NEW t \in Threads, NEW l, pc' = [pc EXCEPT ![t] = l],
           t \in Clients => l \in ClientLabels,
           t \in Closers => l \in CloserLabels,
           t = Runner => l \in RunnerLabels
    PROVE  LabelsOK'
<1>1. l \in ClientLabels \cup CloserLabels \cup RunnerLabels
    BY Zenon DEF Threads
<1>2. pc' \in [Threads -> ClientLabels \cup CloserLabels \cup RunnerLabels]
    BY <1>1, Zenon DEF LabelsOK
<1>3. pc'[t] = l /\ \A u \in Threads \ {t} : pc'[u] = pc[u]
    BY Zenon DEF LabelsOK
<1>. QED
    BY <1>2, <1>3, Zenon DEF LabelsOK, Threads

LEMMA LabelsStep == TypeOK /\ LocalInv /\ [Next]_vars => LabelsOK'
<1>. SUFFICES ASSUME TypeOK, LocalInv, [Next]_vars PROVE LabelsOK'
    OBVIOUS
<1>a. LabelsOK /\ Runner \notin Clients \cup Closers /\ Clients \cap Closers = {}
    BY ConstantsAssumption, Zenon DEF TypeOK
<1>b. Clients \subseteq Threads /\ Closers \subseteq Threads /\ Runner \in Threads
    BY Zenon DEF Threads
<1>. USE <1>a, <1>b DEF Goto, ClientLabels, CloserLabels, RunnerLabels
<1>1. CASE UNCHANGED vars
    BY <1>1, Zenon DEF vars, LabelsOK
<1>2. ASSUME NEW c \in Clients, NEW k \in Kinds, Call(c, k) PROVE LabelsOK'
    BY <1>2, LabelsMove, Zenon DEF Call
<1>3. ASSUME NEW c \in Clients, ReserveRetry(c) PROVE LabelsOK'
    BY <1>3, Zenon DEF ReserveRetry, LabelsOK
<1>4. ASSUME NEW c \in Clients, Reserve(c) PROVE LabelsOK'
    BY <1>4, LabelsMove, Zenon DEF Reserve
<1>5. ASSUME NEW c \in Clients, Await(c) PROVE LabelsOK'
    BY <1>5, LabelsMove, Zenon DEF Await
<1>6. ASSUME NEW t \in Threads, Begin(t) PROVE LabelsOK'
  <2>1. t \notin Closers
    BY <1>6, Zenon DEF Begin, LabelsOK
  <2>. QED
    BY <1>6, <2>1, LabelsMove, Zenon DEF Begin
<1>7. ASSUME NEW t \in Threads, BeginClosed(t) PROVE LabelsOK'
  <2>1. t \notin Closers /\ (t = Runner => op[t] = "flush")
    BY <1>7, Zenon DEF BeginClosed, LabelsOK, LocalInv, TypeOK, Ops
  <2>. QED
    BY <1>7, <2>1, AfterOpLabel, LabelsMove, Zenon DEF BeginClosed
<1>8. ASSUME NEW t \in Threads, FlushFull(t) PROVE LabelsOK'
    BY <1>8, LabelsMove, Zenon DEF FlushFull
<1>9. ASSUME NEW t \in Threads, FlushReserve(t) PROVE LabelsOK'
    BY <1>9, LabelsMove, Zenon DEF FlushReserve
<1>10. ASSUME NEW t \in Threads, Write(t) PROVE LabelsOK'
    BY <1>10, LabelsMove, Zenon DEF Write
<1>11. ASSUME NEW t \in Threads, Publish(t) PROVE LabelsOK'
    BY <1>11, LabelsMove, Zenon DEF Publish
<1>12. ASSUME NEW t \in Threads, Wake(t) PROVE LabelsOK'
    BY <1>12, LabelsMove, Zenon DEF Wake
<1>13. ASSUME NEW t \in Threads, Release(t) PROVE LabelsOK'
    BY <1>13, AfterOpLabel, LabelsMove, Zenon DEF Release
<1>14. ASSUME NEW k \in Closers, ShutdownLock(k) PROVE LabelsOK'
    BY <1>14, LabelsMove, Zenon DEF ShutdownLock
<1>15. ASSUME NEW k \in Closers, ShutdownPoisoned(k) PROVE LabelsOK'
    BY <1>15, LabelsMove, Zenon DEF ShutdownPoisoned
<1>16. ASSUME NEW k \in Closers, ShutdownClose(k) PROVE LabelsOK'
    BY <1>16, LabelsMove, Zenon DEF ShutdownClose
<1>17. ASSUME NEW k \in Closers, ShutdownDrained(k) PROVE LabelsOK'
    BY <1>17, LabelsMove, Zenon DEF ShutdownDrained
<1>18. ASSUME NEW k \in Closers, ShutdownStop(k) PROVE LabelsOK'
    BY <1>18, LabelsMove, Zenon DEF ShutdownStop
<1>19. ASSUME NEW k \in Closers, ShutdownWake(k) PROVE LabelsOK'
    BY <1>19, LabelsMove, Zenon DEF ShutdownWake
<1>20. ASSUME NEW k \in Closers, ShutdownJoin(k) PROVE LabelsOK'
    BY <1>20, LabelsMove, Zenon DEF ShutdownJoin
<1>21. CASE RunnerExec
    BY <1>21, Zenon DEF RunnerExec, LabelsOK
<1>22. CASE RunnerLoadStop
    BY <1>22, LabelsMove, Zenon DEF RunnerLoadStop
<1>23. CASE RunnerLoadSize
    BY <1>23, LabelsMove, Zenon DEF RunnerLoadSize
<1>24. CASE RunnerLoadIndex
    BY <1>24, LabelsMove, Zenon DEF RunnerLoadIndex
<1>25. CASE RunnerSpin
    BY <1>25, LabelsMove, Zenon DEF RunnerSpin
<1>26. CASE RunnerPark
    BY <1>26, LabelsMove, Zenon DEF RunnerPark
<1>27. CASE RunnerUnpark
    BY <1>27, LabelsMove, Zenon DEF RunnerUnpark
<1>28. CASE RunnerFetch
    BY <1>28, LabelsMove, Zenon DEF RunnerFetch
<1>29. CASE RunnerResetCount
    BY <1>29, LabelsMove, Zenon DEF RunnerResetCount
<1>30. CASE RunnerResetIndex
    BY <1>30, LabelsMove, Zenon DEF RunnerResetIndex
<1>31. CASE RunnerExit
    BY <1>31, LabelsMove, Zenon DEF RunnerExit
<1>32. CASE RunnerSpuriousWake
    BY <1>32, LabelsMove, Zenon DEF RunnerSpuriousWake
<1>. QED
    BY <1>1, <1>2, <1>3, <1>4, <1>5, <1>6, <1>7, <1>8, <1>9, <1>10, <1>11, <1>12, <1>13,
       <1>14, <1>15, <1>16, <1>17, <1>18, <1>19, <1>20, <1>21, <1>22, <1>23, <1>24, <1>25,
       <1>26, <1>27, <1>28, <1>29, <1>30, <1>31, <1>32, Zenon
    DEF Next, ClientStep, ChannelStep, CloserStep, RunnerStep

LEMMA TypeStep ==
    SafetyInv /\ [Next]_vars /\ submissions' \in Nat => TypeOK'
<1>. SUFFICES ASSUME SafetyInv, [Next]_vars, submissions' \in Nat PROVE TypeOK'
    OBVIOUS
<1>. USE ConstantsAssumption
<1>a. TypeOK /\ LabelsOK' /\ ~Wraps
    BY LabelsStep, Zenon DEF SafetyInv, TypeOK
<1>. USE <1>a DEF Goto, shared, gate, join, ranges, server, caller, history
<1>1. CASE UNCHANGED vars
    BY <1>1, Zenon DEF vars, TypeOK
<1>2. ASSUME NEW c \in Clients, NEW k \in Kinds, Call(c, k) PROVE TypeOK'
  <2>1. calls' \in CallCounts /\ kind' \in Calling
    BY <1>2 DEF Call, TypeOK, CallCounts, Calling
  <2>2. op' \in Ops
    BY <1>2, Zenon DEF Call, TypeOK, Ops, Threads
  <2>. QED
    BY <1>2, <2>1, <2>2, Zenon DEF Call, TypeOK
<1>3. ASSUME NEW c \in Clients, ReserveRetry(c) PROVE TypeOK'
  <2>1. available' \in Nat
    BY <1>3, IndexAddType, Zenon DEF ReserveRetry, TypeOK
  <2>. QED
    BY <1>3, <2>1, Zenon DEF ReserveRetry, TypeOK
<1>4. ASSUME NEW c \in Clients, Reserve(c) PROVE TypeOK'
  <2>1. available' \in Nat
    BY <1>4, IndexAddType, Zenon DEF Reserve, TypeOK
  <2>2. /\ available \in 0 .. MaxTask /\ available + 1 \in 0 .. MaxTask
        /\ lo \in Cursors /\ hi \in Cursors /\ wr \in Cursors
    BY <1>4 DEF Reserve, TypeOK
  <2>3. c \in Threads
    BY Zenon DEF Threads
  <2>4. /\ lo' = [lo EXCEPT ![c] = available]
        /\ hi' = [hi EXCEPT ![c] = available + 1]
        /\ wr' = [wr EXCEPT ![c] = available]
    BY <1>4, Zenon DEF Reserve
  <2>5. lo' \in Cursors /\ hi' \in Cursors /\ wr' \in Cursors
    BY <2>2, <2>3, <2>4, CursorUpdate, Zenon DEF Cursors
  <2>6. CurrentTask(c) \in Task
    BY <1>4 DEF CurrentTask, Task, Reserve, TypeOK, LocalInv,
       SafetyInv, CallCounts
  <2>7. reserved' \in Seq(Task)
    BY <1>4, <2>6 DEF Reserve, TypeOK
  <2>8. fill' \in Fills
    BY <1>4 DEF Reserve, TypeOK, SafetyInv, Fills
  <2>. QED
    BY <1>4, <2>1, <2>2, <2>3, <2>4, <2>5, <2>6, <2>7, <2>8, Zenon
    DEF Reserve, TypeOK
<1>5. ASSUME NEW c \in Clients, Await(c) PROVE TypeOK'
  <2>1. reply' \in Replies
    BY <1>5, Zenon DEF Await, TypeOK, Replies
  <2>. QED
    BY <1>5, <2>1, Zenon DEF Await, TypeOK
<1>6. ASSUME NEW t \in Threads, Begin(t) PROVE TypeOK'
    BY <1>6, Zenon DEF Begin, TypeOK
<1>7. ASSUME NEW t \in Threads, BeginClosed(t) PROVE TypeOK'
    BY <1>7, Zenon DEF BeginClosed, TypeOK
<1>8. ASSUME NEW t \in Threads, FlushFull(t) PROVE TypeOK'
  <2>1. available' \in Nat
    BY <1>8, IndexAddType, Zenon DEF FlushFull, TypeOK
  <2>. QED
    BY <1>8, <2>1, Zenon DEF FlushFull, TypeOK
<1>9. ASSUME NEW t \in Threads, FlushReserve(t) PROVE TypeOK'
  <2>1. available' \in Nat
    BY <1>9, IndexAddType, Zenon DEF FlushReserve, TypeOK
  <2>2. lo' \in Cursors /\ hi' \in Cursors /\ wr' \in Cursors
    BY <1>9 DEF FlushReserve, TypeOK, Cursors
  <2>. QED
    BY <1>9, <2>1, <2>2, Zenon DEF FlushReserve, TypeOK
<1>10. ASSUME NEW t \in Threads, Write(t) PROVE TypeOK'
  <2>1. wr[t] \in Slot /\ wr[t] + 1 <= MaxTask
    BY <1>10 DEF Write, TypeOK, SafetyInv, SlotInv, Holding, Slot, Cursors
  <2>2. op[t] = "enqueue" => CurrentTask(t) \in Task
    BY <1>10 DEF CurrentTask, Task, Write, TypeOK, LocalInv,
       SafetyInv, CallCounts
  <2>3. slots' \in Buffers
    BY <1>10, <2>1, <2>2, Zenon DEF Write, TypeOK, Content, Buffers
  <2>4. wr' \in Cursors
    BY <1>10, <2>1 DEF Write, TypeOK, Cursors
  <2>. QED
    BY <1>10, <2>1, <2>2, <2>3, <2>4, Zenon DEF Write, TypeOK
<1>11. ASSUME NEW t \in Threads, Publish(t) PROVE TypeOK'
  <2>1. lo' \in Cursors /\ hi' \in Cursors /\ wr' \in Cursors
    BY <1>11 DEF Publish, TypeOK, Cursors
  <2>2. /\ lo[t] \in Nat /\ hi[t] \in Nat
        /\ lo[t] < hi[t] /\ hi[t] <= MaxTask
    BY <1>11 DEF Publish, TypeOK, SafetyInv, SlotInv, Holding, Cursors
  <2>3. lo[t] .. hi[t] - 1 \subseteq Slot
    BY <1>11, <2>2 DEF Slot
  <2>4. enqueued' \in Nat
    BY <1>11, <2>2 DEF Publish, TypeOK, Added
  <2>5. published' \subseteq Slot
    BY <1>11, <2>3, Zenon DEF Publish, TypeOK
  <2>. QED
    BY <1>11, <2>1, <2>2, <2>3, <2>4, <2>5, Zenon DEF Publish, TypeOK
<1>12. ASSUME NEW t \in Threads, Wake(t) PROVE TypeOK'
    BY <1>12, Zenon DEF Wake, TypeOK
<1>13. ASSUME NEW t \in Threads, Release(t) PROVE TypeOK'
  <2>1. op' \in Ops
    BY <1>13, Zenon DEF Release, TypeOK, Ops
  <2>. QED
    BY <1>13, <2>1, Zenon DEF Release, TypeOK
<1>14. ASSUME NEW k \in Closers, ShutdownLock(k) PROVE TypeOK'
    BY <1>14, Zenon DEF ShutdownLock, TypeOK, Holders
<1>15. ASSUME NEW k \in Closers, ShutdownPoisoned(k) PROVE TypeOK'
    BY <1>15, Zenon DEF ShutdownPoisoned, TypeOK
<1>16. ASSUME NEW k \in Closers, ShutdownClose(k) PROVE TypeOK'
    BY <1>16, Zenon DEF ShutdownClose, TypeOK
<1>17. ASSUME NEW k \in Closers, ShutdownDrained(k) PROVE TypeOK'
    BY <1>17, Zenon DEF ShutdownDrained, TypeOK
<1>18. ASSUME NEW k \in Closers, ShutdownStop(k) PROVE TypeOK'
    BY <1>18, Zenon DEF ShutdownStop, TypeOK
<1>19. ASSUME NEW k \in Closers, ShutdownWake(k) PROVE TypeOK'
    BY <1>19, Zenon DEF ShutdownWake, TypeOK
<1>20. ASSUME NEW k \in Closers, ShutdownJoin(k) PROVE TypeOK'
    BY <1>20, ZenonT(40) DEF ShutdownJoin, TypeOK, Holders
<1>21. CASE RunnerExec
  <2>. DEFINE b == 1 - queuePtr
              i == wr[Runner]
              x == slots[b][i]
  <2>1. b \in {0, 1} /\ i \in Slot /\ x \in Content
    BY <1>21 DEF RunnerExec, TypeOK, SafetyInv, LocalInv, Slot,
       Threads, Buffers, Cursors
  <2>2. /\ slots' = [slots EXCEPT ![b][i] = Stale]
        /\ \/ x \in Task /\ executed' = Append(executed, x)
           \/ executed' = executed
        /\ token' \in {token, TRUE, FALSE}
        /\ \/ reply' = reply
           \/ x \in Task /\ \E r \in {"ok", "err"} :
                  reply' = [reply EXCEPT ![x.from] = r]
        /\ ready' \in {ready, FALSE} /\ idle' \in {idle, 0}
        /\ wr' = [wr EXCEPT ![Runner] = 0] \/ wr' = [wr EXCEPT ![Runner] = i + 1]
        /\ fill' = fill \/ fill' = [fill EXCEPT ![b] = 0]
    BY <1>21, Zenon DEF RunnerExec
  <2>. HIDE DEF b, i, x
  <2>3. slots' \in Buffers
    BY <2>1, <2>2, Zenon DEF TypeOK, Content, Buffers
  <2>4. executed' \in Seq(Task)
    <3>1. executed \in Seq(Task)
      BY Zenon DEF TypeOK
    <3>. QED
      BY <2>2, <3>1, SMTT(20)
  <2>8. fill' \in Fills
    BY <2>1, <2>2 DEF TypeOK, Fills
  <2>5. reply' \in Replies
    BY <2>2, Zenon DEF TypeOK, Task, Replies
  <2>6. token' \in BOOLEAN /\ ready' \in BOOLEAN
    BY <2>2, Zenon DEF TypeOK
  <2>7. idle' \in 0 .. IdleBudget /\ wr' \in Cursors
    <3>1. i + 1 \in 0 .. MaxTask /\ 0 \in 0 .. MaxTask /\ Runner \in Threads
      BY <2>1 DEF Slot, Threads
    <3>2. wr' \in Cursors
      BY <2>2, <3>1, CursorUpdate, SMTT(20) DEF TypeOK
    <3>. QED
      BY <2>2, <3>2 DEF TypeOK
  <2>. QED
    BY <1>21, <2>3, <2>4, <2>5, <2>6, <2>7, <2>8, Zenon
    DEF RunnerExec, TypeOK, gate, join, caller
<1>22. CASE RunnerLoadStop
    BY <1>22, Zenon DEF RunnerLoadStop, TypeOK
<1>23. CASE RunnerLoadSize
    BY <1>23, Zenon DEF RunnerLoadSize, TypeOK
<1>24. CASE RunnerLoadIndex
    BY <1>24, Zenon DEF RunnerLoadIndex, TypeOK
<1>25. CASE RunnerSpin
  <2>1. idle' \in 0 .. IdleBudget
    BY <1>25 DEF RunnerSpin, BudgetLeft, TypeOK
  <2>. QED
    BY <1>25, <2>1, Zenon DEF RunnerSpin, TypeOK
<1>26. CASE RunnerPark
    BY <1>26, Zenon DEF RunnerPark, TypeOK
<1>27. CASE RunnerUnpark
    BY <1>27, Zenon DEF RunnerUnpark, TypeOK
<1>28. CASE RunnerFetch
  <2>1. queuePtr' \in {0, 1}
    BY <1>28 DEF RunnerFetch, TypeOK
  <2>2. ready' \in BOOLEAN /\ idle' \in 0 .. IdleBudget
    BY <1>28 DEF RunnerFetch, TypeOK
  <2>. QED
    BY <1>28, <2>1, <2>2, Zenon DEF RunnerFetch, TypeOK
<1>29. CASE RunnerResetCount
    BY <1>29, Zenon DEF RunnerResetCount, TypeOK
<1>30. CASE RunnerResetIndex
    BY <1>30, Zenon DEF RunnerResetIndex, TypeOK
<1>31. CASE RunnerExit
    BY <1>31, Zenon DEF RunnerExit, TypeOK
<1>32. CASE RunnerSpuriousWake
    BY <1>32, Zenon DEF RunnerSpuriousWake, TypeOK
<1>. QED
    BY <1>1, <1>2, <1>3, <1>4, <1>5, <1>6, <1>7, <1>8, <1>9, <1>10, <1>11,
       <1>12, <1>13, <1>14, <1>15, <1>16, <1>17, <1>18, <1>19, <1>20, <1>21,
       <1>22, <1>23, <1>24, <1>25, <1>26, <1>27, <1>28, <1>29, <1>30, <1>31,
       <1>32, Zenon
    DEF Next, ClientStep, ChannelStep, CloserStep, RunnerStep

\* A step keeps the local facts when one thread goes on and the runner, if it is that
\* thread, is neither at the buffer it took nor writing.
LEMMA LocalMove ==
    ASSUME TypeOK, LocalInv, NEW t \in Threads, NEW l,
           pc' = [pc EXCEPT ![t] = l], UNCHANGED <<ready, calls>>,
           wr'[Runner] = wr[Runner],
           \A u \in Threads : op'[u] = "enqueue" => op[u] = "enqueue",
           t \in Clients => pc[t] # "idle",
           t = Runner => /\ ~ready
                         /\ pc[t] \notin {"write", "publish", "resetCount", "resetIndex"}
                         /\ l \notin {"resetCount", "resetIndex"}
    PROVE  LocalInv'
<1>1. pc'[t] = l /\ \A u \in Threads \ {t} : pc'[u] = pc[u]
    BY Zenon DEF TypeOK, LabelsOK
<1>2. Clients \subseteq Threads /\ Runner \in Threads
    BY Zenon DEF Threads
<1>3. \A c \in Clients : pc'[c] # "idle" => calls'[c] >= 1
    BY <1>1, <1>2, Zenon DEF LocalInv
<1>4. CASE t # Runner
    BY <1>1, <1>2, <1>3, <1>4, Zenon DEF LocalInv, Resetting, Holding
<1>5. CASE t = Runner
  <2>1. wr[Runner] = 0 /\ ~Resetting' /\ 0 < MaxTask
    BY <1>1, <1>5, ConstantsAssumption, Zenon DEF LocalInv, Resetting, Holding
  <2>. QED
    BY <1>3, <1>5, <2>1, Zenon DEF LocalInv
<1>. QED
    BY <1>4, <1>5, Zenon

\* The local facts about threads are preserved.
LEMMA LocalStep == SafetyInv /\ [Next]_vars => LocalInv'
<1>. SUFFICES ASSUME SafetyInv, [Next]_vars PROVE LocalInv'
    OBVIOUS
<1>a. TypeOK /\ LocalInv
    BY Zenon DEF SafetyInv
<1>b. Clients \subseteq Threads /\ Closers \subseteq Threads /\ Runner \in Threads
    BY Zenon DEF Threads
<1>c. Runner \notin Clients \cup Closers /\ Clients \cap Closers = {}
    BY ConstantsAssumption, Zenon
<1>d. ready => pc[Runner] \in {"top", "resetCount", "resetIndex"}
    BY <1>a, Zenon DEF LocalInv
<1>. USE <1>a, <1>b, <1>c DEF Goto, shared, ranges, server, caller
<1>1. CASE UNCHANGED vars
    BY <1>1, Zenon DEF vars, LocalInv, Resetting, Holding
<1>2. ASSUME NEW c \in Clients, NEW k \in Kinds, Call(c, k) PROVE LocalInv'
  <2>1. c # Runner /\ pc'[Runner] = pc[Runner]
    BY <1>2, Zenon DEF Call, TypeOK, LabelsOK, Threads
  <2>2. \A t \in Threads : op'[t] = "enqueue" => t \in Clients
    BY <1>2 DEF Call, LocalInv, TypeOK
  <2>3. \A d \in Clients : pc'[d] # "idle" => calls'[d] >= 1
    BY <1>2 DEF Call, LocalInv, TypeOK, LabelsOK, Threads, CallCounts
  <2>. QED
    BY <1>2, <2>1, <2>2, <2>3, Zenon DEF Call, LocalInv, Resetting, Holding
<1>3. ASSUME NEW c \in Clients, ReserveRetry(c) PROVE LocalInv'
    BY <1>3, Zenon DEF ReserveRetry, LocalInv, Resetting, Holding
<1>4. ASSUME NEW c \in Clients, Reserve(c) PROVE LocalInv'
  <2>1. wr'[Runner] = wr[Runner]
    BY <1>4, Zenon DEF Reserve, TypeOK, Cursors
  <2>. QED
    BY <1>4, <2>1, LocalMove, Zenon DEF Reserve
<1>5. ASSUME NEW c \in Clients, Await(c) PROVE LocalInv'
    BY <1>5, <1>d, LocalMove, Zenon DEF Await
<1>6. ASSUME NEW t \in Threads, Begin(t) PROVE LocalInv'
    BY <1>6, <1>d, LocalMove, Zenon DEF Begin
<1>7. ASSUME NEW t \in Threads, BeginClosed(t) PROVE LocalInv'
  <2>1. AfterOp(t) \notin {"resetCount", "resetIndex"}
    BY AfterOpLabel, Zenon DEF Threads
  <2>. QED
    BY <1>7, <1>d, <2>1, LocalMove, Zenon DEF BeginClosed
<1>8. ASSUME NEW t \in Threads, FlushFull(t) PROVE LocalInv'
    BY <1>8, <1>d, LocalMove, Zenon DEF FlushFull
<1>9. ASSUME NEW t \in Threads, FlushReserve(t) PROVE LocalInv'
    BY <1>9, ConstantsAssumption
    DEF FlushReserve, TypeOK, LabelsOK, Threads, LocalInv, Resetting, Holding
<1>10. ASSUME NEW t \in Threads, Write(t) PROVE LocalInv'
  <2>1. wr[t] + 1 < MaxTask \/ wr[t] + 1 = hi[t]
    BY <1>10, ConstantsAssumption, SMTT(20) DEF Write, TypeOK, SafetyInv, SlotInv, Holding, Cursors
  <2>. QED
    BY <1>10, ConstantsAssumption, <2>1
    DEF Write, LocalInv, TypeOK, LabelsOK, Threads, Resetting, Holding
<1>11. ASSUME NEW t \in Threads, Publish(t) PROVE LocalInv'
    BY <1>11, ConstantsAssumption
    DEF Publish, TypeOK, LabelsOK, Threads, LocalInv, Resetting, Holding, Cursors
<1>12. ASSUME NEW t \in Threads, Wake(t) PROVE LocalInv'
    BY <1>12, <1>d, LocalMove, Zenon DEF Wake
<1>13. ASSUME NEW t \in Threads, Release(t) PROVE LocalInv'
  <2>1. AfterOp(t) \notin {"resetCount", "resetIndex"}
    BY AfterOpLabel, Zenon DEF Threads
  <2>2. \A u \in Threads : op'[u] = "enqueue" => op[u] = "enqueue"
    BY <1>13, Zenon DEF Release, TypeOK, Ops
  <2>. QED
    BY <1>13, <1>d, <2>1, <2>2, LocalMove, Zenon DEF Release
<1>14. ASSUME NEW k \in Closers, ShutdownLock(k) PROVE LocalInv'
    BY <1>14, <1>d, LocalMove, Zenon DEF ShutdownLock
<1>15. ASSUME NEW k \in Closers, ShutdownPoisoned(k) PROVE LocalInv'
    BY <1>15, <1>d, LocalMove, Zenon DEF ShutdownPoisoned
<1>16. ASSUME NEW k \in Closers, ShutdownClose(k) PROVE LocalInv'
    BY <1>16, <1>d, LocalMove, Zenon DEF ShutdownClose
<1>17. ASSUME NEW k \in Closers, ShutdownDrained(k) PROVE LocalInv'
    BY <1>17, <1>d, LocalMove, Zenon DEF ShutdownDrained
<1>18. ASSUME NEW k \in Closers, ShutdownStop(k) PROVE LocalInv'
    BY <1>18, <1>d, LocalMove, Zenon DEF ShutdownStop
<1>19. ASSUME NEW k \in Closers, ShutdownWake(k) PROVE LocalInv'
    BY <1>19, <1>d, LocalMove, Zenon DEF ShutdownWake
<1>20. ASSUME NEW k \in Closers, ShutdownJoin(k) PROVE LocalInv'
    BY <1>20, <1>d, LocalMove, Zenon DEF ShutdownJoin
<1>21. CASE RunnerExec
  <2>1. /\ UNCHANGED <<pc, op, calls>> /\ pc[Runner] = "top" /\ ready
        /\ \/ ready' = FALSE /\ wr' = [wr EXCEPT ![Runner] = 0]
           \/ /\ ready' = ready /\ wr[Runner] + 1 # MaxTask
              /\ wr' = [wr EXCEPT ![Runner] = wr[Runner] + 1]
    BY <1>21, Zenon DEF RunnerExec, LastTask
  <2>2. wr[Runner] \in 0 .. MaxTask /\ wr[Runner] < MaxTask
    BY <2>1, Zenon DEF LocalInv, TypeOK, Threads, Cursors
  <2>5. \/ wr'[Runner] = 0
        \/ wr'[Runner] = wr[Runner] + 1 /\ wr[Runner] + 1 # MaxTask
    BY <2>1, Zenon DEF TypeOK, Threads, Cursors
  <2>3. wr'[Runner] < MaxTask
    BY <2>2, <2>5, ConstantsAssumption
  <2>4. ~ready' => wr'[Runner] = 0
    BY <2>1, Zenon DEF TypeOK, Threads, Cursors
  <2>. QED
    BY <2>1, <2>3, <2>4, Zenon DEF LocalInv, Resetting, Holding
<1>22. CASE RunnerLoadStop
    BY <1>22, <1>d, LocalMove, Zenon DEF RunnerLoadStop
<1>23. CASE RunnerLoadSize
    BY <1>23, <1>d, LocalMove, Zenon DEF RunnerLoadSize
<1>24. CASE RunnerLoadIndex
    BY <1>24, <1>d, LocalMove, Zenon DEF RunnerLoadIndex
<1>25. CASE RunnerSpin
    BY <1>25, <1>d, LocalMove, Zenon DEF RunnerSpin
<1>26. CASE RunnerPark
    BY <1>26, <1>d, LocalMove, Zenon DEF RunnerPark
<1>27. CASE RunnerUnpark
    BY <1>27, <1>d, LocalMove, Zenon DEF RunnerUnpark
<1>28. CASE RunnerFetch
    BY <1>28, ConstantsAssumption, Zenon
    DEF RunnerFetch, TypeOK, LabelsOK, Threads, LocalInv, Resetting, Holding
<1>29. CASE RunnerResetCount
    BY <1>29, ConstantsAssumption, Zenon
    DEF RunnerResetCount, TypeOK, LabelsOK, Threads, LocalInv, Resetting,
       Holding
<1>30. CASE RunnerResetIndex
    BY <1>30, ConstantsAssumption, Zenon
    DEF RunnerResetIndex, TypeOK, LabelsOK, Threads, LocalInv, Resetting,
       Holding
<1>31. CASE RunnerExit
    BY <1>31, <1>d, LocalMove, Zenon DEF RunnerExit
<1>32. CASE RunnerSpuriousWake
    BY <1>32, <1>d, LocalMove, Zenon DEF RunnerSpuriousWake
<1>. QED
    BY <1>1, <1>2, <1>3, <1>4, <1>5, <1>6, <1>7, <1>8, <1>9, <1>10, <1>11, <1>12, <1>13,
       <1>14, <1>15, <1>16, <1>17, <1>18, <1>19, <1>20, <1>21, <1>22, <1>23, <1>24, <1>25,
       <1>26, <1>27, <1>28, <1>29, <1>30, <1>31, <1>32, Zenon
    DEF Next, ClientStep, ChannelStep, CloserStep, RunnerStep

----------------------------------------------------------------------------
(* Submissions *)

\* How a step changes the set of submitting threads and their number.
SubmittersKept == submissions' = submissions /\ Submitters' = Submitters
SubmittersChange ==
    \/ SubmittersKept
    \/ \E t \in (Clients \cup {Runner}) \ Submitters :
          Submitters' = Submitters \cup {t} /\ submissions' = submissions + 1
    \/ \E t \in Submitters :
          Submitters' = Submitters \ {t} /\ submissions' = submissions - 1

\* Nobody enters or leaves a submission in a step that takes a thread from one label to
\* another and counts nothing.
LEMMA SubmittersMove ==
    ASSUME TypeOK, NEW t \in Threads, NEW l, pc' = [pc EXCEPT ![t] = l],
           t \in Closers \/ (pc[t] \in SubmitLabels <=> l \in SubmitLabels),
           submissions' = submissions
    PROVE  SubmittersKept
<1>1. \A u \in Clients \cup {Runner} : pc'[u] \in SubmitLabels <=> pc[u] \in SubmitLabels
    BY ConstantsAssumption, Zenon DEF TypeOK, LabelsOK, Threads
<1>. QED
    BY <1>1, Zenon DEF SubmittersKept, Submitters

\* submissions changes by one with the threads between begin_submission and the drop of
\* their Submission.
LEMMA SubmissionsStep == TypeOK /\ [Next]_vars => SubmittersChange
<1>. SUFFICES ASSUME TypeOK, [Next]_vars, ~SubmittersKept PROVE SubmittersChange
    BY Zenon DEF SubmittersChange
<1>a. Clients \subseteq Threads /\ Closers \subseteq Threads /\ Runner \in Threads
    BY Zenon DEF Threads
<1>b. \A t \in Threads : AfterOp(t) \in {"begin", "await", "idle", "stop", "top"}
    BY AfterOpLabel, Zenon DEF Threads
<1>. USE <1>a DEF Goto, gate, SubmitLabels
<1>1. CASE UNCHANGED vars
    BY <1>1, Zenon DEF vars, SubmittersKept, Submitters
<1>2. ASSUME NEW c \in Clients, NEW k \in Kinds, Call(c, k) PROVE SubmittersChange
    BY <1>2, SubmittersMove, Zenon DEF Call
<1>3. ASSUME NEW c \in Clients, ReserveRetry(c) PROVE SubmittersChange
    BY <1>3, Zenon DEF ReserveRetry, SubmittersKept, Submitters
<1>4. ASSUME NEW c \in Clients, Reserve(c) PROVE SubmittersChange
    BY <1>4, SubmittersMove, Zenon DEF Reserve
<1>5. ASSUME NEW c \in Clients, Await(c) PROVE SubmittersChange
    BY <1>5, SubmittersMove, Zenon DEF Await
<1>6. ASSUME NEW t \in Threads, Begin(t) PROVE SubmittersChange
  <2>1. t \in (Clients \cup {Runner}) \ Submitters
    BY <1>6, Zenon DEF Begin, Submitters, TypeOK, LabelsOK, CloserLabels, Threads
  <2>2. Submitters' = Submitters \cup {t}
    BY <1>6, <2>1, Zenon DEF Begin, Submitters, TypeOK, LabelsOK, Threads
  <2>. QED
    BY <1>6, <2>1, <2>2, Zenon DEF Begin, SubmittersChange
<1>7. ASSUME NEW t \in Threads, BeginClosed(t) PROVE SubmittersChange
    BY <1>7, <1>b, SubmittersMove, Zenon DEF BeginClosed
<1>8. ASSUME NEW t \in Threads, FlushFull(t) PROVE SubmittersChange
    BY <1>8, SubmittersMove, Zenon DEF FlushFull
<1>9. ASSUME NEW t \in Threads, FlushReserve(t) PROVE SubmittersChange
    BY <1>9, SubmittersMove, Zenon DEF FlushReserve
<1>10. ASSUME NEW t \in Threads, Write(t) PROVE SubmittersChange
    BY <1>10, SubmittersMove, Zenon DEF Write
<1>11. ASSUME NEW t \in Threads, Publish(t) PROVE SubmittersChange
    BY <1>11, SubmittersMove, Zenon DEF Publish
<1>12. ASSUME NEW t \in Threads, Wake(t) PROVE SubmittersChange
    BY <1>12, SubmittersMove, Zenon DEF Wake
<1>13. ASSUME NEW t \in Threads, Release(t) PROVE SubmittersChange
  <2>1. t \in Submitters
    BY <1>13, Zenon DEF Release, Submitters, TypeOK, LabelsOK, CloserLabels, Threads
  <2>2. Submitters' = Submitters \ {t}
    BY <1>13, <2>1, <1>b, Zenon DEF Release, Submitters, TypeOK, LabelsOK, Threads
  <2>. QED
    BY <1>13, <2>1, <2>2, Zenon DEF Release, SubmittersChange
<1>14. ASSUME NEW k \in Closers, ShutdownLock(k) PROVE SubmittersChange
    BY <1>14, SubmittersMove, Zenon DEF ShutdownLock
<1>15. ASSUME NEW k \in Closers, ShutdownPoisoned(k) PROVE SubmittersChange
    BY <1>15, SubmittersMove, Zenon DEF ShutdownPoisoned
<1>16. ASSUME NEW k \in Closers, ShutdownClose(k) PROVE SubmittersChange
    BY <1>16, SubmittersMove, Zenon DEF ShutdownClose
<1>17. ASSUME NEW k \in Closers, ShutdownDrained(k) PROVE SubmittersChange
    BY <1>17, SubmittersMove, Zenon DEF ShutdownDrained
<1>18. ASSUME NEW k \in Closers, ShutdownStop(k) PROVE SubmittersChange
    BY <1>18, SubmittersMove, Zenon DEF ShutdownStop
<1>19. ASSUME NEW k \in Closers, ShutdownWake(k) PROVE SubmittersChange
    BY <1>19, SubmittersMove, Zenon DEF ShutdownWake
<1>20. ASSUME NEW k \in Closers, ShutdownJoin(k) PROVE SubmittersChange
    BY <1>20, SubmittersMove, Zenon DEF ShutdownJoin
<1>21. CASE RunnerExec
    BY <1>21, Zenon DEF RunnerExec, SubmittersKept, Submitters
<1>22. CASE RunnerLoadStop
    BY <1>22, SubmittersMove, Zenon DEF RunnerLoadStop
<1>23. CASE RunnerLoadSize
    BY <1>23, SubmittersMove, Zenon DEF RunnerLoadSize
<1>24. CASE RunnerLoadIndex
    BY <1>24, SubmittersMove, Zenon DEF RunnerLoadIndex
<1>25. CASE RunnerSpin
    BY <1>25, SubmittersMove, Zenon DEF RunnerSpin
<1>26. CASE RunnerPark
    BY <1>26, SubmittersMove, Zenon DEF RunnerPark
<1>27. CASE RunnerUnpark
    BY <1>27, SubmittersMove, Zenon DEF RunnerUnpark
<1>28. CASE RunnerFetch
    BY <1>28, SubmittersMove, Zenon DEF RunnerFetch
<1>29. CASE RunnerResetCount
    BY <1>29, SubmittersMove, Zenon DEF RunnerResetCount
<1>30. CASE RunnerResetIndex
    BY <1>30, SubmittersMove, Zenon DEF RunnerResetIndex
<1>31. CASE RunnerExit
    BY <1>31, SubmittersMove, Zenon DEF RunnerExit
<1>32. CASE RunnerSpuriousWake
    BY <1>32, SubmittersMove, Zenon DEF RunnerSpuriousWake
<1>. QED
    BY <1>1, <1>2, <1>3, <1>4, <1>5, <1>6, <1>7, <1>8, <1>9, <1>10, <1>11, <1>12, <1>13,
       <1>14, <1>15, <1>16, <1>17, <1>18, <1>19, <1>20, <1>21, <1>22, <1>23, <1>24, <1>25,
       <1>26, <1>27, <1>28, <1>29, <1>30, <1>31, <1>32, Zenon
    DEF Next, ClientStep, ChannelStep, CloserStep, RunnerStep

----------------------------------------------------------------------------
(* The slots *)

\* SlotInv is preserved by a quiet step.
LEMMA SlotQuiet ==
    ASSUME SlotInv, Quiet, BufferComplete => published = Slot
    PROVE  SlotInv'
<1>1. \A t \in Threads : Held(t)' = Held(t)
    BY Zenon DEF Held, Quiet, bufferVars
<1>2. UNCHANGED <<available, published, lo, hi, wr>>
    BY Zenon DEF Quiet, bufferVars
<1>3. /\ pc'[Runner] \in {"fetch", "resetCount"} => published = Slot
      /\ pc'[Runner] = "resetIndex" => pc[Runner] = "resetIndex"
    BY Zenon DEF Quiet, SlotInv
<1>4. \A t \in Threads : Holding(t)' =>
         Holding(t) /\ pc'[t] = pc[t] /\ op'[t] = op[t]
    BY Zenon DEF Quiet
<1>. QED
    BY <1>1, <1>2, <1>3, <1>4, Zenon DEF SlotInv

\* SlotInv is preserved by a reservation.
LEMMA SlotTakes ==
    ASSUME TypeOK, SlotInv, NEW t \in Threads, Takes(t)
    PROVE  SlotInv'
<1>1. /\ available \in Nat /\ available' \in Nat /\ MaxTask \in Nat
      /\ available < available' /\ available' <= MaxTask
      /\ UNCHANGED <<op, published>>
    BY ConstantsAssumption, Zenon DEF TypeOK, Takes
<1>2. /\ Holding(t)' /\ pc'[t] = "write"
      /\ lo'[t] = available /\ wr'[t] = available /\ hi'[t] = available'
      /\ Held(t)' = available .. available' - 1
      /\ \A u \in Threads \ {t} :
            /\ lo'[u] = lo[u] /\ hi'[u] = hi[u] /\ wr'[u] = wr[u] /\ pc'[u] = pc[u]
            /\ Holding(u)' <=> Holding(u)
            /\ Held(u)' = Held(u)
      /\ pc'[Runner] \notin {"fetch", "resetCount", "resetIndex"}
    BY TakesHeld, Zenon
<1>3. \A u \in Threads : Held(u) \subseteq 0 .. available - 1
    BY <1>1, SMTT(20) DEF SlotInv, Held, TypeOK, Cursors
<1>4. \A i \in published' : i < available'
    BY <1>1 DEF SlotInv, TypeOK, Slot
<1>5. \A u \in Threads : Held(u)' \cap published' = {}
    BY <1>1, <1>2 DEF SlotInv
<1>6. \A t1, t2 \in Threads : t1 # t2 => Held(t1)' \cap Held(t2)' = {}
    BY <1>1, <1>2, <1>3 DEF SlotInv
<1>7. \A u \in Threads : Holding(u)' =>
          /\ lo'[u] < hi'[u] /\ hi'[u] <= available'
          /\ lo'[u] <= wr'[u] /\ wr'[u] <= hi'[u]
          /\ pc'[u] = "write" => wr'[u] < hi'[u]
          /\ pc'[u] = "publish" => wr'[u] = hi'[u]
          /\ op'[u] = "enqueue" => hi'[u] = lo'[u] + 1
  <2>. SUFFICES ASSUME NEW u \in Threads, Holding(u)'
                PROVE  /\ lo'[u] < hi'[u] /\ hi'[u] <= available'
                       /\ lo'[u] <= wr'[u] /\ wr'[u] <= hi'[u]
                       /\ pc'[u] = "write" => wr'[u] < hi'[u]
                       /\ pc'[u] = "publish" => wr'[u] = hi'[u]
                       /\ op'[u] = "enqueue" => hi'[u] = lo'[u] + 1
    OBVIOUS
  <2>1. CASE u = t
    BY <1>1, <1>2, <2>1 DEF Takes
  <2>2. CASE u # t
    <3>1. /\ lo[u] < hi[u] /\ hi[u] <= available /\ lo[u] <= wr[u] /\ wr[u] <= hi[u]
          /\ pc[u] = "write" => wr[u] < hi[u]
          /\ pc[u] = "publish" => wr[u] = hi[u]
          /\ op[u] = "enqueue" => hi[u] = lo[u] + 1
      BY <1>2, <2>2, Zenon DEF SlotInv
    <3>2. hi[u] \in Nat
      BY DEF TypeOK, Cursors
    <3>3. hi[u] <= available'
      BY <1>1, <3>1, <3>2
    <3>. QED
      BY <1>1, <1>2, <2>2, <3>1, <3>3, Zenon
  <2>. QED
    BY <2>1, <2>2, Zenon
<1>. QED
    BY <1>1, <1>2, <1>4, <1>5, <1>6, <1>7, Zenon DEF SlotInv

\* SlotInv is inductive relative to the type invariant.
LEMMA SlotStep ==
    SafetyInv /\ [Next]_vars /\ (BufferComplete => published = Slot) => SlotInv'
<1>. SUFFICES ASSUME SafetyInv, [Next]_vars, BufferComplete => published = Slot
              PROVE  SlotInv'
    OBVIOUS
<1>a. TypeOK /\ LocalInv /\ SlotInv /\ ~Wraps
    BY Zenon DEF SafetyInv
<1>. USE ConstantsAssumption, <1>a DEF Goto, shared, gate, join, ranges, server, caller, history
<1>1. CASE Quiet
    BY <1>1, SlotQuiet, Zenon
<1>2. ASSUME NEW t \in Threads, (t \in Clients /\ Reserve(t)) \/ FlushReserve(t) PROVE SlotInv'
    BY <1>2, ReserveTakes, SlotTakes, Zenon
<1>3. ASSUME NEW t \in Threads, Write(t) PROVE SlotInv'
  <2>1. /\ pc[t] = "write" /\ pc'[t] = IF wr[t] + 1 = hi[t] THEN "publish" ELSE "write"
        /\ wr'[t] = wr[t] + 1
        /\ UNCHANGED <<available, enqueued, published, op, lo, hi>>
    BY <1>3, Zenon DEF Write, TypeOK, LabelsOK, Cursors
  <2>2. \A u \in Threads \ {t} : pc'[u] = pc[u] /\ wr'[u] = wr[u]
    BY <1>3 DEF Write, TypeOK, LabelsOK
  <2>3. \A u \in Threads : /\ Holding(u)' <=> Holding(u)
                           /\ Held(u)' = Held(u)
    BY <2>1, <2>2, Zenon DEF Holding, Held
  <2>4. wr[t] \in Nat /\ hi[t] \in Nat /\ lo[t] \in Nat
    BY DEF TypeOK, Cursors
  <2>5. pc'[Runner] \in {"fetch", "resetCount", "resetIndex"} =>
            pc[Runner] = pc'[Runner]
    BY <2>1, <2>2, Zenon DEF Threads
  <2>6. /\ lo[t] <= wr'[t] /\ wr'[t] <= hi[t]
        /\ pc'[t] = "write" => wr'[t] < hi[t]
        /\ pc'[t] = "publish" => wr'[t] = hi[t]
    BY <2>1, <2>4 DEF SlotInv, Holding
  <2>. QED
    BY <2>1, <2>2, <2>3, <2>5, <2>6, Zenon DEF SlotInv
<1>4. ASSUME NEW t \in Threads, Publish(t) PROVE SlotInv'
  <2>1. /\ pc[t] = "publish" /\ pc'[t] \in {"wake", "stop", "release"}
        /\ published' = published \cup Held(t)
        /\ enqueued' = enqueued + (hi[t] - lo[t])
        /\ UNCHANGED <<available, op>>
    BY <1>4, Zenon DEF Publish, Held, Holding, Added, TypeOK, LabelsOK
  <2>2. \A u \in Threads \ {t} :
           /\ lo'[u] = lo[u] /\ hi'[u] = hi[u] /\ wr'[u] = wr[u] /\ pc'[u] = pc[u]
           /\ Holding(u)' <=> Holding(u)
           /\ Held(u)' = Held(u)
    BY <1>4 DEF Publish, TypeOK, LabelsOK, Holding, Held
  <2>3. ~Holding(t)' /\ Held(t)' = {}
    BY <2>1, Zenon DEF Holding, Held
  <2>4. /\ lo[t] \in Nat /\ hi[t] \in Nat /\ available \in Nat
        /\ lo[t] < hi[t] /\ hi[t] <= available /\ available <= MaxTask
        /\ Held(t) = lo[t] .. hi[t] - 1
    BY <2>1 DEF SlotInv, TypeOK, Holding, Held, Cursors
  <2>6. pc[Runner] \notin {"fetch", "resetCount", "resetIndex"}
    <3>1. lo[t] \in Held(t) /\ lo[t] \in Slot
      BY <2>4 DEF Slot
    <3>. QED
      BY <2>1, <3>1, Zenon DEF SlotInv, Holding
  <2>7. pc'[Runner] \notin {"fetch", "resetCount", "resetIndex"}
    BY <2>1, <2>2, <2>6, Zenon DEF Threads
  <2>8. \A i \in published' : i < available
    BY <2>1, <2>4 DEF SlotInv
  <2>9. \A u \in Threads : Held(u)' \cap published' = {}
    BY <2>1, <2>2, <2>3, ZenonT(40) DEF SlotInv
  <2>10. \A t1, t2 \in Threads : t1 # t2 => Held(t1)' \cap Held(t2)' = {}
    BY <2>2, <2>3, Zenon DEF SlotInv
  <2>11. \A u \in Threads : Holding(u)' =>
          /\ lo'[u] < hi'[u] /\ hi'[u] <= available'
          /\ lo'[u] <= wr'[u] /\ wr'[u] <= hi'[u]
          /\ pc'[u] = "write" => wr'[u] < hi'[u]
          /\ pc'[u] = "publish" => wr'[u] = hi'[u]
          /\ op'[u] = "enqueue" => hi'[u] = lo'[u] + 1
    BY <2>1, <2>2, <2>3, Zenon DEF SlotInv
  <2>. QED
    BY <2>1, <2>4, <2>7, <2>8, <2>9, <2>10, <2>11, Zenon DEF SlotInv
<1>5. CASE RunnerExec
  <2>1. /\ UNCHANGED <<available, enqueued, published, pc, op, lo, hi>>
        /\ pc[Runner] = "top"
        /\ \A u \in Threads \ {Runner} : wr'[u] = wr[u]
    BY <1>5, Zenon DEF RunnerExec, TypeOK, Cursors
  <2>2. \A u \in Threads : Held(u)' = Held(u) /\ (Holding(u)' => Holding(u) /\ wr'[u] = wr[u])
    BY <2>1, Zenon DEF Held, Holding
  <2>. QED
    BY <2>1, <2>2, Zenon DEF SlotInv
<1>6. CASE RunnerFetch
  <2>1. /\ UNCHANGED <<available, enqueued, published, op, lo, hi, wr>>
        /\ pc[Runner] = "fetch" /\ pc'[Runner] = "resetCount"
        /\ \A u \in Threads \ {Runner} : pc'[u] = pc[u]
    BY <1>6, Zenon DEF RunnerFetch, TypeOK, LabelsOK, Threads
  <2>2. \A u \in Threads : /\ Holding(u)' <=> Holding(u)
                           /\ Held(u)' = Held(u)
    BY <2>1, Zenon DEF Holding, Held
  <2>. QED
    BY <2>1, <2>2, Zenon DEF SlotInv, Holding
<1>7. CASE RunnerResetCount
  <2>1. /\ published = Slot /\ published' = {} /\ enqueued' = 0
        /\ UNCHANGED <<available, op, lo, hi, wr>> /\ pc'[Runner] = "resetIndex"
        /\ \A u \in Threads \ {Runner} : pc'[u] = pc[u]
        /\ ~Holding(Runner) /\ ~Holding(Runner)'
    BY <1>7, Zenon DEF RunnerResetCount, SlotInv, TypeOK, LabelsOK, Threads, Holding
  <2>2. available = MaxTask
    <3>1. MaxTask - 1 \in published
      BY <2>1 DEF Slot
    <3>. QED
      BY <3>1 DEF SlotInv, TypeOK
  <2>3. \A u \in Threads : ~Holding(u)
    <3>. SUFFICES ASSUME NEW u \in Threads, Holding(u) PROVE FALSE
      OBVIOUS
    <3>1. lo[u] \in Held(u) /\ lo[u] \in Slot
      BY <2>2 DEF SlotInv, TypeOK, Held, Slot, Cursors
    <3>. QED
      BY <2>1, <3>1, Zenon DEF SlotInv
  <2>4. \A u \in Threads : ~Holding(u)' /\ Held(u)' = {}
    BY <2>1, <2>3, Zenon DEF Holding, Held
  <2>. QED
    BY <2>1, <2>2, <2>4, Zenon DEF SlotInv
<1>8. CASE RunnerResetIndex
  <2>1. /\ published = {} /\ available' = 0 /\ pc'[Runner] = "top"
        /\ UNCHANGED <<enqueued, published, op, lo, hi, wr>>
        /\ \A u \in Threads : ~Holding(u)'
    BY <1>8, Zenon DEF RunnerResetIndex, SlotInv, TypeOK, LabelsOK, Threads, Holding
  <2>2. \A u \in Threads : Held(u)' = {}
    BY <2>1, Zenon DEF Held
  <2>3. available' <= MaxTask
    BY <2>1
  <2>4. published' = {}
    BY <2>1, Zenon
  <2>. QED
    BY <2>1, <2>2, <2>3, <2>4, Zenon DEF SlotInv
<1>. QED
  <2>1. Clients \subseteq Threads /\ (Quiet \/ BufferMove)
    BY QuietSteps, Zenon DEF Threads
  <2>. QED
    BY <1>1, <1>2, <1>3, <1>4, <1>5, <1>6, <1>7, <1>8, <2>1, Zenon DEF BufferMove

\* How a step changes the published slots and their number.
PublishedKept == enqueued' = enqueued /\ published' = published
PublishedChange ==
    \/ PublishedKept
    \/ enqueued' = 0 /\ published' = {}
    \/ \E a, b \in Nat : /\ a < b /\ published \cap (a .. b - 1) = {}
                        /\ published' = published \cup (a .. b - 1)
                        /\ enqueued' = enqueued + (b - a)

LEMMA PublishedStep == SafetyInv /\ [Next]_vars => PublishedChange
<1>. SUFFICES ASSUME SafetyInv, [Next]_vars PROVE PublishedChange
    OBVIOUS
<1>. USE DEF shared
<1>1. ASSUME NEW t \in Threads, Publish(t) PROVE PublishedChange
  <2>1. TypeOK /\ SlotInv /\ Holding(t)
    BY <1>1, Zenon DEF SafetyInv, Publish, Holding
  <2>2. lo[t] \in Nat /\ hi[t] \in Nat /\ lo[t] < hi[t]
    BY <2>1 DEF TypeOK, Cursors, SlotInv
  <2>3. Held(t) = lo[t] .. hi[t] - 1 /\ Held(t) \cap published = {}
    BY <2>1, Zenon DEF SlotInv, Held
  <2>. QED
    BY <1>1, <2>2, <2>3, Zenon DEF Publish, Added, PublishedChange
<1>2. CASE RunnerResetCount
    BY <1>2, Zenon DEF RunnerResetCount, PublishedChange
<1>3. CASE UNCHANGED vars
    BY <1>3, Zenon DEF vars, PublishedChange, PublishedKept
<1>4. ASSUME NEW c \in Clients, \/ ClientStep(c) \/ \E k \in Kinds : Call(c, k)
      PROVE  PublishedKept
    BY <1>4, Zenon DEF ClientStep, Call, ReserveRetry, Reserve, Await, PublishedKept
<1>5. ASSUME NEW t \in Threads, ChannelStep(t), ~Publish(t) PROVE PublishedKept
    BY <1>5, Zenon DEF ChannelStep, Begin, BeginClosed, FlushFull, FlushReserve, Write,
       Wake, Release, PublishedKept
<1>6. ASSUME NEW k \in Closers, CloserStep(k) PROVE PublishedKept
    BY <1>6, Zenon DEF CloserStep, ShutdownLock, ShutdownPoisoned, ShutdownClose,
       ShutdownDrained, ShutdownStop, ShutdownWake, ShutdownJoin, PublishedKept
<1>7. CASE (RunnerStep \/ RunnerSpuriousWake) /\ ~RunnerResetCount
  <2>1. PublishedKept
    BY <1>7, Zenon DEF RunnerStep, RunnerExec, RunnerLoadStop, RunnerLoadSize,
       RunnerLoadIndex, RunnerSpin, RunnerPark, RunnerUnpark, RunnerFetch,
       RunnerResetIndex, RunnerExit, RunnerSpuriousWake, PublishedKept
  <2>. QED
    BY <2>1, Zenon DEF PublishedChange
<1>. QED
    BY <1>1, <1>2, <1>3, <1>4, <1>5, <1>6, <1>7, Zenon DEF Next, PublishedChange

----------------------------------------------------------------------------
(* The contents of the buffers *)

\* BufferInv is preserved by a quiet step.
LEMMA BufferQuiet ==
    ASSUME BufferInv, Quiet
    PROVE  BufferInv'
<1>1. \A t \in Threads : Held(t)' = Held(t)
    BY Zenon DEF Held, Quiet, bufferVars
<1>2. Resetting' <=> Resetting
    BY Zenon DEF Resetting, Quiet
<1>. QED
    BY <1>1, <1>2, Zenon DEF BufferInv, Quiet, bufferVars

\* BufferInv is preserved by a reservation.
LEMMA BufferTakes ==
    ASSUME TypeOK, LocalInv, SlotInv, BufferInv, NEW t \in Threads, Takes(t)
    PROVE  BufferInv'
<1>1. /\ available \in Nat /\ available' \in Nat /\ MaxTask \in Nat
      /\ available < available' /\ available' <= MaxTask
      /\ UNCHANGED <<slots, queuePtr, published, ready>>
    BY ConstantsAssumption, Zenon DEF TypeOK, Takes
<1>2. /\ Held(t)' = available .. available' - 1 /\ wr'[t] = available
      /\ \A u \in Threads \ {t} : wr'[u] = wr[u] /\ Held(u)' = Held(u)
      /\ ~Resetting /\ ~Resetting'
    BY TakesHeld, Zenon DEF Resetting
<1>3. ready => wr'[Runner] = wr[Runner]
    BY <1>2, Zenon DEF LocalInv, Takes, Threads
<1>4. \A u \in Threads : \A i \in Held(u)' : (slots[queuePtr][i] = Stale) <=> (i >= wr'[u])
  <2>. SUFFICES ASSUME NEW u \in Threads, NEW i \in Held(u)'
                PROVE  (slots[queuePtr][i] = Stale) <=> (i >= wr'[u])
    OBVIOUS
  <2>1. CASE u = t
    <3>1. i \in Slot /\ i >= available
      BY <1>1, <1>2, <2>1 DEF Slot
    <3>. QED
      BY <1>1, <1>2, <2>1, <3>1, Zenon DEF BufferInv
  <2>2. CASE u # t
    BY <1>2, <2>2, Zenon DEF BufferInv
  <2>. QED
    BY <2>1, <2>2, Zenon
<1>5. \A i \in Slot : i >= available' => slots[queuePtr][i] = Stale
  <2>. SUFFICES ASSUME NEW i \in Slot, i >= available' PROVE slots[queuePtr][i] = Stale
    OBVIOUS
  <2>1. i >= available
    BY <1>1 DEF Slot
  <2>. QED
    BY <1>2, <2>1, Zenon DEF BufferInv
<1>. QED
    BY <1>1, <1>2, <1>3, <1>4, <1>5, Zenon DEF BufferInv

LEMMA BufferStep == SafetyInv /\ [Next]_vars => BufferInv'
<1>. SUFFICES ASSUME SafetyInv, [Next]_vars PROVE BufferInv'
    OBVIOUS
<1>a. TypeOK /\ LocalInv /\ SlotInv /\ BufferInv /\ ~Wraps /\ NoTornFetch
    BY HoldersKeepBuffer, Zenon DEF SafetyInv
<1>. USE ConstantsAssumption, <1>a DEF Goto, shared, gate, join, ranges, server, caller, history
<1>1. CASE Quiet
    BY <1>1, BufferQuiet, Zenon
<1>2. ASSUME NEW t \in Threads, (t \in Clients /\ Reserve(t)) \/ FlushReserve(t) PROVE BufferInv'
    BY <1>2, ReserveTakes, BufferTakes, Zenon
<1>3. ASSUME NEW t \in Threads, Write(t) PROVE BufferInv'
  <2>. DEFINE q == queuePtr
              j == wr[t]
              x == IF op[t] = "enqueue" THEN CurrentTask(t) ELSE NoOp
  <2>1. /\ slots' = [slots EXCEPT ![q][j] = x] /\ pc[t] = "write"
        /\ pc' = [pc EXCEPT ![t] = IF j + 1 = hi[t] THEN "publish" ELSE "write"]
        /\ wr' = [wr EXCEPT ![t] = j + 1]
        /\ UNCHANGED <<queuePtr, published, available, ready, lo, hi>>
    BY <1>3, Zenon DEF Write
  <2>2. x # Stale
    BY Zenon DEF CurrentTask, NoOp, Stale, LocalInv
  <2>3. /\ q \in {0, 1} /\ j \in Slot /\ j \in Held(t) /\ lo[t] \in Nat
    BY <2>1 DEF SlotInv, TypeOK, Holding, Held, Slot, Cursors
  <2>4. ~Resetting
    BY <2>1, <1>a, Zenon DEF NoTornFetch, Resetting, Holding
  <2>5. /\ ~Resetting'
        /\ ready => wr'[Runner] = wr[Runner]
    BY <2>1, <2>4, SMTT(20) DEF Resetting, TypeOK, LabelsOK, LocalInv, Threads
  <2>6. /\ \A i \in Slot : slots'[1 - q][i] = slots[1 - q][i]
        /\ \A i \in Slot : slots'[q][i] = IF i = j THEN x ELSE slots[q][i]
    BY <2>1, <2>3 DEF TypeOK, Buffers
  <2>. HIDE DEF x
  <2>7. \A u \in Threads : Held(u)' = Held(u)
    BY <2>1, Zenon DEF Held, Holding, TypeOK, LabelsOK
  <2>8. \A i \in published : slots'[q][i] # Stale
    BY <2>2, <2>4, <2>6, ZenonT(40) DEF BufferInv, TypeOK
  <2>9. \A i \in Slot : i >= available => slots'[q][i] = Stale
    BY <2>1, <2>3, <2>4, <2>6, SMTT(20)
    DEF BufferInv, SlotInv, TypeOK, Holding, Slot, Cursors
  <2>10. \A u \in Threads : \A i \in Held(u) :
            (slots'[q][i] = Stale) <=> (i >= wr'[u])
    <3>. SUFFICES ASSUME NEW u \in Threads, NEW i \in Held(u)
                  PROVE  (slots'[q][i] = Stale) <=> (i >= wr'[u])
      OBVIOUS
    <3>1. i \in Slot
      BY SMTT(20) DEF Held, SlotInv, TypeOK, Slot, Cursors
    <3>2. (slots[q][i] = Stale) <=> (i >= wr[u])
      BY <2>4, Zenon DEF BufferInv
    <3>3. CASE u = t
      <4>1. wr'[u] = j + 1
        BY <2>1, <3>3, Zenon DEF TypeOK, Cursors
      <4>. QED
        BY <2>2, <2>3, <2>6, <3>1, <3>2, <3>3, <4>1 DEF Slot
    <3>4. CASE u # t
      <4>1. i # j /\ wr'[u] = wr[u]
        BY <2>1, <2>3, <3>4 DEF SlotInv, TypeOK
      <4>. QED
        BY <2>6, <3>1, <3>2, <4>1, Zenon
    <3>. QED
      BY <3>3, <3>4, Zenon
  <2>. QED
    BY <2>1, <2>5, <2>6, <2>7, <2>8, <2>9, <2>10 DEF BufferInv
<1>4. ASSUME NEW t \in Threads, Publish(t) PROVE BufferInv'
  <2>1. /\ pc[t] = "publish" /\ pc'[t] \in {"wake", "stop", "release"}
        /\ published' = published \cup Held(t)
        /\ UNCHANGED <<slots, queuePtr, available, ready>>
    BY <1>4, Zenon DEF Publish, Held, Holding, TypeOK, LabelsOK
  <2>2. \A u \in Threads \ {t} :
           wr'[u] = wr[u] /\ pc'[u] = pc[u] /\ Held(u)' = Held(u)
    BY <1>4 DEF Publish, TypeOK, LabelsOK, Holding, Held
  <2>3. Held(t)' = {}
    BY <2>1, Zenon DEF Holding, Held
  <2>4. ~Resetting /\ ~Resetting'
    BY <2>1, <2>2, <1>a, Zenon DEF NoTornFetch, Resetting, Holding, Threads
  <2>5. ready => wr'[Runner] = wr[Runner]
    BY <2>1, <2>2, Zenon DEF LocalInv, Threads
  <2>6. \A i \in Held(t) : slots[queuePtr][i] # Stale
    <3>1. \A i \in Held(t) : ~(i >= wr[t])
      BY <2>1 DEF SlotInv, Held, Holding, TypeOK, Cursors
    <3>. QED
      BY <2>4, <3>1, Zenon DEF BufferInv
  <2>. QED
    BY <2>1, <2>2, <2>3, <2>4, <2>5, <2>6, Zenon DEF BufferInv
<1>5. CASE RunnerExec
  <2>. DEFINE b == 1 - queuePtr
              j == wr[Runner]
  <2>1. /\ slots' = [slots EXCEPT ![b][j] = Stale]
        /\ pc[Runner] = "top" /\ ready
        /\ UNCHANGED <<queuePtr, published, available, pc, lo, hi>>
        /\ \/ ~ready' /\ j + 1 = MaxTask
           \/ ready' /\ wr'[Runner] = j + 1
        /\ \A u \in Threads \ {Runner} : wr'[u] = wr[u]
    BY <1>5, Zenon DEF RunnerExec, LastTask, TypeOK, Threads, Cursors
  <2>2. b \in {0, 1} /\ b # queuePtr /\ j \in Slot
    BY <2>1 DEF TypeOK, LocalInv, Slot, Threads, Cursors
  <2>3. /\ \A i \in Slot : slots'[b][i] = IF i = j THEN Stale ELSE slots[b][i]
        /\ slots'[queuePtr] = slots[queuePtr]
    BY <2>1, <2>2, Zenon DEF TypeOK, Buffers
  <2>4. \A i \in Slot : (slots'[b][i] = Stale) <=> (i < j + 1)
    BY <2>1, <2>2, <2>3 DEF BufferInv, Slot
  <2>5. /\ ready' => \A i \in Slot : (slots'[b][i] = Stale) <=> (i < wr'[Runner])
        /\ ~ready' => \A i \in Slot : slots'[b][i] = Stale
    BY <2>1, <2>4 DEF Slot
  <2>6. /\ \A u \in Threads : Held(u)' = Held(u)
        /\ Held(Runner) = {} /\ ~Resetting /\ ~Resetting'
    BY <2>1, Zenon DEF Held, Holding, Resetting
  <2>. QED
    BY <2>1, <2>3, <2>5, <2>6 DEF BufferInv
<1>6. CASE RunnerFetch
  <2>1. /\ pc[Runner] = "fetch" /\ pc'[Runner] = "resetCount"
        /\ queuePtr' = 1 - queuePtr /\ ready' = TRUE
        /\ UNCHANGED <<slots, wr>>
    BY <1>6, Zenon DEF RunnerFetch, TypeOK, LabelsOK, Threads
  <2>2. ~ready /\ wr[Runner] = 0 /\ published = Slot /\ ~Resetting /\ Resetting'
    BY <2>1, Zenon DEF LocalInv, Holding, SlotInv, Resetting
  <2>3. 1 - queuePtr' = queuePtr
    BY <2>1 DEF TypeOK
  <2>4. \A i \in Slot : slots'[1 - queuePtr'][i] # Stale /\ ~(i < wr'[Runner])
    BY <2>1, <2>2, <2>3 DEF BufferInv, Slot
  <2>5. \A i \in Slot : slots'[queuePtr'][i] = Stale
    BY <2>1, <2>2, Zenon DEF BufferInv
  <2>. QED
    BY <2>1, <2>2, <2>4, <2>5, Zenon DEF BufferInv
<1>7. CASE RunnerResetCount
  <2>1. /\ Resetting /\ Resetting'
        /\ UNCHANGED <<slots, queuePtr, ready, wr>>
    BY <1>7, Zenon DEF RunnerResetCount, Resetting, TypeOK, LabelsOK, Threads
  <2>. QED
    BY <2>1, Zenon DEF BufferInv
<1>8. CASE RunnerResetIndex
  <2>1. /\ Resetting /\ ~Resetting' /\ published' = {}
        /\ UNCHANGED <<slots, queuePtr, ready, wr>>
        /\ \A u \in Threads : Held(u)' = {}
    BY <1>8, Zenon
    DEF RunnerResetIndex, Resetting, SlotInv, TypeOK, LabelsOK, Threads, Held,
        Holding
  <2>. QED
    BY <2>1, Zenon DEF BufferInv
<1>. QED
  <2>1. Clients \subseteq Threads /\ (Quiet \/ BufferMove)
    BY QuietSteps, Zenon DEF Threads
  <2>. QED
    BY <1>1, <1>2, <1>3, <1>4, <1>5, <1>6, <1>7, <1>8, <2>1, Zenon DEF BufferMove


\* What OrderInv says of the numbers it relates.
LEMMA OrderNumbers ==
    ASSUME TypeOK, OrderInv
    PROVE  /\ queuePtr \in {0, 1} /\ 1 - queuePtr \in {0, 1} /\ 1 - queuePtr # queuePtr
           /\ fill[queuePtr] \in Nat /\ fill[1 - queuePtr] \in Nat
           /\ Len(reserved) \in Nat /\ Len(executed) \in Nat
           /\ OldFirst = Len(reserved) - fill[queuePtr] - fill[1 - queuePtr]
           /\ OldFirst \in Nat /\ Progress \in Nat /\ Progress <= fill[1 - queuePtr]
           /\ First(reserved, fill, queuePtr, queuePtr) = OldFirst + fill[1 - queuePtr]
           /\ Len(executed) + fill[queuePtr] <= Len(reserved)
<1>1. /\ queuePtr \in {0, 1} /\ 1 - queuePtr \in {0, 1} /\ 1 - queuePtr # queuePtr
      /\ fill[queuePtr] \in Nat /\ fill[1 - queuePtr] \in Nat
    BY DEF TypeOK, Fills
<1>2. Len(reserved) \in Nat /\ Len(executed) \in Nat
    BY DEF TypeOK
<1>3. OldFirst = Len(reserved) - fill[queuePtr] - fill[1 - queuePtr]
    BY <1>1, Zenon DEF OldFirst, First
<1>4. First(reserved, fill, queuePtr, queuePtr) = OldFirst + fill[1 - queuePtr]
    BY <1>1, <1>2, <1>3 DEF First
<1>5. Progress \in Nat /\ Progress <= fill[1 - queuePtr]
    BY <1>1, ConstantsAssumption DEF Progress, TypeOK, Cursors, Threads
<1>6. OldFirst \in Nat /\ Len(executed) = OldFirst + Progress
    <2>1. OldFirst >= 0 /\ Len(executed) = OldFirst + Progress
        BY Zenon DEF OrderInv, OrderCounts
    <2>. QED
        BY <1>1, <1>2, <1>3, <2>1
<1>7. Len(executed) + fill[queuePtr] <= Len(reserved)
    <2>. DEFINE p == Progress
                o == OldFirst
                f == fill[queuePtr]
                g == fill[1 - queuePtr]
    <2>1. /\ p \in Nat /\ o \in Nat /\ f \in Nat /\ g \in Nat /\ p <= g
          /\ Len(reserved) \in Nat /\ o = Len(reserved) - f - g /\ Len(executed) = o + p
        BY <1>1, <1>2, <1>3, <1>5, <1>6, Zenon
    <2>. HIDE DEF p, o, f, g
    <2>2. Len(executed) + f <= Len(reserved)
        BY <2>1
    <2>. QED
        BY <2>2, Zenon DEF f
<1>. QED
    BY <1>1, <1>2, <1>3, <1>4, <1>5, <1>6, <1>7, Zenon

\* OrderInv is preserved by a step that leaves the buffers, what is in them and the
\* histories alone, and starts no write.
LEMMA OrderFrame ==
    ASSUME OrderInv,
           UNCHANGED <<slots, queuePtr, available, ready, fill, reserved, executed>>,
           ready => wr'[Runner] = wr[Runner],
           Resetting' => Resetting,
           \A t \in Threads : Holding(t)' =>
              /\ Holding(t) /\ lo'[t] = lo[t] /\ op'[t] = op[t]
              /\ op[t] = "enqueue" => CurrentTask(t)' = CurrentTask(t)
    PROVE  OrderInv'
<1>1. OldFirst' = OldFirst /\ Progress' = Progress
    BY Zenon DEF OldFirst, Progress
<1>2. \A i : OldTask(i)' = OldTask(i) /\ NewTask(i)' = NewTask(i)
    BY Zenon DEF OldTask, NewTask
<1>3. OrderCounts'
    BY <1>1, Zenon DEF OrderInv, OrderCounts
<1>4. \A t \in Threads : Holding(t)' => InPlace(t)'
    <2>. SUFFICES ASSUME NEW t \in Threads, Holding(t)' PROVE InPlace(t)'
        OBVIOUS
    <2>1. InPlace(t) /\ lo'[t] = lo[t] /\ op'[t] = op[t]
        BY Zenon DEF OrderInv
    <2>. QED
        BY <2>1, Zenon DEF InPlace, NewTask
<1>. QED
    BY <1>2, <1>3, <1>4, Zenon DEF OrderInv

\* One task x more was reserved: the tasks are s and the counts g.
Grown(r, f, q, x, s, g) ==
    /\ r \in Seq(Task) /\ f \in Fills /\ q \in {0, 1} /\ x \in Task
    /\ f[q] + f[1 - q] <= Len(r)
    /\ s = Append(r, x) /\ g = [f EXCEPT ![q] = @ + 1]

\* The tasks that were there stay where they were.
StayPlaced(r, f, q, x, s, g) ==
    /\ \A b \in {0, 1} : First(s, g, q, b) = First(r, f, q, b)
    /\ \A b \in {0, 1} : \A i \in Nat :
          i < f[b] => Placed(s, g, q, b, i) = Placed(r, f, q, b, i)
    /\ \A i \in Nat : Placed(s, g, q, 1 - q, i) = Placed(r, f, q, 1 - q, i)
    /\ Placed(s, g, q, q, f[q]) = x

LEMMA Within ==
    \A k, n, i, m \in Nat : k + n <= m /\ i < n => k + i + 1 \in 1 .. m
    OBVIOUS

LEMMA PlacedAppend ==
    \A r, f, q, x, s, g : Grown(r, f, q, x, s, g) => StayPlaced(r, f, q, x, s, g)
<1>. SUFFICES ASSUME NEW r, NEW f, NEW q, NEW x, NEW s, NEW g, Grown(r, f, q, x, s, g)
              PROVE  StayPlaced(r, f, q, x, s, g)
    OBVIOUS
<1>0. /\ r \in Seq(Task) /\ f \in Fills /\ q \in {0, 1} /\ x \in Task
      /\ f[q] + f[1 - q] <= Len(r)
      /\ s = Append(r, x) /\ g = [f EXCEPT ![q] = @ + 1]
    BY Zenon DEF Grown
<1>1. /\ Len(s) = Len(r) + 1 /\ Len(r) \in Nat /\ s[Len(r) + 1] = x
      /\ \A j \in 1 .. Len(r) : s[j] = r[j]
    BY <1>0
<1>2. /\ f[q] \in Nat /\ f[1 - q] \in Nat /\ q \in {0, 1} /\ 1 - q \in {0, 1} /\ 1 - q # q
      /\ g[q] = f[q] + 1 /\ g[1 - q] = f[1 - q]
    BY <1>0 DEF Fills
<1>3. \A b \in {0, 1} : b = q \/ b = 1 - q
    BY <1>0
<1>4. First(s, g, q, q) = First(r, f, q, q) /\ First(s, g, q, 1 - q) = First(r, f, q, 1 - q)
    <2>1. /\ First(s, g, q, q) = Len(s) - g[q]
          /\ First(s, g, q, 1 - q) = Len(s) - g[q] - g[1 - q]
          /\ First(r, f, q, q) = Len(r) - f[q]
          /\ First(r, f, q, 1 - q) = Len(r) - f[q] - f[1 - q]
        BY <1>2, Zenon DEF First
    <2>. QED
        BY <2>1, <1>1, <1>2
<1>5. /\ First(r, f, q, q) \in Nat /\ First(r, f, q, q) + f[q] = Len(r)
      /\ First(r, f, q, 1 - q) \in Nat /\ First(r, f, q, 1 - q) + f[1 - q] <= Len(r)
    BY <1>0, <1>1, <1>2 DEF First
<1>6. ASSUME NEW i \in Nat, i < f[q] PROVE Placed(s, g, q, q, i) = Placed(r, f, q, q, i)
    <2>1. i < g[q]
        BY <1>2, <1>6
    <2>2. First(r, f, q, q) + f[q] <= Len(r)
        BY <1>1, <1>5
    <2>3. First(r, f, q, q) + i + 1 \in 1 .. Len(r)
        BY <2>2, <1>1, <1>2, <1>5, <1>6, Within, Zenon
    <2>. QED
        BY <2>1, <2>3, <1>1, <1>4, <1>6 DEF Placed
<1>7. ASSUME NEW i \in Nat PROVE Placed(s, g, q, 1 - q, i) = Placed(r, f, q, 1 - q, i)
    <2>1. i < f[1 - q] => First(r, f, q, 1 - q) + i + 1 \in 1 .. Len(r)
        BY <1>1, <1>2, <1>5, Within, Zenon
    <2>. QED
        BY <2>1, <1>1, <1>2, <1>4, Zenon DEF Placed
<1>8. Placed(s, g, q, q, f[q]) = x
    <2>1. f[q] < g[q] /\ First(s, g, q, q) + f[q] + 1 = Len(r) + 1
        BY <1>1, <1>2, <1>4, <1>5, SMTT(20)
    <2>. QED
        BY <2>1, <1>1, Zenon DEF Placed
<1>9. \A b \in {0, 1} : First(s, g, q, b) = First(r, f, q, b)
    BY <1>3, <1>4, Zenon
<1>10. \A b \in {0, 1} : \A i \in Nat :
          i < f[b] => Placed(s, g, q, b, i) = Placed(r, f, q, b, i)
    BY <1>3, <1>6, <1>7, Zenon
<1>. QED
    BY <1>7, <1>8, <1>9, <1>10, Zenon DEF StayPlaced

LEMMA OrderReserve ==
    ASSUME RefinementInv, NEW c \in Clients, Reserve(c)
    PROVE  OrderInv'
<1>. PICK f : f = fill[queuePtr]
    OBVIOUS
<1>. DEFINE q == queuePtr
            n == Len(reserved)
            x == CurrentTask(c)
<1>1. TypeOK /\ LocalInv /\ SlotInv /\ BufferInv /\ OrderInv /\ ~Wraps /\ NoTornFetch
    BY HoldersKeepBuffer, Zenon DEF RefinementInv, SafetyInv
<1>2. /\ pc[c] = "reserve" /\ op[c] = "enqueue" /\ available < MaxTask /\ c \in Threads
      /\ available \in Nat /\ available' = available + 1
    <2>1. available \in Nat /\ available < MaxTask /\ available' = IndexAdd(1)
        BY <1>1, Zenon DEF Reserve, TypeOK
    <2>2. available + 1 <= MaxTask
        BY <2>1, ConstantsAssumption
    <2>. QED
        BY <1>1, <2>1, <2>2, IndexAddType, Zenon DEF Reserve, Threads
<1>3. /\ pc' = [pc EXCEPT ![c] = "write"]
      /\ lo' = [lo EXCEPT ![c] = available]
      /\ wr' = [wr EXCEPT ![c] = available]
      /\ reserved' = Append(reserved, x)
      /\ fill' = [fill EXCEPT ![q] = @ + 1]
      /\ UNCHANGED <<queuePtr, slots, op, ready, calls, kind, executed>>
    BY Zenon DEF Reserve, Goto, server, caller
<1>4. /\ q \in {0, 1} /\ 1 - q \in {0, 1} /\ 1 - q # q /\ f \in Nat /\ fill[1 - q] \in Nat
      /\ n \in Nat /\ Len(executed) \in Nat /\ Len(executed) + f <= n
      /\ f + fill[1 - q] <= n /\ f = available
      /\ reserved \in Seq(Task) /\ fill \in Fills
    <2>1. f = available
        BY <1>1, <1>2, Zenon DEF OrderInv, OrderCounts
    <2>2. OldFirst \in Nat /\ OldFirst = n - f - fill[1 - q] /\ f \in Nat /\ fill[1 - q] \in Nat
          /\ n \in Nat
        BY <1>1, OrderNumbers, Zenon
    <2>3. f + fill[1 - q] <= n
        BY <2>2, SMTT(20)
    <2>4. reserved \in Seq(Task) /\ fill \in Fills
        BY <1>1, Zenon DEF TypeOK
    <2>. QED
        BY <2>1, <2>3, <2>4, <1>1, OrderNumbers, Zenon
<1>5. x \in Task
    BY <1>1, <1>2 DEF CurrentTask, Task, TypeOK, CallCounts, LocalInv
<1>. HIDE DEF x
<1>6. /\ OldFirst' = OldFirst
      /\ \A i \in Nat : OldTask(i)' = OldTask(i)
      /\ \A i \in Nat : i < f => NewTask(i)' = NewTask(i)
      /\ NewTask(f)' = x
    <2>1. /\ reserved \in Seq(Task) /\ fill \in Fills /\ queuePtr \in {0, 1} /\ x \in Task
          /\ fill[queuePtr] + fill[1 - queuePtr] <= Len(reserved)
          /\ reserved' = Append(reserved, x) /\ fill' = [fill EXCEPT ![queuePtr] = @ + 1]
        BY <1>3, <1>4, <1>5, Zenon
    <2>2. StayPlaced(reserved, fill, queuePtr, x, reserved', fill')
        BY <2>1, PlacedAppend, Zenon DEF Grown
    <2>3. /\ \A b \in {0, 1} : First(reserved', fill', q, b) = First(reserved, fill, q, b)
          /\ \A b \in {0, 1} : \A i \in Nat : i < fill[b] =>
                Placed(reserved', fill', q, b, i) = Placed(reserved, fill, q, b, i)
          /\ \A i \in Nat :
                Placed(reserved', fill', q, 1 - q, i) = Placed(reserved, fill, q, 1 - q, i)
          /\ Placed(reserved', fill', q, q, fill[q]) = x
        BY <2>2, Zenon DEF StayPlaced
    <2>. QED
        BY <2>3, <1>3, <1>4, Zenon DEF OldFirst, OldTask, NewTask
<1>7. /\ Len(reserved') = n + 1 /\ \A j \in 1 .. n : reserved'[j] = reserved[j]
      /\ fill'[q] = f + 1 /\ fill'[1 - q] = fill[1 - q]
    BY <1>3, <1>4, <1>5 DEF Fills
<1>8. /\ ~Resetting /\ ~Resetting' /\ c # Runner
      /\ ready => wr'[Runner] = wr[Runner]
    <2>1. pc[Runner] \notin {"resetCount", "resetIndex"}
        <3>1. MaxTask - 1 \in Slot /\ ~(MaxTask - 1 < available)
            BY <1>2, ConstantsAssumption DEF Slot
        <3>. QED
            BY <1>1, <1>2, <3>1 DEF SlotInv
    <2>. QED
        BY <2>1, <1>1, <1>3, ConstantsAssumption, Zenon
        DEF Resetting, TypeOK, LabelsOK, Threads, Cursors
<1>9. OrderCounts'
    <2>1. Progress' = Progress
        BY <1>3, <1>7, <1>8, Zenon DEF Progress
    <2>2. fill'[queuePtr'] = available' /\ fill'[1 - queuePtr'] = fill[1 - queuePtr]
        BY <1>2, <1>3, <1>4, <1>7, Zenon
    <2>3. available' <= available'
        BY <1>2
    <2>. QED
        BY <2>1, <2>2, <2>3, <1>1, <1>3, <1>6, <1>8, Zenon DEF OrderInv, OrderCounts
<1>10. \A j \in 1 .. Len(executed) : executed[j] = reserved'[j]
    <2>1. \A j \in 1 .. Len(executed) : j \in 1 .. n
        BY <1>4
    <2>. QED
        BY <2>1, <1>1, <1>7, Zenon DEF OrderInv
<1>11. ready => \A i \in Slot : i >= wr'[Runner] => slots[1 - q][i] = OldTask(i)'
    <2>1. \A i \in Slot : i \in Nat
        BY ConstantsAssumption DEF Slot
    <2>. QED
        BY <2>1, <1>1, <1>6, <1>8, Zenon DEF OrderInv
<1>12. \A i \in Slot : slots[q][i] # Stale => slots[q][i] = NewTask(i)'
    <2>1. \A i \in Slot : i \in Nat /\ (~(i >= available) => i < f)
        BY <1>2, <1>4, ConstantsAssumption DEF Slot
    <2>. QED
        BY <2>1, <1>1, <1>6, <1>8, Zenon DEF OrderInv, BufferInv
<1>13. ASSUME NEW t \in Threads, Holding(t)' PROVE InPlace(t)'
    <2>1. CASE t = c
        <3>1. lo'[t] = f /\ op'[t] = "enqueue" /\ CurrentTask(t)' = x /\ f < f + 1
            BY <2>1, <1>1, <1>2, <1>3, <1>4 DEF TypeOK, Cursors, CurrentTask, x
        <3>. QED
            BY <3>1, <1>3, <1>6, <1>7, ZenonT(40) DEF InPlace
    <2>2. CASE t # c
        <3>1. Holding(t) /\ lo'[t] = lo[t] /\ op'[t] = op[t] /\ lo[t] \in Nat /\ hi[t] \in Nat
            BY <2>2, <1>1, <1>3, <1>13 DEF Holding, TypeOK, LabelsOK, Cursors
        <3>2. lo[t] < hi[t] /\ hi[t] <= available /\ InPlace(t)
            BY <3>1, <1>1, Zenon DEF SlotInv, OrderInv
        <3>3. lo[t] < f /\ lo[t] < f + 1
            BY <3>1, <3>2, <1>2, <1>4, SMTT(20)
        <3>4. op[t] = "enqueue" /\ NewTask(lo[t]) = CurrentTask(t)
            BY <3>1, <3>2, <3>3, <1>4 DEF InPlace
        <3>5. CurrentTask(t)' = CurrentTask(t)
            BY <1>3, Zenon DEF CurrentTask
        <3>. QED
            BY <3>1, <3>3, <3>4, <3>5, <1>3, <1>6, <1>7, Zenon DEF InPlace
    <2>. QED
        BY <2>1, <2>2, Zenon
<1>. QED
    BY <1>3, <1>9, <1>10, <1>11, <1>12, <1>13, Zenon DEF OrderInv

LEMMA OrderFlushReserve ==
    ASSUME RefinementInv, NEW t \in Threads, FlushReserve(t)
    PROVE  OrderInv'
<1>1. TypeOK /\ LocalInv /\ SlotInv /\ OrderInv /\ ~Wraps
    BY Zenon DEF RefinementInv, SafetyInv
<1>2. /\ pc[t] = "reserve" /\ op[t] = "flush" /\ available \in Nat /\ available < MaxTask
      /\ available' = MaxTask
    <2>1. available \in Nat /\ available < MaxTask /\ available' = IndexAdd(MaxTask)
        BY <1>1, Zenon DEF FlushReserve, TypeOK
    <2>2. available + MaxTask >= MaxTask /\ MaxTask \in Nat
        BY <2>1, ConstantsAssumption
    <2>3. available' = MaxTask
        BY <1>1, <2>1, <2>2, IndexAddType, Zenon
    <2>. QED
        BY <2>1, <2>3, Zenon DEF FlushReserve
<1>3. /\ pc' = [pc EXCEPT ![t] = "write"]
      /\ lo' = [lo EXCEPT ![t] = available]
      /\ wr' = [wr EXCEPT ![t] = available]
      /\ UNCHANGED <<queuePtr, slots, op, ready, calls, kind, reserved, executed, fill>>
    BY Zenon DEF FlushReserve, Goto, server, caller, history
<1>4. fill[queuePtr] \in Nat /\ fill[queuePtr] = available
    BY <1>1, <1>2, OrderNumbers, Zenon DEF OrderInv, OrderCounts
<1>5. ~Resetting' /\ (ready => wr'[Runner] = wr[Runner])
    <2>1. pc[Runner] \notin {"resetCount", "resetIndex"}
        <3>1. MaxTask - 1 \in Slot /\ ~(MaxTask - 1 < available)
            BY <1>2, ConstantsAssumption DEF Slot
        <3>. QED
            BY <1>1, <1>2, <3>1 DEF SlotInv
    <2>2. ready => t # Runner
        BY <1>1, <1>2, Zenon DEF LocalInv
    <2>. QED
        BY <2>1, <2>2, <1>1, <1>3, ZenonT(40) DEF Resetting, TypeOK, LabelsOK, Threads, Cursors
<1>6. OldFirst' = OldFirst /\ \A i : OldTask(i)' = OldTask(i) /\ NewTask(i)' = NewTask(i)
    BY <1>3, Zenon DEF OldFirst, OldTask, NewTask
<1>7. OrderCounts'
    <2>1. Progress' = Progress
        BY <1>3, <1>5, Zenon DEF Progress
    <2>2. fill[queuePtr] <= available' /\ ~(available' < MaxTask)
        BY <1>2, <1>4, ConstantsAssumption
    <2>. QED
        BY <2>1, <2>2, <1>1, <1>3, <1>5, <1>6, Zenon DEF OrderInv, OrderCounts
<1>8. ASSUME NEW u \in Threads, Holding(u)' PROVE InPlace(u)'
    <2>1. CASE u = t
        <3>1. lo'[u] = available /\ op'[u] = "flush" /\ available >= fill[queuePtr]
            BY <2>1, <1>1, <1>2, <1>3, <1>4 DEF TypeOK, Cursors
        <3>. QED
            BY <3>1, <1>3, Zenon DEF InPlace
    <2>2. CASE u # t
        <3>1. Holding(u) /\ lo'[u] = lo[u] /\ op'[u] = op[u] /\ CurrentTask(u)' = CurrentTask(u)
            BY <2>2, <1>1, <1>3, <1>8, Zenon DEF Holding, TypeOK, LabelsOK, Cursors, CurrentTask
        <3>2. InPlace(u)
            BY <3>1, <1>1, Zenon DEF OrderInv
        <3>. QED
            BY <3>1, <3>2, <1>3, <1>6, Zenon DEF InPlace, NewTask
    <2>. QED
        BY <2>1, <2>2, Zenon
<1>. QED
    BY <1>1, <1>3, <1>5, <1>6, <1>7, <1>8, Zenon DEF OrderInv

LEMMA OrderWrite ==
    ASSUME RefinementInv, NEW t \in Threads, Write(t)
    PROVE  OrderInv'
<1>. DEFINE q == queuePtr
            j == wr[t]
            x == IF op[t] = "enqueue" THEN CurrentTask(t) ELSE NoOp
<1>1. TypeOK /\ LocalInv /\ SlotInv /\ OrderInv /\ NoTornFetch
    BY HoldersKeepBuffer, Zenon DEF RefinementInv, SafetyInv
<1>2. /\ slots' = [slots EXCEPT ![q][j] = x] /\ pc[t] = "write"
      /\ pc' = [pc EXCEPT ![t] = IF j + 1 = hi[t] THEN "publish" ELSE "write"]
      /\ wr' = [wr EXCEPT ![t] = j + 1]
      /\ UNCHANGED <<queuePtr, available, ready, lo, op, calls, kind, reserved, executed, fill>>
    BY Zenon DEF Write, Goto, server, caller, history
<1>3. /\ q \in {0, 1} /\ 1 - q \in {0, 1} /\ 1 - q # q /\ j \in Slot
      /\ lo[t] \in Nat /\ lo[t] <= j /\ (op[t] = "enqueue" => lo[t] = j) /\ InPlace(t)
    <2>1. Holding(t) /\ lo[t] \in Nat /\ hi[t] \in Nat /\ j \in Nat /\ hi[t] <= MaxTask
        BY <1>1, <1>2, ConstantsAssumption DEF Holding, TypeOK, Cursors
    <2>2. lo[t] <= j /\ j < hi[t] /\ (op[t] = "enqueue" => hi[t] = lo[t] + 1) /\ InPlace(t)
        BY <2>1, <1>1, <1>2, Zenon DEF SlotInv, OrderInv
    <2>3. j \in Slot /\ (op[t] = "enqueue" => lo[t] = j)
        BY <2>1, <2>2, ConstantsAssumption DEF Slot
    <2>4. q \in {0, 1} /\ 1 - q \in {0, 1} /\ 1 - q # q
        BY <1>1 DEF TypeOK
    <2>. QED
        BY <2>1, <2>2, <2>3, <2>4, Zenon
<1>4. /\ \A i \in Slot : slots'[1 - q][i] = slots[1 - q][i]
      /\ \A i \in Slot : slots'[q][i] = IF i = j THEN x ELSE slots[q][i]
    BY <1>1, <1>2, <1>3, Zenon DEF TypeOK, Buffers
<1>5. ~Resetting' /\ (ready => wr'[Runner] = wr[Runner])
    BY <1>1, <1>2 DEF NoTornFetch, Holding, Resetting, TypeOK, LabelsOK, LocalInv, Threads
<1>6. OldFirst' = OldFirst /\ \A i : OldTask(i)' = OldTask(i) /\ NewTask(i)' = NewTask(i)
    BY <1>2, Zenon DEF OldFirst, OldTask, NewTask
<1>7. x = NewTask(j)
    <2>1. CASE op[t] = "enqueue"
        BY <2>1, <1>3, Zenon DEF InPlace
    <2>2. CASE op[t] # "enqueue"
        <3>1. fill[q] \in Nat /\ ~(j < fill[q])
            <4>1. lo[t] >= fill[q]
                BY <2>2, <1>3, Zenon DEF InPlace
            <4>2. fill[q] \in Nat
                BY <1>1, OrderNumbers, Zenon
            <4>. QED
                BY <4>1, <4>2, <1>3, ConstantsAssumption DEF Slot
        <3>. QED
            BY <2>2, <3>1, Zenon DEF NewTask, Placed
    <2>. QED
        BY <2>1, <2>2, Zenon
<1>. HIDE DEF x
<1>8. OrderCounts'
    <2>1. Progress' = Progress
        BY <1>2, <1>5, Zenon DEF Progress
    <2>. QED
        BY <2>1, <1>1, <1>2, <1>5, <1>6, Zenon DEF OrderInv, OrderCounts
<1>9. \A u \in Threads : Holding(u)' => InPlace(u)'
    <2>. SUFFICES ASSUME NEW u \in Threads, Holding(u)' PROVE InPlace(u)'
        OBVIOUS
    <2>1. Holding(u) /\ CurrentTask(u)' = CurrentTask(u)
        BY <1>1, <1>2, Zenon DEF Holding, TypeOK, LabelsOK, CurrentTask
    <2>2. InPlace(u)
        BY <2>1, <1>1, Zenon DEF OrderInv
    <2>. QED
        BY <2>1, <2>2, <1>2, <1>6, Zenon DEF InPlace, NewTask
<1>10. ready' => \A i \in Slot : i >= wr'[Runner] => slots'[1 - queuePtr'][i] = OldTask(i)'
    BY <1>1, <1>2, <1>4, <1>5, <1>6, Zenon DEF OrderInv
<1>11. \A i \in Slot : slots'[queuePtr'][i] # Stale => slots'[queuePtr'][i] = NewTask(i)'
    <2>. SUFFICES ASSUME NEW i \in Slot, slots'[queuePtr'][i] # Stale
                  PROVE  slots'[queuePtr'][i] = NewTask(i)'
        OBVIOUS
    <2>1. queuePtr' = q /\ NewTask(i)' = NewTask(i)
        BY <1>2, <1>6, Zenon
    <2>2. CASE i = j
        BY <2>1, <2>2, <1>4, <1>7, Zenon
    <2>3. CASE i # j
        BY <2>1, <2>3, <1>1, <1>4, Zenon DEF OrderInv
    <2>. QED
        BY <2>2, <2>3, Zenon
<1>. QED
    BY <1>1, <1>2, <1>8, <1>9, <1>10, <1>11, Zenon DEF OrderInv

\* What execute_tasks finds in the next slot: the oldest task that has not run, or a no-op
\* when all the tasks of its buffer have run.
LEMMA NextTask ==
    ASSUME RefinementInv, pc[Runner] = "top", ready
    PROVE  LET i == wr[Runner]
               x == slots[1 - queuePtr][i]
           IN  /\ i \in Slot
               /\ i < fill[1 - queuePtr] => /\ x \in Task /\ Progress = i
                                            /\ Len(executed) = OldFirst + i
                                            /\ Len(executed) < Len(reserved)
                                            /\ x = reserved[Len(executed) + 1]
               /\ ~(i < fill[1 - queuePtr]) => /\ x \notin Task
                                               /\ Progress = fill[1 - queuePtr]
<1>. DEFINE q == queuePtr
            i == wr[Runner]
            x == slots[1 - queuePtr][i]
<1>1. TypeOK /\ LocalInv /\ OrderInv
    BY Zenon DEF RefinementInv, SafetyInv
<1>2. i \in Slot /\ i \in Nat
    BY <1>1, ConstantsAssumption, SMTT(20) DEF TypeOK, LocalInv, Slot, Threads, Cursors
<1>3. x = OldTask(i)
    BY <1>1, <1>2 DEF OrderInv
<1>4. /\ fill[1 - q] \in Nat /\ fill[q] \in Nat /\ Len(reserved) \in Nat
      /\ OldFirst = Len(reserved) - fill[q] - fill[1 - q] /\ OldFirst \in Nat
      /\ Len(executed) = OldFirst + Progress
    BY <1>1, OrderNumbers, Zenon DEF OrderInv, OrderCounts
<1>5. ASSUME i < fill[1 - q]
      PROVE  /\ x \in Task /\ Progress = i
             /\ Len(executed) = OldFirst + i
             /\ Len(executed) < Len(reserved)
             /\ x = reserved[Len(executed) + 1]
    <2>1. Progress = i
        BY <1>5, Zenon DEF Progress
    <2>2. Len(executed) = OldFirst + i /\ Len(executed) \in Nat /\ Len(executed) < Len(reserved)
        BY <2>1, <1>2, <1>4, <1>5
    <2>3. x = reserved[Len(executed) + 1]
        BY <2>2, <1>3, <1>5, Zenon DEF OldTask, OldFirst, Placed
    <2>4. reserved[Len(executed) + 1] \in Task
        <3>1. reserved \in Seq(Task)
            BY <1>1, Zenon DEF TypeOK
        <3>2. Len(executed) + 1 \in 1 .. Len(reserved)
            BY <2>2, <1>4
        <3>. QED
            BY <3>1, <3>2
    <2>. QED
        BY <2>1, <2>2, <2>3, <2>4, Zenon
<1>6. ASSUME ~(i < fill[1 - q])
      PROVE  x \notin Task /\ Progress = fill[1 - q]
    <2>1. x = NoOp
        BY <1>3, <1>6, Zenon DEF OldTask, Placed
    <2>2. NoOp \notin Task
        BY ConstantsAssumption, Zenon DEF NoOp, Task
    <2>. QED
        BY <2>1, <2>2, <1>6, Zenon DEF Progress
<1>. QED
    BY <1>2, <1>5, <1>6, Zenon

LEMMA OrderExec ==
    ASSUME RefinementInv, RunnerExec
    PROVE  OrderInv'
<1>. DEFINE q == queuePtr
            b == 1 - queuePtr
            i == wr[Runner]
            x == slots[1 - queuePtr][i]
<1>1. TypeOK /\ LocalInv /\ OrderInv
    BY Zenon DEF RefinementInv, SafetyInv
<1>2. /\ slots' = [slots EXCEPT ![b][i] = Stale] /\ pc[Runner] = "top" /\ ready
      /\ IF x \in Task THEN executed' = Append(executed, x) ELSE executed' = executed
      /\ IF i + 1 = MaxTask THEN ~ready' /\ fill' = [fill EXCEPT ![b] = 0]
                            ELSE ready' /\ fill' = fill
      /\ IF i + 1 = MaxTask THEN wr' = [wr EXCEPT ![Runner] = 0]
                            ELSE wr' = [wr EXCEPT ![Runner] = i + 1]
      /\ UNCHANGED <<queuePtr, available, pc, op, lo, calls, kind, reserved>>
    BY Zenon DEF RunnerExec, LastTask, caller
<1>3. /\ i \in Slot
      /\ i < fill[b] => /\ x \in Task /\ Progress = i
                        /\ Len(executed) = OldFirst + i
                        /\ Len(executed) < Len(reserved)
                        /\ x = reserved[Len(executed) + 1]
      /\ ~(i < fill[b]) => x \notin Task /\ Progress = fill[b]
    BY <1>2, NextTask, Zenon
<1>4. /\ q \in {0, 1} /\ b \in {0, 1} /\ b # q /\ i \in Nat /\ i < MaxTask
      /\ fill[b] \in Nat /\ fill[q] \in Nat /\ fill[b] <= MaxTask
      /\ Len(reserved) \in Nat /\ Len(executed) \in Nat
      /\ OldFirst = Len(reserved) - fill[q] - fill[b] /\ OldFirst \in Nat
      /\ Len(executed) = OldFirst + Progress
    <2>1. i \in Nat /\ i < MaxTask
        BY <1>3, ConstantsAssumption DEF Slot
    <2>2. Len(executed) = OldFirst + Progress /\ fill[b] <= MaxTask
        BY <1>1, Zenon DEF OrderInv, OrderCounts
    <2>. QED
        BY <2>1, <2>2, <1>1, OrderNumbers, Zenon
<1>5. ~Resetting' /\ pc' = pc /\ queuePtr' = q /\ 1 - queuePtr' = b
    BY <1>2, Zenon DEF Resetting
<1>6. /\ slots'[q] = slots[q]
      /\ \A k \in Slot : k # i => slots'[b][k] = slots[b][k]
    BY <1>1, <1>2, <1>3, <1>4, Zenon DEF TypeOK, Buffers
<1>7. fill'[q] = fill[q] /\ fill'[b] = IF i + 1 = MaxTask THEN 0 ELSE fill[b]
    BY <1>1, <1>2, <1>4, Zenon DEF TypeOK, Fills
<1>8. \A k : NewTask(k)' = NewTask(k)
    BY <1>2, <1>5, <1>7, Zenon DEF NewTask, Placed, First
<1>9. ready' => /\ wr'[Runner] = i + 1 /\ i + 1 # MaxTask
                /\ \A k : OldTask(k)' = OldTask(k)
    BY <1>1, <1>2, Zenon DEF TypeOK, Cursors, Threads, OldTask
<1>10. /\ Len(executed') = IF i < fill[b] THEN Len(executed) + 1 ELSE Len(executed)
       /\ \A k \in 1 .. Len(executed') : executed'[k] = reserved'[k]
    <2>1. CASE i < fill[b]
        <3>1. executed' = Append(executed, x) /\ executed \in Seq(Task) /\ x \in Task
            BY <2>1, <1>1, <1>2, <1>3, Zenon DEF TypeOK
        <3>. HIDE DEF x, b, i
        <3>2. /\ Len(executed') = Len(executed) + 1
              /\ executed'[Len(executed) + 1] = x
              /\ \A k \in 1 .. Len(executed) : executed'[k] = executed[k]
            BY <3>1
        <3>3. \A k \in 1 .. Len(executed) + 1 : k \in 1 .. Len(executed) \/ k = Len(executed) + 1
            BY <1>4
        <3>. QED
            BY <2>1, <3>2, <3>3, <1>1, <1>2, <1>3, Zenon DEF OrderInv
    <2>2. CASE ~(i < fill[b])
        BY <2>2, <1>1, <1>2, <1>3, Zenon DEF OrderInv
    <2>. QED
        BY <2>1, <2>2, Zenon
<1>11. OldFirst' = Len(reserved) - fill[q] - fill'[b]
    BY <1>2, <1>4, <1>5, <1>7, Zenon DEF OldFirst, First
<1>12. OldFirst' >= 0 /\ Len(executed)' = OldFirst' + Progress'
    <2>1. CASE i + 1 = MaxTask
        <3>1. fill'[b] = 0 /\ Progress' = 0 /\ OldFirst' = Len(reserved) - fill[q]
            BY <2>1, <1>2, <1>4, <1>5, <1>7, <1>11 DEF Progress
        <3>2. CASE i < fill[b]
            <4>1. fill[b] = i + 1
                BY <3>2, <2>1, <1>4
            <4>2. Len(executed') = OldFirst + (i + 1)
                BY <3>2, <1>3, <1>4, <1>10
            <4>3. OldFirst + fill[b] = Len(reserved) - fill[q] /\ OldFirst + fill[b] \in Nat
                BY <1>4, SMTT(20)
            <4>. QED
                BY <3>1, <4>1, <4>2, <4>3
        <3>3. CASE ~(i < fill[b])
            <4>1. Len(executed') = OldFirst + fill[b]
                BY <3>3, <1>3, <1>4, <1>10, Zenon
            <4>. QED
                BY <3>1, <4>1, <1>4, SMTT(20)
        <3>. QED
            BY <3>2, <3>3, Zenon
    <2>2. CASE i + 1 # MaxTask
        <3>1. /\ fill'[b] = fill[b] /\ OldFirst' = OldFirst
              /\ Progress' = IF i + 1 < fill[b] THEN i + 1 ELSE fill[b]
            BY <2>2, <1>2, <1>4, <1>5, <1>7, <1>9, <1>11, Zenon DEF Progress
        <3>2. CASE i < fill[b]
            <4>1. Len(executed') = OldFirst + (i + 1)
                BY <3>2, <1>3, <1>4, <1>10
            <4>2. Progress' = i + 1
                BY <3>1, <3>2, <1>4, SMTT(20)
            <4>3. OldFirst >= 0
                BY <1>4
            <4>. QED
                BY <3>1, <4>1, <4>2, <4>3, Zenon
        <3>3. CASE ~(i < fill[b])
            <4>1. Len(executed') = OldFirst + fill[b]
                BY <3>3, <1>3, <1>4, <1>10, Zenon
            <4>2. Progress' = fill[b]
                BY <3>1, <3>3, <1>4
            <4>. QED
                BY <3>1, <4>1, <4>2, <1>4, SMTT(20)
        <3>. QED
            BY <3>2, <3>3, Zenon
    <2>. QED
        BY <2>1, <2>2, Zenon
<1>13. OrderCounts'
    <2>1. /\ fill'[queuePtr'] <= available'
          /\ available' < MaxTask => fill'[queuePtr'] = available'
        BY <1>1, <1>2, <1>5, <1>7, Zenon DEF OrderInv, OrderCounts
    <2>2. fill'[1 - queuePtr'] <= MaxTask
        BY <1>4, <1>5, <1>7, ConstantsAssumption
    <2>3. ~ready' => fill'[1 - queuePtr'] = 0
        BY <1>2, <1>5, <1>7, Zenon
    <2>. QED
        BY <2>1, <2>2, <2>3, <1>5, <1>12, Zenon DEF OrderCounts
<1>14. ready' => \A k \in Slot : k >= wr'[Runner] => slots'[1 - queuePtr'][k] = OldTask(k)'
    <2>. SUFFICES ASSUME ready', NEW k \in Slot, k >= wr'[Runner]
                  PROVE  slots'[1 - queuePtr'][k] = OldTask(k)'
        OBVIOUS
    <2>1. k # i /\ k >= i
        BY <1>4, <1>9, ConstantsAssumption, SMTT(20) DEF Slot
    <2>2. slots[b][k] = OldTask(k)
        BY <2>1, <1>1, <1>2, Zenon DEF OrderInv
    <2>. QED
        BY <2>1, <2>2, <1>5, <1>6, <1>9, Zenon
<1>15. \A k \in Slot : slots'[queuePtr'][k] # Stale => slots'[queuePtr'][k] = NewTask(k)'
    BY <1>1, <1>5, <1>6, <1>8, Zenon DEF OrderInv
<1>16. \A u \in Threads : Holding(u)' => InPlace(u)'
    <2>. SUFFICES ASSUME NEW u \in Threads, Holding(u)' PROVE InPlace(u)'
        OBVIOUS
    <2>1. Holding(u) /\ CurrentTask(u)' = CurrentTask(u)
        BY <1>2, Zenon DEF Holding, CurrentTask
    <2>2. InPlace(u)
        BY <2>1, <1>1, Zenon DEF OrderInv
    <2>3. NewTask(lo[u])' = NewTask(lo[u])
        BY <1>2, <1>5, <1>7, Zenon DEF NewTask, Placed, First
    <2>. QED
        BY <2>1, <2>2, <2>3, <1>2, <1>5, <1>7, Zenon DEF InPlace
<1>. QED
    BY <1>10, <1>13, <1>14, <1>15, <1>16, Zenon DEF OrderInv

LEMMA OrderFetch ==
    ASSUME RefinementInv, RunnerFetch
    PROVE  OrderInv'
<1>. DEFINE q == queuePtr
            b == 1 - queuePtr
<1>1. TypeOK /\ LocalInv /\ SlotInv /\ BufferInv /\ OrderInv /\ NoTornFetch
    BY HoldersKeepBuffer, Zenon DEF RefinementInv, SafetyInv
<1>2. /\ pc[Runner] = "fetch" /\ pc' = [pc EXCEPT ![Runner] = "resetCount"]
      /\ queuePtr' = b /\ ready'
      /\ UNCHANGED <<slots, available, wr, reserved, executed, fill>>
    BY Zenon DEF RunnerFetch, Goto, ranges, history
<1>3. ~ready /\ wr[Runner] = 0 /\ published = Slot /\ ~Resetting /\ fill[b] = 0
    <2>1. ~ready /\ published = Slot /\ ~Resetting
        BY <1>1, <1>2, Zenon DEF LocalInv, SlotInv, Resetting
    <2>2. wr[Runner] = 0
        BY <2>1, <1>1, <1>2, Zenon DEF LocalInv, Holding
    <2>. QED
        BY <2>1, <2>2, <1>1, Zenon DEF OrderInv, OrderCounts
<1>4. /\ q \in {0, 1} /\ b \in {0, 1} /\ b # q /\ 1 - b = q /\ fill[q] \in Nat
      /\ Len(reserved) \in Nat /\ OldFirst \in Nat /\ OldFirst = Len(reserved) - fill[q]
    <2>1. q \in {0, 1} /\ b \in {0, 1} /\ b # q /\ 1 - b = q
        BY <1>1 DEF TypeOK
    <2>2. /\ fill[q] \in Nat /\ Len(reserved) \in Nat /\ OldFirst \in Nat
          /\ OldFirst = Len(reserved) - fill[q] - fill[b]
        BY <1>1, OrderNumbers, Zenon
    <2>. QED
        BY <2>1, <2>2, <1>3
<1>5. available \in Nat /\ available = MaxTask
    <2>1. MaxTask - 1 \in published
        BY <1>3, ConstantsAssumption DEF Slot
    <2>. QED
        BY <2>1, <1>1, ConstantsAssumption DEF SlotInv, TypeOK
<1>6. Progress = 0 /\ Progress' = 0
    <2>1. Progress = 0
        BY <1>3, Zenon DEF Progress
    <2>2. Progress' = IF 0 < fill[q] THEN 0 ELSE fill[q]
        BY <1>2, <1>3, <1>4, Zenon DEF Progress
    <2>. QED
        BY <2>1, <2>2, <1>4
<1>7. First(reserved, fill, b, q) = OldFirst /\ First(reserved, fill, q, q) = OldFirst
    <2>1. First(reserved, fill, b, q) = Len(reserved) - fill[b] - fill[q]
        BY <1>4, Zenon DEF First
    <2>2. First(reserved, fill, q, q) = Len(reserved) - fill[q]
        BY Zenon DEF First
    <2>. QED
        BY <2>1, <2>2, <1>3, <1>4
<1>8. OldFirst' = OldFirst
    BY <1>2, <1>4, <1>7, Zenon DEF OldFirst
<1>9. OrderCounts'
    <2>1. fill[b] <= available /\ ~(available < MaxTask) /\ fill[q] <= MaxTask
        BY <1>1, <1>3, <1>5 DEF OrderInv, OrderCounts
    <2>2. queuePtr' = b /\ 1 - queuePtr' = q
        BY <1>2, <1>4, Zenon
    <2>3. OldFirst >= 0 /\ Len(executed) = OldFirst + 0
        BY <1>1, <1>6, Zenon DEF OrderInv, OrderCounts
    <2>. QED
        BY <2>1, <2>2, <2>3, <1>2, <1>3, <1>6, <1>8, Zenon DEF OrderCounts
<1>10. \A i \in Slot : slots'[1 - queuePtr'][i] = OldTask(i)'
    <2>. SUFFICES ASSUME NEW i \in Slot PROVE slots'[1 - queuePtr'][i] = OldTask(i)'
        OBVIOUS
    <2>1. slots[q][i] = NewTask(i)
        BY <1>1, <1>3, Zenon DEF BufferInv, OrderInv
    <2>2. OldTask(i)' = Placed(reserved, fill, b, q, i)
        BY <1>2, <1>4, Zenon DEF OldTask
    <2>3. Placed(reserved, fill, b, q, i) = Placed(reserved, fill, q, q, i)
        BY <1>7, Zenon DEF Placed
    <2>. QED
        BY <2>1, <2>2, <2>3, <1>2, <1>4, Zenon DEF NewTask
<1>11. \A i \in Slot : slots'[queuePtr'][i] = Stale
    BY <1>1, <1>2, <1>3, Zenon DEF BufferInv
<1>12. \A u \in Threads : ~Holding(u)'
    BY <1>1, <1>2, Zenon DEF NoTornFetch, Holding, TypeOK, LabelsOK, Threads
<1>. QED
    BY <1>1, <1>2, <1>9, <1>10, <1>11, <1>12, Zenon DEF OrderInv

LEMMA OrderResetIndex ==
    ASSUME RefinementInv, RunnerResetIndex
    PROVE  OrderInv'
<1>1. TypeOK /\ SlotInv /\ OrderInv /\ NoTornFetch
    BY HoldersKeepBuffer, Zenon DEF RefinementInv, SafetyInv
<1>2. /\ pc[Runner] = "resetIndex" /\ pc' = [pc EXCEPT ![Runner] = "top"] /\ available' = 0
      /\ UNCHANGED <<queuePtr, slots, wr, ready, reserved, executed, fill>>
    BY Zenon DEF RunnerResetIndex, Goto, ranges, server, history
<1>3. Resetting /\ ~Resetting' /\ \A u \in Threads : ~Holding(u)'
    BY <1>1, <1>2, Zenon DEF NoTornFetch, Resetting, Holding, TypeOK, LabelsOK, Threads
<1>4. OldFirst' = OldFirst /\ Progress' = Progress
      /\ \A i : OldTask(i)' = OldTask(i) /\ NewTask(i)' = NewTask(i)
    BY <1>2, Zenon DEF OldFirst, Progress, OldTask, NewTask
<1>5. OrderCounts'
    <2>1. fill[queuePtr] = 0
        BY <1>1, <1>3, Zenon DEF OrderInv, OrderCounts
    <2>2. fill[queuePtr] <= available' /\ fill[queuePtr] = available'
        BY <2>1, <1>2
    <2>. QED
        BY <2>2, <1>1, <1>2, <1>3, <1>4, Zenon DEF OrderInv, OrderCounts
<1>. QED
    BY <1>1, <1>2, <1>3, <1>4, <1>5, Zenon DEF OrderInv

LEMMA OrderPublish ==
    ASSUME RefinementInv, NEW t \in Threads, Publish(t)
    PROVE  OrderInv'
<1>1. TypeOK /\ LocalInv /\ OrderInv
    BY Zenon DEF RefinementInv, SafetyInv
<1>2. /\ pc[t] = "publish" /\ pc'[t] \in {"wake", "stop", "release"}
      /\ \A u \in Threads \ {t} : pc'[u] = pc[u] /\ wr'[u] = wr[u] /\ lo'[u] = lo[u]
      /\ UNCHANGED <<slots, queuePtr, available, ready, fill, reserved, executed, op, calls,
                     kind>>
    BY <1>1, Zenon DEF Publish, Goto, server, caller, history, TypeOK, LabelsOK, Cursors
<1>3. /\ ready => wr'[Runner] = wr[Runner]
      /\ Resetting' => Resetting
    BY <1>1, <1>2, Zenon DEF LocalInv, Resetting, Threads
<1>4. \A u \in Threads : Holding(u)' =>
         Holding(u) /\ lo'[u] = lo[u] /\ CurrentTask(u)' = CurrentTask(u)
    BY <1>2, Zenon DEF Holding, CurrentTask
<1>. QED
    BY <1>1, <1>2, <1>3, <1>4, OrderFrame, Zenon

\* OrderInv is inductive.
LEMMA OrderStep == RefinementInv /\ [Next]_vars => OrderInv'
<1>. SUFFICES ASSUME RefinementInv, [Next]_vars PROVE OrderInv'
    OBVIOUS
<1>a. TypeOK /\ LocalInv /\ SlotInv /\ OrderInv /\ ~Wraps
    BY Zenon DEF RefinementInv, SafetyInv
<1>1. CASE Quiet
    BY <1>1, <1>a, OrderFrame, Zenon DEF Quiet, bufferVars, Resetting
<1>2. ASSUME NEW c \in Clients, Reserve(c) PROVE OrderInv'
    BY <1>2, OrderReserve, Zenon
<1>3. ASSUME NEW t \in Threads, FlushReserve(t) PROVE OrderInv'
    BY <1>3, OrderFlushReserve, Zenon
<1>4. ASSUME NEW t \in Threads, Write(t) PROVE OrderInv'
    BY <1>4, OrderWrite, Zenon
<1>5. ASSUME NEW t \in Threads, Publish(t) PROVE OrderInv'
    BY <1>5, OrderPublish, Zenon
<1>6. CASE RunnerExec
    BY <1>6, OrderExec, Zenon
<1>7. CASE RunnerFetch
    BY <1>7, OrderFetch, Zenon
<1>8. CASE RunnerResetCount
  <2>1. /\ pc[Runner] = "resetCount" /\ pc'[Runner] = "resetIndex"
        /\ \A u \in Threads \ {Runner} : pc'[u] = pc[u]
        /\ UNCHANGED <<slots, queuePtr, available, ready, fill, reserved, executed, wr, lo, op,
                       calls, kind>>
    BY <1>8, <1>a, Zenon
    DEF RunnerResetCount, Goto, ranges, server, caller, history, TypeOK, LabelsOK, Threads
  <2>2. \A u \in Threads : Holding(u)' => Holding(u) /\ CurrentTask(u)' = CurrentTask(u)
    BY <2>1, Zenon DEF Holding, CurrentTask
  <2>. QED
    BY <1>a, <2>1, <2>2, OrderFrame, Zenon DEF Resetting
<1>9. CASE RunnerResetIndex
    BY <1>9, OrderResetIndex, Zenon
<1>. QED
  <2>1. Quiet \/ BufferMove
    BY <1>a, QuietSteps, Zenon
  <2>. QED
    BY <1>1, <1>2, <1>3, <1>4, <1>5, <1>6, <1>7, <1>8, <1>9, <2>1, Zenon DEF BufferMove

----------------------------------------------------------------------------
(* Every reserved slot is published or held *)

\* CoverInv is preserved by a step that leaves the counters and the reserved slots alone.
LEMMA CoverFrame ==
    ASSUME CoverInv, UNCHANGED <<available, published>>,
           \A t \in Threads : Held(t)' = Held(t),
           pc[Runner] = "resetIndex" => pc'[Runner] = "resetIndex"
    PROVE  CoverInv'
    BY Zenon DEF CoverInv

LEMMA Between ==
    \A a, b, i \in Nat : i >= a /\ i < b => i \in a .. b - 1
    OBVIOUS

\* CoverInv is preserved by a reservation.
LEMMA CoverTakes ==
    ASSUME TypeOK, SlotInv, CoverInv, NEW t \in Threads, Takes(t)
    PROVE  CoverInv'
<1>1. /\ Held(t)' = available .. available' - 1 /\ ~Holding(t) /\ published' = published
      /\ \A u \in Threads \ {t} : Held(u)' = Held(u)
      /\ pc[Runner] # "resetIndex"
    BY TakesHeld, Zenon DEF Takes
<1>. SUFFICES ASSUME NEW i \in Slot, i < available', i \notin published
              PROVE  \E u \in Threads : i \in Held(u)'
    BY <1>1, Zenon DEF CoverInv
<1>2. available \in Nat /\ i \in Nat /\ available' \in Nat
    BY ConstantsAssumption DEF TypeOK, Slot, Takes
<1>3. CASE i < available
  <2>1. PICK u \in Threads : i \in Held(u)
    BY <1>1, <1>3, Zenon DEF CoverInv
  <2>2. u # t
    BY <1>1, <2>1, Zenon DEF Held
  <2>. QED
    BY <1>1, <2>1, <2>2, Zenon
<1>4. CASE i >= available
  <2>1. i \in available .. available' - 1
    BY <1>2, <1>4, Between, Zenon
  <2>. QED
    BY <1>1, <2>1, Zenon
<1>. QED
    BY <1>2, <1>3, <1>4

\* CoverInv is inductive.
LEMMA CoverStep == RefinementInv /\ [Next]_vars => CoverInv'
<1>. SUFFICES ASSUME RefinementInv, [Next]_vars PROVE CoverInv'
    OBVIOUS
<1>a. TypeOK /\ LocalInv /\ SlotInv /\ CoverInv /\ ~Wraps
    BY Zenon DEF RefinementInv, SafetyInv
<1>b. Runner \in Threads /\ Clients \subseteq Threads
    BY Zenon DEF Threads
<1>. USE <1>a, <1>b DEF Goto, shared, ranges
<1>1. CASE Quiet
    BY <1>1, CoverFrame, Zenon DEF Quiet, bufferVars, Held
<1>2. ASSUME NEW t \in Threads, (t \in Clients /\ Reserve(t)) \/ FlushReserve(t) PROVE CoverInv'
    BY <1>2, ReserveTakes, CoverTakes, Zenon
<1>3. ASSUME NEW t \in Threads, Write(t) PROVE CoverInv'
  <2>1. \A u \in Threads : Held(u)' = Held(u)
    BY <1>3, Zenon DEF Write, Held, Holding, TypeOK, LabelsOK
  <2>2. pc'[Runner] = "resetIndex" \/ pc[Runner] # "resetIndex"
    BY <1>3, Zenon DEF Write, TypeOK, LabelsOK
  <2>. QED
    BY <1>3, <2>1, <2>2, CoverFrame, Zenon DEF Write
<1>4. ASSUME NEW t \in Threads, Publish(t) PROVE CoverInv'
  <2>1. /\ pc[t] = "publish" /\ pc'[t] \in {"wake", "stop", "release"}
        /\ published' = published \cup Held(t) /\ available' = available
    BY <1>4, Zenon DEF Publish, Held, Holding, TypeOK, LabelsOK
  <2>2. \A u \in Threads \ {t} : pc'[u] = pc[u] /\ Held(u)' = Held(u)
    <3>1. \A u \in Threads \ {t} : pc'[u] = pc[u] /\ lo'[u] = lo[u] /\ hi'[u] = hi[u]
      BY <1>4, Zenon DEF Publish, TypeOK, LabelsOK, Cursors
    <3>. QED
      BY <3>1, Zenon DEF Holding, Held
  <2>3. pc[Runner] = "resetIndex" => pc'[Runner] = "resetIndex"
    BY <2>1, <2>2, Zenon
  <2>. QED
    BY <2>1, <2>2, <2>3, Zenon DEF CoverInv
<1>5. CASE RunnerExec
    BY <1>5, CoverFrame, Zenon DEF RunnerExec, Held, Holding
<1>6. CASE RunnerFetch
  <2>1. /\ pc[Runner] = "fetch" /\ pc' = [pc EXCEPT ![Runner] = "resetCount"]
        /\ UNCHANGED <<available, published, lo, hi>>
    BY <1>6, Zenon DEF RunnerFetch
  <2>2. \A u \in Threads : Held(u)' = Held(u)
    BY <2>1, Zenon DEF Held, Holding, TypeOK, LabelsOK
  <2>. QED
    BY <2>1, <2>2, CoverFrame, Zenon
<1>7. CASE RunnerResetCount
    BY <1>7, Zenon DEF RunnerResetCount, CoverInv, TypeOK, LabelsOK
<1>8. CASE RunnerResetIndex
  <2>1. available' = 0 /\ \A i \in Slot : ~(i < 0)
    BY <1>8, ConstantsAssumption DEF RunnerResetIndex, Slot
  <2>. QED
    BY <2>1, Zenon DEF CoverInv
<1>. QED
  <2>1. Quiet \/ BufferMove
    BY QuietSteps, Zenon
  <2>. QED
    BY <1>1, <1>2, <1>3, <1>4, <1>5, <1>6, <1>7, <1>8, <2>1, Zenon DEF BufferMove

----------------------------------------------------------------------------
(* Borrowed stacks *)

\* Accepted tasks come from clients.
LEMMA UnrunTask ==
    ASSUME TypeOK, NEW i \in Unrun
    PROVE  reserved[i] \in Task /\ reserved[i].from \in Clients
<1>1. reserved \in Seq(Task) /\ executed \in Seq(Task)
    BY Zenon DEF TypeOK
<1>2. Len(executed) \in Nat /\ Len(reserved) \in Nat
    BY <1>1
<1>3. i \in 1 .. Len(reserved)
    BY <1>2 DEF Unrun
<1>4. reserved[i] \in Task
    BY <1>1, <1>3
<1>. QED
    BY <1>4 DEF Task

\* BorrowInv is preserved by a step that runs nothing, accepts nothing and lets no blocked
\* caller go.
LEMMA BorrowFrame ==
    ASSUME TypeOK, BorrowInv, UNCHANGED <<reserved, executed, reply>>,
           \A c \in Clients : Blocked(c) => Blocked(c)' /\ calls'[c] = calls[c]
    PROVE  BorrowInv'
<1>1. Unrun' = Unrun
    BY Zenon DEF Unrun
<1>2. \A i \in Unrun : reserved[i].from \in Clients
    BY UnrunTask, Zenon
<1>. QED
    BY <1>1, <1>2, ZenonT(40) DEF BorrowInv

\* In particular by one thread that goes on to label l.
LEMMA BorrowMove ==
    ASSUME TypeOK, BorrowInv, NEW t \in Threads, NEW l, pc' = [pc EXCEPT ![t] = l],
           UNCHANGED <<op, calls, kind, reply, reserved, executed>>,
           t \in Clients /\ Blocked(t) => l \in SentLabels(t)
    PROVE  BorrowInv'
<1>1. Clients \subseteq Threads /\ \A c \in Threads : pc'[c] = IF c = t THEN l ELSE pc[c]
    BY Zenon DEF TypeOK, LabelsOK, Threads
<1>2. \A c \in Clients : Blocked(c) => Blocked(c)'
    BY <1>1, Zenon DEF Blocked, SentLabels
<1>. QED
    BY <1>2, BorrowFrame, Zenon

\* BorrowInv is preserved when enqueue accepts a task.
LEMMA BorrowReserve ==
    ASSUME TypeOK, BorrowInv, NEW c \in Clients, Reserve(c)
    PROVE  BorrowInv'
<1>. DEFINE n == Len(reserved) + 1
            x == CurrentTask(c)
<1>1. /\ pc[c] = "reserve" /\ op[c] = "enqueue" /\ pc'[c] = "write"
      /\ reserved' = Append(reserved, x)
      /\ UNCHANGED <<executed, reply, op, calls, kind>>
      /\ \A d \in Clients \ {c} : pc'[d] = pc[d]
    BY Zenon DEF Reserve, Goto, caller, TypeOK, LabelsOK, Threads
<1>2. ~Blocked(c) /\ reply[c] = "none"
    BY <1>1, Zenon DEF Blocked, SentLabels, BorrowInv
<1>3. /\ Blocked(c)' <=> kind[c] = "blocking"
      /\ \A d \in Clients \ {c} : Blocked(d)' <=> Blocked(d)
    BY <1>1, Zenon DEF Blocked, SentLabels
<1>4. x.from = c /\ x.n = calls[c] /\ (x.scoped <=> kind[c] = "blocking")
    BY Zenon DEF CurrentTask
<1>. HIDE DEF x
<1>5. /\ n \notin Unrun /\ \A i \in Unrun' : i \in Unrun \/ i = n
      /\ reserved'[n] = x /\ \A i \in Unrun : reserved'[i] = reserved[i]
    <2>1. reserved \in Seq(Task) /\ Len(reserved) \in Nat /\ Len(executed) \in Nat
        BY DEF TypeOK
    <2>2. /\ Len(reserved') = n /\ reserved'[n] = x
          /\ \A i \in 1 .. Len(reserved) : reserved'[i] = reserved[i]
        BY <1>1, <2>1
    <2>3. \A i \in Unrun : i \in 1 .. Len(reserved)
        BY <2>1 DEF Unrun
    <2>4. n \notin Unrun /\ \A i \in Unrun' : i \in Unrun \/ i = n
        BY <1>1, <2>1, <2>2 DEF Unrun
    <2>. QED
        BY <2>2, <2>3, <2>4, Zenon
<1>. HIDE DEF n
<1>6. \A i \in Unrun : reserved[i].from \in Clients /\ (reserved[i].scoped => reserved[i].from # c)
    BY <1>2, UnrunTask, Zenon DEF BorrowInv
<1>7. ASSUME NEW i \in Unrun', NEW d \in Clients, reserved'[i].scoped, reserved'[i].from = d
      PROVE  Blocked(d)' /\ calls'[d] = reserved'[i].n /\ reply'[d] = "none"
    <2>1. CASE i = n
        BY <2>1, <1>1, <1>2, <1>3, <1>4, <1>5, <1>7, Zenon
    <2>2. CASE i \in Unrun
        <3>1. reserved'[i] = reserved[i] /\ d # c
            BY <2>2, <1>5, <1>6, <1>7, Zenon
        <3>2. Blocked(d) /\ calls[d] = reserved[i].n /\ reply[d] = "none"
            BY <2>2, <3>1, <1>7, Zenon DEF BorrowInv
        <3>. QED
            BY <3>1, <3>2, <1>1, <1>3, Zenon
    <2>. QED
        BY <2>1, <2>2, <1>5, Zenon
<1>8. ASSUME NEW i \in Unrun', NEW j \in Unrun', reserved'[i].scoped, reserved'[j].scoped,
             reserved'[i].from = reserved'[j].from
      PROVE  i = j
    <2>1. \A k \in Unrun : reserved'[k].scoped => reserved'[k].from # c
        BY <1>5, <1>6, Zenon
    <2>2. reserved'[n].from = c
        BY <1>4, <1>5, Zenon
    <2>3. CASE i \in Unrun /\ j \in Unrun
        BY <2>3, <1>5, <1>8, Zenon DEF BorrowInv
    <2>. QED
        BY <2>1, <2>2, <2>3, <1>5, <1>8, Zenon
<1>9. \A d \in Clients : reply'[d] # "none" => Blocked(d)'
    BY <1>1, <1>2, <1>3, Zenon DEF BorrowInv
<1>. QED
    BY <1>7, <1>8, <1>9, Zenon DEF BorrowInv

\* BorrowInv is preserved when execute_tasks runs a task.
LEMMA BorrowExec ==
    ASSUME RefinementInv, BorrowInv, RunnerExec
    PROVE  BorrowInv'
<1>. DEFINE n == Len(executed) + 1
            x == slots[1 - queuePtr][wr[Runner]]
<1>1. TypeOK
    BY Zenon DEF RefinementInv, SafetyInv
<1>2. /\ pc[Runner] = "top" /\ ready
      /\ UNCHANGED <<reserved, pc, op, calls, kind>>
      /\ IF x \in Task
         THEN /\ executed' = Append(executed, x)
              /\ IF x.scoped THEN \E r \in {"ok", "err"} : reply' = [reply EXCEPT ![x.from] = r]
                             ELSE reply' = reply
         ELSE executed' = executed /\ reply' = reply
    BY Zenon DEF RunnerExec, caller
<1>3. \A c \in Clients : Blocked(c)' <=> Blocked(c)
    BY <1>2, Zenon DEF Blocked, SentLabels
<1>4. CASE x \notin Task
    BY <1>1, <1>2, <1>3, <1>4, BorrowFrame, Zenon
<1>5. CASE x \in Task
    <2>1. Len(executed) < Len(reserved) /\ x = reserved[n]
        BY <1>2, <1>5, NextTask, Zenon
    <2>. HIDE DEF x
    <2>2. /\ executed \in Seq(Task) /\ reserved \in Seq(Task)
          /\ reply \in [Clients -> {"none", "ok", "err"}]
        BY <1>1, Zenon DEF TypeOK, Replies
    <2>3. Len(executed) \in Nat /\ Len(reserved) \in Nat /\ Len(executed') = n
        BY <1>2, <1>5, <2>2
    <2>4. n \in Unrun /\ n \notin Unrun' /\ Unrun' \subseteq Unrun
        BY <1>2, <2>1, <2>3 DEF Unrun
    <2>5. x.from \in Clients /\ \A i \in Unrun : reserved[i].from \in Clients
        BY <1>1, <2>1, <2>4, UnrunTask, Zenon
    <2>. HIDE DEF n
    <2>6. CASE ~x.scoped
        BY <1>2, <1>3, <1>5, <2>4, <2>5, <2>6, Zenon DEF BorrowInv
    <2>7. CASE x.scoped
        <3>1. \A c \in Clients \ {x.from} : reply'[c] = reply[c]
            BY <1>2, <1>5, <2>2, <2>7, Zenon
        <3>2. Blocked(x.from)
            BY <2>1, <2>4, <2>5, <2>7, Zenon DEF BorrowInv
        <3>3. \A i \in Unrun' : reserved[i].scoped => reserved[i].from # x.from
            BY <2>1, <2>4, <2>7, Zenon DEF BorrowInv
        <3>. QED
            BY <1>2, <1>3, <2>4, <2>5, <3>1, <3>2, <3>3, Zenon DEF BorrowInv
    <2>. QED
        BY <2>6, <2>7, Zenon
<1>. QED
    BY <1>4, <1>5, Zenon

\* BorrowInv is inductive.
LEMMA BorrowStep == RefinementInv /\ BorrowInv /\ [Next]_vars => BorrowInv'
<1>. SUFFICES ASSUME RefinementInv, BorrowInv, [Next]_vars PROVE BorrowInv'
    OBVIOUS
<1>a. TypeOK /\ LocalInv
    BY Zenon DEF RefinementInv, SafetyInv
<1>b. /\ Clients \subseteq Threads /\ Closers \subseteq Threads /\ Runner \in Threads
      /\ Runner \notin Clients /\ \A k \in Closers : k \notin Clients
    BY ConstantsAssumption, Zenon DEF Threads
<1>c. op \in [Threads -> {"enqueue", "flush"}]
    BY <1>a, Zenon DEF TypeOK, Ops
<1>. USE <1>a, <1>b DEF Goto, caller, history
<1>1. CASE UNCHANGED vars
    BY <1>1, BorrowFrame, Zenon DEF vars, Blocked, SentLabels
<1>2. ASSUME NEW c \in Clients, NEW k \in Kinds, Call(c, k) PROVE BorrowInv'
  <2>1. /\ pc[c] = "idle" /\ UNCHANGED <<reserved, executed, reply>>
        /\ \A d \in Clients \ {c} : /\ pc'[d] = pc[d] /\ op'[d] = op[d]
                                    /\ kind'[d] = kind[d] /\ calls'[d] = calls[d]
    BY <1>2, Zenon DEF Call, TypeOK, LabelsOK, Ops, Calling, CallCounts
  <2>2. \A d \in Clients : Blocked(d) => Blocked(d)' /\ calls'[d] = calls[d]
    BY <2>1, Zenon DEF Blocked, SentLabels
  <2>. QED
    BY <2>1, <2>2, BorrowFrame, Zenon
<1>3. ASSUME NEW c \in Clients, ReserveRetry(c) PROVE BorrowInv'
    BY <1>3, BorrowFrame, Zenon DEF ReserveRetry, Blocked, SentLabels
<1>4. ASSUME NEW c \in Clients, Reserve(c) PROVE BorrowInv'
    BY <1>4, BorrowReserve, Zenon
<1>5. ASSUME NEW c \in Clients, Await(c) PROVE BorrowInv'
  <2>1. /\ pc[c] = "await" /\ reply[c] # "none" /\ reply'[c] = "none"
        /\ UNCHANGED <<reserved, executed, op, calls, kind>>
        /\ \A d \in Clients \ {c} : pc'[d] = pc[d] /\ reply'[d] = reply[d]
    BY <1>5, Zenon DEF Await, TypeOK, LabelsOK, Replies
  <2>2. Unrun' = Unrun
    BY <2>1, Zenon DEF Unrun
  <2>3. \A i \in Unrun : reserved[i].scoped => reserved[i].from # c
    BY <2>1, Zenon DEF BorrowInv
  <2>4. \A d \in Clients \ {c} : Blocked(d)' <=> Blocked(d)
    BY <2>1, Zenon DEF Blocked, SentLabels
  <2>5. \A i \in Unrun, d \in Clients : reserved[i].scoped /\ reserved[i].from = d =>
          d # c /\ Blocked(d) /\ calls[d] = reserved[i].n /\ reply[d] = "none"
    BY <2>3, Zenon DEF BorrowInv
  <2>6. \A i \in Unrun', d \in Clients : reserved'[i].scoped /\ reserved'[i].from = d =>
          Blocked(d)' /\ calls'[d] = reserved'[i].n /\ reply'[d] = "none"
    <3>. TAKE i \in Unrun', d \in Clients
    <3>. HAVE reserved'[i].scoped /\ reserved'[i].from = d
    <3>1. i \in Unrun /\ reserved'[i] = reserved[i] /\ calls' = calls
        BY <2>1, <2>2, Zenon
    <3>2. d # c /\ Blocked(d) /\ calls[d] = reserved[i].n /\ reply[d] = "none"
        BY <3>1, <2>5, Zenon
    <3>. QED
        BY <3>1, <3>2, <2>1, <2>4, Zenon
  <2>7. \A d \in Clients : reply'[d] # "none" => Blocked(d)'
    BY <2>1, <2>4, Zenon DEF BorrowInv
  <2>8. \A i, j \in Unrun' : reserved'[i].scoped /\ reserved'[j].scoped
                             /\ reserved'[i].from = reserved'[j].from => i = j
    BY <2>1, <2>2, Zenon DEF BorrowInv
  <2>. QED
    BY <2>6, <2>7, <2>8, Zenon DEF BorrowInv
<1>6. ASSUME NEW t \in Threads, Begin(t) PROVE BorrowInv'
    BY <1>6, <1>c, BorrowMove, Zenon DEF Begin, Blocked, SentLabels
<1>7. ASSUME NEW t \in Threads, BeginClosed(t) PROVE BorrowInv'
  <2>1. t \in Clients /\ Blocked(t) => op[t] = "flush" /\ AfterOp(t) = "await"
    BY <1>7, <1>c, Zenon DEF BeginClosed, Blocked, SentLabels, AfterOp
  <2>. QED
    BY <1>7, <2>1, BorrowMove, Zenon DEF BeginClosed, SentLabels
<1>8. ASSUME NEW t \in Threads, FlushFull(t) PROVE BorrowInv'
    BY <1>8, BorrowMove, Zenon DEF FlushFull, SentLabels
<1>9. ASSUME NEW t \in Threads, FlushReserve(t) PROVE BorrowInv'
    BY <1>9, BorrowMove, Zenon DEF FlushReserve, SentLabels
<1>10. ASSUME NEW t \in Threads, Write(t) PROVE BorrowInv'
    BY <1>10, BorrowMove, Zenon DEF Write, SentLabels
<1>11. ASSUME NEW t \in Threads, Publish(t) PROVE BorrowInv'
    BY <1>11, BorrowMove, Zenon DEF Publish, SentLabels
<1>12. ASSUME NEW t \in Threads, Wake(t) PROVE BorrowInv'
    BY <1>12, BorrowMove, Zenon DEF Wake, SentLabels
<1>13. ASSUME NEW t \in Threads, Release(t) PROVE BorrowInv'
  <2>1. /\ pc'[t] = AfterOp(t) /\ op'[t] = "flush"
        /\ UNCHANGED <<reserved, executed, reply, calls, kind>>
        /\ \A u \in Threads \ {t} : pc'[u] = pc[u] /\ op'[u] = op[u]
    BY <1>13, Zenon DEF Release, TypeOK, LabelsOK, Ops
  <2>2. t \in Clients /\ kind[t] = "blocking" => AfterOp(t) \in {"begin", "await"}
    BY <1>c, Zenon DEF AfterOp
  <2>3. \A c \in Clients : Blocked(c) => Blocked(c)'
    BY <2>1, <2>2, Zenon DEF Blocked, SentLabels
  <2>. QED
    BY <2>1, <2>3, BorrowFrame, Zenon
<1>14. ASSUME NEW k \in Closers, ShutdownLock(k) PROVE BorrowInv'
    BY <1>14, BorrowMove, Zenon DEF ShutdownLock
<1>15. ASSUME NEW k \in Closers, ShutdownPoisoned(k) PROVE BorrowInv'
    BY <1>15, BorrowMove, Zenon DEF ShutdownPoisoned
<1>16. ASSUME NEW k \in Closers, ShutdownClose(k) PROVE BorrowInv'
    BY <1>16, BorrowMove, Zenon DEF ShutdownClose
<1>17. ASSUME NEW k \in Closers, ShutdownDrained(k) PROVE BorrowInv'
    BY <1>17, BorrowMove, Zenon DEF ShutdownDrained
<1>18. ASSUME NEW k \in Closers, ShutdownStop(k) PROVE BorrowInv'
    BY <1>18, BorrowMove, Zenon DEF ShutdownStop
<1>19. ASSUME NEW k \in Closers, ShutdownWake(k) PROVE BorrowInv'
    BY <1>19, BorrowMove, Zenon DEF ShutdownWake
<1>20. ASSUME NEW k \in Closers, ShutdownJoin(k) PROVE BorrowInv'
    BY <1>20, BorrowMove, Zenon DEF ShutdownJoin
<1>21. CASE RunnerExec
    BY <1>21, BorrowExec, Zenon
<1>22. CASE RunnerLoadStop
    BY <1>22, BorrowMove, Zenon DEF RunnerLoadStop
<1>23. CASE RunnerLoadSize
    BY <1>23, BorrowMove, Zenon DEF RunnerLoadSize
<1>24. CASE RunnerLoadIndex
    BY <1>24, BorrowMove, Zenon DEF RunnerLoadIndex
<1>25. CASE RunnerSpin
    BY <1>25, BorrowMove, Zenon DEF RunnerSpin
<1>26. CASE RunnerPark
    BY <1>26, BorrowMove, Zenon DEF RunnerPark
<1>27. CASE RunnerUnpark
    BY <1>27, BorrowMove, Zenon DEF RunnerUnpark
<1>28. CASE RunnerFetch
    BY <1>28, BorrowMove, Zenon DEF RunnerFetch
<1>29. CASE RunnerResetCount
    BY <1>29, BorrowMove, Zenon DEF RunnerResetCount
<1>30. CASE RunnerResetIndex
    BY <1>30, BorrowMove, Zenon DEF RunnerResetIndex
<1>31. CASE RunnerExit
    BY <1>31, BorrowMove, Zenon DEF RunnerExit
<1>32. CASE RunnerSpuriousWake
    BY <1>32, BorrowMove, Zenon DEF RunnerSpuriousWake
<1>. QED
    BY <1>1, <1>2, <1>3, <1>4, <1>5, <1>6, <1>7, <1>8, <1>9, <1>10, <1>11, <1>12, <1>13,
       <1>14, <1>15, <1>16, <1>17, <1>18, <1>19, <1>20, <1>21, <1>22, <1>23, <1>24, <1>25,
       <1>26, <1>27, <1>28, <1>29, <1>30, <1>31, <1>32, Zenon
    DEF Next, ClientStep, ChannelStep, CloserStep, RunnerStep

(***************************************************************************)
(* What a shutdown finds: every step preserves GateInv, and is a step of   *)
(* TaskQueue or leaves the queue alone.                                    *)
(***************************************************************************)

\* GateInv is preserved by a step that leaves the closing threads, the flags, the mutex and
\* the client buffer alone.
LEMMA GateFrame ==
    ASSUME GateInv,
           UNCHANGED <<submissions, closed, stopping, handle, holder, queuePtr, fill, published>>,
           \A k \in Closers : pc'[k] = pc[k],
           stopSeen' => stopSeen \/ stopping,
           Ended' => Ended
    PROVE  GateInv'
<1>1. QueueClosed' <=> QueueClosed
    BY Zenon DEF QueueClosed
<1>2. GateClosers' /\ GateStop'
    BY Zenon DEF GateInv, GateClosers, GateStop
<1>3. GateFlushed' /\ (QueueClosed' => submissions' = 0) /\ (stopSeen' => stopping')
    BY <1>1, Zenon DEF GateInv, GateFlushed
<1>4. Ended' => stopping' /\ fill'[queuePtr'] = 0
    BY Zenon DEF GateInv
<1>. QED
    BY <1>2, <1>3, <1>4, Zenon DEF GateInv

\* GateInv is preserved by a step of the flush in a shutdown.
LEMMA GateFlushStep ==
    ASSUME TypeOK, GateInv, NEW k \in Closers,
           pc[k] \in {"reserve", "write", "publish", "wake"},
           pc'[k] \in {"write", "publish", "wake", "stop"},
           UNCHANGED <<submissions, closed, stopping, handle, holder, queuePtr, fill, stopSeen>>,
           \A u \in Threads \ {k} : pc'[u] = pc[u],
           published = Slot => published' = Slot,
           pc'[k] \in {"wake", "stop"} => fill[queuePtr] = 0 \/ published' = Slot
    PROVE  GateInv'
<1>1. pc[k] \in ClosingLabels \ {"close"} /\ pc'[k] \in ClosingLabels \ {"close"}
    BY Zenon DEF ClosingLabels
<1>2. ~stopping
    BY <1>1, Zenon DEF GateInv, GateStop
<1>3. QueueClosed /\ submissions = 0
    BY Zenon DEF QueueClosed, GateInv
<1>4. \A u \in Closers : u # k => pc'[u] = pc[u]
    BY Zenon DEF Threads
<1>5. Runner # k /\ pc'[Runner] = pc[Runner]
    BY ConstantsAssumption, Zenon DEF Threads
<1>6. GateClosers'
    BY <1>1, <1>4, Zenon DEF GateInv, GateClosers
<1>7. GateFlushed'
    BY <1>2, <1>4, Zenon DEF GateInv, GateFlushed
<1>. QED
    BY <1>2, <1>3, <1>5, <1>6, <1>7, Zenon DEF GateInv, GateStop, Ended

\* A flush that finds no slot left, or publishes the last ones, leaves the client buffer
\* complete, unless the runner has just emptied it.
LEMMA FlushCompletes ==
    ASSUME RefinementInv, NobodyInside, NEW k \in Closers,
           pc[k] \in {"reserve", "publish"}, available >= MaxTask
    PROVE  fill[queuePtr] = 0 \/ published \cup Held(k) = Slot
<1>1. TypeOK /\ SlotInv /\ OrderInv /\ CoverInv /\ GateInv
    BY Zenon DEF RefinementInv, SafetyInv
<1>2. CASE pc[Runner] = "resetIndex"
    BY <1>1, <1>2, Zenon DEF OrderInv, OrderCounts, Resetting
<1>3. CASE pc[Runner] # "resetIndex"
    <2>1. \A t \in Threads : t # k => Held(t) = {}
        <3>. SUFFICES ASSUME NEW t \in Threads, t # k, Holding(t) PROVE FALSE
            BY Zenon DEF Held
        <3>1. QueueClosed
            BY Zenon DEF QueueClosed
        <3>2. t \in Closers
            BY <3>1, Zenon DEF NobodyInside, Submitters, SubmitLabels, Holding, Threads
        <3>. QED
            BY <3>2, <1>1, Zenon DEF GateInv, GateClosers, ClosingLabels, Holding
    <2>2. \A i \in Slot : i < available
        BY <1>1, ConstantsAssumption DEF TypeOK, Slot
    <2>3. \A i \in Slot : i \in published \cup Held(k)
        BY <2>1, <2>2, <1>1, <1>3, ZenonT(40) DEF CoverInv
    <2>4. Held(k) \subseteq Slot
        BY <1>1, ConstantsAssumption DEF Held, TypeOK, Cursors, Slot, SlotInv, Threads
    <2>. QED
        BY <2>3, <2>4, <1>1, Zenon DEF TypeOK
<1>. QED
    BY <1>2, <1>3, Zenon

\* GateInv is preserved by whatever clients and the runner do while the queue is open.
LEMMA GateOpenStep ==
    ASSUME GateInv, ~QueueClosed,
           UNCHANGED <<closed, stopping, handle, holder, stopSeen>>,
           \A k \in Closers : pc'[k] = pc[k],
           Ended' => Ended
    PROVE  GateInv'
<1>1. ~stopping /\ ~Ended /\ ~QueueClosed'
    BY Zenon DEF QueueClosed, GateInv
<1>2. ~\E k \in Closers : pc[k] \in {"wake", "stop"}
    BY Zenon DEF QueueClosed
<1>3. GateClosers' /\ GateStop' /\ GateFlushed'
    BY <1>1, <1>2, Zenon DEF GateInv, GateClosers, GateStop, GateFlushed
<1>. QED
    BY <1>1, <1>3, Zenon DEF GateInv

\* GateInv is preserved when a closer is past its shutdown or finds it done.
LEMMA GateLeave ==
    ASSUME TypeOK, GateInv, NEW k \in Closers, pc[k] \in {"idle", "join"},
           pc'[k] \in {"returned", "panicked"},
           \A u \in Threads \ {k} : pc'[u] = pc[u],
           UNCHANGED <<submissions, closed, stopping, queuePtr, fill, published, stopSeen, handle>>,
           pc[k] = "idle" => holder' = holder
    PROVE  GateInv'
<1>1. Runner # k /\ pc'[Runner] = pc[Runner]
    BY ConstantsAssumption, Zenon DEF Threads
<1>2. \A u \in Closers : u # k => pc'[u] = pc[u]
    BY Zenon DEF Threads
<1>3. QueueClosed' <=> QueueClosed
    BY <1>2, Zenon DEF QueueClosed
<1>4. pc'[k] \notin ClosingLabels
    BY Zenon DEF ClosingLabels
<1>5. ASSUME NEW u \in Closers, pc'[u] \in ClosingLabels PROVE pc[u] = pc'[u] /\ holder' = holder
    <2>1. u # k /\ pc[u] = pc'[u]
        BY <1>2, <1>4, <1>5, Zenon
    <2>2. holder = u
        BY <2>1, <1>5, Zenon DEF GateInv, GateClosers
    <2>3. pc[k] = "join" => holder = k
        BY Zenon DEF GateInv, GateClosers, ClosingLabels
    <2>. QED
        BY <2>1, <2>2, <2>3, Zenon
<1>6. GateClosers' /\ GateStop' /\ GateFlushed'
    BY <1>2, <1>4, <1>5, Zenon DEF GateInv, GateClosers, GateStop, GateFlushed
<1>. QED
    BY <1>1, <1>3, <1>6, Zenon DEF GateInv, Ended

\* GateInv is preserved when a shutdown closes the channel or has waited for the
\* submissions in flight.
LEMMA GateMove ==
    ASSUME TypeOK, GateInv, NEW k \in Closers, holder = k, ~handle, ~stopping, closed',
           pc[k] \in {"close", "drain"}, pc'[k] \in {"drain", "reserve"},
           pc'[k] = "reserve" => submissions = 0,
           \A u \in Threads \ {k} : pc'[u] = pc[u],
           UNCHANGED <<submissions, stopping, queuePtr, fill, published, stopSeen, handle, holder>>
    PROVE  GateInv'
<1>1. Runner # k /\ pc'[Runner] = pc[Runner]
    BY ConstantsAssumption, Zenon DEF Threads
<1>2. \A u \in Closers : u # k => pc'[u] = pc[u]
    BY Zenon DEF Threads
<1>3. QueueClosed' => submissions' = 0
    BY <1>2, Zenon DEF QueueClosed, GateInv
<1>4. GateClosers' /\ GateStop' /\ GateFlushed'
    BY <1>2, Zenon DEF GateInv, GateClosers, GateStop, GateFlushed
<1>. QED
    BY <1>1, <1>3, <1>4, Zenon DEF GateInv, Ended

\* GateInv is inductive.
LEMMA GateStep == RefinementInv /\ NobodyInside /\ CountExact /\ [Next]_vars => GateInv'
<1>. SUFFICES ASSUME RefinementInv, NobodyInside, CountExact, [Next]_vars PROVE GateInv'
    OBVIOUS
<1>a. TypeOK /\ LocalInv /\ SlotInv /\ OrderInv /\ GateInv /\ NoTornFetch /\ ~Wraps
    BY HoldersKeepBuffer, Zenon DEF RefinementInv, SafetyInv
<1>b. \A k \in Closers : k # Runner /\ k \notin Clients /\ k \in Threads /\ op[k] = "flush"
    BY <1>a, ConstantsAssumption, Zenon DEF TypeOK, LocalInv, Threads, Ops
<1>c. \A t \in Clients \cup {Runner} : pc[t] \in SubmitLabels => ~QueueClosed
    BY Zenon DEF NobodyInside, Submitters
<1>d. \A t \in Threads : t \notin Closers => t \in Clients \cup {Runner}
    BY Zenon DEF Threads
<1>. USE ConstantsAssumption, <1>a, <1>b DEF Goto, shared, gate, join, ranges,
              server, caller, history
<1>1. CASE UNCHANGED vars
    BY <1>1, GateFrame, Zenon DEF vars, Ended
<1>2. ASSUME NEW c \in Clients, NEW k \in Kinds, Call(c, k) PROVE GateInv'
    BY <1>2, GateFrame, Zenon
    DEF Call, Ended, Threads, TypeOK, LabelsOK
<1>3. ASSUME NEW c \in Clients, ReserveRetry(c) PROVE GateInv'
    BY <1>3, GateFrame, Zenon
    DEF ReserveRetry, Ended, Threads, TypeOK, LabelsOK
<1>4. ASSUME NEW c \in Clients, Reserve(c) PROVE GateInv'
  <2>1. ~QueueClosed
    BY <1>4, <1>c, Zenon DEF Reserve, SubmitLabels
  <2>. QED
    BY <1>4, <2>1, GateOpenStep, Zenon DEF Reserve, Ended, Threads, TypeOK, LabelsOK
<1>5. ASSUME NEW c \in Clients, Await(c) PROVE GateInv'
    BY <1>5, GateFrame, Zenon
    DEF Await, Ended, Threads, TypeOK, LabelsOK
<1>6. ASSUME NEW t \in Threads, Begin(t) PROVE GateInv'
  <2>1. t \notin Closers
    BY <1>6, Zenon DEF Begin, TypeOK, LabelsOK, CloserLabels
  <2>2. ~QueueClosed
    BY <1>6, Zenon DEF Begin, Accepting, QueueClosed, GateInv, GateStop, GateClosers, ClosingLabels
  <2>. QED
    BY <1>6, <2>1, <2>2, GateOpenStep, Zenon DEF Begin, Ended, Threads, TypeOK, LabelsOK
<1>7. ASSUME NEW t \in Threads, BeginClosed(t) PROVE GateInv'
  <2>1. t \notin Closers
    BY <1>7, Zenon DEF BeginClosed, TypeOK, LabelsOK, CloserLabels
  <2>2. AfterOp(t) \notin {"exit", "done", "panicked"} /\ (t = Runner => op[t] = "flush")
    BY AfterOpLabel, Zenon DEF Threads, LocalInv, TypeOK, Ops
  <2>. QED
    BY <1>7, <2>1, <2>2, GateFrame, Zenon DEF BeginClosed, Ended, Threads, TypeOK, LabelsOK
<1>8. ASSUME NEW t \in Threads, FlushFull(t) PROVE GateInv'
  <2>1. CASE t \in Closers
    <3>1. Held(t) = {} /\ pc[t] = "reserve" /\ available >= MaxTask
      BY <1>8, Zenon DEF FlushFull, Held, Holding
    <3>2. fill[queuePtr] = 0 \/ published = Slot
      BY <2>1, <3>1, FlushCompletes, Zenon
    <3>. QED
      BY <1>8, <2>1, <3>2, GateFlushStep, Zenon
      DEF FlushFull, TypeOK, LabelsOK
  <2>2. CASE t \notin Closers
    BY <1>8, <2>2, GateFrame, Zenon
    DEF FlushFull, Ended, Threads, TypeOK, LabelsOK
  <2>. QED
    BY <2>1, <2>2, Zenon
<1>9. ASSUME NEW t \in Threads, FlushReserve(t) PROVE GateInv'
  <2>1. CASE t \in Closers
    BY <1>9, <2>1, GateFlushStep, Zenon
    DEF FlushReserve, TypeOK, LabelsOK
  <2>2. CASE t \notin Closers
    BY <1>9, <2>2, GateFrame, ZenonT(40)
    DEF FlushReserve, Ended, Threads, TypeOK, LabelsOK
  <2>. QED
    BY <2>1, <2>2, Zenon
<1>10. ASSUME NEW t \in Threads, Write(t) PROVE GateInv'
  <2>1. CASE t \in Closers
    BY <1>10, <2>1, GateFlushStep, Zenon
    DEF Write, TypeOK, LabelsOK
  <2>2. CASE t \notin Closers
    BY <1>10, <2>2, GateFrame, Zenon
    DEF Write, Ended, Threads, TypeOK, LabelsOK
  <2>. QED
    BY <2>1, <2>2, Zenon
<1>11. ASSUME NEW t \in Threads, Publish(t) PROVE GateInv'
  <2>1. CASE t \in Closers
    <3>1. /\ pc[t] = "publish" /\ Holding(t) /\ published' = published \cup Held(t)
          /\ pc'[t] \in {"wake", "stop"} /\ \A u \in Threads \ {t} : pc'[u] = pc[u]
          /\ UNCHANGED <<submissions, closed, stopping, handle, holder, queuePtr, fill, stopSeen>>
      BY <1>11, <2>1, ZenonT(40) DEF Publish, Held, Holding, TypeOK, LabelsOK
    <3>2. available >= MaxTask
      <4>1. lo[t] >= fill[queuePtr] /\ lo[t] < hi[t] /\ hi[t] <= available
        BY <2>1, <3>1, ZenonT(40) DEF OrderInv, InPlace, SlotInv
      <4>2. lo[t] \in Nat /\ hi[t] \in Nat /\ available \in Nat /\ fill[queuePtr] \in Nat
        BY OrderNumbers, SMTT(20) DEF TypeOK, Cursors
      <4>3. fill[queuePtr] # available
        <5>. HIDE <1>a, <1>b
        <5>. QED
          BY <4>1, <4>2
      <4>4. ~(available < MaxTask) /\ MaxTask \in Nat
        BY <4>3, Zenon DEF OrderInv, OrderCounts
      <4>. HIDE <1>a, <1>b
      <4>. QED
        BY <4>2, <4>4
    <3>3. fill[queuePtr] = 0 \/ published' = Slot
      BY <2>1, <3>1, <3>2, FlushCompletes, Zenon
    <3>4. published = Slot => published' = Slot
      <4>1. Held(t) \subseteq Slot
        <5>1. lo[t] \in 0 .. MaxTask /\ hi[t] \in 0 .. MaxTask
          BY <2>1, Zenon DEF TypeOK, Cursors
        <5>. HIDE <1>a, <1>b
        <5>. QED
          BY <5>1 DEF Held, Slot
      <4>. QED
        BY <3>1, <4>1, Zenon
    <3>. QED
      BY <2>1, <3>1, <3>3, <3>4, GateFlushStep, Zenon
  <2>2. CASE t \notin Closers
    <3>1. ~QueueClosed
      BY <1>11, <2>2, <1>c, <1>d, Zenon DEF Publish, SubmitLabels
    <3>. QED
      BY <1>11, <2>2, <3>1, GateOpenStep, Zenon DEF Publish, Ended, Threads, TypeOK, LabelsOK
  <2>. QED
    BY <2>1, <2>2, Zenon
<1>12. ASSUME NEW t \in Threads, Wake(t) PROVE GateInv'
  <2>1. CASE t \in Closers
    <3>1. fill[queuePtr] = 0 \/ published = Slot
      BY <1>12, <2>1, Zenon DEF Wake, GateInv, GateFlushed
    <3>. QED
      BY <1>12, <2>1, <3>1, GateFlushStep, Zenon
      DEF Wake, TypeOK, LabelsOK
  <2>2. CASE t \notin Closers
    BY <1>12, <2>2, GateFrame, Zenon
    DEF Wake, Ended, Threads, TypeOK, LabelsOK
  <2>. QED
    BY <2>1, <2>2, Zenon
<1>13. ASSUME NEW t \in Threads, Release(t) PROVE GateInv'
  <2>1. t \notin Closers
    BY <1>13, Zenon DEF Release, TypeOK, LabelsOK, CloserLabels
  <2>2. AfterOp(t) \notin {"exit", "done", "panicked"}
    BY AfterOpLabel, Zenon DEF Threads
  <2>3. ~QueueClosed
    BY <1>13, <2>1, <1>c, <1>d, Zenon DEF Release, SubmitLabels
  <2>. QED
    BY <1>13, <2>1, <2>2, <2>3, GateOpenStep, Zenon DEF Release, Ended, Threads, TypeOK, LabelsOK
<1>14. ASSUME NEW k \in Closers, ShutdownLock(k) PROVE GateInv'
  <2>1. /\ holder = NoThread /\ \A u \in Threads \ {k} : pc'[u] = pc[u]
        /\ UNCHANGED <<submissions, closed, stopping, queuePtr, fill, published, stopSeen>>
    BY <1>14, Zenon DEF ShutdownLock, TypeOK, LabelsOK
  <2>2. CASE handle
    <3>1. ~handle' /\ holder' = k /\ pc'[k] = "close"
      BY <1>14, <2>2, Zenon DEF ShutdownLock, TypeOK, LabelsOK
    <3>2. \A u \in Closers : pc[u] \notin ClosingLabels
      BY <2>2, Zenon DEF GateInv, GateClosers
    <3>3. ~stopping
      BY <2>2, Zenon DEF GateInv, GateStop
    <3>4. ~QueueClosed /\ ~QueueClosed'
      BY <2>1, <3>1, <3>2, <3>3, Zenon DEF QueueClosed, ClosingLabels
    <3>5. GateClosers'
      BY <2>1, <3>1, <3>2, Zenon DEF GateClosers
    <3>6. GateStop' /\ GateFlushed'
      BY <2>1, <3>3, <3>4, Zenon DEF GateStop, GateFlushed, QueueClosed
    <3>7. pc'[Runner] = pc[Runner]
      BY <2>1, Zenon DEF Threads
    <3>. QED
      BY <2>1, <3>3, <3>4, <3>5, <3>6, <3>7, Zenon DEF GateInv, Ended
  <2>3. CASE ~handle
    <3>1. pc'[k] = "returned" /\ UNCHANGED <<handle, holder>> /\ pc[k] = "idle"
      BY <1>14, <2>3, Zenon DEF ShutdownLock, TypeOK, LabelsOK
    <3>. QED
      BY <2>1, <3>1, GateLeave, Zenon
  <2>. QED
    BY <2>2, <2>3, Zenon
<1>15. ASSUME NEW k \in Closers, ShutdownPoisoned(k) PROVE GateInv'
  <2>1. /\ pc[k] = "idle" /\ pc'[k] = "panicked" /\ \A u \in Threads \ {k} : pc'[u] = pc[u]
        /\ UNCHANGED <<submissions, closed, stopping, queuePtr, fill, published, stopSeen,
                       handle, holder>>
    BY <1>15, Zenon DEF ShutdownPoisoned, TypeOK, LabelsOK
  <2>. QED
    BY <2>1, GateLeave, Zenon
<1>16. ASSUME NEW k \in Closers, ShutdownClose(k) PROVE GateInv'
  <2>1. /\ pc[k] = "close" /\ pc'[k] = "drain" /\ \A u \in Threads \ {k} : pc'[u] = pc[u]
        /\ closed' /\ UNCHANGED <<submissions, stopping, handle, holder, queuePtr, fill,
                       published, stopSeen>>
    BY <1>16, Zenon DEF ShutdownClose, TypeOK, LabelsOK
  <2>2. holder = k /\ ~handle /\ ~stopping
    BY <2>1, Zenon DEF GateInv, GateClosers, GateStop, ClosingLabels
  <2>. QED
    BY <2>1, <2>2, GateMove, Zenon
<1>17. ASSUME NEW k \in Closers, ShutdownDrained(k) PROVE GateInv'
  <2>1. /\ pc[k] = "drain" /\ pc'[k] = "reserve" /\ \A u \in Threads \ {k} : pc'[u] = pc[u]
        /\ submissions = 0 /\ UNCHANGED <<submissions, closed, stopping, handle, holder, queuePtr,
                                       fill, published, stopSeen>>
    BY <1>17, Zenon DEF ShutdownDrained, Drained, TypeOK, LabelsOK
  <2>2. holder = k /\ ~handle /\ ~stopping /\ closed
    BY <2>1, Zenon DEF GateInv, GateClosers, GateStop, ClosingLabels
  <2>. QED
    BY <2>1, <2>2, GateMove, Zenon
<1>18. ASSUME NEW k \in Closers, ShutdownStop(k) PROVE GateInv'
  <2>1. /\ pc[k] = "stop" /\ pc'[k] = "stopWake" /\ \A u \in Threads \ {k} : pc'[u] = pc[u]
        /\ stopping' /\ UNCHANGED <<submissions, closed, handle, holder, queuePtr, fill,
                       published, stopSeen>>
    BY <1>18, Zenon DEF ShutdownStop, TypeOK, LabelsOK
  <2>2. /\ holder = k /\ ~handle /\ closed /\ QueueClosed
        /\ fill[queuePtr] = 0 \/ published = Slot
    BY <2>1, Zenon DEF GateInv, GateClosers, GateFlushed, ClosingLabels, QueueClosed
  <2>3. \A u \in Closers : pc'[u] \in ClosingLabels => u = k
    BY <2>1, <2>2, Zenon DEF GateInv, GateClosers
  <2>4. GateClosers' /\ GateStop' /\ GateFlushed'
    BY <2>1, <2>2, <2>3, Zenon DEF GateClosers, GateStop, GateFlushed
  <2>5. pc'[Runner] = pc[Runner] /\ (submissions' = 0) /\ (stopSeen' => stopping')
    BY <2>1, <2>2, Zenon DEF Threads, GateInv
  <2>. QED
    BY <2>1, <2>4, <2>5, Zenon DEF GateInv, Ended
<1>19. ASSUME NEW k \in Closers, ShutdownWake(k) PROVE GateInv'
  <2>1. /\ pc[k] = "stopWake" /\ pc'[k] = "join" /\ \A u \in Threads \ {k} : pc'[u] = pc[u]
        /\ UNCHANGED <<submissions, closed, stopping, handle, holder, queuePtr, fill,
                       published, stopSeen>>
    BY <1>19, Zenon DEF ShutdownWake, TypeOK, LabelsOK
  <2>2. QueueClosed' <=> QueueClosed
    BY <2>1, Zenon DEF QueueClosed, Threads
  <2>3. GateClosers' /\ GateStop' /\ GateFlushed'
    BY <2>1, Zenon DEF GateInv, GateClosers, GateStop, GateFlushed, ClosingLabels, Threads
  <2>4. pc'[Runner] = pc[Runner]
    BY <2>1, Zenon DEF Threads
  <2>. QED
    BY <2>1, <2>2, <2>3, <2>4, Zenon DEF GateInv, Ended
<1>20. ASSUME NEW k \in Closers, ShutdownJoin(k) PROVE GateInv'
  <2>1. /\ pc[k] = "join" /\ pc'[k] \in {"returned", "panicked"}
        /\ \A u \in Threads \ {k} : pc'[u] = pc[u]
        /\ UNCHANGED <<submissions, closed, stopping, queuePtr, fill, published, stopSeen, handle>>
    BY <1>20, Zenon DEF ShutdownJoin, TypeOK, LabelsOK
  <2>. QED
    BY <2>1, GateLeave, Zenon
<1>21. CASE RunnerExec
  <2>1. /\ \A k \in Closers : pc'[k] = pc[k]
        /\ UNCHANGED <<submissions, closed, stopping, handle, holder, stopSeen>>
        /\ ~Ended'
    BY <1>21, Zenon DEF RunnerExec, Ended, TypeOK, LabelsOK, Threads
  <2>2. fill'[queuePtr'] = fill[queuePtr] /\ published' = published
    <3>1. /\ fill' = fill \/ fill' = [fill EXCEPT ![1 - queuePtr] = 0]
          /\ UNCHANGED <<queuePtr, published>>
      BY <1>21, Zenon DEF RunnerExec
    <3>2. queuePtr \in {0, 1} /\ 1 - queuePtr # queuePtr /\ fill \in [{0, 1} -> Nat]
      BY DEF TypeOK, Fills
    <3>. QED
      BY <3>1, <3>2, Zenon
  <2>3. QueueClosed' <=> QueueClosed
    BY <2>1, Zenon DEF QueueClosed
  <2>4. GateClosers' /\ GateStop' /\ GateFlushed'
    BY <2>1, <2>2, Zenon DEF GateInv, GateClosers, GateStop, GateFlushed
  <2>. QED
    BY <2>1, <2>3, <2>4, Zenon DEF GateInv
<1>22. CASE RunnerLoadStop
    BY <1>22, GateFrame, Zenon
    DEF RunnerLoadStop, Ended, Threads, TypeOK, LabelsOK
<1>23. CASE RunnerLoadSize
  <2>1. /\ \A k \in Closers : pc'[k] = pc[k]
        /\ UNCHANGED <<submissions, closed, stopping, handle, holder, queuePtr, fill, published,
                       stopSeen>>
        /\ Ended' => ~BufferComplete /\ stopSeen
    BY <1>23, Zenon DEF RunnerLoadSize, Ended, TypeOK, LabelsOK, Threads
  <2>2. Ended' => stopping /\ fill[queuePtr] = 0
    BY <2>1, Zenon DEF CountExact, GateInv, GateFlushed
  <2>3. QueueClosed' <=> QueueClosed
    BY <2>1, Zenon DEF QueueClosed
  <2>4. GateClosers' /\ GateStop' /\ GateFlushed'
    BY <2>1, Zenon DEF GateInv, GateClosers, GateStop, GateFlushed
  <2>. QED
    BY <2>1, <2>2, <2>3, <2>4, Zenon DEF GateInv
<1>24. CASE RunnerLoadIndex
    BY <1>24, GateFrame, Zenon
    DEF RunnerLoadIndex, Ended, Threads, TypeOK, LabelsOK
<1>25. CASE RunnerSpin
    BY <1>25, GateFrame, Zenon
    DEF RunnerSpin, Ended, Threads, TypeOK, LabelsOK
<1>26. CASE RunnerPark
    BY <1>26, GateFrame, Zenon
    DEF RunnerPark, Ended, Threads, TypeOK, LabelsOK
<1>27. CASE RunnerUnpark
    BY <1>27, GateFrame, Zenon
    DEF RunnerUnpark, Ended, Threads, TypeOK, LabelsOK
<1>28. CASE RunnerFetch
  <2>1. /\ \A k \in Closers : pc'[k] = pc[k]
        /\ UNCHANGED <<submissions, closed, stopping, handle, holder, stopSeen>>
        /\ ~Ended'
    BY <1>28, Zenon DEF RunnerFetch, Ended, TypeOK, LabelsOK, Threads
  <2>2. fill'[queuePtr'] = 0
    BY <1>28, Zenon DEF RunnerFetch, LocalInv, OrderInv, OrderCounts
  <2>3. QueueClosed' <=> QueueClosed
    BY <2>1, Zenon DEF QueueClosed
  <2>4. GateClosers' /\ GateStop' /\ GateFlushed'
    BY <2>1, <2>2, Zenon DEF GateInv, GateClosers, GateStop, GateFlushed
  <2>. QED
    BY <2>1, <2>3, <2>4, Zenon DEF GateInv
<1>29. CASE RunnerResetCount
  <2>1. /\ \A k \in Closers : pc'[k] = pc[k]
        /\ UNCHANGED <<submissions, closed, stopping, handle, holder, stopSeen>>
        /\ ~Ended'
    BY <1>29, Zenon DEF RunnerResetCount, Ended, TypeOK, LabelsOK, Threads
  <2>2. fill'[queuePtr'] = 0
    BY <1>29, Zenon DEF RunnerResetCount, Resetting, OrderInv, OrderCounts
  <2>3. QueueClosed' <=> QueueClosed
    BY <2>1, Zenon DEF QueueClosed
  <2>4. GateClosers' /\ GateStop' /\ GateFlushed'
    BY <2>1, <2>2, Zenon DEF GateInv, GateClosers, GateStop, GateFlushed
  <2>. QED
    BY <2>1, <2>3, <2>4, Zenon DEF GateInv
<1>30. CASE RunnerResetIndex
    BY <1>30, GateFrame, Zenon
    DEF RunnerResetIndex, Ended, Threads, TypeOK, LabelsOK
<1>31. CASE RunnerExit
    BY <1>31, GateFrame, Zenon
    DEF RunnerExit, Ended, Threads, TypeOK, LabelsOK
<1>32. CASE RunnerSpuriousWake
    BY <1>32, GateFrame, Zenon
    DEF RunnerSpuriousWake, Ended, Threads, TypeOK, LabelsOK
<1>. QED
    BY <1>1, <1>2, <1>3, <1>4, <1>5, <1>6, <1>7, <1>8, <1>9, <1>10, <1>11, <1>12, <1>13,
       <1>14, <1>15, <1>16, <1>17, <1>18, <1>19, <1>20, <1>21, <1>22, <1>23, <1>24, <1>25,
       <1>26, <1>27, <1>28, <1>29, <1>30, <1>31, <1>32, Zenon
    DEF Next, ClientStep, ChannelStep, CloserStep, RunnerStep

----------------------------------------------------------------------------
(* The refinement *)

FlushingLabels == {"reserve", "write", "publish", "wake", "stop"}

\* When the runner has left its loop, every accepted task has run.
LEMMA EndedAllRun ==
    SafetyInv /\ OrderInv /\ GateInv => AllRun
<1>. SUFFICES ASSUME SafetyInv, OrderInv, GateInv, Ended PROVE executed = reserved
    BY Zenon DEF AllRun
<1>1. TypeOK /\ LocalInv /\ fill[queuePtr] = 0
    BY Zenon DEF SafetyInv, GateInv
<1>2. ~ready
    BY <1>1, Zenon DEF LocalInv, Ended
<1>3. fill[1 - queuePtr] = 0 /\ Progress = 0
    BY <1>2, Zenon DEF OrderInv, OrderCounts, Progress
<1>4. Len(executed) = OldFirst /\ OldFirst = Len(reserved)
    <2>1. Len(executed) = OldFirst + Progress
        BY Zenon DEF OrderInv, OrderCounts
    <2>2. /\ OldFirst = Len(reserved) - fill[queuePtr] - fill[1 - queuePtr]
          /\ OldFirst \in Nat /\ Len(reserved) \in Nat
        BY <1>1, OrderNumbers, Zenon
    <2>. QED
        BY <2>1, <2>2, <1>1, <1>3
<1>5. executed \in Seq(Task) /\ reserved \in Seq(Task)
    BY <1>1, Zenon DEF TypeOK
<1>6. \A j \in 1 .. Len(reserved) : executed[j] = reserved[j]
    BY <1>4, Zenon DEF OrderInv
<1>. QED
    BY <1>4, <1>5, <1>6

\* A step that leaves the two histories, the flushing shutdowns and the end of the loop alone
\* leaves the queue alone.
LEMMA QueueKept ==
    ASSUME UNCHANGED <<reserved, executed, stopping>>,
           \A k \in Closers : pc'[k] \in FlushingLabels <=> pc[k] \in FlushingLabels,
           Ended' <=> Ended
    PROVE  UNCHANGED Queue!vars
<1>1. QueueClosed' <=> QueueClosed
    BY Zenon DEF QueueClosed, FlushingLabels
<1>2. (~QueueClosed)' = ~QueueClosed
    BY <1>1, Zenon
<1>3. Ended' = Ended
    BY DEF Ended
<1>. QED
    BY <1>2, <1>3, Zenon DEF Queue!vars, Ended

\* Every step of the channel is a step of the queue or leaves it alone.
LEMMA QueueStep ==
    /\ RefinementInv /\ NobodyInside /\ [Next]_vars /\ (GateInv /\ AllRun)'
    => [Queue!Next]_(Queue!vars)
<1>. SUFFICES ASSUME RefinementInv, NobodyInside, [Next]_vars,
                     GateInv', AllRun'
              PROVE  [Queue!Next]_(Queue!vars)
    OBVIOUS
<1>a. TypeOK /\ LocalInv /\ OrderInv /\ GateInv
    BY Zenon DEF RefinementInv, SafetyInv
<1>b. \A k \in Closers : k # Runner /\ k \notin Clients /\ k \in Threads
    BY ConstantsAssumption, Zenon DEF Threads
<1>. USE ConstantsAssumption, <1>a, <1>b DEF Goto, shared, gate, join, ranges,
              server, caller, history
<1>1. CASE UNCHANGED vars
    BY <1>1, QueueKept, Zenon DEF vars, Ended
<1>2. ASSUME NEW c \in Clients, NEW k \in Kinds, Call(c, k) PROVE [Queue!Next]_(Queue!vars)
    BY <1>2, QueueKept, Zenon
    DEF Call, Ended, FlushingLabels, Threads, TypeOK,
        LabelsOK, CloserLabels
<1>3. ASSUME NEW c \in Clients, ReserveRetry(c) PROVE [Queue!Next]_(Queue!vars)
    BY <1>3, QueueKept, Zenon
    DEF ReserveRetry, Ended, FlushingLabels, Threads, TypeOK,
        LabelsOK, CloserLabels
<1>4. ASSUME NEW c \in Clients, Reserve(c) PROVE [Queue!Next]_(Queue!vars)
  <2>1. ~QueueClosed
    BY <1>4, Zenon DEF Reserve, NobodyInside, Submitters, SubmitLabels
  <2>2. /\ reserved' = Append(reserved, CurrentTask(c)) /\ executed' = executed
        /\ stopping' = stopping /\ \A k \in Closers \cup {Runner} : pc'[k] = pc[k]
    BY <1>4, Zenon DEF Reserve, TypeOK, LabelsOK, Threads
  <2>3. CurrentTask(c) \in Task
    <3>1. calls[c] \in 0 .. MaxCalls /\ calls[c] >= 1
      BY <1>4, Zenon DEF Reserve, TypeOK, CallCounts, LocalInv
    <3>. HIDE <1>a, <1>b
    <3>2. calls[c] \in 1 .. MaxCalls
      BY <3>1
    <3>. QED
      BY <3>2, Zenon DEF CurrentTask, Task
  <2>4. QueueClosed' <=> QueueClosed
    BY <2>2, Zenon DEF QueueClosed
  <2>5. (~QueueClosed)' = ~QueueClosed /\ pc'[Runner] = pc[Runner]
    BY <2>2, <2>4, Zenon DEF QueueClosed
  <2>6. Queue!Accept
    BY <2>1, <2>2, <2>3, <2>5, Zenon DEF Queue!Accept
  <2>. QED
    BY <2>6, Zenon DEF Queue!Next
<1>5. ASSUME NEW c \in Clients, Await(c) PROVE [Queue!Next]_(Queue!vars)
    BY <1>5, QueueKept, Zenon
    DEF Await, Ended, FlushingLabels, Threads, TypeOK,
        LabelsOK, CloserLabels
<1>6. ASSUME NEW t \in Threads, Begin(t) PROVE [Queue!Next]_(Queue!vars)
    BY <1>6, QueueKept, Zenon
    DEF Begin, Ended, FlushingLabels, Threads, TypeOK,
        LabelsOK, CloserLabels
<1>7. ASSUME NEW t \in Threads, BeginClosed(t) PROVE [Queue!Next]_(Queue!vars)
  <2>1. AfterOp(t) \notin {"exit", "done", "panicked"} /\ (t = Runner => op[t] = "flush")
    BY AfterOpLabel, Zenon DEF Threads, LocalInv, TypeOK, Ops
  <2>. QED
    BY <1>7, <2>1, QueueKept, Zenon
    DEF BeginClosed, Ended, FlushingLabels, Threads, TypeOK,
        LabelsOK, CloserLabels
<1>8. ASSUME NEW t \in Threads, FlushFull(t) PROVE [Queue!Next]_(Queue!vars)
    BY <1>8, QueueKept, Zenon
    DEF FlushFull, Ended, FlushingLabels, Threads, TypeOK,
        LabelsOK, CloserLabels
<1>9. ASSUME NEW t \in Threads, FlushReserve(t) PROVE [Queue!Next]_(Queue!vars)
    BY <1>9, QueueKept, Zenon
    DEF FlushReserve, Ended, FlushingLabels, Threads, TypeOK,
        LabelsOK, CloserLabels
<1>10. ASSUME NEW t \in Threads, Write(t) PROVE [Queue!Next]_(Queue!vars)
    BY <1>10, QueueKept, Zenon
    DEF Write, Ended, FlushingLabels, Threads, TypeOK,
        LabelsOK, CloserLabels
<1>11. ASSUME NEW t \in Threads, Publish(t) PROVE [Queue!Next]_(Queue!vars)
    BY <1>11, QueueKept, Zenon
    DEF Publish, Ended, FlushingLabels, Threads, TypeOK,
        LabelsOK, CloserLabels
<1>12. ASSUME NEW t \in Threads, Wake(t) PROVE [Queue!Next]_(Queue!vars)
    BY <1>12, QueueKept, Zenon
    DEF Wake, Ended, FlushingLabels, Threads, TypeOK,
        LabelsOK, CloserLabels
<1>13. ASSUME NEW t \in Threads, Release(t) PROVE [Queue!Next]_(Queue!vars)
  <2>1. AfterOp(t) \notin {"exit", "done", "panicked"} /\ (t = Runner => op[t] = "flush")
    BY AfterOpLabel, Zenon DEF Threads, LocalInv, TypeOK, Ops
  <2>. QED
    BY <1>13, <2>1, QueueKept, Zenon
    DEF Release, Ended, FlushingLabels, Threads, TypeOK,
        LabelsOK, CloserLabels
<1>14. ASSUME NEW k \in Closers, ShutdownLock(k) PROVE [Queue!Next]_(Queue!vars)
    BY <1>14, QueueKept, ZenonT(40)
    DEF ShutdownLock, Ended, FlushingLabels, Threads, TypeOK,
        LabelsOK, CloserLabels
<1>15. ASSUME NEW k \in Closers, ShutdownPoisoned(k) PROVE [Queue!Next]_(Queue!vars)
    BY <1>15, QueueKept, Zenon
    DEF ShutdownPoisoned, Ended, FlushingLabels, Threads, TypeOK,
        LabelsOK, CloserLabels
<1>16. ASSUME NEW k \in Closers, ShutdownClose(k) PROVE [Queue!Next]_(Queue!vars)
    BY <1>16, QueueKept, Zenon
    DEF ShutdownClose, Ended, FlushingLabels, Threads, TypeOK,
        LabelsOK, CloserLabels
<1>17. ASSUME NEW k \in Closers, ShutdownDrained(k) PROVE [Queue!Next]_(Queue!vars)
  <2>1. /\ pc'[k] = "reserve" /\ UNCHANGED <<reserved, executed>>
        /\ pc'[Runner] = pc[Runner]
    BY <1>17, Zenon DEF ShutdownDrained, TypeOK, LabelsOK, Threads
  <2>2. QueueClosed'
    BY <2>1, Zenon DEF QueueClosed
  <2>3. CASE QueueClosed
    <3>1. (~QueueClosed)' = ~QueueClosed
      BY <2>2, <2>3, Zenon
    <3>. QED
      BY <2>1, <3>1, Zenon DEF Queue!vars
  <2>4. CASE ~QueueClosed
    <3>1. Queue!Close
      BY <2>1, <2>2, <2>4, Zenon DEF Queue!Close
    <3>. QED
      BY <3>1, Zenon DEF Queue!Next
  <2>. QED
    BY <2>3, <2>4, Zenon
<1>18. ASSUME NEW k \in Closers, ShutdownStop(k) PROVE [Queue!Next]_(Queue!vars)
  <2>1. /\ pc[k] = "stop" /\ stopping' /\ UNCHANGED <<reserved, executed>>
        /\ pc'[Runner] = pc[Runner]
    BY <1>18, Zenon DEF ShutdownStop, TypeOK, LabelsOK, Threads
  <2>2. QueueClosed' /\ QueueClosed
    BY <2>1, Zenon DEF QueueClosed
  <2>3. (~QueueClosed)' = ~QueueClosed
    BY <2>2, Zenon
  <2>. QED
    BY <2>1, <2>3, Zenon DEF Queue!vars
<1>19. ASSUME NEW k \in Closers, ShutdownWake(k) PROVE [Queue!Next]_(Queue!vars)
    BY <1>19, QueueKept, Zenon
    DEF ShutdownWake, Ended, FlushingLabels, Threads, TypeOK,
        LabelsOK, CloserLabels
<1>20. ASSUME NEW k \in Closers, ShutdownJoin(k) PROVE [Queue!Next]_(Queue!vars)
    BY <1>20, QueueKept, Zenon
    DEF ShutdownJoin, Ended, FlushingLabels, Threads, TypeOK,
        LabelsOK, CloserLabels
<1>21. CASE RunnerExec
  <2>1. /\ pc[Runner] = "top" /\ ready /\ UNCHANGED <<pc, stopping, reserved>>
        /\ IF slots[1 - queuePtr][wr[Runner]] \in Task
           THEN executed' = Append(executed, slots[1 - queuePtr][wr[Runner]])
           ELSE executed' = executed
    BY <1>21, Zenon DEF RunnerExec
  <2>2. \/ executed' = executed
        \/ /\ Len(executed) < Len(reserved)
           /\ executed' = Append(executed, reserved[Len(executed) + 1])
    BY <2>1, NextTask, Zenon
  <2>3. CASE executed' = executed
    BY <2>1, <2>3, QueueKept, Zenon DEF Ended
  <2>4. CASE /\ Len(executed) < Len(reserved)
             /\ executed' = Append(executed, reserved[Len(executed) + 1])
    <3>1. (~QueueClosed)' = ~QueueClosed
      BY <2>1, Zenon DEF QueueClosed
    <3>2. Queue!Run
      BY <2>1, <2>4, <3>1, Zenon DEF Queue!Run
    <3>. QED
      BY <3>2, Zenon DEF Queue!Next
  <2>. QED
    BY <2>2, <2>3, <2>4, Zenon
<1>22. CASE RunnerLoadStop
    BY <1>22, QueueKept, Zenon
    DEF RunnerLoadStop, Ended, FlushingLabels, Threads, TypeOK,
        LabelsOK, CloserLabels
<1>23. CASE RunnerLoadSize
  <2>1. /\ pc[Runner] = "loadSize" /\ UNCHANGED <<reserved, executed, stopping>>
        /\ \A k \in Closers : pc'[k] = pc[k]
    BY <1>23, Zenon DEF RunnerLoadSize, TypeOK, LabelsOK, Threads
  <2>2. CASE ~Ended'
    BY <2>1, <2>2, QueueKept, Zenon DEF Ended
  <2>3. CASE Ended'
    <3>1. executed' = reserved'
      BY <2>3, Zenon DEF AllRun
    <3>2. stopping /\ QueueClosed
      BY <2>1, <2>3, Zenon DEF GateInv, QueueClosed
    <3>3. (~QueueClosed)' = ~QueueClosed
      BY <2>1, Zenon DEF QueueClosed
    <3>4. Queue!End
      BY <2>1, <2>3, <3>1, <3>2, <3>3, Zenon DEF Queue!End, Ended
    <3>. QED
      BY <3>4, Zenon DEF Queue!Next
  <2>. QED
    BY <2>2, <2>3, Zenon
<1>24. CASE RunnerLoadIndex
    BY <1>24, QueueKept, Zenon
    DEF RunnerLoadIndex, Ended, FlushingLabels, Threads, TypeOK,
        LabelsOK, CloserLabels
<1>25. CASE RunnerSpin
    BY <1>25, QueueKept, Zenon
    DEF RunnerSpin, Ended, FlushingLabels, Threads, TypeOK,
        LabelsOK, CloserLabels
<1>26. CASE RunnerPark
    BY <1>26, QueueKept, Zenon
    DEF RunnerPark, Ended, FlushingLabels, Threads, TypeOK,
        LabelsOK, CloserLabels
<1>27. CASE RunnerUnpark
    BY <1>27, QueueKept, Zenon
    DEF RunnerUnpark, Ended, FlushingLabels, Threads, TypeOK,
        LabelsOK, CloserLabels
<1>28. CASE RunnerFetch
    BY <1>28, QueueKept, Zenon
    DEF RunnerFetch, Ended, FlushingLabels, Threads, TypeOK,
        LabelsOK, CloserLabels
<1>29. CASE RunnerResetCount
    BY <1>29, QueueKept, Zenon
    DEF RunnerResetCount, Ended, FlushingLabels, Threads, TypeOK,
        LabelsOK, CloserLabels
<1>30. CASE RunnerResetIndex
    BY <1>30, QueueKept, Zenon
    DEF RunnerResetIndex, Ended, FlushingLabels, Threads, TypeOK,
        LabelsOK, CloserLabels
<1>31. CASE RunnerExit
    BY <1>31, QueueKept, Zenon
    DEF RunnerExit, Ended, FlushingLabels, Threads, TypeOK,
        LabelsOK, CloserLabels
<1>32. CASE RunnerSpuriousWake
    BY <1>32, QueueKept, Zenon
    DEF RunnerSpuriousWake, Ended, FlushingLabels, Threads, TypeOK,
        LabelsOK, CloserLabels
<1>. QED
    BY <1>1, <1>2, <1>3, <1>4, <1>5, <1>6, <1>7, <1>8, <1>9, <1>10, <1>11, <1>12, <1>13,
       <1>14, <1>15, <1>16, <1>17, <1>18, <1>19, <1>20, <1>21, <1>22, <1>23, <1>24, <1>25,
       <1>26, <1>27, <1>28, <1>29, <1>30, <1>31, <1>32, Zenon
    DEF Next, ClientStep, ChannelStep, CloserStep, RunnerStep

=============================================================================
