----------------------- MODULE DeviceChannelOrderInv -----------------------
(***************************************************************************)
(* The inductive invariant behind the refinement of TaskQueue by           *)
(* DeviceChannel.  SafetyInv says which slots are in use, not what is in   *)
(* them: OrderInv relates the contents of the two buffers to the order of  *)
(* acceptance, and CoverInv and GateInv say why a shutdown finds nothing   *)
(* left behind.  BorrowInv says why the stack that a scoped task borrows   *)
(* is alive.                                                               *)
(***************************************************************************)
EXTENDS DeviceChannelInv, DeviceChannelQueue

\* Before the tasks of buffer b, First(r, f, q, b) of the tasks r were reserved; the slots
\* of b hold its tasks in the order of reservation, followed by no-ops.  f counts the tasks
\* of each buffer and q is the one clients write to.
First(r, f, q, b) == IF b = q THEN Len(r) - f[b] ELSE Len(r) - f[q] - f[b]
Placed(r, f, q, b, i) == IF i < f[b] THEN r[First(r, f, q, b) + i + 1] ELSE NoOp

OldFirst == First(reserved, fill, queuePtr, 1 - queuePtr)
OldTask(i) == Placed(reserved, fill, queuePtr, 1 - queuePtr, i)
NewTask(i) == Placed(reserved, fill, queuePtr, queuePtr, i)

\* How many tasks of the buffer it took the runner has run.
Progress ==
    IF ready /\ wr[Runner] < fill[1 - queuePtr] THEN wr[Runner] ELSE fill[1 - queuePtr]

\* A thread writes its task to the slot that stands for it, or no-ops behind the tasks.
InPlace(t) ==
    IF op[t] = "enqueue" THEN lo[t] < fill[queuePtr] /\ NewTask(lo[t]) = CurrentTask(t)
                         ELSE lo[t] >= fill[queuePtr]

\* The history variables against the counters.
OrderCounts ==
    /\ fill[queuePtr] <= available
    /\ available < MaxTask => fill[queuePtr] = available
    /\ Resetting => fill[queuePtr] = 0
    /\ fill[1 - queuePtr] <= MaxTask
    /\ ~ready => fill[1 - queuePtr] = 0
    /\ OldFirst >= 0 /\ Len(executed) = OldFirst + Progress

\* The history variables against the contents of the buffers.
OrderInv ==
    /\ OrderCounts
    /\ \A j \in 1 .. Len(executed) : executed[j] = reserved[j]
    /\ ready => \A i \in Slot : i >= wr[Runner] => slots[1 - queuePtr][i] = OldTask(i)
    /\ \A i \in Slot : slots[queuePtr][i] # Stale => slots[queuePtr][i] = NewTask(i)
    /\ \A t \in Threads : Holding(t) => InPlace(t)

\* Every slot below available_index is published or held.
CoverInv ==
    pc[Runner] # "resetIndex" =>
        \A i \in Slot : i < available => i \in published \/ \E t \in Threads : i \in Held(t)

ClosingLabels == {"close", "drain", "reserve", "write", "publish", "wake", "stop",
                  "stopWake", "join"}
Ended == pc[Runner] \in {"exit", "done", "panicked"}

\* One shutdown at a time, and the channel is closed before it waits.
GateClosers ==
    /\ \A k \in Closers : pc[k] \in ClosingLabels => holder = k /\ ~handle
    /\ \A k \in Closers : pc[k] \in ClosingLabels \ {"close"} => closed

\* stopping is set after the flush, once and for all.
GateStop ==
    stopping => /\ closed /\ ~handle
                /\ \A k \in Closers : pc[k] \in ClosingLabels => pc[k] \in {"stopWake", "join"}

\* After the flush of a shutdown the client buffer is complete or has been taken.
GateFlushed ==
    (stopping \/ \E k \in Closers : pc[k] \in {"wake", "stop"}) =>
        fill[queuePtr] = 0 \/ published = Slot

\* Past the wait of a shutdown nobody is inside a submission, and the runner leaves its loop
\* with the client buffer empty.
GateInv ==
    /\ GateClosers /\ GateStop /\ GateFlushed
    /\ QueueClosed => submissions = 0
    /\ stopSeen => stopping
    /\ Ended => stopping /\ fill[queuePtr] = 0

\* What the two counters say of the sets they count.
NobodyInside == QueueClosed => Submitters = {}
CountExact == (published = Slot) <=> BufferComplete

\* The runner leaves its loop with every accepted task run.
AllRun == Ended => executed = reserved

RefinementInv == SafetyInv /\ OrderInv /\ CoverInv /\ GateInv

----------------------------------------------------------------------------
\* A blocking call has reserved the slot of its task and has not returned.
SentLabels(c) ==
    IF op[c] = "enqueue" THEN {"write", "publish", "wake", "release"}
    ELSE {"begin", "reserve", "write", "publish", "wake", "release", "await"}
Blocked(c) == kind[c] = "blocking" /\ pc[c] \in SentLabels(c)

\* The tasks that were accepted and have not run.
Unrun == Len(executed) + 1 .. Len(reserved)

\* The caller of a scoped task that has not run is blocked in the call that sent it, with no
\* reply yet and no other such task; a reply is for a caller that is blocked.
BorrowInv ==
    /\ \A i \in Unrun, c \in Clients : reserved[i].scoped /\ reserved[i].from = c =>
          Blocked(c) /\ calls[c] = reserved[i].n /\ reply[c] = "none"
    /\ \A i, j \in Unrun :
          reserved[i].scoped /\ reserved[j].scoped /\ reserved[i].from = reserved[j].from => i = j
    /\ \A c \in Clients : reply[c] # "none" => Blocked(c)

=============================================================================
