--------------------------- MODULE DeviceChannel ---------------------------
(***************************************************************************)
(* The lock-free task channel between the threads that use a device and    *)
(* the one runner thread that owns it                                      *)
(* (ruda-core/src/device/handle/channel.rs, module custom_channel, and the *)
(* calls of ChannelDeviceHandle that go through it).                       *)
(*                                                                         *)
(* Clients reserve a slot of the current buffer with a fetch_add on        *)
(* available_index, write their task into it and publish it by adding to   *)
(* enqueued_count.  When CHANNEL_MAX_TASK slots are published the runner   *)
(* swaps the two buffers, resets both counters and runs the full buffer    *)
(* while clients fill the other one.  A flush reserves every slot that is  *)
(* left and fills it with no-ops.  Every step below is one access to       *)
(* shared memory: a thread may be preempted between any two of them.       *)
(***************************************************************************)
EXTENDS Integers, Sequences, FiniteSets

CONSTANTS
    Clients,       \* threads that submit tasks through a handle
    Closers,       \* threads that call DeviceClient::shutdown
    Runner,        \* the device thread
    MaxTask,       \* CHANNEL_MAX_TASK
    MaxCalls,      \* bound: calls made by one client
    IdleBudget,    \* SPIN_BUDGET_SERVER + YIELD_BUDGET_SERVER
    Kinds,         \* the calls clients make, a subset of CallKinds
    Wraps,         \* is the finite width of available_index observable?
    IndexModulus   \* number of values of available_index (2^32 in the code)

CallKinds == {"submit", "blocking", "flush"}

ASSUME ConstantsAssumption ==
    /\ MaxTask \in Nat \ {0}
    /\ MaxCalls \in Nat
    /\ IdleBudget \in Nat
    /\ Kinds \subseteq CallKinds
    /\ Wraps \in BOOLEAN
    /\ IndexModulus \in Nat /\ IndexModulus > MaxTask
    /\ IsFiniteSet(Clients) /\ IsFiniteSet(Closers)
    /\ {"noop", "stale"} \cap Clients = {}
    /\ {"none", "poisoned"} \cap Closers = {}
    /\ Clients \cap Closers = {}
    /\ Runner \notin Clients \cup Closers

VARIABLES
    queuePtr,      \* index of the buffer clients write to
    slots,         \* the two task buffers
    available,     \* available_index
    enqueued,      \* enqueued_count
    submissions,   \* submissions without its CLOSED bit
    closed,        \* the CLOSED bit of submissions
    stopping,      \* stopping
    token,         \* the park token of the runner thread
    handle,        \* is the JoinHandle still in State::thread?
    holder,        \* the thread that holds the mutex State::thread
    pc,            \* the next step of every thread
    op,            \* "enqueue" or "flush": the channel operation in progress
    lo, hi,        \* the slots lo .. hi-1 reserved by the operation
    wr,            \* the next slot to write (or, for the runner, to run)
    ready,         \* Server::ready_to_execute
    stopSeen,      \* the runner's last load of stopping
    idle,          \* idle_count, from IdleBudget on
    calls,         \* number of calls begun by each client
    kind,          \* kind of the current call of each client
    reply,         \* the oneshot reply of the current blocking call
    reserved,      \* history: tasks in the order their slots were reserved
    executed,      \* history: tasks in the order the runner ran them
    published,     \* history: slots of the client buffer that are published
    fill           \* history: tasks reserved in each buffer and not yet run through

shared == <<queuePtr, slots, available, enqueued, published>>
gate == <<submissions, closed, stopping>>
join == <<handle, holder>>
ranges == <<lo, hi, wr>>
server == <<ready, stopSeen, idle>>
caller == <<calls, kind>>
history == <<reserved, executed, fill>>
vars == <<queuePtr, slots, available, enqueued, submissions, closed, stopping,
          token, handle, holder, pc, op, lo, hi, wr, ready, stopSeen, idle,
          calls, kind, reply, reserved, executed, published, fill>>

Threads == Clients \cup Closers \cup {Runner}
Slot == 0 .. MaxTask - 1
NoThread == "none"
Poisoned == "poisoned"
\* A closure sent by call number n of a client; scoped closures borrow the
\* stack of a caller that blocks until they have run.
Task == [from : Clients, n : 1 .. MaxCalls, scoped : BOOLEAN]
NoOp == [from |-> "noop", n |-> 0, scoped |-> FALSE]
\* What a slot holds once its closure was read out, or before the first write.
Stale == [from |-> "stale", n |-> 0, scoped |-> FALSE]
Content == Task \cup {NoOp, Stale}

CurrentTask(c) == [from |-> c, n |-> calls[c], scoped |-> kind[c] = "blocking"]

Goto(t, label) == pc' = [pc EXCEPT ![t] = label]

----------------------------------------------------------------------------
(* The two counters *)

\* fetch_add on available_index.  Every reader compares it with MaxTask only,
\* so without a wrap-around one value stands for all those from MaxTask on.
\* Mutant: the update is lost.
IndexAdd_Lost(k) == available
IndexAdd(k) ==
    IF Wraps THEN (available + k) % IndexModulus
    ELSE IF available + k > MaxTask THEN MaxTask ELSE available + k

\* The runner takes the buffer when CHANNEL_MAX_TASK slots are published.
\* Mutant: it goes by the slots reserved.
BufferComplete_Reserved == available >= MaxTask
BufferComplete == enqueued >= MaxTask

\* What a publish adds to the count.
Added(t) == hi[t] - lo[t]

\* publish wakes the runner when it completes the buffer.  Mutant: it relies
\* on the runner being awake.
Completes_Never(count) == FALSE
Completes(count) == count = MaxTask

\* begin_submission looks at the CLOSED bit.
Accepting == ~closed

\* shutdown waits for the submissions in flight.  Mutant: it does not.
Drained_AtOnce == TRUE
Drained == submissions = 0

\* The idle budget of the runner loop.  Mutant: off by one.
BudgetLeft_OffByOne == idle <= IdleBudget
BudgetLeft == idle < IdleBudget

----------------------------------------------------------------------------
(* Operations of a thread on the channel *)

\* Mutant: a blocking call does not wait for its reply.
AfterOp_NoWait(t) ==
    CASE t = Runner                                     -> "top"
      [] t \in Closers                                  -> "stop"
      [] t \in Clients /\ op[t] = "enqueue"
                       /\ kind[t] = "blocking"          -> "begin"
      [] OTHER                                          -> "idle"

\* Where a thread goes once its channel operation has returned.
AfterOp(t) ==
    CASE t = Runner                                     -> "top"
      [] t \in Closers                                  -> "stop"
      [] t \in Clients /\ op[t] = "enqueue"
                       /\ kind[t] = "blocking"          -> "begin"
      [] t \in Clients /\ op[t] = "flush"
                       /\ kind[t] = "blocking"          -> "await"
      [] OTHER                                          -> "idle"

\* A call of submit, submit_blocking / exclusive, or flush_queue.
Call(c, k) ==
    /\ pc[c] = "idle" /\ calls[c] < MaxCalls
    /\ calls' = [calls EXCEPT ![c] = @ + 1]
    /\ kind' = [kind EXCEPT ![c] = k]
    /\ op' = [op EXCEPT ![c] = IF k = "flush" THEN "flush" ELSE "enqueue"]
    /\ Goto(c, "begin")
    /\ UNCHANGED <<shared, gate, token, join, ranges, server, reply,
                   history>>

\* begin_submission: counted unless the channel is closed.
Begin(t) ==
    /\ pc[t] = "begin" /\ Accepting
    /\ submissions' = submissions + 1
    /\ Goto(t, "reserve")
    /\ UNCHANGED <<shared, closed, stopping, token, join, op, ranges, server,
                   caller, reply, history>>

\* begin_submission on a closed channel: a flush returns, a blocking call
\* returns CallError, and submit panics on its expect.
BeginClosed(t) ==
    /\ pc[t] = "begin" /\ ~Accepting
    /\ Goto(t, IF op[t] = "flush" THEN AfterOp(t)
               ELSE IF kind[t] = "submit" THEN "panicked" ELSE "idle")
    /\ UNCHANGED <<shared, gate, token, join, op, ranges, server, caller,
                   reply, history>>

\* enqueue found the buffer full: its fetch_add is spent, it backs off.
ReserveRetry(c) ==
    /\ pc[c] = "reserve" /\ op[c] = "enqueue" /\ available >= MaxTask
    /\ available' = IndexAdd(1)
    /\ UNCHANGED <<queuePtr, slots, enqueued, published, gate, token, join, pc,
                   op, ranges, server, caller, reply, history>>

\* enqueue reserved the slot that fetch_add returned.
Reserve(c) ==
    /\ pc[c] = "reserve" /\ op[c] = "enqueue" /\ available < MaxTask
    /\ available' = IndexAdd(1)
    /\ lo' = [lo EXCEPT ![c] = available]
    /\ wr' = [wr EXCEPT ![c] = available]
    /\ hi' = [hi EXCEPT ![c] = available + 1]
    /\ reserved' = Append(reserved, CurrentTask(c))
    /\ fill' = [fill EXCEPT ![queuePtr] = @ + 1]
    /\ Goto(c, "write")
    /\ UNCHANGED <<queuePtr, slots, enqueued, published, gate, token, join, op,
                   server, caller, reply, executed>>

\* flush_inner found the queue already flushed.
FlushFull(t) ==
    /\ pc[t] = "reserve" /\ op[t] = "flush" /\ available >= MaxTask
    /\ available' = IndexAdd(MaxTask)
    /\ Goto(t, IF t \in Closers THEN "stop" ELSE "release")
    /\ UNCHANGED <<queuePtr, slots, enqueued, published, gate, token, join, op,
                   ranges, server, caller, reply, history>>

\* flush_inner reserved every slot that was left.
FlushReserve(t) ==
    /\ pc[t] = "reserve" /\ op[t] = "flush" /\ available < MaxTask
    /\ available' = IndexAdd(MaxTask)
    /\ lo' = [lo EXCEPT ![t] = available]
    /\ wr' = [wr EXCEPT ![t] = available]
    /\ hi' = [hi EXCEPT ![t] = MaxTask]
    /\ Goto(t, "write")
    /\ UNCHANGED <<queuePtr, slots, enqueued, published, gate, token, join, op,
                   server, caller, reply, history>>

\* init_task_at: loads queue_ptr and writes one reserved slot.
Write(t) ==
    /\ pc[t] = "write"
    /\ slots' = [slots EXCEPT ![queuePtr][wr[t]] =
                    IF op[t] = "enqueue" THEN CurrentTask(t) ELSE NoOp]
    /\ wr' = [wr EXCEPT ![t] = @ + 1]
    /\ Goto(t, IF wr[t] + 1 = hi[t] THEN "publish" ELSE "write")
    /\ UNCHANGED <<queuePtr, available, enqueued, published, gate, token, join,
                   op, lo, hi, server, caller, reply, history>>

\* publish: the thread that completes the buffer goes on to wake the runner.
\* The reserved range is out of scope afterwards.
Publish(t) ==
    /\ pc[t] = "publish"
    /\ enqueued' = enqueued + Added(t)
    /\ published' = published \cup (lo[t] .. hi[t] - 1)
    /\ lo' = [lo EXCEPT ![t] = 0]
    /\ hi' = [hi EXCEPT ![t] = 0]
    /\ wr' = [wr EXCEPT ![t] = 0]
    /\ Goto(t, IF Completes(enqueued + Added(t)) THEN "wake"
               ELSE IF t \in Closers THEN "stop" ELSE "release")
    /\ UNCHANGED <<queuePtr, slots, available, gate, token, join, op, server,
                   caller, reply, history>>

\* wake: unpark the runner.
Wake(t) ==
    /\ pc[t] = "wake"
    /\ token' = TRUE
    /\ Goto(t, IF t \in Closers THEN "stop" ELSE "release")
    /\ UNCHANGED <<shared, gate, join, op, ranges, server, caller, reply,
                   history>>

\* Submission::drop, then the operation returns.  A blocking call goes on to
\* flush after its enqueue.
Release(t) ==
    /\ pc[t] = "release"
    /\ submissions' = submissions - 1
    /\ Goto(t, AfterOp(t))
    /\ op' = [op EXCEPT ![t] = "flush"]
    /\ UNCHANGED <<shared, closed, stopping, token, join, ranges, server,
                   caller, reply, history>>

\* run_scoped: the reply (a value, or the disconnection left by a panic).
Await(c) ==
    /\ pc[c] = "await" /\ reply[c] # "none"
    /\ reply' = [reply EXCEPT ![c] = "none"]
    /\ Goto(c, "idle")
    /\ UNCHANGED <<shared, gate, token, join, op, ranges, server, caller,
                   history>>

----------------------------------------------------------------------------
(* DeviceClient::shutdown *)

\* Takes the mutex around the JoinHandle; a second shutdown finds it empty.  The closers are
\* not the runner, so that "A device runner cannot join itself" (channel.rs:787) does not fail.
ShutdownLock(k) ==
    /\ pc[k] = "idle" /\ holder = NoThread
    /\ IF handle
       THEN /\ handle' = FALSE /\ holder' = k /\ Goto(k, "close")
       ELSE /\ UNCHANGED <<handle, holder>> /\ Goto(k, "returned")
    /\ UNCHANGED <<shared, gate, token, op, ranges, server, caller, reply,
                   history>>

\* The mutex was poisoned by a shutdown that panicked.
ShutdownPoisoned(k) ==
    /\ pc[k] = "idle" /\ holder = Poisoned
    /\ Goto(k, "panicked")
    /\ UNCHANGED <<shared, gate, token, join, op, ranges, server, caller,
                   reply, history>>

ShutdownClose(k) ==
    /\ pc[k] = "close"
    /\ closed' = TRUE
    /\ Goto(k, "drain")
    /\ UNCHANGED <<shared, submissions, stopping, token, join, op, ranges,
                   server, caller, reply, history>>

\* Spins until the submissions in flight are over, then runs flush_inner.
ShutdownDrained(k) ==
    /\ pc[k] = "drain" /\ Drained
    /\ Goto(k, "reserve")
    /\ UNCHANGED <<shared, gate, token, join, op, ranges, server, caller,
                   reply, history>>

ShutdownStop(k) ==
    /\ pc[k] = "stop"
    /\ stopping' = TRUE
    /\ Goto(k, "stopWake")
    /\ UNCHANGED <<shared, submissions, closed, token, join, op, ranges,
                   server, caller, reply, history>>

\* Mutant: stopping is set without waking the runner.
ShutdownWake_Silent(k) ==
    /\ pc[k] = "stopWake"
    /\ Goto(k, "join")
    /\ UNCHANGED <<shared, gate, token, join, op, ranges, server, caller,
                   reply, history>>

ShutdownWake(k) ==
    /\ pc[k] = "stopWake"
    /\ token' = TRUE
    /\ Goto(k, "join")
    /\ UNCHANGED <<shared, gate, join, op, ranges, server, caller, reply,
                   history>>

\* join: a panic of the runner is resumed here, with the mutex held.
ShutdownJoin(k) ==
    /\ pc[k] = "join"
    /\ \/ /\ pc[Runner] = "done"
          /\ holder' = NoThread /\ Goto(k, "returned")
       \/ /\ pc[Runner] = "panicked"
          /\ holder' = Poisoned /\ Goto(k, "panicked")
    /\ UNCHANGED <<shared, gate, token, handle, op, ranges, server, caller,
                   reply, history>>

----------------------------------------------------------------------------
(* Server::start, the loop of the runner thread *)

\* ready_to_execute is reset after the last slot.
LastTask(i) == i + 1 = MaxTask

\* execute_tasks: reads one closure out of its slot and runs it.  A panic is
\* caught and drops the reply sender.  A task that blocks on another runner
\* parks this thread: that may consume its token or leave one behind.
RunnerExec ==
    /\ pc[Runner] = "top" /\ ready
    /\ LET b == 1 - queuePtr
           i == wr[Runner]
           x == slots[b][i]
       IN  /\ slots' = [slots EXCEPT ![b][i] = Stale]
           /\ IF x \in Task
              THEN /\ executed' = Append(executed, x)
                   /\ token' \in BOOLEAN
                   /\ IF x.scoped
                      THEN \E r \in {"ok", "err"} :
                               reply' = [reply EXCEPT ![x.from] = r]
                      ELSE UNCHANGED reply
              ELSE UNCHANGED <<executed, token, reply>>
           /\ IF LastTask(i)
              THEN /\ ready' = FALSE /\ idle' = 0
                   /\ fill' = [fill EXCEPT ![b] = 0]
                   /\ wr' = [wr EXCEPT ![Runner] = 0]
              ELSE /\ wr' = [wr EXCEPT ![Runner] = i + 1]
                   /\ UNCHANGED <<ready, idle, fill>>
    /\ UNCHANGED <<queuePtr, available, enqueued, published, gate, join, pc,
                   op, lo, hi, stopSeen, caller, reserved>>

RunnerLoadStop ==
    /\ pc[Runner] = "top" /\ ~ready
    /\ stopSeen' = stopping
    /\ Goto(Runner, "loadSize")
    /\ UNCHANGED <<shared, gate, token, join, op, ranges, ready, idle,
                   caller, reply, history>>

\* Mutant: the stop flag is looked at before the published tasks.
RunnerLoadSize_StopFirst ==
    /\ pc[Runner] = "loadSize"
    /\ Goto(Runner, IF stopSeen THEN "exit"
                    ELSE IF BufferComplete THEN "fetch"
                    ELSE IF enqueued > 0 THEN "loadIndex" ELSE "pause")
    /\ UNCHANGED <<shared, gate, token, join, op, ranges, server, caller,
                   reply, history>>

RunnerLoadSize ==
    /\ pc[Runner] = "loadSize"
    /\ Goto(Runner, IF BufferComplete THEN "fetch"
                    ELSE IF stopSeen THEN "exit"
                    ELSE IF enqueued > 0 THEN "loadIndex" ELSE "pause")
    /\ UNCHANGED <<shared, gate, token, join, op, ranges, server, caller,
                   reply, history>>

\* A partial buffer that nobody has flushed is flushed by the runner.
RunnerLoadIndex ==
    /\ pc[Runner] = "loadIndex"
    /\ Goto(Runner, IF available < MaxTask THEN "begin" ELSE "pause")
    /\ UNCHANGED <<shared, gate, token, join, op, ranges, server, caller,
                   reply, history>>

\* Nothing to do: spin or yield while the budgets last, then park.
RunnerSpin ==
    /\ pc[Runner] = "pause" /\ BudgetLeft
    /\ idle' = idle + 1
    /\ Goto(Runner, "top")
    /\ UNCHANGED <<shared, gate, token, join, op, ranges, ready, stopSeen,
                   caller, reply, history>>

RunnerPark ==
    /\ pc[Runner] = "pause" /\ ~BudgetLeft
    /\ Goto(Runner, IF token THEN "top" ELSE "parked")
    /\ token' = FALSE
    /\ UNCHANGED <<shared, gate, join, op, ranges, server, caller, reply,
                   history>>

RunnerUnpark ==
    /\ pc[Runner] = "parked" /\ token
    /\ token' = FALSE
    /\ Goto(Runner, "top")
    /\ UNCHANGED <<shared, gate, join, op, ranges, server, caller, reply,
                   history>>

\* thread::park may return without a token.
RunnerSpuriousWake ==
    /\ pc[Runner] = "parked"
    /\ Goto(Runner, "top")
    /\ UNCHANGED <<shared, gate, token, join, op, ranges, server, caller,
                   reply, history>>

\* fetch: swap the buffers, then reset enqueued_count, then available_index.
RunnerFetch ==
    /\ pc[Runner] = "fetch"
    /\ queuePtr' = 1 - queuePtr
    /\ ready' = TRUE /\ idle' = 0
    /\ Goto(Runner, "resetCount")
    /\ UNCHANGED <<slots, available, enqueued, published, gate, token, join,
                   op, ranges, stopSeen, caller, reply, history>>

\* Mutant: the count of the new buffer is not reset.
RunnerResetCount_Kept ==
    /\ pc[Runner] = "resetCount"
    /\ Goto(Runner, "resetIndex")
    /\ UNCHANGED <<shared, gate, token, join, op, ranges, server, caller,
                   reply, history>>

RunnerResetCount ==
    /\ pc[Runner] = "resetCount"
    /\ enqueued' = 0 /\ published' = {}
    /\ Goto(Runner, "resetIndex")
    /\ UNCHANGED <<queuePtr, slots, available, gate, token, join, op, ranges,
                   server, caller, reply, history>>

RunnerResetIndex ==
    /\ pc[Runner] = "resetIndex"
    /\ available' = 0
    /\ Goto(Runner, "top")
    /\ UNCHANGED <<queuePtr, slots, enqueued, published, gate, token, join, op,
                   ranges, server, caller, reply, history>>

\* The loop is left; shutdown_services runs, and the thread ends or panics.
RunnerExit ==
    /\ pc[Runner] = "exit"
    /\ \E end \in {"done", "panicked"} : Goto(Runner, end)
    /\ UNCHANGED <<shared, gate, token, join, op, ranges, server, caller,
                   reply, history>>

----------------------------------------------------------------------------
\* The state DeviceClient::new leaves behind.
Init ==
    /\ queuePtr = 0
    /\ slots = [b \in {0, 1} |-> [i \in Slot |-> Stale]]
    /\ available = 0 /\ enqueued = 0 /\ published = {}
    /\ submissions = 0 /\ closed = FALSE /\ stopping = FALSE
    /\ token = FALSE
    /\ handle = TRUE /\ holder = NoThread
    /\ pc = [t \in Threads |-> IF t = Runner THEN "top" ELSE "idle"]
    /\ op = [t \in Threads |-> "flush"]
    /\ lo = [t \in Threads |-> 0]
    /\ hi = [t \in Threads |-> 0]
    /\ wr = [t \in Threads |-> 0]
    /\ ready = FALSE /\ stopSeen = FALSE /\ idle = 0
    /\ calls = [c \in Clients |-> 0]
    /\ kind = [c \in Clients |-> "flush"]
    /\ reply = [c \in Clients |-> "none"]
    /\ reserved = <<>> /\ executed = <<>> /\ fill = [b \in {0, 1} |-> 0]

ClientStep(c) ==
    \/ ReserveRetry(c) \/ Reserve(c) \/ Await(c)

ChannelStep(t) ==
    \/ Begin(t) \/ BeginClosed(t) \/ FlushFull(t) \/ FlushReserve(t)
    \/ Write(t) \/ Publish(t) \/ Wake(t) \/ Release(t)

CloserStep(k) ==
    \/ ShutdownLock(k) \/ ShutdownPoisoned(k) \/ ShutdownClose(k)
    \/ ShutdownDrained(k) \/ ShutdownStop(k) \/ ShutdownWake(k) \/ ShutdownJoin(k)

RunnerStep ==
    \/ RunnerExec \/ RunnerLoadStop \/ RunnerLoadSize
    \/ RunnerLoadIndex \/ RunnerSpin \/ RunnerPark \/ RunnerUnpark
    \/ RunnerFetch \/ RunnerResetCount \/ RunnerResetIndex \/ RunnerExit

Next ==
    \/ \E c \in Clients : ClientStep(c) \/ \E k \in Kinds : Call(c, k)
    \/ \E t \in Threads : ChannelStep(t)
    \/ \E k \in Closers : CloserStep(k)
    \/ RunnerStep
    \/ RunnerSpuriousWake

Spec == Init /\ [][Next]_vars

\* Fairness: the operating system schedules every thread that is inside a
\* call, and the runner, again and again.  Nobody is obliged to start a call
\* or a shutdown, and park is not obliged to return without a token.
Fairness ==
    /\ \A c \in Clients : WF_vars(ClientStep(c) \/ ChannelStep(c))
    /\ \A k \in Closers :
          WF_vars(\/ ChannelStep(k) \/ ShutdownClose(k) \/ ShutdownDrained(k)
                  \/ ShutdownStop(k) \/ ShutdownWake(k) \/ ShutdownJoin(k))
    /\ WF_vars(RunnerStep \/ ChannelStep(Runner))

FairSpec == Spec /\ Fairness

----------------------------------------------------------------------------
(* Properties *)

ClientLabels == {"idle", "begin", "reserve", "write", "publish", "wake",
                 "release", "await", "panicked"}
CloserLabels == {"idle", "close", "drain", "reserve", "write", "publish",
                 "wake", "stop", "stopWake", "join", "returned", "panicked"}
RunnerLabels == {"top", "loadSize", "loadIndex", "pause",
                 "parked", "fetch", "resetCount", "resetIndex", "begin",
                 "reserve", "write", "publish", "wake", "release", "exit",
                 "done", "panicked"}

LabelsOK ==
    /\ pc \in [Threads -> ClientLabels \cup CloserLabels \cup RunnerLabels]
    /\ \A c \in Clients : pc[c] \in ClientLabels
    /\ \A k \in Closers : pc[k] \in CloserLabels
    /\ pc[Runner] \in RunnerLabels

Holders == Closers \cup {NoThread, Poisoned}
Buffers == [{0, 1} -> [Slot -> Content]]
Ops == [Threads -> {"enqueue", "flush"}]
Cursors == [Threads -> 0 .. MaxTask]
CallCounts == [Clients -> 0 .. MaxCalls]
Calling == [Clients -> CallKinds]
Replies == [Clients -> {"none", "ok", "err"}]
Fills == [{0, 1} -> Nat]

\* The type invariant: the ranges of the atomics, of the two buffers and of
\* the local state of every thread.
TypeOK ==
    /\ queuePtr \in {0, 1} /\ slots \in Buffers
    /\ available \in Nat /\ enqueued \in Nat /\ published \subseteq Slot
    /\ submissions \in Nat
    /\ closed \in BOOLEAN /\ stopping \in BOOLEAN /\ token \in BOOLEAN
    /\ handle \in BOOLEAN /\ holder \in Holders
    /\ LabelsOK /\ op \in Ops
    /\ lo \in Cursors /\ hi \in Cursors /\ wr \in Cursors
    /\ ready \in BOOLEAN /\ stopSeen \in BOOLEAN /\ idle \in 0 .. IdleBudget
    /\ calls \in CallCounts /\ kind \in Calling /\ reply \in Replies
    /\ reserved \in Seq(Task) /\ executed \in Seq(Task) /\ fill \in Fills

Holding(t) == pc[t] \in {"write", "publish"}

\* A buffer is taken by the runner (fetch) only when nobody can still write to
\* it: from the load that saw CHANNEL_MAX_TASK tasks until available_index is
\* reset, no thread is between its fetch_add and its publish.
NoTornFetch ==
    pc[Runner] \in {"fetch", "resetCount", "resetIndex"} =>
        \A t \in Threads : ~Holding(t)

\* init_task_at overwrites only a closure that has been run (or the initial
\* no-op): a closure is never lost, and two threads never write the same slot.
NoOverwrite ==
    \A t \in Threads :
        pc[t] = "write" => slots[queuePtr][wr[t]] = Stale

\* execute_tasks reads a closure out of a slot only after it was written and
\* at most once ("run only once per initialization").
NoStaleRun ==
    (pc[Runner] = "top" /\ ready) => slots[1 - queuePtr][wr[Runner]] # Stale

\* The closure of a blocking call borrows the caller's stack: until it has run
\* its caller is still inside that same call of run_scoped.
BorrowedStackAlive ==
    \A i \in Len(executed) + 1 .. Len(reserved) :
        LET x == reserved[i]
        IN  x.scoped => /\ calls[x.from] = x.n
                        /\ pc[x.from] \notin {"idle", "panicked"}

\* When the runner leaves its loop every accepted task has run and nobody is
\* inside enqueue or flush (test concurrent_close_preserves_every_accepted_submission).
DrainedBeforeExit ==
    pc[Runner] \in {"exit", "done", "panicked"} =>
        /\ executed = reserved
        /\ submissions = 0
        /\ \A c \in Clients : pc[c] \notin {"reserve", "write", "publish"}

\* Every call returns (submit on a closed channel panics its caller): a full
\* buffer is always swapped again, and the reply of a blocking call arrives.
CallsReturn ==
    \A c \in Clients : pc[c] # "idle" ~> pc[c] \in {"idle", "panicked"}

\* Everything submitted before a flush is run without any further call.
FlushedTasksRun ==
    \A n \in 1 .. Cardinality(Clients) * MaxCalls :
        (Len(reserved) = n /\ \E c \in Clients : pc[c] = "reserve" /\ op[c] = "flush")
            ~> Len(executed) >= n

\* A shutdown that took the JoinHandle comes to an end, whatever calls are in
\* flight, and finds every accepted task run.
ShutdownReturns ==
    \A k \in Closers :
        pc[k] = "close" ~> (pc[k] \in {"returned", "panicked"}
                            /\ executed = reserved)

\* A submitted task runs even when nobody flushes
\* (test_partial_buffer_makes_progress_without_caller_flush).  The runner
\* flushes a partial buffer only while it is awake: publish does not wake it.
PartialBufferProgresses ==
    \A n \in 1 .. Cardinality(Clients) * MaxCalls :
        Len(reserved) = n ~> Len(executed) >= n
=============================================================================
