---------------------------- MODULE EventStreams ----------------------------
(* The eager multi-stream synchronization of the CUDA and HIP servers       *)
(* (src/ruda-runtime/src/runtime/stream/event.rs, with the StreamPool of    *)
(* base.rs), and record_allocation of the CUDA server                       *)
(* (src/ruda-driver/cuda/src/execution/server/interop.rs).  The device      *)
(* thread runs one command at a time.  A command resolves its stream, which *)
(* makes the device stream wait for the streams of the buffers it is given, *)
(* and enqueues its kernel.  A garbage-collection thread waits for the      *)
(* events of the tasks it is sent and drops what they hold: the handle of a *)
(* recorded allocation, which keeps its slice from being given out again,   *)
(* or the ids of the buffers a command waited for, which are Copy and keep  *)
(* nothing.  Device streams run on their own, each in order and after the   *)
(* events it was told to wait for, until a fault poisons the device.        *)
(*                                                                          *)
(* An event is a vector clock: how many kernels of every stream precede it. *)
(* Capture (is_recording) is not modelled: HIP does not have it.            *)
EXTENDS Integers, Sequences, FiniteSetsExt

CONSTANTS
    StreamIds,      \* the logical streams of the clients, natural numbers
    MaxStreams,     \* max_streams, a u8
    Memory,         \* the slices of the memory pools
    Home,           \* the logical stream whose pool each slice belongs to
    GcCapacity,     \* the bound of the sync_channel of the GC thread
    MaxCommands     \* bound on the commands: allocations, launches, recorded allocations

ASSUME EventAssumption ==
    /\ StreamIds \subseteq Nat /\ StreamIds # {}
    /\ MaxStreams \in 1 .. 254
    /\ Home \in [Memory -> StreamIds]
    /\ GcCapacity \in Nat \ {0} /\ MaxCommands \in Nat

VARIABLES
    cursor,        \* StreamWrapper::cursor
    last_synced,   \* StreamWrapper::last_synced, a partial map
    known,         \* per device stream, the kernels ordered before what it is given next
    kernels,       \* the kernels enqueued so far
    done,          \* how many kernels each device stream has finished
    poisoned,      \* a fault has ended the device's execution
    held,          \* slices a client has a handle of
    bound,         \* the cursor each slice was bound with
    life,          \* how often each slice was allocated
    recorded,      \* history: what record_allocation was called with, and when
    sending,       \* the GC tasks the device thread has to send before its command ends
    gcQueue,       \* the channel to the GC thread
    waiting,       \* the task whose event the GC thread waits for, if any
    leaked         \* slices of handles that were forgotten

serverVars == <<cursor, last_synced, known, kernels, sending>>
deviceVars == <<done, poisoned>>
memoryVars == <<held, bound, life, recorded>>
gcVars == <<gcQueue, waiting, leaked>>
vars == <<serverVars, deviceVars, memoryVars, gcVars>>

stream_index(id) == id % MaxStreams
Regular == {stream_index(id) : id \in StreamIds}

\* get_or_create_special(0): the slot after the regular ones, which StreamPool::new has
\* made unless max_streams + 1 saturates its u8.
Special == MaxStreams
Streams == Regular \cup {Special}

Init ==
    /\ cursor = [i \in Regular |-> 0]
    /\ last_synced = [i \in Regular |-> <<>>]
    /\ known = [i \in Streams |-> [j \in Regular |-> 0]]
    /\ kernels = <<>>
    /\ done = [i \in Regular |-> 0] /\ poisoned = FALSE
    /\ held = {} /\ bound = [m \in Memory |-> 0] /\ life = [m \in Memory |-> 0]
    /\ recorded = {}
    /\ sending = <<>> /\ gcQueue = <<>> /\ waiting = <<>> /\ leaked = {}

----------------------------------------------------------------------------
\* What a stream knows once it waits for the events of others.
Joined(clock, events) ==
    [j \in Regular |-> Max({clock[j]} \cup {e[j] : e \in events})]

\* update_shared_bindings: the streams of the buffers, other than the current,
\* that it never waited for or that have moved since.  Mutant: the current one too.
Origins_Current(i, buffers) ==
    {o \in Regular : \E m \in buffers :
        /\ stream_index(Home[m]) = o
        /\ o \notin DOMAIN last_synced[i] \/ last_synced[i][o] < bound[m]}
Origins(i, buffers) ==
    {o \in Regular \ {i} : \E m \in buffers :
        /\ stream_index(Home[m]) = o
        /\ o \notin DOMAIN last_synced[i] \/ last_synced[i][o] < bound[m]}

\* Mutant: the origins are marked before the wait that may fail.
Marked_First(i, origins, waited) ==
    [o \in origins \cup DOMAIN last_synced[i] |->
        IF o \in origins THEN cursor[o] ELSE last_synced[i][o]]

\* apply_analysis marks an origin after the wait for it has been enqueued.
Marked(i, origins, waited) ==
    [o \in waited \cup DOMAIN last_synced[i] |->
        IF o \in waited THEN cursor[o] ELSE last_synced[i][o]]

\* The device thread takes its next command; a cursor counts the commands of its stream.
Idle == sending = <<>> /\ MapThenSumSet(LAMBDA i : cursor[i], Regular) < MaxCommands

\* Slices with a handle that a GC task holds or that was forgotten.
HeldBy(queue) == UNION {queue[n].keeps : n \in DOMAIN queue}
Kept == leaked \cup HeldBy(sending) \cup HeldBy(gcQueue) \cup HeldBy(waiting)

\* resolve with no buffers, and reserve and bind on the current stream.  A slice is given
\* out again when it has no handle left (ManagedMemoryHandle::is_free).
Allocate(m) ==
    LET i == stream_index(Home[m]) IN
    /\ Idle /\ m \notin held \cup Kept
    /\ cursor' = [cursor EXCEPT ![i] = @ + 1]
    /\ bound' = [bound EXCEPT ![m] = cursor[i] + 1]
    /\ life' = [life EXCEPT ![m] = @ + 1]
    /\ held' = held \cup {m}
    /\ UNCHANGED <<last_synced, known, kernels, sending, deviceVars, recorded, gcVars>>

\* A client drops its last handle of a slice.
Release(m) ==
    /\ m \in held
    /\ held' = held \ {m}
    /\ UNCHANGED <<serverVars, deviceVars, bound, life, recorded, gcVars>>

\* A dependency fails: an event is not recorded or a wait is not enqueued. The
\* waits before it, in the order of a hash map, have been.
Fail(id, buffers) ==
    LET i == stream_index(id)
        origins == Origins(i, buffers)
    IN  /\ Idle
        /\ \E waited \in SUBSET origins :
            /\ waited # origins
            /\ last_synced' = [last_synced EXCEPT ![i] = Marked(i, origins, waited)]
            /\ known' = [known EXCEPT ![i] = Joined(@, {known[o] : o \in waited})]
        /\ UNCHANGED <<cursor, kernels, sending, deviceVars, memoryVars, gcVars>>

\* resolve, once its dependencies are met: the waits for all origins are enqueued, which
\* a poisoned device refuses, and the cursor moves.
Resolve(i, origins) ==
    /\ poisoned => origins = {}
    /\ last_synced' = [last_synced EXCEPT ![i] = Marked(i, origins, origins)]
    /\ cursor' = [cursor EXCEPT ![i] = @ + 1]

\* Mutant: whatever the error, the memory is dropped.
ReleaseOrLeak_Release(keeps) == UNCHANGED leaked

\* release_or_leak, after a wait that failed: what keeps the slices is forgotten, unless
\* the error says that the device is poisoned.
ReleaseOrLeak(keeps) ==
    \/ leaked' = leaked \cup keeps
    \/ poisoned /\ UNCHANGED leaked

\* Mutant: the event comes after the next command.
GcClock_Later(clock, event) == [j \in Regular |-> Joined(clock, {event})[j] + 1]

\* wait_event_checked on the special stream, and the event it then flushes.
GcClock(clock, event) == Joined(clock, {event})

\* Drop for ResolvedStreams, at the end of a command of stream i that has given tasks to
\* the GC thread already: nothing more when no stream was waited for; release_or_leak of
\* the ids when the special stream cannot be created or made to wait; else a task with
\* the ids and the event of the special stream.
Drop(i, clock, origins, tasks) ==
    LET event == GcClock(known[Special], clock) IN
    \/ /\ known' = [known EXCEPT ![i] = clock]
       /\ sending' = tasks
       /\ IF origins = {} THEN UNCHANGED leaked ELSE ReleaseOrLeak({})
    \/ /\ origins # {}
       /\ known' = [known EXCEPT ![i] = clock, ![Special] = event]
       /\ sending' = Append(tasks, [event |-> event, keeps |-> {}])
       /\ UNCHANGED leaked

\* A launch on stream id with its buffers: the driver takes the kernel or refuses it.
Launch(id, buffers) ==
    LET i == stream_index(id)
        origins == Origins(i, buffers)
        aligned == Joined(known[i], {known[o] : o \in origins})
        clock == [aligned EXCEPT ![i] = @ + 1]
    IN  /\ Idle /\ buffers \subseteq held
        /\ Resolve(i, origins)
        /\ \/ /\ ~poisoned
              /\ kernels' = Append(kernels,
                   [stream |-> i, cursor |-> cursor[i] + 1, clock |-> clock])
              /\ Drop(i, clock, origins, <<>>)
           \/ /\ UNCHANGED kernels
              /\ Drop(i, aligned, origins, <<>>)
        /\ UNCHANGED <<deviceVars, memoryVars, gcQueue, waiting>>

\* record_allocation: the handle is to be kept until the work submitted to stream id so
\* far is finished.  It is sent with a Fence of that stream before the command ends.
RecordAllocation(id, m) ==
    LET i == stream_index(id)
        origins == Origins(i, {m})
        aligned == Joined(known[i], {known[o] : o \in origins})
    IN  /\ Idle /\ m \in held
        /\ Resolve(i, origins)
        /\ Drop(i, aligned, origins, <<[event |-> aligned, keeps |-> {m}]>>)
        /\ recorded' = recorded \cup
             {[memory |-> m, life |-> life[m], stream |-> i, cursor |-> cursor[i] + 1]}
        /\ UNCHANGED <<kernels, deviceVars, held, bound, life, gcQueue, waiting>>

\* SyncSender::send, which waits while the channel is full.
Send ==
    /\ sending # <<>> /\ Len(gcQueue) < GcCapacity
    /\ gcQueue' = Append(gcQueue, Head(sending))
    /\ sending' = Tail(sending)
    /\ UNCHANGED <<cursor, last_synced, known, kernels, deviceVars, memoryVars, waiting,
                   leaked>>

----------------------------------------------------------------------------
\* The device has passed an event.
Reached(event) == \A j \in Regular : done[j] >= event[j]

\* A device stream finishes its next kernel, after all that it waits for.
Finish(k) ==
    LET i == kernels[k].stream IN
    /\ ~poisoned
    /\ done[i] + 1 = kernels[k].clock[i]
    /\ Reached([kernels[k].clock EXCEPT ![i] = done[i]])
    /\ done' = [done EXCEPT ![i] = @ + 1]
    /\ UNCHANGED <<serverVars, poisoned, memoryVars, gcVars>>

\* A fault after which the device executes nothing (status.rs: poisons_device).
Poison ==
    /\ ~poisoned
    /\ poisoned' = TRUE
    /\ UNCHANGED <<serverVars, done, memoryVars, gcVars>>

\* The GC thread takes a task out of the channel.
Receive ==
    /\ waiting = <<>> /\ gcQueue # <<>>
    /\ waiting' = <<Head(gcQueue)>>
    /\ gcQueue' = Tail(gcQueue)
    /\ UNCHANGED <<serverVars, deviceVars, memoryVars, leaked>>

\* wait_event_sync returns and what the task holds is dropped.
Collect ==
    /\ waiting # <<>> /\ Reached(waiting[1].event)
    /\ waiting' = <<>>
    /\ UNCHANGED <<serverVars, deviceVars, memoryVars, gcQueue, leaked>>

\* wait_event_sync fails: the event was not recorded, or the driver reports an error.
CollectFailed ==
    /\ waiting # <<>>
    /\ waiting' = <<>>
    /\ ReleaseOrLeak(waiting[1].keeps)
    /\ UNCHANGED <<serverVars, deviceVars, memoryVars, gcQueue>>

Next ==
    \/ \E m \in Memory : Allocate(m)
    \/ \E m \in Memory : Release(m)
    \/ \E id \in StreamIds, buffers \in SUBSET Memory : Fail(id, buffers)
    \/ \E id \in StreamIds, buffers \in SUBSET Memory : Launch(id, buffers)
    \/ \E id \in StreamIds, m \in Memory : RecordAllocation(id, m)
    \/ Send
    \/ \E k \in DOMAIN kernels : Finish(k)
    \/ Poison
    \/ Receive
    \/ Collect
    \/ CollectFailed

Spec == Init /\ [][Next]_vars

\* The device runs what it is given, and the two threads are scheduled.  A poisoned device
\* fails the waits that are under way.
Fairness ==
    /\ WF_vars(Send)
    /\ WF_vars(Receive \/ Collect \/ (poisoned /\ CollectFailed))
    /\ WF_vars(\E k \in DOMAIN kernels : Finish(k))

FairSpec == Spec /\ Fairness

----------------------------------------------------------------------------
Clock == [Regular -> Nat]
GcTask == [event : Clock, keeps : SUBSET Memory]
Recording == [memory : Memory, life : Nat, stream : Regular, cursor : Nat]

TypeOK ==
    /\ cursor \in [Regular -> Nat]
    /\ known \in [Streams -> Clock]
    /\ \A i \in Regular : \A o \in DOMAIN last_synced[i] :
            o \in Regular \ {i} /\ last_synced[i][o] \in 0 .. cursor[o]
    /\ \A k \in DOMAIN kernels : kernels[k].clock \in Clock
    /\ poisoned \in BOOLEAN
    /\ done \in [Regular -> Nat] /\ \A i \in Regular : done[i] <= known[i][i]
    /\ held \subseteq Memory /\ bound \in [Memory -> Nat] /\ life \in [Memory -> Nat]
    /\ recorded \subseteq Recording /\ leaked \subseteq Memory
    /\ \A queue \in {sending, waiting, gcQueue} : \A n \in DOMAIN queue : queue[n] \in GcTask
    /\ Len(gcQueue) <= GcCapacity

\* What a stream has noted as synchronized is: every kernel that another stream
\* was given up to the noted cursor precedes what this stream is given next,
\* also after a command whose waits failed half way.
SyncedIsOrdered ==
    \A i \in Regular : \A o \in DOMAIN last_synced[i], k \in DOMAIN kernels :
        kernels[k].stream = o /\ kernels[k].cursor <= last_synced[i][o]
            => kernels[k].clock[o] <= known[i][o]

\* The kernels its stream had been given when an allocation was recorded.
Work(r) == {k \in DOMAIN kernels : kernels[k].stream = r.stream /\ kernels[k].cursor < r.cursor}
Finished(k) == done[kernels[k].stream] >= kernels[k].clock[kernels[k].stream]

\* record_allocation "retains an allocation until already-submitted work on that stream
\* completes" (ruda-driver/cuda/README.md:45): its slice is not given out again before,
\* whether or not the client lets it go, another stream is slower, or the wait of the GC
\* thread fails; only the end of the device releases it early.
RecordedIsKept ==
    \A r \in recorded :
        poisoned \/ life[r.memory] = r.life \/ \A k \in Work(r) : Finished(k)

\* A device thread that waits for room in the channel of the GC thread gets it:
\* nothing the GC thread waits for waits for the device thread.
SendReturns == sending # <<>> ~> sending = <<>>
=============================================================================
