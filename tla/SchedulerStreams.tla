-------------------------- MODULE SchedulerStreams --------------------------
(* The lazy multi-stream scheduler of the wgpu and CPU servers              *)
(* (src/ruda-runtime/src/runtime/stream/scheduler.rs, with the StreamPool   *)
(* of base.rs).  Tasks wait in the list of their stream until the list is   *)
(* full, a task of another stream needs a buffer of this one, or the client *)
(* reads or synchronizes.  They then go to the one compute queue that all   *)
(* streams share, stream by stream or interleaved.                          *)
(*                                                                          *)
(* A backend stream holds nothing between two calls: whatever an execution  *)
(* enqueues on it is flushed to the compute queue before it returns.        *)
EXTENDS Integers, Sequences, FiniteSets

CONSTANTS
    StreamIds,     \* logical streams, natural numbers
    MaxStreams,    \* SchedulerMultiStreamOptions::max_streams
    MaxTasks,      \* SchedulerMultiStreamOptions::max_tasks
    Strategies,    \* the values of SchedulerMultiStreamOptions::strategy tried
    Buffers,       \* the buffers tasks are bound to
    Owner,         \* the stream where the data of each buffer was created
    ArgLists,      \* the lists of buffers tasks are bound to; they write the last
    Bound          \* how many tasks are registered

ASSUME SchedulerAssumption ==
    /\ StreamIds \subseteq Nat
    /\ MaxStreams \in Nat \ {0} /\ MaxTasks \in Nat \ {0} /\ Bound \in Nat
    /\ Strategies \subseteq {"Interleave", "Sequential"}
    /\ Owner \in [Buffers -> StreamIds] /\ ArgLists \subseteq Seq(Buffers)

VARIABLES
    strategy,   \* SchedulerMultiStream::strategy, fixed by new
    tasks,      \* every task registered so far, in that order
    pending,    \* Stream::tasks of each slot of the pool, as indices into tasks
    queue       \* the compute queue, as indices into tasks

vars == <<strategy, tasks, pending, queue>>

Slots == 0 .. MaxStreams - 1

stream_index(id) == id % MaxStreams

Task == [stream : StreamIds, args : ArgLists]

Init ==
    /\ strategy \in Strategies
    /\ tasks = <<>>
    /\ pending = [i \in Slots |-> <<>>]
    /\ queue = <<>>

----------------------------------------------------------------------------
\* The steps of two nested loops, as pairs of the outer and the inner index, in the order in
\* which the loops take them.
Before(p, q) == p[1] < q[1] \/ (p[1] = q[1] /\ p[2] < q[2])
InOrder(steps) ==
    [n \in 1 .. Cardinality(steps) |->
        CHOOSE p \in steps : Cardinality({q \in steps : Before(q, p)}) = n - 1]

\* Where a list of streams names a slot for the first time.  A list is a function on numbers;
\* its order is that of the numbers.
UniqueIndices(ids) ==
    {k \in DOMAIN ids : \A j \in DOMAIN ids : j < k => stream_index(ids[j]) # stream_index(ids[k])}

\* The tasks of the schedule made for the k-th of the streams.
Schedule(lists, ids, k) == lists[stream_index(ids[k])]

\* All tasks of one stream, and then those of the next.
Sequenced(lists, ids) ==
    LET steps == InOrder(UNION {{k} \X DOMAIN Schedule(lists, ids, k) : k \in UniqueIndices(ids)})
    IN  [n \in DOMAIN steps |-> Schedule(lists, ids, steps[n][1])[steps[n][2]]]

Largest(S) == CHOOSE n \in S : \A m \in S : m <= n
Lengths(lists, ids) == {Len(Schedule(lists, ids, k)) : k \in UniqueIndices(ids)}

\* Mutant: as many rounds as the shortest list has tasks.
Rounds_Shortest(lists, ids) ==
    CHOOSE n \in Lengths(lists, ids) : \A m \in Lengths(lists, ids) : n <= m

\* num_tasks_max
Rounds(lists, ids) == Largest(Lengths(lists, ids))

\* In each round one task of each stream that has one left.
Interleaved(lists, ids) ==
    LET steps == InOrder({p \in (1 .. Rounds(lists, ids)) \X UniqueIndices(ids) :
                            p[1] \in DOMAIN Schedule(lists, ids, p[2])})
    IN  [n \in DOMAIN steps |-> Schedule(lists, ids, steps[n][2])[steps[n][1]]]

\* What execute_streams sends to the compute queue, given the lists of tasks.
Executed(lists, ids) ==
    IF DOMAIN ids = {} THEN <<>>
    ELSE IF strategy = "Interleave" THEN Interleaved(lists, ids) ELSE Sequenced(lists, ids)

\* The lists it leaves behind.
Emptied(lists, ids) ==
    [i \in Slots |-> IF \E k \in DOMAIN ids : stream_index(ids[k]) = i THEN <<>> ELSE lists[i]]

\* Mutant: only the first argument is looked at.
ToFlush_First(id, args) ==
    LET owner == Owner[args[1]]
    IN  IF stream_index(owner) # stream_index(id) THEN <<owner>> ELSE <<>>

\* align_streams: the streams of the arguments, other than the task's own.
ToFlush(id, args) ==
    LET foreign == {k \in DOMAIN args : stream_index(Owner[args[k]]) # stream_index(id)}
    IN  [k \in foreign |-> Owner[args[k]]]

\* Mutant: one task too many is kept back.
Full_Late(list) == Len(list) > MaxTasks

Full(list) == Len(list) >= MaxTasks

\* register: align, push, and execute the stream if its list is full.
Register(id, args) ==
    LET aligned == Emptied(pending, ToFlush(id, args))
        index == stream_index(id)
        list == Append(aligned[index], Len(tasks) + 1)
        sent == queue \o Executed(pending, ToFlush(id, args))
    IN  /\ Len(tasks) < Bound
        /\ tasks' = Append(tasks, [stream |-> id, args |-> args])
        /\ IF Full(list)
           THEN pending' = [aligned EXCEPT ![index] = <<>>] /\ queue' = sent \o list
           ELSE pending' = [aligned EXCEPT ![index] = list] /\ queue' = sent
        /\ UNCHANGED strategy

\* A read, a flush or a sync: the client's stream and those of the buffers read.
Execute(ids) ==
    /\ queue' = queue \o Executed(pending, ids)
    /\ pending' = Emptied(pending, ids)
    /\ UNCHANGED <<strategy, tasks>>

Next ==
    \/ \E id \in StreamIds, args \in ArgLists : Register(id, args)
    \/ \E id \in StreamIds : Execute(<<id>>)
    \/ \E id, other \in StreamIds : Execute(<<id, other>>)

Spec == Init /\ [][Next]_vars

----------------------------------------------------------------------------
Registered == DOMAIN tasks

TypeOK ==
    /\ strategy \in Strategies
    /\ tasks \in Seq(Task)
    /\ pending \in [Slots -> Seq(Registered)]
    /\ queue \in Seq(Registered)
    /\ \A i \in Slots : Len(pending[i]) < MaxTasks

Positions(t) == {k \in DOMAIN queue : queue[k] = t}
Waiting(t) ==
    {p \in Slots \X (1 .. MaxTasks) : p[2] <= Len(pending[p[1]]) /\ pending[p[1]][p[2]] = t}

\* Every registered task is in its stream's list or on the compute queue, and
\* there is one of it, whatever mixture of full lists, alignments and reads
\* emptied the lists.
NoTaskLost ==
    \A t \in Registered : Cardinality(Positions(t)) + Cardinality(Waiting(t)) = 1

\* x is on the compute queue ahead of y, if y is there at all.
Ahead(x, y) ==
    \A k \in Positions(y) : \E j \in Positions(x) : j < k

\* A task runs after the tasks registered before it on its own stream and on
\* the streams of its arguments, also where logical streams share a slot and
\* where tasks of several streams are interleaved.
ArgumentsReady ==
    \A x, y \in Registered :
        LET needs == {stream_index(tasks[y].stream)} \cup
                     {stream_index(Owner[tasks[y].args[k]]) : k \in DOMAIN tasks[y].args}
        IN  x < y /\ stream_index(tasks[x].stream) \in needs => Ahead(x, y)
=============================================================================
