----------------------------- MODULE CpuWorkers -----------------------------
(* How the CPU driver runs kernels: the KernelRunner hands the units of a   *)
(* launch to worker threads, which run them out of order as far as the      *)
(* order of each stream and the barrier launches allow                      *)
(* (src/ruda-driver/cpu/src/execution: queue.rs, runner.rs, worker.rs,      *)
(* progress.rs).                                                            *)
(*                                                                          *)
(* A stream numbers its units with a CpuSequence: a launch may start once   *)
(* the stream has completed its prerequisite, the units reserved before it. *)
(* A launch with barriers (needs_parallelism) must have all its units on    *)
(* distinct workers at once; the atomic `parallel` admits one such launch   *)
(* at a time.  The kernel's own barrier is CpuBarrier; here a unit of such  *)
(* a launch cannot end before the others have started.                      *)
EXTENDS Integers, Sequences, FiniteSets, Functions

CONSTANTS
    Streams,          \* streams; each is driven by one thread at a time
    InitialWorkers,   \* affinity::worker_count
    UnitCounts,       \* sizes of the launches
    MaxCalls,         \* how many calls each stream makes
    NoStream

ASSUME WorkersAssumption ==
    /\ InitialWorkers \in Nat \ {0}
    /\ UnitCounts \subseteq Nat \ {0} /\ UnitCounts # {} /\ IsFiniteSet(UnitCounts)
    /\ MaxCalls \in [Streams -> Nat]
    /\ NoStream \notin Streams

VARIABLES
    host,        \* what the thread driving each stream is doing
    calls,       \* calls left to each stream
    wish,        \* the launch a stream has asked for
    todo,        \* units of its launch a stream has still to submit
    next,        \* CpuSequence::next
    completed,   \* CpuSequence::completed
    runner,      \* who holds the mutex of the KernelRunner
    workers,     \* KernelRunner::workers, their number
    active,      \* KernelRunner::active
    parallel,    \* KernelRunner::parallel: the barrier launch admitted, or 0
    launches,    \* LaunchCompletion of every launch, in the order of dispatch
    remaining,   \* LaunchCompletion::remaining
    started,     \* units of each launch that have begun to compute
    inbox,       \* the mpsc channel of each worker
    pending,     \* InnerWorker::work, pending
    scan,        \* InnerWorker::work, index
    at,          \* where each worker is in its loop
    job          \* the launch whose unit it runs

hosts == <<host, calls, wish, todo>>
counters == <<next, completed, remaining, started>>
shared == <<runner, workers, active, parallel, launches>>
locals == <<inbox, pending, scan, at, job>>
vars == <<hosts, counters, shared, locals>>

Largest(S) == CHOOSE n \in S : \A m \in S : m <= n
MaxWorkers == Largest({InitialWorkers} \cup UnitCounts)
Workers == 1 .. MaxWorkers
Launches == 1 .. Len(launches)
MaxLaunches == SumFunction(MaxCalls)
Wishes == [units : UnitCounts, par : BOOLEAN]

Init ==
    /\ host = [s \in Streams |-> "idle"]
    /\ calls = MaxCalls
    /\ wish = [s \in Streams |-> [units |-> Largest(UnitCounts), par |-> FALSE]]
    /\ todo = [s \in Streams |-> 0]
    /\ next = [s \in Streams |-> 0]
    /\ completed = [s \in Streams |-> 0]
    /\ runner = NoStream
    /\ workers = InitialWorkers
    /\ active = {}
    /\ parallel = 0
    /\ launches = <<>>
    /\ remaining = <<>>
    /\ started = <<>>
    /\ inbox = [w \in Workers |-> <<>>]
    /\ pending = [w \in Workers |-> <<>>]
    /\ scan = [w \in Workers |-> 1]
    /\ at = [w \in Workers |-> "recv"]
    /\ job = [w \in Workers |-> 0]

----------------------------------------------------------------------------
(* The threads that drive the streams.  They block in sequence.wait(), on   *)
(* the mutex of the runner and, in flush(), on every active launch.         *)

Goto(s, point) == host' = [host EXCEPT ![s] = point]

IsComplete(l) == completed[launches[l].stream] >= launches[l].end

\* Mutant: a wait that ends one unit early.
Settled_Early(s) == completed[s] + 1 >= next[s]

\* The wait of CpuSequence::wait is over.
Settled(s) == completed[s] >= next[s]

\* A call is made: a launch, which waits for the stream first if its kernel
\* has shared memory; a write; sync() of the stream; or a flush of all streams.
\* Launches of no unit are dropped before they get here.
Call(s) ==
    /\ host[s] = "idle"
    /\ calls[s] > 0
    /\ calls' = [calls EXCEPT ![s] = @ - 1]
    /\ \/ /\ \E n \in UnitCounts, p \in BOOLEAN : wish' = [wish EXCEPT ![s] = [units |-> n, par |-> p]]
          /\ \E point \in {"settle", "dispatch"} : Goto(s, point)
       \/ /\ \E point \in {"write", "sync", "flush"} : Goto(s, point)
          /\ UNCHANGED wish
    /\ UNCHANGED <<todo, counters, shared, locals>>

Settle(s) ==
    /\ host[s] = "settle"
    /\ Settled(s)
    /\ Goto(s, "dispatch")
    /\ UNCHANGED <<calls, wish, todo, counters, shared, locals>>

\* The thread copies the data of a write into the buffer itself.
Write(s) ==
    /\ \/ host[s] = "write" /\ Settled(s) /\ Goto(s, "copy")
       \/ host[s] = "copy" /\ Goto(s, "idle")
    /\ UNCHANGED <<calls, wish, todo, counters, shared, locals>>

\* CpuStream::flush, then reclaim_completed under the mutex.
Sync(s) ==
    /\ host[s] = "sync"
    /\ Settled(s)
    /\ runner = NoStream
    /\ active' = {l \in active : ~IsComplete(l)}
    /\ Goto(s, "idle")
    /\ UNCHANGED <<calls, wish, todo, counters, runner, workers, parallel, launches, locals>>

\* CpuExecutionQueue::flush keeps the mutex until every active launch is done.
Flush(s) ==
    /\ \/ /\ host[s] = "flush" /\ runner = NoStream
          /\ runner' = s
          /\ Goto(s, "drain")
          /\ UNCHANGED active
       \/ /\ host[s] = "drain" /\ \A l \in active : IsComplete(l)
          /\ active' = {}
          /\ runner' = NoStream
          /\ Goto(s, "idle")
    /\ UNCHANGED <<calls, wish, todo, counters, workers, parallel, launches, locals>>

\* Mutant: the runner does not start the workers a barrier launch lacks.
Grown_Never(launch) == workers

\* A barrier launch has one worker for each of its units.
Grown(launch) == IF launch.par /\ launch.units > workers THEN launch.units ELSE workers

\* dispatch_data up to the reservation of the launch in the stream's sequence.
Dispatch(s) ==
    LET launch == wish[s]
        l == Len(launches) + 1
    IN  /\ host[s] = "dispatch"
        /\ runner = NoStream
        /\ runner' = s
        /\ workers' = Grown(launch)
        /\ launches' = Append(launches, [stream |-> s, units |-> launch.units, par |-> launch.par,
                                         prerequisite |-> next[s], end |-> next[s] + launch.units])
        /\ active' = {k \in active : ~IsComplete(k)} \cup {l}
        /\ next' = [next EXCEPT ![s] = @ + launch.units]
        /\ remaining' = Append(remaining, launch.units)
        /\ started' = Append(started, 0)
        /\ todo' = [todo EXCEPT ![s] = launch.units]
        /\ Goto(s, "submit")
        /\ UNCHANGED <<calls, wish, completed, parallel, locals>>

\* Unit i of a barrier launch goes to worker i.  Any other unit goes to the
\* worker with the least load; the loads are counters read without ordering,
\* so any worker may look the least loaded.
Targets(launch, left) == IF launch.par THEN {launch.units - left + 1} ELSE 1 .. workers

\* The loop of dispatch_data, one unit at a time; after the last one the mutex
\* is released.  The launch is the last one dispatched: the mutex is held.
Submit(s) ==
    /\ host[s] = "submit"
    /\ \E w \in Targets(wish[s], todo[s]) : inbox' = [inbox EXCEPT ![w] = Append(@, Len(launches))]
    /\ todo' = [todo EXCEPT ![s] = @ - 1]
    /\ IF todo[s] > 1 THEN UNCHANGED <<host, runner>> ELSE Goto(s, "idle") /\ runner' = NoStream
    /\ UNCHANGED <<calls, wish, counters, workers, active, parallel, launches, pending, scan, at, job>>

----------------------------------------------------------------------------
(* The workers. *)

\* The head of the loop: wait for a unit if none is pending, else take at most
\* one more without waiting; then look at the pending units from the first on.
Receive(w) ==
    /\ at[w] = "recv"
    /\ \/ /\ inbox[w] # <<>>
          /\ pending' = [pending EXCEPT ![w] = Append(@, Head(inbox[w]))]
          /\ inbox' = [inbox EXCEPT ![w] = Tail(@)]
       \/ /\ inbox[w] = <<>> /\ pending[w] # <<>>
          /\ UNCHANGED <<pending, inbox>>
    /\ scan' = [scan EXCEPT ![w] = 1]
    /\ at' = [at EXCEPT ![w] = "scan"]
    /\ UNCHANGED <<hosts, counters, shared, job>>

\* Mutant: the stream's earlier launches are not waited for.
Reached_Always(l) == TRUE

\* is_ready: the load of completed.
Reached(l) == completed[launches[l].stream] >= launches[l].prerequisite

\* Mutant: barrier launches are admitted together.
Admitted_Always(l) == TRUE

\* is_ready: the compare_exchange on parallel succeeds, or finds this launch.
Admitted(l) == launches[l].par => parallel \in {0, l}

\* pending.remove(index).
Removed(units, index) == SubSeq(units, 1, index - 1) \o SubSeq(units, index + 1, Len(units))

\* One call of is_ready: the unit is taken, or the next one is looked at.
Check(w) ==
    LET l == pending[w][scan[w]]
    IN  /\ at[w] = "scan"
        /\ IF Reached(l) /\ Admitted(l)
           THEN /\ parallel' = IF launches[l].par THEN l ELSE parallel
                /\ pending' = [pending EXCEPT ![w] = Removed(@, scan[w])]
                /\ job' = [job EXCEPT ![w] = l]
                /\ started' = [started EXCEPT ![l] = @ + 1]
                /\ at' = [at EXCEPT ![w] = "run"]
                /\ UNCHANGED scan
           ELSE /\ \/ /\ scan[w] < Len(pending[w])
                      /\ scan' = [scan EXCEPT ![w] = @ + 1]
                      /\ UNCHANGED at
                   \/ /\ scan[w] = Len(pending[w])
                      /\ at' = [at EXCEPT ![w] = "recv"]
                      /\ UNCHANGED scan
                /\ UNCHANGED <<parallel, pending, job, started>>
        /\ UNCHANGED <<hosts, next, completed, remaining, runner, workers, active, launches, inbox>>

\* The unit has computed, through the barriers of its kernel if there are any,
\* and is counted off its launch.
Complete(w) ==
    LET l == job[w]
        last == remaining[l] = 1
    IN  /\ at[w] = "run"
        /\ launches[l].par => started[l] = launches[l].units
        /\ remaining' = [remaining EXCEPT ![l] = @ - 1]
        /\ at' = [at EXCEPT ![w] = IF ~last THEN "recv" ELSE IF launches[l].par THEN "free" ELSE "publish"]
        /\ UNCHANGED <<hosts, next, completed, started, shared, inbox, pending, scan, job>>

\* unit_complete, the last unit: the store that admits another barrier launch,
Free(w) ==
    /\ at[w] = "free"
    /\ parallel' = 0
    /\ at' = [at EXCEPT ![w] = "publish"]
    /\ UNCHANGED <<hosts, counters, runner, workers, active, launches, inbox, pending, scan, job>>

\* Mutant: the end of the launch is added, not its size.
Publish_End(w) ==
    LET launch == launches[job[w]]
    IN  /\ at[w] = "publish"
        /\ completed' = [completed EXCEPT ![launch.stream] = @ + launch.end]
        /\ at' = [at EXCEPT ![w] = "recv"]
        /\ UNCHANGED <<hosts, next, remaining, started, shared, inbox, pending, scan, job>>

\* and the fetch_add that completes the launch for its stream.
Publish(w) ==
    LET launch == launches[job[w]]
    IN  /\ at[w] = "publish"
        /\ completed' = [completed EXCEPT ![launch.stream] = @ + (launch.end - launch.prerequisite)]
        /\ at' = [at EXCEPT ![w] = "recv"]
        /\ UNCHANGED <<hosts, next, remaining, started, shared, inbox, pending, scan, job>>

----------------------------------------------------------------------------
Host(s) == Settle(s) \/ Write(s) \/ Sync(s) \/ Flush(s) \/ Dispatch(s) \/ Submit(s)

Worker(w) ==
    /\ w <= workers
    /\ Receive(w) \/ Check(w) \/ Complete(w) \/ Free(w) \/ Publish(w)

Next ==
    \/ \E s \in Streams : Call(s) \/ Host(s)
    \/ \E w \in Workers : Worker(w)

Spec == Init /\ [][Next]_vars

\* The operating system runs every thread; nobody has to make a call.
FairSpec ==
    /\ Spec
    /\ \A s \in Streams : WF_vars(Host(s))
    /\ \A w \in Workers : WF_vars(Worker(w))

----------------------------------------------------------------------------
TypeOK ==
    /\ host \in [Streams -> {"idle", "settle", "write", "copy", "sync", "flush", "drain", "dispatch", "submit"}]
    /\ calls \in [Streams -> Nat]
    /\ wish \in [Streams -> Wishes]
    /\ todo \in [Streams -> Nat]
    /\ next \in [Streams -> Nat]
    /\ completed \in [Streams -> Nat]
    /\ \A s \in Streams : completed[s] <= next[s]
    /\ runner \in Streams \cup {NoStream}
    /\ workers \in InitialWorkers .. MaxWorkers
    /\ active \subseteq Launches
    /\ parallel \in 0 .. Len(launches)
    /\ remaining \in [Launches -> Nat]
    /\ started \in [Launches -> Nat]
    /\ at \in [Workers -> {"recv", "scan", "run", "free", "publish"}]
    /\ \A w \in Workers : inbox[w] \in Seq(Launches) /\ pending[w] \in Seq(Launches)

Computing(l) == \E w \in Workers : at[w] = "run" /\ job[w] = l

\* Launches of a stream run one after the other, although their units wait on
\* different workers that skip over units that are not ready: while a unit
\* computes, every earlier launch of its stream is over.
StreamOrder ==
    \A k, l \in Launches :
        k < l /\ launches[k].stream = launches[l].stream /\ Computing(l) => remaining[k] = 0

\* Units of two barrier launches never compute at the same time; otherwise
\* each could hold workers that the other needs to pass its barrier.
OneBarrierLaunch ==
    \A k, l \in Launches :
        launches[k].par /\ launches[l].par /\ Computing(k) /\ Computing(l) => k = l

\* While a thread copies the data of a write into a buffer, no unit of a launch
\* of the same stream is queued or computing.
WriteIsAlone ==
    \A s \in Streams, l \in Launches :
        host[s] = "copy" /\ launches[l].stream = s => remaining[l] = 0

\* Every launch that is dispatched runs to its end, and every call returns:
\* streams, barrier launches and the mutex held during a flush cannot make
\* the workers wait for each other.
EverythingRuns ==
    /\ \A s \in Streams : host[s] # "idle" ~> host[s] = "idle"
    /\ \A l \in 1 .. MaxLaunches : l \in Launches ~> (l \in Launches /\ IsComplete(l))
=============================================================================
