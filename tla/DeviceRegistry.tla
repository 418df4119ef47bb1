--------------------------- MODULE DeviceRegistry --------------------------
(***************************************************************************)
(* The process-wide registry of device runners and services                *)
(* (ruda-core/src/device/handle/channel.rs): ChannelDeviceState::init with *)
(* the CHANNELS and RUNNERS maps, the services a runner thread owns        *)
(* (STATES), and shutdown_runners, which stops the upstream runners before *)
(* the downstream ones.  The channel of a runner is the TaskQueue that     *)
(* DeviceChannel implements: a FIFO that is drained before its runner      *)
(* leaves the loop.                                                        *)
(***************************************************************************)
EXTENDS Naturals, Sequences, FiniteSets

CONSTANTS
    Callers,      \* application threads
    Exiters,      \* threads that run shutdown_runners
    Runners,      \* RunnerId: a device and a stage
    Upstream,     \* the runners of stage Upstream, a subset of Runners
    Keys,         \* (RunnerId, TypeId): the services
    RunnerOf,     \* the runner of each service
    Downstream,   \* the service that shutdown and drop of a service submit to
    NestedKeys,   \* services that tasks ask for while they run on a runner
    MaxCalls,     \* bound: calls made by one application thread
    NoKey, NoProc

ASSUME RegistryAssumption ==
    /\ Upstream \subseteq Runners /\ NestedKeys \subseteq Keys
    /\ RunnerOf \in [Keys -> Runners]
    /\ Downstream \in [Keys -> Keys \cup {NoKey}]
    /\ \A k \in Keys : Downstream[k] # NoKey =>
          RunnerOf[k] \in Upstream /\ RunnerOf[Downstream[k]] \notin Upstream
    /\ MaxCalls \in Nat
    /\ NoKey \notin Keys
    /\ NoProc \notin Callers \cup Exiters \cup Runners
    /\ Callers \cap Exiters = {} /\ Callers \cap Runners = {} /\ Exiters \cap Runners = {}

VARIABLES
    lock,         \* the thread inside ChannelDeviceState::init with CHANNELS locked
    channels,     \* keys of CHANNELS
    runners,      \* keys of RUNNERS
    states,       \* the services in the STATES of each runner thread
    queue,        \* tasks accepted by each runner and not yet taken
    closed,       \* the CLOSED bit of each channel
    stopping,     \* the stopping flag of each channel (is_shutdown)
    handle,       \* State::thread: the JoinHandle is "present", "taken" by a
                  \* shutdown that holds the mutex, "joined", or "poisoned"
    borrowed,     \* is STATES borrowed by what the runner thread is running?
    pc,           \* the next step of every thread
    want,         \* the service a thread is asking for
    given,        \* does it bring its own instance (insert) or not (new)?
    reply,        \* the oneshot reply of initialize_service
    calls,        \* number of calls begun by each application thread
    todo,         \* services a runner has still to shut down (or to drop)
    cleaning,     \* the one among them it is working on
    clients,      \* runners an exiting thread has still to shut down
    target,       \* the one among them it is shutting down
    stage,        \* the stage an exiting thread is working on
    seen,         \* history: the runners there were when it began, and those that
                  \* the upstream ones of them have started since
    inits         \* history: how often each service was initialized

registry == <<lock, channels, runners>>
chan == <<queue, closed, stopping, handle>>
exit == <<clients, target, stage, seen>>
vars == <<lock, channels, runners, states, queue, closed, stopping, handle,
          borrowed, pc, want, given, reply, calls, todo, cleaning, clients, target,
          stage, seen, inits>>

Procs == Callers \cup Exiters \cup Runners
RunnerStage(r) == IF r \in Upstream THEN "Upstream" ELSE "Downstream"

\* Closures in a queue: an initialize_service, or a task that may itself ask
\* for a service while it has STATES borrowed (submit) or not (exclusive).
InitTask(p) == [what |-> "init", from |-> p, nested |-> NoKey, borrows |-> TRUE]
PlainWork == [what |-> "work", from |-> NoProc, nested |-> NoKey, borrows |-> TRUE]
Work == {PlainWork} \cup [what : {"work"}, from : {NoProc}, nested : NestedKeys,
                          borrows : BOOLEAN]

Goto(p, label) == pc' = [pc EXCEPT ![p] = label]

\* Where a thread goes when init returns, and where when it panics: a task of
\* a runner is over (catch_unwind), shutdown_services goes on or unwinds.
InTask(p) == p \in Runners /\ cleaning[p] = NoKey
Return(p) == IF InTask(p) THEN "loop" ELSE IF p \in Runners THEN "submit" ELSE "idle"
Unwind(p) == IF InTask(p) THEN "loop" ELSE "panicked"
TaskOver(p) == borrowed' = IF InTask(p) THEN [borrowed EXCEPT ![p] = FALSE] ELSE borrowed

----------------------------------------------------------------------------
(* ChannelDeviceState::init *)

\* DeviceHandle::new or DeviceHandle::insert on an application thread.
Call(p, k, g) ==
    /\ pc[p] = "idle" /\ calls[p] < MaxCalls
    /\ calls' = [calls EXCEPT ![p] = @ + 1]
    /\ want' = [want EXCEPT ![p] = k]
    /\ given' = [given EXCEPT ![p] = g]
    /\ Goto(p, "lock")
    /\ UNCHANGED <<registry, states, chan, borrowed, reply, todo, cleaning, exit, inits>>

\* CHANNELS is locked and the key is known: `new` returns the handle, `insert`
\* an error; both release the lock.
Lookup(p) ==
    /\ pc[p] = "lock" /\ lock = NoProc /\ want[p] \in channels
    /\ Goto(p, Return(p))
    /\ TaskOver(p)
    /\ UNCHANGED <<registry, states, chan, want, given, reply, calls, todo, cleaning,
                   exit, inits>>

\* Mutant: the lock is not kept while the service is initialized.
LookupMiss_Unlocked(p) ==
    /\ pc[p] = "lock" /\ lock = NoProc /\ want[p] \notin channels
    /\ Goto(p, "runner")
    /\ UNCHANGED <<registry, states, chan, borrowed, want, given, reply, calls,
                   todo, cleaning, exit, inits>>

\* The key is missing: the lock is kept until init returns.
LookupMiss(p) ==
    /\ pc[p] = "lock" /\ lock = NoProc /\ want[p] \notin channels
    /\ lock' = p
    /\ Goto(p, "runner")
    /\ UNCHANGED <<channels, runners, states, chan, borrowed, want, given,
                   reply, calls, todo, cleaning, exit, inits>>

\* RUNNERS: take the client of the runner, or start the runner.
TakeRunner(p) ==
    /\ pc[p] = "runner"
    /\ LET r == RunnerOf[want[p]]
       IN  /\ runners' = runners \cup {r}
           /\ pc' = IF r \in runners THEN [pc EXCEPT ![p] = "send"]
                    ELSE [pc EXCEPT ![p] = "send", ![r] = "loop"]
           /\ seen' = [e \in Exiters |-> IF p \in seen[e] \cap Upstream THEN seen[e] \cup {r}
                                             ELSE seen[e]]
    /\ UNCHANGED <<lock, channels, states, chan, borrowed, want, given, reply,
                   calls, todo, cleaning, clients, target, stage, inits>>

\* initialize_service on runner r for thread p: what it does to STATES and what
\* it sends back.  S::init may panic, and then nothing is sent.  After the insertion into
\* STATES only register_exit_hook could panic, if atexit had no memory left: the C library's
\* atexit is taken to succeed.
Initialize(r, p) ==
    LET k == want[p]
    IN  \/ /\ given[p] /\ k \in states[r]
           /\ reply' = [reply EXCEPT ![p] = "err"]
           /\ UNCHANGED <<states, inits>>
        \/ /\ ~(given[p] /\ k \in states[r])
           /\ states' = [states EXCEPT ![r] = @ \cup {k}]
           /\ inits' = [inits EXCEPT ![k] = @ + 1]
           /\ reply' = [reply EXCEPT ![p] = "ok"]
        \/ /\ ~given[p]
           /\ reply' = [reply EXCEPT ![p] = "disconnected"]
           /\ UNCHANGED <<states, inits>>

\* Another thread: enqueue and flush.
SendInit(p) ==
    /\ pc[p] = "send"
    /\ LET r == RunnerOf[want[p]]
       IN  /\ r # p /\ ~closed[r]
           /\ queue' = [queue EXCEPT ![r] = Append(@, InitTask(p))]
    /\ Goto(p, "await")
    /\ UNCHANGED <<registry, states, closed, stopping, handle, borrowed, want,
                   given, reply, calls, todo, cleaning, exit, inits>>

\* Mutant: the unwinding leaves CHANNELS locked.
SendInitClosed_Locked(p) ==
    /\ pc[p] = "send" /\ RunnerOf[want[p]] # p /\ closed[RunnerOf[want[p]]]
    /\ TaskOver(p)
    /\ Goto(p, Unwind(p))
    /\ UNCHANGED <<registry, states, chan, want, given, reply, calls, todo,
                   cleaning, exit, inits>>

\* enqueue on a closed channel: the unwrap panics and unlocks CHANNELS.
SendInitClosed(p) ==
    /\ pc[p] = "send" /\ RunnerOf[want[p]] # p /\ closed[RunnerOf[want[p]]]
    /\ lock' = NoProc
    /\ TaskOver(p)
    /\ Goto(p, Unwind(p))
    /\ UNCHANGED <<channels, runners, states, chan, want, given, reply, calls,
                   todo, cleaning, exit, inits>>

\* On the runner itself initialize_service is called directly; with STATES
\* already borrowed it panics, which init turns into an error, and new into a
\* panic of the task.
InitDirect(r) ==
    /\ pc[r] = "send" /\ RunnerOf[want[r]] = r
    /\ IF borrowed[r]
       THEN /\ lock' = NoProc /\ Goto(r, "loop")
            /\ borrowed' = [borrowed EXCEPT ![r] = FALSE]
            /\ UNCHANGED <<states, inits, reply>>
       ELSE /\ Initialize(r, r)
            /\ Goto(r, "await")
            /\ UNCHANGED <<lock, borrowed>>
    /\ UNCHANGED <<channels, runners, chan, want, given, calls, todo, cleaning, exit>>

\* Mutant: the service is entered whatever the reply is.
Finish_Always(p) ==
    /\ pc[p] = "await" /\ reply[p] # "none"
    /\ channels' = channels \cup {want[p]}
    /\ lock' = NoProc
    /\ reply' = [reply EXCEPT ![p] = "none"]
    /\ TaskOver(p)
    /\ Goto(p, IF reply[p] = "disconnected" THEN Unwind(p) ELSE Return(p))
    /\ UNCHANGED <<runners, states, chan, want, given, calls, todo, cleaning,
                   exit, inits>>

\* recv: the service is entered in CHANNELS, or init fails; the lock is
\* released either way.
Finish(p) ==
    /\ pc[p] = "await" /\ reply[p] # "none"
    /\ channels' = IF reply[p] = "ok" THEN channels \cup {want[p]} ELSE channels
    /\ lock' = NoProc
    /\ reply' = [reply EXCEPT ![p] = "none"]
    /\ TaskOver(p)
    /\ Goto(p, IF reply[p] = "disconnected" THEN Unwind(p) ELSE Return(p))
    /\ UNCHANGED <<runners, states, chan, want, given, calls, todo, cleaning, exit,
                   inits>>

----------------------------------------------------------------------------
(* Tasks *)

\* A thread that has a handle of service k submits a task to its runner.
Submit(p, k, x) ==
    /\ pc[p] = "idle" /\ calls[p] < MaxCalls /\ k \in channels
    /\ calls' = [calls EXCEPT ![p] = @ + 1]
    /\ IF closed[RunnerOf[k]]
       THEN Goto(p, "panicked") /\ UNCHANGED queue
       ELSE /\ queue' = [queue EXCEPT ![RunnerOf[k]] = Append(@, x)]
            /\ UNCHANGED pc
    /\ UNCHANGED <<registry, states, closed, stopping, handle, borrowed, want,
                   given, reply, todo, cleaning, exit, inits>>

\* The runner takes the oldest task.
RunInit(r) ==
    /\ pc[r] = "loop" /\ queue[r] # <<>> /\ Head(queue[r]).what = "init"
    /\ queue' = [queue EXCEPT ![r] = Tail(@)]
    /\ Initialize(r, Head(queue[r]).from)
    /\ UNCHANGED <<registry, closed, stopping, handle, borrowed, pc, want,
                   given, calls, todo, cleaning, exit>>

RunWork(r) ==
    /\ pc[r] = "loop" /\ queue[r] # <<>> /\ Head(queue[r]).what = "work"
    /\ queue' = [queue EXCEPT ![r] = Tail(@)]
    /\ LET x == Head(queue[r])
       IN  IF x.nested = NoKey THEN UNCHANGED <<borrowed, pc, want, given>>
           ELSE /\ borrowed' = [borrowed EXCEPT ![r] = x.borrows]
                /\ want' = [want EXCEPT ![r] = x.nested]
                /\ given' = [given EXCEPT ![r] = FALSE]
                /\ Goto(r, "lock")
    /\ UNCHANGED <<registry, states, closed, stopping, handle, reply, calls,
                   todo, cleaning, exit, inits>>

----------------------------------------------------------------------------
(* The end of a runner: shutdown_services *)

\* The loop is left once stopping is set and the queue is drained; the services
\* are shut down under a borrow of STATES.
LeaveLoop(r) ==
    /\ pc[r] = "loop" /\ stopping[r] /\ queue[r] = <<>>
    /\ todo' = [todo EXCEPT ![r] = states[r]]
    /\ borrowed' = [borrowed EXCEPT ![r] = TRUE]
    /\ Goto(r, "services")
    /\ UNCHANGED <<registry, states, chan, want, given, reply, calls, cleaning,
                   exit, inits>>

\* Shutting down or dropping a service.  One that works on top of another asks
\* for the handle of that one.
Cleanup(r, k) ==
    /\ pc[r] = "services" /\ k \in todo[r]
    /\ todo' = [todo EXCEPT ![r] = @ \ {k}]
    /\ IF Downstream[k] = NoKey THEN UNCHANGED <<pc, want, given, cleaning>>
       ELSE /\ want' = [want EXCEPT ![r] = Downstream[k]]
            /\ given' = [given EXCEPT ![r] = FALSE]
            /\ cleaning' = [cleaning EXCEPT ![r] = k]
            /\ Goto(r, "lock")
    /\ UNCHANGED <<registry, states, chan, borrowed, reply, calls, exit, inits>>

\* submit to the downstream service; on a closed channel its expect panics and
\* takes the runner thread down.
CleanupSubmit(r) ==
    /\ pc[r] = "submit"
    /\ LET d == RunnerOf[want[r]]
       IN  IF closed[d] THEN Goto(r, "panicked") /\ UNCHANGED <<queue, cleaning>>
           ELSE /\ queue' = [queue EXCEPT ![d] = Append(@, PlainWork)]
                /\ cleaning' = [cleaning EXCEPT ![r] = NoKey]
                /\ Goto(r, "services")
    /\ UNCHANGED <<registry, states, closed, stopping, handle, borrowed, want,
                   given, reply, calls, todo, exit, inits>>

\* STATES is emptied, and the services are dropped outside the borrow.
TakeStates(r) ==
    /\ pc[r] = "services" /\ todo[r] = {} /\ borrowed[r]
    /\ todo' = [todo EXCEPT ![r] = states[r]]
    /\ states' = [states EXCEPT ![r] = {}]
    /\ borrowed' = [borrowed EXCEPT ![r] = FALSE]
    /\ UNCHANGED <<registry, chan, pc, want, given, reply, calls, cleaning, exit,
                   inits>>

EndRunner(r) ==
    /\ pc[r] = "services" /\ todo[r] = {} /\ ~borrowed[r]
    /\ Goto(r, "done")
    /\ UNCHANGED <<registry, states, chan, borrowed, want, given, reply, calls,
                   todo, cleaning, exit, inits>>

----------------------------------------------------------------------------
(* shutdown_runners *)

BeginExit(e) ==
    /\ pc[e] = "idle"
    /\ seen' = [seen EXCEPT ![e] = runners]
    /\ Goto(e, "collect")
    /\ UNCHANGED <<registry, states, chan, borrowed, want, given, reply, calls,
                   todo, cleaning, clients, target, stage, inits>>

\* The clients of the current stage that are not shut down.  Mutants: the
\* downstream stage is forgotten; the stages are swapped.
Remaining_Upstream(e) == {r \in runners : RunnerStage(r) = "Upstream" /\ ~stopping[r]}
Remaining_Swapped(e) == {r \in runners : RunnerStage(r) # stage[e] /\ ~stopping[r]}
Remaining(e) == {r \in runners : RunnerStage(r) = stage[e] /\ ~stopping[r]}

\* One round of the loop over a stage; a round that finds none ends the stage.
Collect(e) ==
    /\ pc[e] = "collect"
    /\ clients' = [clients EXCEPT ![e] = Remaining(e)]
    /\ stage' = IF Remaining(e) = {} THEN [stage EXCEPT ![e] = "Downstream"] ELSE stage
    /\ Goto(e, IF Remaining(e) # {} THEN "next"
               ELSE IF stage[e] = "Upstream" THEN "collect" ELSE "returned")
    /\ UNCHANGED <<registry, states, chan, borrowed, want, given, reply, calls,
                   todo, cleaning, target, seen, inits>>

\* DeviceClient::shutdown of one of them: locks State::thread (blocked while
\* another shutdown joins), takes the JoinHandle and closes the channel.
Close(e, r) ==
    /\ pc[e] = "next" /\ r \in clients[e] /\ handle[r] = "present"
    /\ clients' = [clients EXCEPT ![e] = @ \ {r}]
    /\ target' = [target EXCEPT ![e] = r]
    /\ handle' = [handle EXCEPT ![r] = "taken"]
    /\ closed' = [closed EXCEPT ![r] = TRUE]
    /\ Goto(e, "stop")
    /\ UNCHANGED <<registry, states, queue, stopping, borrowed, want, given,
                   reply, calls, todo, cleaning, stage, seen, inits>>

\* Somebody else has joined it, or failed to.
CloseAgain(e, r) ==
    /\ pc[e] = "next" /\ r \in clients[e] /\ handle[r] \in {"joined", "poisoned"}
    /\ clients' = [clients EXCEPT ![e] = @ \ {r}]
    /\ Goto(e, IF handle[r] = "joined" THEN "next" ELSE "panicked")
    /\ UNCHANGED <<registry, states, chan, borrowed, want, given, reply, calls,
                   todo, cleaning, target, stage, seen, inits>>

RoundOver(e) ==
    /\ pc[e] = "next" /\ clients[e] = {}
    /\ Goto(e, "collect")
    /\ UNCHANGED <<registry, states, chan, borrowed, want, given, reply, calls,
                   todo, cleaning, exit, inits>>

\* Mutant: the runner is never told.
Stop_Silent(e) ==
    /\ pc[e] = "stop"
    /\ Goto(e, "join")
    /\ UNCHANGED <<registry, states, chan, borrowed, want, given, reply, calls,
                   todo, cleaning, exit, inits>>

Stop(e) ==
    /\ pc[e] = "stop"
    /\ stopping' = [stopping EXCEPT ![target[e]] = TRUE]
    /\ Goto(e, "join")
    /\ UNCHANGED <<registry, states, queue, closed, handle, borrowed, want,
                   given, reply, calls, todo, cleaning, exit, inits>>

\* join; the panic of a runner is resumed with the mutex held.
Join(e) ==
    /\ pc[e] = "join" /\ pc[target[e]] \in {"done", "panicked"}
    /\ LET ok == pc[target[e]] = "done"
       IN  /\ handle' = [handle EXCEPT ![target[e]] = IF ok THEN "joined" ELSE "poisoned"]
           /\ Goto(e, IF ok THEN "next" ELSE "panicked")
    /\ UNCHANGED <<registry, states, queue, closed, stopping, borrowed, want,
                   given, reply, calls, todo, cleaning, exit, inits>>

----------------------------------------------------------------------------
Init ==
    /\ lock = NoProc /\ channels = {} /\ runners = {}
    /\ states = [r \in Runners |-> {}]
    /\ queue = [r \in Runners |-> <<>>]
    /\ closed = [r \in Runners |-> FALSE]
    /\ stopping = [r \in Runners |-> FALSE]
    /\ handle = [r \in Runners |-> "present"]
    /\ borrowed = [r \in Runners |-> FALSE]
    /\ pc = [p \in Procs |-> IF p \in Runners THEN "absent" ELSE "idle"]
    /\ want = [p \in Procs |-> NoKey]
    /\ given = [p \in Procs |-> FALSE]
    /\ reply = [p \in Procs |-> "none"]
    /\ calls = [p \in Callers |-> 0]
    /\ todo = [r \in Runners |-> {}]
    /\ cleaning = [r \in Runners |-> NoKey]
    /\ clients = [e \in Exiters |-> {}]
    /\ target = [e \in Exiters |-> NoProc]
    /\ stage = [e \in Exiters |-> "Upstream"]
    /\ seen = [e \in Exiters |-> {}]
    /\ inits = [k \in Keys |-> 0]

CallStep(p) ==
    \/ \E k \in Keys, g \in BOOLEAN : Call(p, k, g)
    \/ \E k \in Keys, x \in Work : Submit(p, k, x)

InitStep(p) ==
    \/ Lookup(p) \/ LookupMiss(p) \/ TakeRunner(p) \/ SendInit(p)
    \/ SendInitClosed(p) \/ Finish(p)

RunnerStep(r) ==
    \/ InitStep(r) \/ InitDirect(r) \/ RunInit(r) \/ RunWork(r) \/ LeaveLoop(r)
    \/ \E k \in Keys : Cleanup(r, k)
    \/ CleanupSubmit(r) \/ TakeStates(r) \/ EndRunner(r)

ExitStep(e) ==
    \/ Collect(e) \/ RoundOver(e) \/ Stop(e) \/ Join(e)
    \/ \E r \in Runners : Close(e, r) \/ CloseAgain(e, r)

Next ==
    \/ \E p \in Callers : CallStep(p) \/ InitStep(p)
    \/ \E r \in Runners : RunnerStep(r)
    \/ \E e \in Exiters : BeginExit(e) \/ ExitStep(e)

Spec == Init /\ [][Next]_vars

\* Fairness: every thread inside a call, and every runner, is scheduled again
\* and again.  CHANNELS is a spin lock: a waiting thread gets it if it stays
\* free, which it does as the threads make finitely many calls.
FairSpec ==
    /\ Spec
    /\ \A p \in Callers : WF_vars(InitStep(p))
    /\ \A r \in Runners : WF_vars(RunnerStep(r))
    /\ \A e \in Exiters : WF_vars(ExitStep(e))

----------------------------------------------------------------------------
(* Properties *)

Labels == {"absent", "idle", "lock", "runner", "send", "await", "loop", "services",
           "submit", "collect", "next", "stop", "join", "returned", "done",
           "panicked"}

\* The type invariant of the registry, the runners and the threads; CHANNELS is
\* locked only by a thread that is inside init.
TypeOK ==
    /\ lock = NoProc \/ (lock \in Procs /\ pc[lock] \in {"runner", "send", "await"})
    /\ channels \subseteq Keys /\ runners \subseteq Runners
    /\ states \in [Runners -> SUBSET Keys]
    /\ \A r \in Runners : \A i \in 1 .. Len(queue[r]) :
          queue[r][i] \in Work \cup {InitTask(p) : p \in Procs}
    /\ closed \in [Runners -> BOOLEAN] /\ stopping \in [Runners -> BOOLEAN]
    /\ handle \in [Runners -> {"present", "taken", "joined", "poisoned"}]
    /\ borrowed \in [Runners -> BOOLEAN]
    /\ pc \in [Procs -> Labels] /\ want \in [Procs -> Keys \cup {NoKey}]
    /\ given \in [Procs -> BOOLEAN]
    /\ reply \in [Procs -> {"none", "ok", "err", "disconnected"}]
    /\ calls \in [Callers -> 0 .. MaxCalls]
    /\ todo \in [Runners -> SUBSET Keys] /\ cleaning \in [Runners -> Keys \cup {NoKey}]
    /\ clients \in [Exiters -> SUBSET Runners]
    /\ target \in [Exiters -> Runners \cup {NoProc}]
    /\ stage \in [Exiters -> {"Upstream", "Downstream"}]
    /\ seen \in [Exiters -> SUBSET Runners] /\ inits \in [Keys -> Nat]

\* "S::init runs once per (DeviceId, TypeId) pair": of all threads that race
\* for a service, one gets to create it.
InitializedOnce == \A k \in Keys : inits[k] <= 1

\* A handle that init returned leads to a live service: until the runner takes
\* its STATES apart, act_on finds the service of every key of CHANNELS.
HandlesAreBacked ==
    \A k \in channels :
        LET r == RunnerOf[k]
        IN  /\ r \in runners /\ pc[r] # "absent"
            /\ k \in states[r] \/ (stopping[r] /\ queue[r] = <<>>)

\* While an upstream service shuts down or is dropped, the downstream service
\* it submits to has not been closed ("upstream shutdown may initialize or
\* submit work to downstream services that must remain available"), when one
\* thread runs shutdown_runners.
DownstreamAvailable ==
    \A r \in Runners :
        cleaning[r] # NoKey => ~closed[RunnerOf[Downstream[cleaning[r]]]]

\* shutdown_runners returns only when the runner threads have ended: those it found
\* at the beginning, and those that the upstream ones of these have started since, for
\* a nested init or for the service that shutting down an upstream one submits to.
\* It takes that no other thread runs shutdown_runners at the time: a runner that
\* another one has begun to stop is skipped.
RunnersJoined ==
    \A e \in Exiters : pc[e] = "returned" => \A r \in seen[e] : pc[r] = "done"

\* DeviceHandle::new and insert return or panic, on application threads and on
\* runner threads ("to prevent deadlocks and allow for recursive calls").
InitReturns ==
    \A p \in Callers \cup Runners :
        pc[p] = "lock" ~> pc[p] \notin {"lock", "runner", "send", "await"}

\* shutdown_runners comes to an end whatever the other threads do.
ExitReturns ==
    \A e \in Exiters : pc[e] = "collect" ~> pc[e] \in {"returned", "panicked"}
=============================================================================
