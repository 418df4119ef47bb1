-------------------------- MODULE DeviceRegistryInv -------------------------
(***************************************************************************)
(* The inductive invariants of DeviceRegistry: RegistryInv, for any number *)
(* of threads that run shutdown_runners, and ExitInv, for at most one.     *)
(***************************************************************************)
EXTENDS DeviceRegistry

Tasks == Work \cup {InitTask(p) : p \in Procs}
Inside == {"runner", "send", "await"}
CallerLabels == {"idle", "lock", "panicked"} \cup Inside
ExiterLabels == {"idle", "collect", "next", "stop", "join", "returned", "panicked"}
RunnerLabels == {"absent", "loop", "lock", "services", "submit", "done", "panicked"} \cup Inside

\* The types of the variables; every thread is at a label of its own kind.
PcOK ==
    /\ pc \in [Procs -> Labels]
    /\ \A p \in Callers : pc[p] \in CallerLabels
    /\ \A e \in Exiters : pc[e] \in ExiterLabels
    /\ \A r \in Runners : pc[r] \in RunnerLabels
DataOK ==
    /\ channels \subseteq Keys /\ runners \subseteq Runners
    /\ states \in [Runners -> SUBSET Keys] /\ queue \in [Runners -> Seq(Tasks)]
    /\ closed \in [Runners -> BOOLEAN] /\ stopping \in [Runners -> BOOLEAN]
    /\ handle \in [Runners -> {"present", "taken", "joined", "poisoned"}]
    /\ borrowed \in [Runners -> BOOLEAN]
    /\ want \in [Procs -> Keys \cup {NoKey}] /\ given \in [Procs -> BOOLEAN]
    /\ reply \in [Procs -> {"none", "ok", "err", "disconnected"}]
    /\ calls \in [Callers -> 0 .. MaxCalls]
    /\ todo \in [Runners -> SUBSET Keys] /\ cleaning \in [Runners -> Keys \cup {NoKey}]
    /\ clients \in [Exiters -> SUBSET Runners]
    /\ target \in [Exiters -> Runners \cup {NoProc}]
    /\ stage \in [Exiters -> {"Upstream", "Downstream"}]
    /\ seen \in [Exiters -> SUBSET Runners] /\ inits \in [Keys -> Nat]
TypesInv == PcOK /\ DataOK

\* CHANNELS is held by the one thread inside init, which asks for a missing service; the
\* runner of that service is started before anything is sent to it.
LockAt(p) ==
    /\ pc[p] \in Inside <=> lock = p
    /\ pc[p] \in Inside \cup {"lock", "submit"} => want[p] \in Keys
    /\ pc[p] \in Inside => want[p] \notin channels
    /\ pc[p] \in {"send", "await"} => RunnerOf[want[p]] \in runners
    /\ reply[p] # "none" => pc[p] = "await"
    /\ p \in Runners => (p \in runners <=> pc[p] # "absent")
LockInv == lock \in Procs \cup {NoProc} /\ \A p \in Procs : LockAt(p)

\* The task at place i of queue r, if it initializes a service, is the one that the thread
\* inside init waits for.
InitTaskOK(r, i) ==
    LET x == queue[r][i]
    IN  x.what = "init" => /\ pc[x.from] = "await" /\ reply[x.from] = "none"
                           /\ RunnerOf[want[x.from]] = r
                           /\ \A j \in DOMAIN queue[r] : queue[r][j].what = "init" => i = j
QueueInv == \A r \in Runners : \A i \in DOMAIN queue[r] : InitTaskOK(r, i)

\* The services that S::init has made, entered in CHANNELS or about to be.
Created == channels \cup {want[p] : p \in {q \in Procs : reply[q] = "ok"}}
Drained(r) == stopping[r] /\ queue[r] = <<>>
CreatedInv ==
    /\ \A k \in Keys : inits[k] = IF k \in Created THEN 1 ELSE 0
    /\ \A k \in Created : RunnerOf[k] \in runners
    /\ \A k \in Created : k \in states[RunnerOf[k]] \/ Drained(RunnerOf[k])

\* A runner leaves its loop when it is stopped, hence closed, and drained; the services it
\* shuts down are its own, and those they submit to are not.
Leaving(r) == pc[r] \in {"services", "submit", "done", "panicked"} \/ cleaning[r] # NoKey
EndAt(r) ==
    /\ stopping[r] => closed[r]
    /\ Leaving(r) => Drained(r)
    /\ \A k \in states[r] \cup todo[r] : RunnerOf[k] = r
    /\ cleaning[r] # NoKey => /\ RunnerOf[cleaning[r]] = r /\ Downstream[cleaning[r]] # NoKey
                              /\ want[r] = Downstream[cleaning[r]]
                              /\ pc[r] \in {"lock", "submit", "panicked"} \cup Inside
    /\ pc[r] = "submit" => cleaning[r] # NoKey
StopAt(e) == pc[e] \in {"stop", "join"} => target[e] \in Runners /\ closed[target[e]]
EndInv == (\A r \in Runners : EndAt(r)) /\ \A e \in Exiters : StopAt(e)

RegistryInv == TypesInv /\ LockInv /\ QueueInv /\ CreatedInv /\ EndInv

\* At most one thread runs shutdown_runners.  STARTED sees to it for the atexit hook, not for
\* the hosts that call shutdown_device_services.
OneExiter == \A e, f \in Exiters : e = f

\* A channel that is closed has been joined, or is being joined, by the exiting thread; the
\* upstream runners it has found are done when it turns to the downstream ones.
ExitAt(e) ==
    /\ pc[e] \in {"idle", "collect", "next", "returned"} =>
          \A r \in Runners : closed[r] => pc[r] = "done"
    /\ pc[e] \in {"stop", "join"} =>
          \A r \in Runners \ {target[e]} : closed[r] => pc[r] = "done"
    /\ pc[e] = "idle" => stage[e] = "Upstream"
    /\ pc[e] = "returned" => stage[e] = "Downstream" /\ \A r \in seen[e] : pc[r] = "done"
    /\ pc[e] \in {"next", "stop", "join"} => \A r \in clients[e] : RunnerStage(r) = stage[e]
    /\ stage[e] = "Upstream" => \A r \in Runners \ Upstream : ~closed[r]
    /\ stage[e] = "Downstream" => /\ \A r \in Upstream : closed[r] => pc[r] = "done"
                                  /\ \A r \in seen[e] \cap Upstream : pc[r] = "done"
    /\ seen[e] \subseteq runners
ExitInv == (\A r \in Runners : closed[r] => Exiters # {}) /\ \A e \in Exiters : ExitAt(e)

=============================================================================
