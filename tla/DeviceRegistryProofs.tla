----------------------- MODULE DeviceRegistryProofs -----------------------
(***************************************************************************)
(* Proofs about DeviceRegistry: of all threads that race for a service one *)
(* creates it, and handles are backed by live services, for any number of  *)
(* threads, runners and services; and, when one thread runs                *)
(* shutdown_runners, the order of the shutdown.                            *)
(***************************************************************************)
EXTENDS DeviceRegistryInv, TLAPS

\* Threads are of one kind, and a service belongs to a runner.
LEMMA Kinds ==
    /\ Callers \subseteq Procs /\ Exiters \subseteq Procs /\ Runners \subseteq Procs
    /\ \A p \in Callers : p \notin Exiters /\ p \notin Runners
    /\ \A e \in Exiters : e \notin Callers /\ e \notin Runners
    /\ \A r \in Runners : r \notin Callers /\ r \notin Exiters
    /\ NoProc \notin Procs /\ NoKey \notin Keys
    /\ \A k \in Keys : RunnerOf[k] \in Runners
    BY RegistryAssumption, Zenon DEF Procs

----------------------------------------------------------------------------
(* Types *)

\* One thread goes on to a label of its kind.
LEMMA LabelMove ==
    ASSUME PcOK, NEW p \in Procs, NEW l, pc' = [pc EXCEPT ![p] = l],
           p \in Callers => l \in CallerLabels, p \in Exiters => l \in ExiterLabels,
           p \in Runners => l \in RunnerLabels
    PROVE  PcOK'
<1>1. l \in Labels
    BY Zenon DEF Procs, Labels, CallerLabels, ExiterLabels, RunnerLabels, Inside
<1>2. pc \in [Procs -> Labels]
    BY Zenon DEF PcOK
<1>3. pc' \in [Procs -> Labels] /\ \A q \in Procs : pc'[q] = IF q = p THEN l ELSE pc[q]
    BY <1>1, <1>2, Zenon
<1>. QED
    BY <1>3, Kinds, Zenon DEF PcOK

\* The label of another thread, and of this one.
LEMMA LabelsAre ==
    ASSUME PcOK, NEW p \in Procs, NEW l, pc' = [pc EXCEPT ![p] = l]
    PROVE  pc'[p] = l /\ \A q \in Procs \ {p} : pc'[q] = pc[q]
    BY Zenon DEF PcOK

\* Where a thread returns to.
LEMMA Returns ==
    ASSUME NEW p \in Procs \ Exiters
    PROVE  /\ p \in Callers => /\ Return(p) \in CallerLabels /\ Unwind(p) \in CallerLabels
                               /\ Return(p) = "idle" /\ Unwind(p) = "panicked"
           /\ p \in Runners => /\ Return(p) \in RunnerLabels /\ Unwind(p) \in RunnerLabels
                               /\ Return(p) = IF cleaning[p] = NoKey THEN "loop" ELSE "submit"
                               /\ Unwind(p) = IF cleaning[p] = NoKey THEN "loop" ELSE "panicked"
    BY Kinds, Zenon DEF Return, Unwind, InTask, CallerLabels, RunnerLabels

\* Taking the client of a runner, or starting the runner.
LEMMA TakeEffect ==
    ASSUME PcOK, LockInv, NEW p \in Callers \cup Runners, TakeRunner(p)
    PROVE  LET r == RunnerOf[want[p]]
           IN  /\ pc[p] = "runner" /\ p \in Procs /\ want[p] \in Keys /\ r \in Runners
               /\ r \notin runners => pc[r] = "absent" /\ r # p
               /\ runners' = runners \cup {r} /\ pc' \in [Procs -> Labels]
               /\ pc'[p] = "send" /\ pc'[r] # "absent"
               /\ r \notin runners => pc'[r] = "loop"
               /\ \A q \in Procs \ {p} : q # r \/ r \in runners => pc'[q] = pc[q]
<1>. DEFINE r == RunnerOf[want[p]]
            f == [pc EXCEPT ![p] = "send"]
<1>1. /\ pc[p] = "runner" /\ runners' = runners \cup {r}
      /\ pc' = IF r \in runners THEN f ELSE [f EXCEPT ![r] = "loop"]
    BY Zenon DEF TakeRunner
<1>2. p \in Procs /\ LockAt(p)
    BY Kinds, Zenon DEF LockInv
<1>3. want[p] \in Keys
    BY <1>1, <1>2, Zenon DEF LockAt, Inside
<1>4. r \in Runners /\ r \in Procs
    BY <1>3, Kinds, Zenon
<1>5. LockAt(r)
    BY <1>4, Zenon DEF LockInv
<1>6. /\ r \notin runners => pc[r] = "absent" /\ r # p
      /\ r \in runners => pc[r] # "absent"
    BY <1>1, <1>4, <1>5, Zenon DEF LockAt
<1>7. /\ pc \in [Procs -> Labels] /\ f \in [Procs -> Labels] /\ "loop" \in Labels
      /\ f[p] = "send" /\ \A q \in Procs \ {p} : f[q] = pc[q]
    BY <1>2, Zenon DEF PcOK, Labels
<1>. HIDE DEF f, r
<1>8. CASE r \in runners
    BY <1>1, <1>2, <1>3, <1>4, <1>6, <1>7, <1>8, Zenon DEF r
<1>9. CASE r \notin runners
    <2>1. /\ pc' = [f EXCEPT ![r] = "loop"] /\ pc'[r] = "loop" /\ pc' \in [Procs -> Labels]
          /\ \A q \in Procs \ {r} : pc'[q] = f[q]
        BY <1>1, <1>4, <1>7, <1>9, Zenon
    <2>. QED
        BY <1>1, <1>2, <1>3, <1>4, <1>6, <1>7, <1>9, <2>1, Zenon DEF r
<1>. QED
    BY <1>8, <1>9, Zenon

LEMMA PcStep == TypesInv /\ LockInv /\ [Next]_vars => PcOK'
<1>. SUFFICES ASSUME PcOK, DataOK, LockInv, [Next]_vars PROVE PcOK'
    BY Zenon DEF TypesInv
<1>a. Callers \subseteq Procs /\ Exiters \subseteq Procs /\ Runners \subseteq Procs
    BY Kinds, Zenon
<1>b. \A p \in Callers \cup Runners : p \in Procs \ Exiters
    BY Kinds, Zenon
<1>. USE <1>a, <1>b, LabelMove, Kinds DEF Goto
<1>1. ASSUME NEW p \in Callers, NEW k \in Keys, NEW g \in BOOLEAN, Call(p, k, g) PROVE PcOK'
    BY <1>1, Zenon DEF Call, PcOK, CallerLabels, ExiterLabels, RunnerLabels, Inside
<1>2. ASSUME NEW p \in Callers, NEW k \in Keys, NEW x \in Work, Submit(p, k, x) PROVE PcOK'
    BY <1>2, Zenon DEF Submit, PcOK, CallerLabels, ExiterLabels, RunnerLabels, Inside
<1>3. ASSUME NEW p \in Callers \cup Runners, Lookup(p) PROVE PcOK'
    BY <1>3, Returns, Zenon DEF Lookup, PcOK, CallerLabels, ExiterLabels, RunnerLabels, Inside
<1>4. ASSUME NEW p \in Callers \cup Runners, LookupMiss(p) PROVE PcOK'
    BY <1>4, Zenon DEF LookupMiss, PcOK, CallerLabels, ExiterLabels, RunnerLabels, Inside
<1>5. ASSUME NEW p \in Callers \cup Runners, TakeRunner(p) PROVE PcOK'
  <2>1. /\ pc' \in [Procs -> Labels]
        /\ \A q \in Procs : \/ pc'[q] = pc[q]
                            \/ q = p /\ pc'[q] = "send"
                            \/ q \in Runners /\ pc'[q] = "loop"
    <3>. DEFINE d == RunnerOf[want[p]]
    <3>1. /\ pc' \in [Procs -> Labels] /\ pc'[p] = "send" /\ d \in Runners
          /\ d \notin runners => pc'[d] = "loop"
          /\ \A q \in Procs \ {p} : q # d \/ d \in runners => pc'[q] = pc[q]
        BY <1>5, TakeEffect, Zenon
    <3>. HIDE DEF d
    <3>. QED
        BY <3>1, Zenon
  <2>. QED
    BY <2>1, Zenon DEF PcOK, CallerLabels, RunnerLabels, Inside
<1>6. ASSUME NEW p \in Callers \cup Runners, SendInit(p) PROVE PcOK'
    BY <1>6, Zenon DEF SendInit, PcOK, CallerLabels, ExiterLabels, RunnerLabels, Inside
<1>7. ASSUME NEW p \in Callers \cup Runners, SendInitClosed(p) PROVE PcOK'
    BY <1>7, Returns, Zenon
    DEF SendInitClosed, PcOK, CallerLabels, ExiterLabels, RunnerLabels, Inside
<1>8. ASSUME NEW p \in Callers \cup Runners, Finish(p) PROVE PcOK'
    BY <1>8, Returns, Zenon DEF Finish, PcOK, CallerLabels, ExiterLabels, RunnerLabels, Inside
<1>9. ASSUME NEW r \in Runners, InitDirect(r) PROVE PcOK'
  <2>1. r \in Procs /\ (pc' = [pc EXCEPT ![r] = "loop"] \/ pc' = [pc EXCEPT ![r] = "await"])
    BY <1>9, Zenon DEF InitDirect
  <2>2. /\ "await" \in RunnerLabels /\ "loop" \in RunnerLabels
        /\ r \notin Callers /\ r \notin Exiters
    BY Kinds, Zenon DEF RunnerLabels, Inside
  <2>3. CASE pc' = [pc EXCEPT ![r] = "loop"]
    BY <2>1, <2>2, <2>3, LabelMove, Zenon
  <2>4. CASE pc' = [pc EXCEPT ![r] = "await"]
    BY <2>1, <2>2, <2>4, LabelMove, Zenon
  <2>. QED
    BY <2>1, <2>3, <2>4, Zenon
<1>10. ASSUME NEW r \in Runners, RunInit(r) PROVE PcOK'
    BY <1>10, Zenon DEF RunInit, PcOK, CallerLabels, ExiterLabels, RunnerLabels, Inside
<1>11. ASSUME NEW r \in Runners, RunWork(r) PROVE PcOK'
    BY <1>11, Zenon DEF RunWork, PcOK, CallerLabels, ExiterLabels, RunnerLabels, Inside
<1>12. ASSUME NEW r \in Runners, LeaveLoop(r) PROVE PcOK'
    BY <1>12, Zenon DEF LeaveLoop, PcOK, CallerLabels, ExiterLabels, RunnerLabels, Inside
<1>13. ASSUME NEW r \in Runners, NEW k \in Keys, Cleanup(r, k) PROVE PcOK'
    BY <1>13, Zenon DEF Cleanup, PcOK, CallerLabels, ExiterLabels, RunnerLabels, Inside
<1>14. ASSUME NEW r \in Runners, CleanupSubmit(r) PROVE PcOK'
    BY <1>14, Zenon DEF CleanupSubmit, PcOK, CallerLabels, ExiterLabels, RunnerLabels, Inside
<1>15. ASSUME NEW r \in Runners, TakeStates(r) PROVE PcOK'
    BY <1>15, Zenon DEF TakeStates, PcOK, CallerLabels, ExiterLabels, RunnerLabels, Inside
<1>16. ASSUME NEW r \in Runners, EndRunner(r) PROVE PcOK'
    BY <1>16, Zenon DEF EndRunner, PcOK, CallerLabels, ExiterLabels, RunnerLabels, Inside
<1>17. ASSUME NEW e \in Exiters, BeginExit(e) PROVE PcOK'
    BY <1>17, Zenon DEF BeginExit, PcOK, CallerLabels, ExiterLabels, RunnerLabels, Inside
<1>18. ASSUME NEW e \in Exiters, Collect(e) PROVE PcOK'
    BY <1>18, Zenon DEF Collect, PcOK, CallerLabels, ExiterLabels, RunnerLabels, Inside
<1>19. ASSUME NEW e \in Exiters, NEW r \in Runners, Close(e, r) PROVE PcOK'
    BY <1>19, Zenon DEF Close, PcOK, CallerLabels, ExiterLabels, RunnerLabels, Inside
<1>20. ASSUME NEW e \in Exiters, NEW r \in Runners, CloseAgain(e, r) PROVE PcOK'
    BY <1>20, Zenon DEF CloseAgain, PcOK, CallerLabels, ExiterLabels, RunnerLabels, Inside
<1>21. ASSUME NEW e \in Exiters, RoundOver(e) PROVE PcOK'
    BY <1>21, Zenon DEF RoundOver, PcOK, CallerLabels, ExiterLabels, RunnerLabels, Inside
<1>22. ASSUME NEW e \in Exiters, Stop(e) PROVE PcOK'
    BY <1>22, Zenon DEF Stop, PcOK, CallerLabels, ExiterLabels, RunnerLabels, Inside
<1>23. ASSUME NEW e \in Exiters, Join(e) PROVE PcOK'
    BY <1>23, Zenon DEF Join, PcOK, CallerLabels, ExiterLabels, RunnerLabels, Inside
<1>24. CASE UNCHANGED vars
    BY <1>24, Zenon DEF vars, PcOK
<1>. QED
    BY <1>1, <1>2, <1>3, <1>4, <1>5, <1>6, <1>7, <1>8, <1>9, <1>10, <1>11, <1>12, <1>13,
       <1>14, <1>15, <1>16, <1>17, <1>18, <1>19, <1>20, <1>21, <1>22, <1>23, <1>24, Zenon
    DEF Next, CallStep, InitStep, RunnerStep, ExitStep

\* Tasks in a queue.
LEMMA TaskKinds ==
    /\ PlainWork \in Tasks /\ Work \subseteq Tasks /\ \A p \in Procs : InitTask(p) \in Tasks
    /\ PlainWork.what = "work" /\ \A x \in Work : x.what = "work"
    /\ \A p \in Procs : InitTask(p).what = "init" /\ InitTask(p).from = p
    /\ \A x \in Tasks : x.what = "init" => x.from \in Procs
    /\ \A x \in Tasks : x.what = "work" => /\ x.nested \in NestedKeys \cup {NoKey}
                                           /\ x.borrows \in BOOLEAN
<1>1. /\ \A p \in Procs : InitTask(p).what = "init" /\ InitTask(p).from = p
      /\ PlainWork.what = "work" /\ PlainWork.nested = NoKey /\ PlainWork.borrows = TRUE
    BY Zenon DEF InitTask, PlainWork
<1>2. ASSUME NEW x \in Work PROVE /\ x.what = "work" /\ x.nested \in NestedKeys \cup {NoKey}
                                  /\ x.borrows \in BOOLEAN
    BY <1>1, Zenon DEF Work
<1>. QED
    BY <1>1, <1>2 DEF Tasks, Work

LEMMA QueueAppended ==
    ASSUME queue \in [Runners -> Seq(Tasks)], NEW r \in Runners, NEW x \in Tasks,
           queue' = [queue EXCEPT ![r] = Append(@, x)]
    PROVE  /\ queue' \in [Runners -> Seq(Tasks)] /\ queue'[r] = Append(queue[r], x)
           /\ \A s \in Runners \ {r} : queue'[s] = queue[s]
<1>1. queue[r] \in Seq(Tasks)
    BY Zenon
<1>2. Append(queue[r], x) \in Seq(Tasks)
    BY <1>1
<1>. QED
    BY <1>2, Zenon

LEMMA QueueTaken ==
    ASSUME queue \in [Runners -> Seq(Tasks)], NEW r \in Runners, queue[r] # <<>>,
           queue' = [queue EXCEPT ![r] = Tail(@)]
    PROVE  /\ queue' \in [Runners -> Seq(Tasks)] /\ queue'[r] = Tail(queue[r])
           /\ \A s \in Runners \ {r} : queue'[s] = queue[s]
           /\ Head(queue[r]) \in Tasks /\ 1 \in DOMAIN queue[r] /\ Head(queue[r]) = queue[r][1]
<1>1. queue[r] \in Seq(Tasks)
    BY Zenon
<1>2. /\ Tail(queue[r]) \in Seq(Tasks) /\ Head(queue[r]) \in Tasks /\ 1 \in DOMAIN queue[r]
      /\ Head(queue[r]) = queue[r][1]
    BY <1>1
<1>. QED
    BY <1>2, Zenon

\* The initialize_service that a runner takes was sent by the thread inside init.
LEMMA HeadInit ==
    ASSUME DataOK, LockInv, QueueInv, NEW r \in Runners, RunInit(r)
    PROVE  LET p == Head(queue[r]).from
           IN  /\ p \in Procs /\ pc[p] = "await" /\ reply[p] = "none" /\ want[p] \in Keys
               /\ want[p] \notin channels /\ RunnerOf[want[p]] = r /\ lock = p
               /\ Initialize(r, p) /\ queue' = [queue EXCEPT ![r] = Tail(@)]
<1>1. /\ queue[r] # <<>> /\ Head(queue[r]).what = "init" /\ Initialize(r, Head(queue[r]).from)
      /\ queue' = [queue EXCEPT ![r] = Tail(@)]
    BY Zenon DEF RunInit
<1>2. Head(queue[r]) \in Tasks /\ 1 \in DOMAIN queue[r] /\ Head(queue[r]) = queue[r][1]
    BY <1>1, QueueTaken, Zenon DEF DataOK
<1>3. InitTaskOK(r, 1)
    BY <1>2, Zenon DEF QueueInv
<1>. DEFINE p == Head(queue[r]).from
<1>4. p \in Procs /\ pc[p] = "await" /\ reply[p] = "none" /\ RunnerOf[want[p]] = r
    BY <1>1, <1>2, <1>3, TaskKinds, Zenon DEF InitTaskOK
<1>. HIDE DEF p
<1>5. LockAt(p)
    BY <1>4, Zenon DEF LockInv
<1>6. want[p] \in Keys /\ want[p] \notin channels /\ lock = p
    BY <1>4, <1>5, Zenon DEF LockAt, Inside
<1>. QED
    BY <1>1, <1>4, <1>6, Zenon DEF p

LEMMA InitializeTypes ==
    ASSUME DataOK, NEW r \in Runners, NEW p \in Procs, want[p] \in Keys, Initialize(r, p)
    PROVE  /\ states' \in [Runners -> SUBSET Keys] /\ inits' \in [Keys -> Nat]
           /\ reply' \in [Procs -> {"none", "ok", "err", "disconnected"}]
<1>1. /\ states \in [Runners -> SUBSET Keys] /\ inits \in [Keys -> Nat]
      /\ reply \in [Procs -> {"none", "ok", "err", "disconnected"}]
    BY Zenon DEF DataOK
<1>2. inits[want[p]] + 1 \in Nat
    BY <1>1
<1>3. \/ states' = states
      \/ states' = [states EXCEPT ![r] = @ \cup {want[p]}]
    BY Zenon DEF Initialize
<1>4. \/ inits' = inits
      \/ inits' = [inits EXCEPT ![want[p]] = @ + 1]
    BY Zenon DEF Initialize
<1>5. \E a \in {"ok", "err", "disconnected"} : reply' = [reply EXCEPT ![p] = a]
    BY Zenon DEF Initialize
<1>6. states' \in [Runners -> SUBSET Keys]
    BY <1>1, <1>3, ZenonT(40)
<1>7. inits' \in [Keys -> Nat]
    BY <1>1, <1>2, <1>4, Zenon
<1>8. reply' \in [Procs -> {"none", "ok", "err", "disconnected"}]
    BY <1>1, <1>5, Zenon
<1>. QED
    BY <1>6, <1>7, <1>8, Zenon

LEMMA DataStep == TypesInv /\ LockInv /\ QueueInv /\ [Next]_vars => DataOK'
<1>. SUFFICES ASSUME PcOK, DataOK, LockInv, QueueInv, [Next]_vars PROVE DataOK'
    BY Zenon DEF TypesInv
<1>a. Callers \subseteq Procs /\ Exiters \subseteq Procs /\ Runners \subseteq Procs
    BY Kinds, Zenon
<1>b. ASSUME NEW p \in Callers, calls[p] < MaxCalls PROVE calls[p] + 1 \in 0 .. MaxCalls
    BY <1>b, RegistryAssumption DEF DataOK
<1>c. queue \in [Runners -> Seq(Tasks)]
    BY Zenon DEF DataOK
<1>d. ASSUME NEW p \in Procs, pc[p] \in Inside
      PROVE  want[p] \in Keys /\ RunnerOf[want[p]] \in Runners
    BY <1>d, Kinds, Zenon DEF LockInv, LockAt
<1>. USE <1>a, Kinds DEF registry, chan, exit
<1>1. ASSUME NEW p \in Callers, NEW k \in Keys, NEW g \in BOOLEAN, Call(p, k, g) PROVE DataOK'
    BY <1>1, <1>b, Zenon DEF Call, DataOK
<1>2. ASSUME NEW p \in Callers, NEW k \in Keys, NEW x \in Work, Submit(p, k, x) PROVE DataOK'
  <2>1. calls[p] + 1 \in 0 .. MaxCalls /\ x \in Tasks /\ RunnerOf[k] \in Runners
    BY <1>2, <1>b, TaskKinds, Zenon DEF Submit
  <2>2. queue' \in [Runners -> Seq(Tasks)]
    BY <1>2, <1>c, <2>1, QueueAppended, Zenon DEF Submit
  <2>. QED
    BY <1>2, <2>1, <2>2, Zenon DEF Submit, DataOK
<1>3. ASSUME NEW p \in Callers \cup Runners, Lookup(p) PROVE DataOK'
    BY <1>3, Zenon DEF Lookup, DataOK, TaskOver
<1>4. ASSUME NEW p \in Callers \cup Runners, LookupMiss(p) PROVE DataOK'
    BY <1>4, Zenon DEF LookupMiss, DataOK
<1>5. ASSUME NEW p \in Callers \cup Runners, TakeRunner(p) PROVE DataOK'
  <2>1. PICK r \in Runners : runners' = runners \cup {r}
    BY <1>5, TakeEffect, Zenon
  <2>2. RunnerOf[want[p]] \in Runners
    BY <1>5, TakeEffect, Zenon
  <2>3. seen' \in [Exiters -> SUBSET Runners]
    <3>1. \A e \in Exiters : seen[e] \cup {RunnerOf[want[p]]} \in SUBSET Runners
                             /\ seen[e] \in SUBSET Runners
        BY <2>2, Zenon DEF DataOK
    <3>2. seen' = [e \in Exiters |-> IF p \in seen[e] \cap Upstream
                                     THEN seen[e] \cup {RunnerOf[want[p]]} ELSE seen[e]]
        BY <1>5, Zenon DEF TakeRunner
    <3>. QED
        BY <3>1, <3>2, Zenon
  <2>. QED
    BY <1>5, <2>1, <2>3, Zenon DEF TakeRunner, DataOK
<1>6. ASSUME NEW p \in Callers \cup Runners, SendInit(p) PROVE DataOK'
  <2>1. RunnerOf[want[p]] \in Runners /\ InitTask(p) \in Tasks
    BY <1>6, <1>d, TaskKinds, Zenon DEF SendInit, Inside
  <2>2. queue' \in [Runners -> Seq(Tasks)]
    BY <1>6, <1>c, <2>1, QueueAppended, Zenon DEF SendInit
  <2>. QED
    BY <1>6, <2>2, Zenon DEF SendInit, DataOK
<1>7. ASSUME NEW p \in Callers \cup Runners, SendInitClosed(p) PROVE DataOK'
    BY <1>7, Zenon DEF SendInitClosed, DataOK, TaskOver
<1>8. ASSUME NEW p \in Callers \cup Runners, Finish(p) PROVE DataOK'
  <2>1. want[p] \in Keys
    BY <1>8, <1>d, Zenon DEF Finish, Inside
  <2>. QED
    BY <1>8, <2>1, Zenon DEF Finish, TaskOver, DataOK
<1>9. ASSUME NEW r \in Runners, InitDirect(r) PROVE DataOK'
  <2>1. want[r] \in Keys
    BY <1>9, <1>d, Zenon DEF InitDirect, Inside
  <2>2. CASE borrowed[r]
    BY <1>9, <2>2, ZenonT(40) DEF InitDirect, DataOK
  <2>3. CASE ~borrowed[r]
    <3>1. Initialize(r, r)
        BY <1>9, <2>3, Zenon DEF InitDirect
    <3>2. /\ states' \in [Runners -> SUBSET Keys] /\ inits' \in [Keys -> Nat]
          /\ reply' \in [Procs -> {"none", "ok", "err", "disconnected"}]
        BY <2>1, <3>1, InitializeTypes, Zenon
    <3>. QED
        BY <1>9, <2>3, <3>2, Zenon DEF InitDirect, DataOK
  <2>. QED
    BY <2>2, <2>3, Zenon
<1>10. ASSUME NEW r \in Runners, RunInit(r) PROVE DataOK'
  <2>1. /\ states' \in [Runners -> SUBSET Keys] /\ inits' \in [Keys -> Nat]
        /\ reply' \in [Procs -> {"none", "ok", "err", "disconnected"}]
    BY <1>10, HeadInit, InitializeTypes, Zenon
  <2>2. queue' \in [Runners -> Seq(Tasks)]
    BY <1>10, <1>c, QueueTaken, Zenon DEF RunInit
  <2>. QED
    BY <1>10, <2>1, <2>2, Zenon DEF RunInit, DataOK
<1>11. ASSUME NEW r \in Runners, RunWork(r) PROVE DataOK'
  <2>. DEFINE x == Head(queue[r])
  <2>1. queue' \in [Runners -> Seq(Tasks)] /\ x \in Tasks
    BY <1>11, <1>c, QueueTaken, Zenon DEF RunWork
  <2>2. x.nested \in Keys \cup {NoKey} /\ x.borrows \in BOOLEAN
    BY <1>11, <2>1, TaskKinds, RegistryAssumption, Zenon DEF RunWork
  <2>3. CASE x.nested = NoKey
    BY <1>11, <2>1, <2>3, Zenon DEF RunWork, DataOK
  <2>4. CASE x.nested # NoKey
    <3>1. /\ borrowed' = [borrowed EXCEPT ![r] = x.borrows]
          /\ want' = [want EXCEPT ![r] = x.nested]
          /\ given' = [given EXCEPT ![r] = FALSE]
        BY <1>11, <2>4, Zenon DEF RunWork
    <3>. HIDE DEF x
    <3>2. /\ borrowed' \in [Runners -> BOOLEAN] /\ given' \in [Procs -> BOOLEAN]
          /\ want' \in [Procs -> Keys \cup {NoKey}]
        BY <2>2, <3>1, Zenon DEF DataOK
    <3>. QED
        BY <1>11, <2>1, <3>2, Zenon DEF RunWork, DataOK
  <2>. QED
    BY <2>3, <2>4, Zenon
<1>12. ASSUME NEW r \in Runners, LeaveLoop(r) PROVE DataOK'
    BY <1>12, Zenon DEF LeaveLoop, DataOK
<1>13. ASSUME NEW r \in Runners, NEW k \in Keys, Cleanup(r, k) PROVE DataOK'
  <2>1. Downstream[k] \in Keys \cup {NoKey}
    BY RegistryAssumption, Zenon
  <2>2. CASE Downstream[k] = NoKey
    BY <1>13, <2>2, Zenon DEF Cleanup, DataOK
  <2>3. CASE Downstream[k] # NoKey
    <3>1. /\ want' = [want EXCEPT ![r] = Downstream[k]] /\ given' = [given EXCEPT ![r] = FALSE]
          /\ cleaning' = [cleaning EXCEPT ![r] = k]
        BY <1>13, <2>3, Zenon DEF Cleanup
    <3>2. /\ want' \in [Procs -> Keys \cup {NoKey}] /\ given' \in [Procs -> BOOLEAN]
          /\ cleaning' \in [Runners -> Keys \cup {NoKey}]
        BY <2>1, <3>1, Zenon DEF DataOK
    <3>. QED
        BY <1>13, <3>2, Zenon DEF Cleanup, DataOK
  <2>. QED
    BY <2>2, <2>3, Zenon
<1>14. ASSUME NEW r \in Runners, CleanupSubmit(r) PROVE DataOK'
  <2>1. RunnerOf[want[r]] \in Runners
    BY <1>14, Zenon DEF CleanupSubmit, LockInv, LockAt
  <2>2. queue' \in [Runners -> Seq(Tasks)]
    <3>1. PlainWork \in Tasks
        BY TaskKinds, Zenon
    <3>2. CASE closed[RunnerOf[want[r]]]
        BY <1>14, <1>c, <3>2, Zenon DEF CleanupSubmit
    <3>3. CASE ~closed[RunnerOf[want[r]]]
        BY <1>14, <1>c, <2>1, <3>1, <3>3, QueueAppended, Zenon DEF CleanupSubmit
    <3>. QED
        BY <3>2, <3>3, Zenon
  <2>. QED
    BY <1>14, <2>2, ZenonT(40) DEF CleanupSubmit, DataOK
<1>15. ASSUME NEW r \in Runners, TakeStates(r) PROVE DataOK'
    BY <1>15, Zenon DEF TakeStates, DataOK
<1>16. ASSUME NEW r \in Runners, EndRunner(r) PROVE DataOK'
    BY <1>16, Zenon DEF EndRunner, DataOK
<1>17. ASSUME NEW e \in Exiters, BeginExit(e) PROVE DataOK'
    BY <1>17, Zenon DEF BeginExit, DataOK
<1>18. ASSUME NEW e \in Exiters, Collect(e) PROVE DataOK'
  <2>1. Remaining(e) \in SUBSET Runners
    BY Zenon DEF Remaining, DataOK
  <2>2. /\ clients' \in [Exiters -> SUBSET Runners]
        /\ stage' \in [Exiters -> {"Upstream", "Downstream"}]
    BY <1>18, <2>1, Zenon DEF Collect, DataOK
  <2>. QED
    BY <1>18, <2>2, Zenon DEF Collect, DataOK
<1>19. ASSUME NEW e \in Exiters, NEW r \in Runners, Close(e, r) PROVE DataOK'
    BY <1>19, Zenon DEF Close, DataOK
<1>20. ASSUME NEW e \in Exiters, NEW r \in Runners, CloseAgain(e, r) PROVE DataOK'
    BY <1>20, Zenon DEF CloseAgain, DataOK
<1>21. ASSUME NEW e \in Exiters, RoundOver(e) PROVE DataOK'
    BY <1>21, Zenon DEF RoundOver, DataOK
<1>22. ASSUME NEW e \in Exiters, Stop(e) PROVE DataOK'
    BY <1>22, Zenon DEF Stop, DataOK
<1>23. ASSUME NEW e \in Exiters, Join(e) PROVE DataOK'
    BY <1>23, Zenon DEF Join, DataOK
<1>24. CASE UNCHANGED vars
    BY <1>24, Zenon DEF vars, DataOK
<1>. QED
    BY <1>1, <1>2, <1>3, <1>4, <1>5, <1>6, <1>7, <1>8, <1>9, <1>10, <1>11, <1>12, <1>13,
       <1>14, <1>15, <1>16, <1>17, <1>18, <1>19, <1>20, <1>21, <1>22, <1>23, <1>24, Zenon
    DEF Next, CallStep, InitStep, RunnerStep, ExitStep

----------------------------------------------------------------------------
(* The lock of CHANNELS *)

\* A step of thread p concerns its own part of LockInv.
LEMMA LockOthers ==
    ASSUME LockInv, NEW p \in Procs, LockAt(p)', lock' \in {lock, p, NoProc},
           \A q \in Procs \ {p} : pc'[q] = pc[q] /\ want'[q] = want[q] /\ reply'[q] = reply[q],
           lock' # lock => lock \in {p, NoProc},
           channels' = channels \/ lock = p, runners' = runners
    PROVE  LockInv'
<1>1. lock' \in Procs \cup {NoProc}
    BY Zenon DEF LockInv
<1>2. ASSUME NEW q \in Procs \ {p} PROVE LockAt(q)'
    <2>1. LockAt(q) /\ pc'[q] = pc[q] /\ want'[q] = want[q] /\ reply'[q] = reply[q]
        BY Zenon DEF LockInv
    <2>2. lock' = q <=> lock = q
        <3>1. q # p /\ q # NoProc
            BY Kinds, Zenon
        <3>2. CASE lock' = lock
            BY <3>2, Zenon
        <3>3. CASE lock' # lock
            <4>1. lock \in {p, NoProc} /\ lock' \in {p, NoProc}
                BY <3>3, Zenon
            <4>. HIDE <3>3
            <4>. QED
                BY <3>1, <4>1, Zenon
        <3>. QED
            BY <3>2, <3>3, Zenon
    <2>3. pc[q] \in Inside => channels' = channels
        BY <2>1, Zenon DEF LockAt
    <2>. QED
        BY <2>1, <2>2, <2>3, Zenon DEF LockAt
<1>. QED
    BY <1>1, <1>2, Zenon DEF LockInv

LEMMA LockKept ==
    ASSUME NEW p \in Procs, LockAt(p), pc'[p] = pc[p], UNCHANGED <<lock, channels, want, reply>>,
           runners \subseteq runners', p \in Runners => (p \in runners' <=> p \in runners)
    PROVE  LockAt(p)'
    BY DEF LockAt

\* The threads that run shutdown_runners have no part in init.
LEMMA LockExiter ==
    ASSUME PcOK, PcOK', LockInv, NEW e \in Exiters,
           \A q \in Procs \ {e} : pc'[q] = pc[q],
           UNCHANGED <<lock, channels, runners, want, reply>>
    PROVE  LockInv'
<1>1. e \in Procs /\ e \notin Runners /\ LockAt(e)
    BY Kinds, Zenon DEF LockInv
<1>2. pc[e] \in ExiterLabels /\ pc'[e] \in ExiterLabels
    BY Zenon DEF PcOK
<1>3. LockAt(e)'
    BY <1>1, <1>2, Zenon DEF LockAt, ExiterLabels, Inside
<1>. QED
    BY <1>1, <1>3, LockOthers, Zenon

\* What initialize_service sends is for one thread.
LEMMA InitializeReplies ==
    ASSUME DataOK, NEW r \in Runners, NEW p \in Procs, Initialize(r, p)
    PROVE  reply'[p] # "none" /\ \A q \in Procs \ {p} : reply'[q] = reply[q]
<1>1. \E a \in {"ok", "err", "disconnected"} : reply' = [reply EXCEPT ![p] = a]
    BY Zenon DEF Initialize
<1>. QED
    BY <1>1, Zenon DEF DataOK

LEMMA LockStep == TypesInv /\ LockInv /\ QueueInv /\ [Next]_vars => LockInv'
<1>. SUFFICES ASSUME PcOK, DataOK, LockInv, QueueInv, [Next]_vars PROVE LockInv'
    BY Zenon DEF TypesInv
<1>a. PcOK'
    BY PcStep, Zenon DEF TypesInv
<1>b. Callers \subseteq Procs /\ Exiters \subseteq Procs /\ Runners \subseteq Procs
    BY Kinds, Zenon
<1>c. \A p \in Procs : LockAt(p)
    BY Zenon DEF LockInv
<1>d. \A p \in Callers \cup Runners : p \in Procs \ Exiters
    BY Kinds, Zenon
<1>. USE <1>b, <1>d DEF registry, chan, exit, Goto
<1>1. ASSUME NEW p \in Callers, NEW k \in Keys, NEW g \in BOOLEAN, Call(p, k, g) PROVE LockInv'
  <2>1. /\ pc[p] = "idle" /\ pc'[p] = "lock" /\ want'[p] = k
        /\ UNCHANGED <<lock, channels, runners, reply>>
        /\ \A q \in Procs \ {p} : pc'[q] = pc[q] /\ want'[q] = want[q]
    BY <1>1, Zenon DEF Call, PcOK, DataOK
  <2>2. LockAt(p)'
    BY <1>c, <2>1, Kinds, Zenon DEF LockAt, Inside
  <2>. QED
    BY <2>1, <2>2, LockOthers, Zenon
<1>2. ASSUME NEW p \in Callers, NEW k \in Keys, NEW x \in Work, Submit(p, k, x) PROVE LockInv'
  <2>1. /\ pc[p] = "idle" /\ pc'[p] \in {"idle", "panicked"}
        /\ UNCHANGED <<lock, channels, runners, want, reply>>
        /\ \A q \in Procs \ {p} : pc'[q] = pc[q]
    BY <1>2, Zenon DEF Submit, PcOK
  <2>2. LockAt(p)'
    BY <1>c, <2>1, Kinds, Zenon DEF LockAt, Inside
  <2>. QED
    BY <2>1, <2>2, LockOthers, Zenon
<1>3. ASSUME NEW p \in Callers \cup Runners, Lookup(p) PROVE LockInv'
  <2>1. /\ pc[p] = "lock" /\ pc'[p] = Return(p)
        /\ UNCHANGED <<lock, channels, runners, want, reply>>
        /\ \A q \in Procs \ {p} : pc'[q] = pc[q]
    BY <1>3, Zenon DEF Lookup, PcOK
  <2>2. LockAt(p)'
    BY <1>c, <2>1, Kinds, Returns, Zenon DEF LockAt, Inside
  <2>. QED
    BY <2>1, <2>2, LockOthers, Zenon
<1>4. ASSUME NEW p \in Callers \cup Runners, LookupMiss(p) PROVE LockInv'
  <2>1. /\ pc[p] = "lock" /\ pc'[p] = "runner" /\ lock = NoProc
        /\ lock' = p /\ want[p] \notin channels
        /\ UNCHANGED <<channels, runners, want, reply>>
        /\ \A q \in Procs \ {p} : pc'[q] = pc[q]
    BY <1>4, Zenon DEF LookupMiss, PcOK
  <2>2. LockAt(p)'
    BY <1>c, <2>1, Kinds, Zenon DEF LockAt, Inside
  <2>. QED
    BY <2>1, <2>2, LockOthers, Zenon
<1>5. ASSUME NEW p \in Callers \cup Runners, TakeRunner(p) PROVE LockInv'
  <2>1. UNCHANGED <<lock, channels, want, reply>>
    BY <1>5, Zenon DEF TakeRunner
  <2>. DEFINE r == RunnerOf[want[p]]
  <2>2. /\ pc[p] = "runner" /\ want[p] \in Keys /\ r \in Runners
        /\ r \notin runners => pc[r] = "absent" /\ r # p
        /\ runners' = runners \cup {r}
        /\ pc'[p] = "send" /\ pc'[r] # "absent"
        /\ r \notin runners => pc'[r] = "loop"
        /\ \A q \in Procs \ {p} : q # r \/ r \in runners => pc'[q] = pc[q]
    BY <1>5, TakeEffect, Zenon
  <2>3. LockAt(p)'
    BY <1>c, <2>1, <2>2, Zenon DEF LockAt, Inside
  <2>. HIDE DEF r
  <2>4. ASSUME NEW q \in Procs \ {p}, q # r \/ r \in runners PROVE LockAt(q)'
    <3>1. LockAt(q) /\ pc'[q] = pc[q] /\ (q \in Runners => (q \in runners' <=> q \in runners))
        BY <1>c, <2>2, <2>4, Zenon
    <3>. QED
        BY <2>1, <2>2, <3>1, LockKept, Zenon
  <2>5. ASSUME NEW q \in Procs \ {p}, q = r, r \notin runners PROVE LockAt(q)'
    <3>1. LockAt(q) /\ q \in Runners /\ pc[q] = "absent" /\ pc'[q] = "loop" /\ q \in runners'
        BY <1>c, <2>2, <2>5, Zenon
    <3>. QED
        BY <2>1, <3>1, Zenon DEF LockAt, Inside
  <2>. QED
    BY <2>1, <2>3, <2>4, <2>5, Zenon DEF LockInv
<1>6. ASSUME NEW p \in Callers \cup Runners, SendInit(p) PROVE LockInv'
  <2>1. /\ pc[p] = "send" /\ pc'[p] = "await"
        /\ UNCHANGED <<lock, channels, runners, want, reply>>
        /\ \A q \in Procs \ {p} : pc'[q] = pc[q]
    BY <1>6, Zenon DEF SendInit, PcOK
  <2>2. LockAt(p)'
    BY <1>c, <2>1, Kinds, Zenon DEF LockAt, Inside
  <2>. QED
    BY <2>1, <2>2, LockOthers, Zenon
<1>7. ASSUME NEW p \in Callers \cup Runners, SendInitClosed(p) PROVE LockInv'
  <2>1. /\ pc[p] = "send" /\ pc'[p] = Unwind(p) /\ lock' = NoProc
        /\ UNCHANGED <<channels, runners, want, reply>>
        /\ \A q \in Procs \ {p} : pc'[q] = pc[q]
    BY <1>7, Zenon DEF SendInitClosed, PcOK
  <2>2. lock = p
    BY <1>c, <2>1, Zenon DEF LockAt, Inside
  <2>3. LockAt(p)'
    BY <1>c, <2>1, Kinds, Returns, Zenon DEF LockAt, Inside
  <2>. QED
    BY <2>1, <2>2, <2>3, LockOthers, Zenon
<1>8. ASSUME NEW p \in Callers \cup Runners, Finish(p) PROVE LockInv'
  <2>1. /\ pc[p] = "await" /\ pc'[p] \in {Unwind(p), Return(p)} /\ lock' = NoProc
        /\ UNCHANGED <<runners, want>> /\ reply'[p] = "none"
        /\ \A q \in Procs \ {p} : pc'[q] = pc[q] /\ reply'[q] = reply[q]
    BY <1>8, Zenon DEF Finish, PcOK, DataOK
  <2>2. lock = p
    BY <1>c, <2>1, Zenon DEF LockAt, Inside
  <2>3. pc'[p] \in {"idle", "loop", "submit", "panicked"}
    BY <2>1, Returns, Zenon
  <2>4. LockAt(p)'
    <3>1. want'[p] \in Keys /\ (p \in Runners => p \in runners')
        BY <1>c, <2>1, Zenon DEF LockAt, Inside
    <3>2. pc'[p] \notin Inside /\ pc'[p] \notin {"absent", "send", "await"} /\ lock' # p
        BY <2>1, <2>3, Kinds, Zenon DEF Inside
    <3>. QED
        BY <2>1, <3>1, <3>2, Zenon DEF LockAt
  <2>. QED
    BY <2>1, <2>2, <2>4, LockOthers, Zenon
<1>9. ASSUME NEW r \in Runners, InitDirect(r) PROVE LockInv'
  <2>1. /\ pc[r] = "send" /\ UNCHANGED <<channels, runners, want>>
        /\ \A q \in Procs \ {r} : pc'[q] = pc[q]
    BY <1>9, Zenon DEF InitDirect, PcOK
  <2>2. lock = r
    BY <1>c, <2>1, Zenon DEF LockAt, Inside
  <2>3. CASE borrowed[r]
    <3>1. pc'[r] = "loop" /\ lock' = NoProc /\ reply' = reply
        BY <1>9, <2>3, Zenon DEF InitDirect, PcOK
    <3>2. LockAt(r)'
        BY <1>c, <2>1, <3>1, Kinds, Zenon DEF LockAt, Inside
    <3>. QED
        BY <2>1, <2>2, <3>1, <3>2, LockOthers, Zenon
  <2>4. CASE ~borrowed[r]
    <3>1. pc'[r] = "await" /\ lock' = lock /\ Initialize(r, r)
        BY <1>9, <2>4, Zenon DEF InitDirect, PcOK
    <3>2. \A q \in Procs \ {r} : reply'[q] = reply[q]
        BY <3>1, InitializeReplies, Zenon
    <3>3. LockAt(r)'
        BY <1>c, <2>1, <3>1, Zenon DEF LockAt, Inside
    <3>. QED
        BY <2>1, <2>2, <3>1, <3>2, <3>3, LockOthers, Zenon
  <2>. QED
    BY <2>3, <2>4, Zenon
<1>10. ASSUME NEW r \in Runners, RunInit(r) PROVE LockInv'
  <2>1. PICK p \in Procs : pc[p] = "await" /\ Initialize(r, p)
    BY <1>10, HeadInit, Zenon
  <2>2. UNCHANGED <<lock, channels, runners, pc, want>>
    BY <1>10, Zenon DEF RunInit
  <2>3. \A q \in Procs \ {p} : reply'[q] = reply[q]
    BY <2>1, InitializeReplies, Zenon
  <2>4. LockAt(p)'
    BY <1>c, <2>1, <2>2, Zenon DEF LockAt
  <2>. QED
    BY <2>2, <2>3, <2>4, LockOthers, Zenon
<1>11. ASSUME NEW r \in Runners, RunWork(r) PROVE LockInv'
  <2>. DEFINE x == Head(queue[r])
  <2>1. pc[r] = "loop" /\ UNCHANGED <<lock, channels, runners, reply>>
    BY <1>11, Zenon DEF RunWork
  <2>2. CASE x.nested = NoKey
    <3>1. UNCHANGED <<pc, want>>
        BY <1>11, <2>2, Zenon DEF RunWork
    <3>2. LockAt(r)'
        BY <1>c, <2>1, <3>1, Zenon DEF LockAt
    <3>. QED
        BY <2>1, <3>1, <3>2, LockOthers, Zenon
  <2>3. CASE x.nested # NoKey
    <3>1. /\ pc'[r] = "lock" /\ want'[r] = x.nested
          /\ \A q \in Procs \ {r} : pc'[q] = pc[q] /\ want'[q] = want[q]
        <4>1. pc' = [pc EXCEPT ![r] = "lock"] /\ want' = [want EXCEPT ![r] = x.nested]
            BY <1>11, <2>3, Zenon DEF RunWork
        <4>. HIDE DEF x
        <4>. QED
            BY <4>1, ZenonT(40) DEF PcOK, DataOK
    <3>2. x.nested \in Keys
        <4>1. x \in Tasks /\ x.what = "work"
            BY <1>11, QueueTaken, Zenon DEF RunWork, DataOK
        <4>. QED
            BY <2>3, <4>1, TaskKinds, RegistryAssumption, Zenon
    <3>3. LockAt(r)'
        BY <1>c, <2>1, <3>1, <3>2, Kinds, Zenon DEF LockAt, Inside
    <3>. QED
        BY <2>1, <3>1, <3>3, LockOthers, Zenon
  <2>. QED
    BY <2>2, <2>3, Zenon
<1>12. ASSUME NEW r \in Runners, LeaveLoop(r) PROVE LockInv'
  <2>1. /\ pc[r] = "loop" /\ pc'[r] = "services"
        /\ UNCHANGED <<lock, channels, runners, want, reply>>
        /\ \A q \in Procs \ {r} : pc'[q] = pc[q]
    BY <1>12, Zenon DEF LeaveLoop, PcOK
  <2>2. LockAt(r)'
    BY <1>c, <2>1, Kinds, Zenon DEF LockAt, Inside
  <2>. QED
    BY <2>1, <2>2, LockOthers, Zenon
<1>13. ASSUME NEW r \in Runners, NEW k \in Keys, Cleanup(r, k) PROVE LockInv'
  <2>1. pc[r] = "services" /\ UNCHANGED <<lock, channels, runners, reply>>
    BY <1>13, Zenon DEF Cleanup
  <2>2. CASE Downstream[k] = NoKey
    <3>1. UNCHANGED <<pc, want>>
        BY <1>13, <2>2, Zenon DEF Cleanup
    <3>2. LockAt(r)'
        BY <1>c, <2>1, <3>1, Zenon DEF LockAt
    <3>. QED
        BY <2>1, <3>1, <3>2, LockOthers, Zenon
  <2>3. CASE Downstream[k] # NoKey
    <3>1. /\ pc'[r] = "lock" /\ want'[r] = Downstream[k]
          /\ \A q \in Procs \ {r} : pc'[q] = pc[q] /\ want'[q] = want[q]
        <4>1. pc' = [pc EXCEPT ![r] = "lock"] /\ want' = [want EXCEPT ![r] = Downstream[k]]
            BY <1>13, <2>3, Zenon DEF Cleanup
        <4>. QED
            BY <4>1, Zenon DEF PcOK, DataOK
    <3>2. Downstream[k] \in Keys
        BY <2>3, RegistryAssumption, Zenon
    <3>3. LockAt(r)'
        BY <1>c, <2>1, <3>1, <3>2, Kinds, Zenon DEF LockAt, Inside
    <3>. QED
        BY <2>1, <3>1, <3>3, LockOthers, Zenon
  <2>. QED
    BY <2>2, <2>3, Zenon
<1>14. ASSUME NEW r \in Runners, CleanupSubmit(r) PROVE LockInv'
  <2>1. /\ pc[r] = "submit" /\ pc'[r] \in {"services", "panicked"}
        /\ UNCHANGED <<lock, channels, runners, want, reply>>
        /\ \A q \in Procs \ {r} : pc'[q] = pc[q]
    BY <1>14, Zenon DEF CleanupSubmit, PcOK
  <2>2. LockAt(r)'
    BY <1>c, <2>1, Kinds, Zenon DEF LockAt, Inside
  <2>. QED
    BY <2>1, <2>2, LockOthers, Zenon
<1>15. ASSUME NEW r \in Runners, TakeStates(r) PROVE LockInv'
    BY <1>15, Zenon DEF TakeStates, LockInv, LockAt
<1>16. ASSUME NEW r \in Runners, EndRunner(r) PROVE LockInv'
  <2>1. /\ pc[r] = "services" /\ pc'[r] = "done"
        /\ UNCHANGED <<lock, channels, runners, want, reply>>
        /\ \A q \in Procs \ {r} : pc'[q] = pc[q]
    BY <1>16, Zenon DEF EndRunner, PcOK
  <2>2. LockAt(r)'
    BY <1>c, <2>1, Kinds, Zenon DEF LockAt, Inside
  <2>. QED
    BY <2>1, <2>2, LockOthers, Zenon
<1>17. ASSUME NEW e \in Exiters, BeginExit(e) PROVE LockInv'
    BY <1>17, <1>a, LockExiter, Zenon DEF BeginExit, PcOK
<1>18. ASSUME NEW e \in Exiters, Collect(e) PROVE LockInv'
    BY <1>18, <1>a, LockExiter, Zenon DEF Collect, PcOK
<1>19. ASSUME NEW e \in Exiters, NEW r \in Runners, Close(e, r) PROVE LockInv'
    BY <1>19, <1>a, LockExiter, Zenon DEF Close, PcOK
<1>20. ASSUME NEW e \in Exiters, NEW r \in Runners, CloseAgain(e, r) PROVE LockInv'
    BY <1>20, <1>a, LockExiter, Zenon DEF CloseAgain, PcOK
<1>21. ASSUME NEW e \in Exiters, RoundOver(e) PROVE LockInv'
    BY <1>21, <1>a, LockExiter, Zenon DEF RoundOver, PcOK
<1>22. ASSUME NEW e \in Exiters, Stop(e) PROVE LockInv'
    BY <1>22, <1>a, LockExiter, Zenon DEF Stop, PcOK
<1>23. ASSUME NEW e \in Exiters, Join(e) PROVE LockInv'
    BY <1>23, <1>a, LockExiter, Zenon DEF Join, PcOK
<1>24. CASE UNCHANGED vars
    BY <1>24, Zenon DEF vars, LockInv, LockAt
<1>. QED
    BY <1>1, <1>2, <1>3, <1>4, <1>5, <1>6, <1>7, <1>8, <1>9, <1>10, <1>11, <1>12, <1>13,
       <1>14, <1>15, <1>16, <1>17, <1>18, <1>19, <1>20, <1>21, <1>22, <1>23, <1>24, Zenon
    DEF Next, CallStep, InitStep, RunnerStep, ExitStep

----------------------------------------------------------------------------
(* Queues *)

\* The tasks that remain when a runner takes one.
LEMMA TailElement ==
    ASSUME NEW s \in Seq(Tasks), s # <<>>
    PROVE  \A i \in DOMAIN Tail(s) :
              i + 1 \in DOMAIN s /\ Tail(s)[i] = s[i + 1] /\ i + 1 # 1 /\ i \in Nat
    OBVIOUS

LEMMA TailElements ==
    ASSUME queue \in [Runners -> Seq(Tasks)], NEW r \in Runners, queue[r] # <<>>,
           queue' = [queue EXCEPT ![r] = Tail(@)]
    PROVE  \A i \in DOMAIN queue'[r] :
              i + 1 \in DOMAIN queue[r] /\ queue'[r][i] = queue[r][i + 1] /\ i + 1 # 1 /\ i \in Nat
<1>1. queue[r] \in Seq(Tasks) /\ queue'[r] = Tail(queue[r])
    BY Zenon
<1>2. \A i \in DOMAIN Tail(queue[r]) :
         i + 1 \in DOMAIN queue[r] /\ Tail(queue[r])[i] = queue[r][i + 1] /\ i + 1 # 1 /\ i \in Nat
    BY <1>1, TailElement, Zenon
<1>. QED
    BY <1>1, <1>2, Zenon

\* A thread that waits for the reply of initialize_service.
Wait(p) == pc[p] = "await" /\ reply[p] = "none"
Waits == \A p \in Procs : Wait(p) => Wait(p)' /\ want'[p] = want[p]

LEMMA InitTaskIs ==
    ASSUME DataOK, LockInv, NEW r \in Runners, NEW i \in DOMAIN queue[r], InitTaskOK(r, i),
           queue[r][i].what = "init"
    PROVE  LET p == queue[r][i].from
           IN  p \in Procs /\ Wait(p) /\ RunnerOf[want[p]] = r /\ lock = p
<1>1. queue[r][i] \in Tasks
    BY DEF DataOK
<1>. DEFINE p == queue[r][i].from
<1>2. p \in Procs
    BY <1>1, TaskKinds, Zenon
<1>3. Wait(p) /\ RunnerOf[want[p]] = r
    BY Zenon DEF InitTaskOK, Wait
<1>. HIDE DEF p
<1>4. lock = p
    BY <1>2, <1>3, Zenon DEF LockInv, LockAt, Wait, Inside
<1>. QED
    BY <1>2, <1>3, <1>4, Zenon DEF p

\* There is one initialize_service at most in all queues.
LEMMA InitTaskOnce ==
    ASSUME DataOK, LockInv, QueueInv, NEW r \in Runners, NEW i \in DOMAIN queue[r],
           NEW s \in Runners, NEW j \in DOMAIN queue[s],
           queue[r][i].what = "init", queue[s][j].what = "init"
    PROVE  r = s /\ i = j
<1>1. InitTaskOK(r, i) /\ InitTaskOK(s, j)
    BY Zenon DEF QueueInv
<1>2. RunnerOf[want[queue[r][i].from]] = r /\ lock = queue[r][i].from
    BY <1>1, InitTaskIs, Zenon
<1>3. RunnerOf[want[queue[s][j].from]] = s /\ lock = queue[s][j].from
    BY <1>1, InitTaskIs, Zenon
<1>4. r = s
    <2>1. RunnerOf[want[lock]] = r
        BY <1>2, Zenon
    <2>2. RunnerOf[want[lock]] = s
        BY <1>3, Zenon
    <2>. QED
        BY <2>1, <2>2, Zenon
<1>5. i = j
    <2>1. \A m \in DOMAIN queue[r] : queue[r][m].what = "init" => i = m
        BY <1>1, Zenon DEF InitTaskOK
    <2>. QED
        BY <2>1, <1>4, Zenon
<1>. QED
    BY <1>4, <1>5, Zenon

\* A thread that waits goes on waiting for its task, which may have moved up.
LEMMA InitTaskKept ==
    ASSUME DataOK, LockInv, QueueInv, Waits, NEW r \in Runners,
           NEW i \in DOMAIN queue'[r], NEW m \in DOMAIN queue[r],
           queue'[r][i] = queue[r][m], queue[r][m].what = "init",
           \A j \in DOMAIN queue'[r] : queue'[r][j].what = "init" => i = j
    PROVE  InitTaskOK(r, i)'
<1>1. InitTaskOK(r, m)
    BY Zenon DEF QueueInv
<1>. DEFINE p == queue[r][m].from
<1>2. p \in Procs /\ Wait(p) /\ RunnerOf[want[p]] = r
    BY <1>1, InitTaskIs, Zenon
<1>3. queue'[r][i].from = p
    BY Zenon
<1>. HIDE DEF p
<1>4. pc'[p] = "await" /\ reply'[p] = "none" /\ RunnerOf[want'[p]] = r
    BY <1>2, Zenon DEF Waits, Wait
<1>. QED
    BY <1>3, <1>4, Zenon DEF InitTaskOK

LEMMA QueueSplit ==
    ASSUME \A r \in Runners : \A i \in DOMAIN queue'[r] :
              queue'[r][i].what = "init" => InitTaskOK(r, i)'
    PROVE  QueueInv'
<1>1. ASSUME NEW r \in Runners, NEW i \in DOMAIN queue'[r], queue'[r][i].what # "init"
      PROVE  InitTaskOK(r, i)'
    BY <1>1, Zenon DEF InitTaskOK
<1>. QED
    BY <1>1, Zenon DEF QueueInv

\* A step that appends no initialize_service.
LEMMA QueueKept ==
    ASSUME DataOK, LockInv, QueueInv, Waits,
           \A r \in Runners : \A i \in DOMAIN queue'[r] : queue'[r][i].what = "init" =>
              i \in DOMAIN queue[r] /\ queue'[r][i] = queue[r][i]
    PROVE  QueueInv'
<1>1. ASSUME NEW r \in Runners, NEW i \in DOMAIN queue'[r], queue'[r][i].what = "init"
      PROVE  InitTaskOK(r, i)'
    <2>1. i \in DOMAIN queue[r] /\ queue'[r][i] = queue[r][i] /\ queue[r][i].what = "init"
        BY <1>1, Zenon
    <2>2. ASSUME NEW j \in DOMAIN queue'[r], queue'[r][j].what = "init" PROVE i = j
        <3>1. j \in DOMAIN queue[r] /\ queue[r][j].what = "init"
            BY <2>2, Zenon
        <3>. QED
            BY <2>1, <3>1, InitTaskOnce, Zenon
    <2>. QED
        BY <2>1, <2>2, InitTaskKept, Zenon
<1>. QED
    BY <1>1, QueueSplit, Zenon

LEMMA QueueSame ==
    ASSUME DataOK, LockInv, QueueInv, Waits, queue' = queue PROVE QueueInv'
    BY QueueKept, Zenon

LEMMA QueueWork ==
    ASSUME DataOK, LockInv, QueueInv, Waits, NEW d \in Runners, NEW x \in Tasks,
           x.what = "work", queue' = [queue EXCEPT ![d] = Append(@, x)]
    PROVE  QueueInv'
<1>1. /\ queue[d] \in Seq(Tasks) /\ queue'[d] = Append(queue[d], x)
      /\ \A s \in Runners \ {d} : queue'[s] = queue[s]
    BY QueueAppended, Zenon DEF DataOK
<1>2. ASSUME NEW r \in Runners, NEW i \in DOMAIN queue'[r], queue'[r][i].what = "init"
      PROVE  i \in DOMAIN queue[r] /\ queue'[r][i] = queue[r][i]
    <2>1. CASE r = d
        <3>1. queue'[d] = Append(queue[d], x) /\ i \in DOMAIN queue'[d] /\ queue'[d][i] # x
            BY <1>1, <1>2, <2>1, Zenon
        <3>2. i \in DOMAIN queue[d] /\ queue'[d][i] = queue[d][i]
            BY <1>1, <3>1
        <3>. QED
            BY <2>1, <3>2, Zenon
    <2>2. CASE r # d
        BY <1>1, <2>2, Zenon
    <2>. QED
        BY <2>1, <2>2, Zenon
<1>. QED
    BY <1>2, QueueKept, Zenon

\* A runner takes a task: the others move up.
LEMMA QueueTail ==
    ASSUME DataOK, LockInv, QueueInv, Waits, NEW r \in Runners, queue[r] # <<>>,
           queue' = [queue EXCEPT ![r] = Tail(@)]
    PROVE  QueueInv'
<1>1. /\ queue[r] \in Seq(Tasks) /\ queue'[r] = Tail(queue[r])
      /\ \A s \in Runners \ {r} : queue'[s] = queue[s]
    BY QueueTaken, Zenon DEF DataOK
<1>a. \A i \in DOMAIN queue'[r] :
         i + 1 \in DOMAIN queue[r] /\ queue'[r][i] = queue[r][i + 1] /\ i + 1 # 1 /\ i \in Nat
    BY TailElements, Zenon DEF DataOK
<1>2. ASSUME NEW i \in DOMAIN queue'[r], queue'[r][i].what = "init"
      PROVE  InitTaskOK(r, i)'
    <2>1. i + 1 \in DOMAIN queue[r] /\ queue'[r][i] = queue[r][i + 1] /\ i \in Nat
        BY <1>a, Zenon
    <2>2. queue[r][i + 1].what = "init"
        BY <1>2, <2>1, Zenon
    <2>3. ASSUME NEW j \in DOMAIN queue'[r], queue'[r][j].what = "init" PROVE i = j
        <3>1. j + 1 \in DOMAIN queue[r] /\ queue'[r][j] = queue[r][j + 1] /\ j \in Nat
            BY <1>a, Zenon
        <3>2. queue[r][j + 1].what = "init"
            BY <2>3, <3>1, Zenon
        <3>3. i + 1 = j + 1
            BY <2>1, <2>2, <3>1, <3>2, InitTaskOnce, Zenon
        <3>. QED
            BY <2>1, <3>1, <3>3
    <2>. QED
        BY <2>1, <2>2, <2>3, InitTaskKept, Zenon
<1>3. ASSUME NEW s \in Runners \ {r}, NEW i \in DOMAIN queue'[s], queue'[s][i].what = "init"
      PROVE  InitTaskOK(s, i)'
    <2>1. queue'[s] = queue[s] /\ i \in DOMAIN queue[s] /\ queue[s][i].what = "init"
        BY <1>1, <1>3, Zenon
    <2>2. ASSUME NEW j \in DOMAIN queue'[s], queue'[s][j].what = "init" PROVE i = j
        BY <2>1, <2>2, InitTaskOnce, Zenon
    <2>. QED
        BY <2>1, <2>2, InitTaskKept, Zenon
<1>. QED
    BY <1>2, <1>3, QueueSplit, Zenon

\* The thread inside init sends its task, or the runner answers it: no other one is in a queue.
LEMMA QueueSend ==
    ASSUME DataOK, LockInv, QueueInv, NEW p \in Procs, pc[p] = "send", Wait(p)',
           NEW d \in Runners, RunnerOf[want'[p]] = d,
           queue' = [queue EXCEPT ![d] = Append(@, InitTask(p))]
    PROVE  QueueInv'
<1>1. /\ queue[d] \in Seq(Tasks) /\ queue'[d] = Append(queue[d], InitTask(p))
      /\ \A s \in Runners \ {d} : queue'[s] = queue[s]
      /\ InitTask(p) \in Tasks /\ InitTask(p).from = p
    BY QueueAppended, TaskKinds, ZenonT(40) DEF DataOK
<1>2. ASSUME NEW r \in Runners, NEW i \in DOMAIN queue[r] PROVE queue[r][i].what # "init"
    <2>1. SUFFICES ASSUME queue[r][i].what = "init" PROVE FALSE
        BY Zenon
    <2>2. PICK q \in Procs : Wait(q) /\ lock = q
        BY <2>1, InitTaskIs, Zenon DEF QueueInv
    <2>3. lock = p
        BY Zenon DEF LockInv, LockAt, Inside
    <2>. QED
        BY <2>2, <2>3, Zenon DEF Wait
<1>3. ASSUME NEW r \in Runners, NEW i \in DOMAIN queue'[r], queue'[r][i].what = "init"
      PROVE  r = d /\ i = Len(queue[d]) + 1 /\ queue'[d][i] = InitTask(p)
    <2>1. r = d
        BY <1>1, <1>2, <1>3, Zenon
    <2>2. \/ i \in DOMAIN queue[d] /\ queue'[d][i] = queue[d][i]
          \/ i = Len(queue[d]) + 1 /\ queue'[d][i] = InitTask(p)
        BY <1>1, <2>1
    <2>3. ~(i \in DOMAIN queue[d] /\ queue'[d][i] = queue[d][i])
        BY <1>2, <1>3, <2>1, Zenon
    <2>. QED
        BY <2>1, <2>2, <2>3, Zenon
<1>4. ASSUME NEW r \in Runners, NEW i \in DOMAIN queue'[r], queue'[r][i].what = "init"
      PROVE  InitTaskOK(r, i)'
    <2>1. r = d /\ i = Len(queue[d]) + 1 /\ queue'[d][i] = InitTask(p)
        BY <1>3, <1>4, Zenon
    <2>2. \A j \in DOMAIN queue'[r] : queue'[r][j].what = "init" => i = j
        BY <1>3, <2>1, Zenon
    <2>3. queue'[r][i].from = p
        BY <1>1, <2>1, Zenon
    <2>. QED
        BY <2>1, <2>2, <2>3, Zenon DEF InitTaskOK, Wait
<1>. QED
    BY <1>4, QueueSplit, Zenon

LEMMA QueueAnswer ==
    ASSUME DataOK, LockInv, QueueInv, NEW r \in Runners, queue[r] # <<>>,
           Head(queue[r]).what = "init", queue' = [queue EXCEPT ![r] = Tail(@)]
    PROVE  QueueInv'
<1>1. /\ queue[r] \in Seq(Tasks) /\ queue'[r] = Tail(queue[r])
      /\ \A s \in Runners \ {r} : queue'[s] = queue[s]
      /\ 1 \in DOMAIN queue[r] /\ queue[r][1].what = "init"
    BY QueueTaken, Zenon DEF DataOK
<1>a. \A i \in DOMAIN queue'[r] :
         i + 1 \in DOMAIN queue[r] /\ queue'[r][i] = queue[r][i + 1] /\ i + 1 # 1 /\ i \in Nat
    BY TailElements, Zenon DEF DataOK
<1>2. ASSUME NEW i \in DOMAIN queue'[r] PROVE queue'[r][i].what # "init"
    <2>1. i + 1 \in DOMAIN queue[r] /\ queue'[r][i] = queue[r][i + 1] /\ i + 1 # 1
        BY <1>a, Zenon
    <2>2. queue[r][i + 1].what # "init"
        BY <1>1, <2>1, InitTaskOnce, Zenon
    <2>. QED
        BY <2>1, <2>2, Zenon
<1>3. ASSUME NEW s \in Runners \ {r}, NEW i \in DOMAIN queue'[s]
      PROVE  queue'[s][i].what # "init"
    <2>1. queue'[s] = queue[s] /\ i \in DOMAIN queue[s] /\ s # r
        BY <1>1, Zenon
    <2>2. queue[s][i].what # "init"
        BY <1>1, <2>1, InitTaskOnce, Zenon
    <2>. QED
        BY <2>1, <2>2, Zenon
<1>. QED
    BY <1>2, <1>3, QueueSplit, Zenon

LEMMA QueueStep == TypesInv /\ LockInv /\ QueueInv /\ [Next]_vars => QueueInv'
<1>. SUFFICES ASSUME PcOK, DataOK, LockInv, QueueInv, [Next]_vars PROVE QueueInv'
    BY Zenon DEF TypesInv
<1>a. Callers \subseteq Procs /\ Exiters \subseteq Procs /\ Runners \subseteq Procs
    BY Kinds, Zenon
<1>b. \A k \in Keys : RunnerOf[k] \in Runners
    BY Kinds, Zenon
<1>c. \A p \in Procs : LockAt(p)
    BY Zenon DEF LockInv
<1>. USE <1>a DEF registry, chan, exit, Goto
<1>1. ASSUME NEW p \in Callers, NEW k \in Keys, NEW g \in BOOLEAN, Call(p, k, g) PROVE QueueInv'
  <2>1. Waits /\ queue' = queue
    BY <1>1, Zenon DEF Call, Waits, Wait, PcOK, DataOK
  <2>. QED
    BY <2>1, QueueSame, Zenon
<1>2. ASSUME NEW p \in Callers, NEW k \in Keys, NEW x \in Work, Submit(p, k, x) PROVE QueueInv'
  <2>1. Waits
    BY <1>2, Zenon DEF Submit, Waits, Wait, PcOK
  <2>2. CASE closed[RunnerOf[k]]
    BY <1>2, <2>1, <2>2, QueueSame, Zenon DEF Submit
  <2>3. CASE ~closed[RunnerOf[k]]
    <3>1. x \in Tasks /\ x.what = "work" /\ RunnerOf[k] \in Runners
        BY <1>b, TaskKinds, Zenon
    <3>. QED
        BY <1>2, <2>1, <2>3, <3>1, QueueWork, Zenon DEF Submit
  <2>. QED
    BY <2>2, <2>3, Zenon
<1>3. ASSUME NEW p \in Callers \cup Runners, Lookup(p) PROVE QueueInv'
  <2>1. Waits /\ queue' = queue
    BY <1>3, Zenon DEF Lookup, Waits, Wait, PcOK
  <2>. QED
    BY <2>1, QueueSame, Zenon
<1>4. ASSUME NEW p \in Callers \cup Runners, LookupMiss(p) PROVE QueueInv'
  <2>1. Waits /\ queue' = queue
    BY <1>4, Zenon DEF LookupMiss, Waits, Wait, PcOK
  <2>. QED
    BY <2>1, QueueSame, Zenon
<1>5. ASSUME NEW p \in Callers \cup Runners, TakeRunner(p) PROVE QueueInv'
  <2>1. UNCHANGED <<want, reply, queue>>
    BY <1>5, Zenon DEF TakeRunner
  <2>2. \A q \in Procs : pc[q] = "await" => pc'[q] = pc[q]
    BY <1>5, TakeEffect, Zenon
  <2>3. Waits
    BY <2>1, <2>2, Zenon DEF Waits, Wait
  <2>. QED
    BY <2>1, <2>3, QueueSame, Zenon
<1>6. ASSUME NEW p \in Callers \cup Runners, SendInit(p) PROVE QueueInv'
  <2>1. /\ p \in Procs /\ pc[p] = "send" /\ pc'[p] = "await" /\ reply' = reply /\ want' = want
        /\ queue' = [queue EXCEPT ![RunnerOf[want[p]]] = Append(@, InitTask(p))]
    BY <1>6, Zenon DEF SendInit, PcOK
  <2>2. reply[p] = "none" /\ want[p] \in Keys
    BY <1>c, <2>1, Zenon DEF LockAt, Inside
  <2>3. Wait(p)' /\ RunnerOf[want[p]] \in Runners /\ RunnerOf[want'[p]] = RunnerOf[want[p]]
    BY <1>b, <2>1, <2>2, Zenon DEF Wait
  <2>. QED
    BY <2>1, <2>3, QueueSend, Zenon
<1>7. ASSUME NEW p \in Callers \cup Runners, SendInitClosed(p) PROVE QueueInv'
  <2>1. Waits /\ queue' = queue
    BY <1>7, Zenon DEF SendInitClosed, Waits, Wait, PcOK
  <2>. QED
    BY <2>1, QueueSame, Zenon
<1>8. ASSUME NEW p \in Callers \cup Runners, Finish(p) PROVE QueueInv'
  <2>1. Waits /\ queue' = queue
    BY <1>8, Zenon DEF Finish, Waits, Wait, PcOK, DataOK
  <2>. QED
    BY <2>1, QueueSame, Zenon
<1>9. ASSUME NEW r \in Runners, InitDirect(r) PROVE QueueInv'
  <2>1. /\ pc[r] = "send" /\ UNCHANGED <<want, queue>>
        /\ \A q \in Procs \ {r} : pc'[q] = pc[q]
    BY <1>9, Zenon DEF InitDirect, PcOK
  <2>2. \A q \in Procs \ {r} : reply'[q] = reply[q]
    BY <1>9, InitializeReplies, Zenon DEF InitDirect
  <2>3. Waits
    BY <2>1, <2>2, Zenon DEF Waits, Wait
  <2>. QED
    BY <2>1, <2>3, QueueSame, Zenon
<1>10. ASSUME NEW r \in Runners, RunInit(r) PROVE QueueInv'
    BY <1>10, QueueAnswer, Zenon DEF RunInit
<1>11. ASSUME NEW r \in Runners, RunWork(r) PROVE QueueInv'
  <2>. DEFINE x == Head(queue[r])
  <2>1. /\ pc[r] = "loop" /\ queue[r] # <<>>
        /\ queue' = [queue EXCEPT ![r] = Tail(@)] /\ reply' = reply
    BY <1>11, Zenon DEF RunWork
  <2>2. \/ pc' = pc /\ want' = want
        \/ pc' = [pc EXCEPT ![r] = "lock"] /\ want' = [want EXCEPT ![r] = x.nested]
    BY <1>11, Zenon DEF RunWork
  <2>. HIDE DEF x
  <2>3. \A q \in Procs \ {r} : pc'[q] = pc[q] /\ want'[q] = want[q]
    BY <2>2, Zenon DEF PcOK, DataOK
  <2>4. Waits
    BY <2>1, <2>3, Zenon DEF Waits, Wait
  <2>. QED
    BY <2>1, <2>4, QueueTail, Zenon
<1>12. ASSUME NEW r \in Runners, LeaveLoop(r) PROVE QueueInv'
  <2>1. Waits /\ queue' = queue
    BY <1>12, Zenon DEF LeaveLoop, Waits, Wait, PcOK
  <2>. QED
    BY <2>1, QueueSame, Zenon
<1>13. ASSUME NEW r \in Runners, NEW k \in Keys, Cleanup(r, k) PROVE QueueInv'
  <2>1. pc[r] = "services" /\ UNCHANGED <<queue, reply>>
    BY <1>13, Zenon DEF Cleanup
  <2>2. \/ pc' = pc /\ want' = want
        \/ pc' = [pc EXCEPT ![r] = "lock"] /\ want' = [want EXCEPT ![r] = Downstream[k]]
    BY <1>13, Zenon DEF Cleanup
  <2>3. \A q \in Procs \ {r} : pc'[q] = pc[q] /\ want'[q] = want[q]
    BY <2>2, Zenon DEF PcOK, DataOK
  <2>4. Waits
    BY <2>1, <2>3, Zenon DEF Waits, Wait
  <2>. QED
    BY <2>1, <2>4, QueueSame, Zenon
<1>14. ASSUME NEW r \in Runners, CleanupSubmit(r) PROVE QueueInv'
  <2>1. Waits
    BY <1>14, Zenon DEF CleanupSubmit, Waits, Wait, PcOK
  <2>2. CASE closed[RunnerOf[want[r]]]
    BY <1>14, <2>1, <2>2, QueueSame, Zenon DEF CleanupSubmit
  <2>3. CASE ~closed[RunnerOf[want[r]]]
    <3>1. PlainWork \in Tasks /\ PlainWork.what = "work" /\ RunnerOf[want[r]] \in Runners
        BY <1>14, <1>b, <1>c, TaskKinds, Zenon DEF CleanupSubmit, LockAt
    <3>. QED
        BY <1>14, <2>1, <2>3, <3>1, QueueWork, Zenon DEF CleanupSubmit
  <2>. QED
    BY <2>2, <2>3, Zenon
<1>15. ASSUME NEW r \in Runners, TakeStates(r) PROVE QueueInv'
  <2>1. Waits /\ queue' = queue
    BY <1>15, Zenon DEF TakeStates, Waits, Wait, PcOK
  <2>. QED
    BY <2>1, QueueSame, Zenon
<1>16. ASSUME NEW r \in Runners, EndRunner(r) PROVE QueueInv'
  <2>1. Waits /\ queue' = queue
    BY <1>16, Zenon DEF EndRunner, Waits, Wait, PcOK
  <2>. QED
    BY <2>1, QueueSame, Zenon
<1>17. ASSUME NEW e \in Exiters, BeginExit(e) PROVE QueueInv'
  <2>1. Waits /\ queue' = queue
    BY <1>17, Zenon DEF BeginExit, Waits, Wait, PcOK
  <2>. QED
    BY <2>1, QueueSame, Zenon
<1>18. ASSUME NEW e \in Exiters, Collect(e) PROVE QueueInv'
  <2>1. Waits /\ queue' = queue
    BY <1>18, Zenon DEF Collect, Waits, Wait, PcOK
  <2>. QED
    BY <2>1, QueueSame, Zenon
<1>19. ASSUME NEW e \in Exiters, NEW r \in Runners, Close(e, r) PROVE QueueInv'
  <2>1. Waits /\ queue' = queue
    BY <1>19, Zenon DEF Close, Waits, Wait, PcOK
  <2>. QED
    BY <2>1, QueueSame, Zenon
<1>20. ASSUME NEW e \in Exiters, NEW r \in Runners, CloseAgain(e, r) PROVE QueueInv'
  <2>1. Waits /\ queue' = queue
    BY <1>20, Zenon DEF CloseAgain, Waits, Wait, PcOK
  <2>. QED
    BY <2>1, QueueSame, Zenon
<1>21. ASSUME NEW e \in Exiters, RoundOver(e) PROVE QueueInv'
  <2>1. Waits /\ queue' = queue
    BY <1>21, Zenon DEF RoundOver, Waits, Wait, PcOK
  <2>. QED
    BY <2>1, QueueSame, Zenon
<1>22. ASSUME NEW e \in Exiters, Stop(e) PROVE QueueInv'
  <2>1. Waits /\ queue' = queue
    BY <1>22, Zenon DEF Stop, Waits, Wait, PcOK
  <2>. QED
    BY <2>1, QueueSame, Zenon
<1>23. ASSUME NEW e \in Exiters, Join(e) PROVE QueueInv'
  <2>1. Waits /\ queue' = queue
    BY <1>23, Zenon DEF Join, Waits, Wait, PcOK
  <2>. QED
    BY <2>1, QueueSame, Zenon
<1>24. CASE UNCHANGED vars
    BY <1>24, QueueSame, Zenon DEF vars, Waits, Wait
<1>. QED
    BY <1>1, <1>2, <1>3, <1>4, <1>5, <1>6, <1>7, <1>8, <1>9, <1>10, <1>11, <1>12, <1>13,
       <1>14, <1>15, <1>16, <1>17, <1>18, <1>19, <1>20, <1>21, <1>22, <1>23, <1>24, Zenon
    DEF Next, CallStep, InitStep, RunnerStep, ExitStep

----------------------------------------------------------------------------
(* The end of a runner *)

\* What other threads do to a runner: they append tasks while its channel is open, close it, and
\* stop it once it is closed.
EndSame(r) ==
    /\ pc'[r] = pc[r] /\ cleaning'[r] = cleaning[r] /\ want'[r] = want[r]
    /\ states'[r] = states[r] /\ todo'[r] = todo[r]
    /\ closed[r] => closed'[r]
    /\ stopping[r] => stopping'[r]
    /\ stopping'[r] => stopping[r] \/ closed[r]
    /\ queue'[r] = queue[r] \/ ~closed[r]

LEMMA EndKept ==
    ASSUME NEW r \in Runners, EndAt(r), EndSame(r) PROVE EndAt(r)'
<1>1. stopping'[r] => closed'[r]
    BY Zenon DEF EndAt, EndSame
<1>2. Leaving(r)' => Drained(r)'
    <2>1. Leaving(r)' <=> Leaving(r)
        BY Zenon DEF Leaving, EndSame
    <2>2. Drained(r) => Drained(r)'
        BY Zenon DEF Drained, EndAt, EndSame
    <2>. QED
        BY <2>1, <2>2, Zenon DEF EndAt
<1>3. \A k \in states'[r] \cup todo'[r] : RunnerOf[k] = r
    BY Zenon DEF EndAt, EndSame
<1>4. /\ cleaning'[r] # NoKey => /\ RunnerOf[cleaning'[r]] = r
                                 /\ Downstream[cleaning'[r]] # NoKey
                                 /\ want'[r] = Downstream[cleaning'[r]]
                                 /\ pc'[r] \in {"lock", "submit", "panicked"} \cup Inside
      /\ pc'[r] = "submit" => cleaning'[r] # NoKey
    BY Zenon DEF EndAt, EndSame
<1>. QED
    BY <1>1, <1>2, <1>3, <1>4, Zenon DEF EndAt

LEMMA EndOthers ==
    ASSUME EndInv, NEW p \in Procs, \A r \in Runners \ {p} : EndSame(r),
           p \in Runners => EndAt(p)' /\ (closed[p] => closed'[p]),
           \A e \in Exiters \ {p} : pc'[e] = pc[e] /\ target'[e] = target[e],
           p \in Exiters => StopAt(p)'
    PROVE  EndInv'
<1>1. ASSUME NEW r \in Runners PROVE EndAt(r)' /\ (closed[r] => closed'[r])
    <2>1. CASE r = p
        BY <2>1, Zenon
    <2>2. CASE r # p
        BY <2>2, EndKept, Zenon DEF EndInv, EndSame
    <2>. QED
        BY <2>1, <2>2, Zenon
<1>2. ASSUME NEW e \in Exiters PROVE StopAt(e)'
    <2>1. CASE e = p
        BY <2>1, Zenon
    <2>2. CASE e # p
        <3>1. StopAt(e) /\ pc'[e] = pc[e] /\ target'[e] = target[e]
            BY <2>2, Zenon DEF EndInv
        <3>. QED
            BY <1>1, <3>1, Zenon DEF StopAt
    <2>. QED
        BY <2>1, <2>2, Zenon
<1>. QED
    BY <1>1, <1>2, Zenon DEF EndInv

\* A runner inside init: it goes on, or returns to where it asked from.
LEMMA EndInit ==
    ASSUME NEW r \in Runners, EndAt(r), pc[r] \in {"lock"} \cup Inside,
           cleaning'[r] = cleaning[r], want'[r] = want[r], states'[r] = states[r],
           todo'[r] = todo[r], closed'[r] = closed[r], stopping'[r] = stopping[r],
           queue'[r] = queue[r],
           \/ pc'[r] \in Inside
           \/ cleaning[r] = NoKey /\ pc'[r] = "loop"
           \/ cleaning[r] # NoKey /\ pc'[r] \in {"submit", "panicked"}
    PROVE  EndAt(r)'
<1>1. Leaving(r)' => Leaving(r)
    BY Zenon DEF Leaving, Inside
<1>2. Leaving(r)' => Drained(r)'
    BY <1>1, Zenon DEF EndAt, Drained
<1>3. /\ cleaning'[r] # NoKey => /\ RunnerOf[cleaning'[r]] = r
                                 /\ Downstream[cleaning'[r]] # NoKey
                                 /\ want'[r] = Downstream[cleaning'[r]]
      /\ stopping'[r] => closed'[r]
      /\ \A k \in states'[r] \cup todo'[r] : RunnerOf[k] = r
    BY Zenon DEF EndAt
<1>4. /\ cleaning'[r] # NoKey => pc'[r] \in {"lock", "submit", "panicked"} \cup Inside
      /\ pc'[r] = "submit" => cleaning'[r] # NoKey
    BY Zenon DEF Inside
<1>. QED
    BY <1>2, <1>3, <1>4, Zenon DEF EndAt

\* A runner in its loop is shutting nothing down.
LEMMA EndLoop ==
    ASSUME NEW r \in Runners, EndAt(r), pc[r] \in {"loop", "absent", "services", "done"}
    PROVE  cleaning[r] = NoKey
    BY Zenon DEF EndAt, Inside

\* A service that submits to another is upstream of it.
LEMMA CleansUpstream ==
    ASSUME NEW r \in Runners, EndAt(r), DataOK, cleaning[r] # NoKey
    PROVE  r \in Upstream /\ RunnerOf[want[r]] \notin Upstream
<1>1. /\ RunnerOf[cleaning[r]] = r /\ Downstream[cleaning[r]] # NoKey
      /\ want[r] = Downstream[cleaning[r]] /\ cleaning[r] \in Keys
    BY Zenon DEF EndAt, DataOK
<1>2. RunnerOf[cleaning[r]] \in Upstream /\ RunnerOf[Downstream[cleaning[r]]] \notin Upstream
    BY <1>1, RegistryAssumption, Zenon
<1>. QED
    BY <1>1, <1>2, Zenon

LEMMA EndStep == TypesInv /\ LockInv /\ QueueInv /\ EndInv /\ [Next]_vars => EndInv'
<1>. SUFFICES ASSUME PcOK, DataOK, LockInv, QueueInv, EndInv, [Next]_vars PROVE EndInv'
    BY Zenon DEF TypesInv
<1>a. Callers \subseteq Procs /\ Exiters \subseteq Procs /\ Runners \subseteq Procs
    BY Kinds, Zenon
<1>b. \A p \in Callers \cup Runners : p \in Procs \ Exiters
    BY Kinds, Zenon
<1>c. \A p \in Callers : p \notin Runners
    BY Kinds, Zenon
<1>d. \A e \in Exiters : e \notin Runners
    BY Kinds, Zenon
<1>e. (\A r \in Runners : EndAt(r)) /\ \A e \in Exiters : StopAt(e)
    BY Zenon DEF EndInv
<1>f. queue \in [Runners -> Seq(Tasks)]
    BY Zenon DEF DataOK
<1>g. \A p \in Procs : LockAt(p)
    BY Zenon DEF LockInv
<1>. USE <1>a, <1>b DEF registry, chan, exit, Goto
<1>1. ASSUME NEW p \in Callers, NEW k \in Keys, NEW g \in BOOLEAN, Call(p, k, g) PROVE EndInv'
  <2>1. /\ UNCHANGED <<cleaning, states, todo, closed, stopping, queue, target>>
        /\ \A q \in Procs \ {p} : pc'[q] = pc[q] /\ want'[q] = want[q]
    BY <1>1, Zenon DEF Call, PcOK, DataOK
  <2>2. \A r \in Runners \ {p} : EndSame(r)
    BY <2>1, Zenon DEF EndSame
  <2>. QED
    BY <1>c, <2>1, <2>2, EndOthers, Zenon
<1>2. ASSUME NEW p \in Callers, NEW k \in Keys, NEW x \in Work, Submit(p, k, x) PROVE EndInv'
  <2>1. /\ UNCHANGED <<cleaning, want, states, todo, closed, stopping, target>>
        /\ \A q \in Procs \ {p} : pc'[q] = pc[q]
    BY <1>2, Zenon DEF Submit, PcOK
  <2>2. \A r \in Runners : queue'[r] = queue[r] \/ ~closed[r]
    BY <1>2, <1>f, Zenon DEF Submit
  <2>3. \A r \in Runners \ {p} : EndSame(r)
    BY <2>1, <2>2, Zenon DEF EndSame
  <2>. QED
    BY <1>c, <2>1, <2>3, EndOthers, Zenon
<1>3. ASSUME NEW p \in Callers \cup Runners, Lookup(p) PROVE EndInv'
  <2>1. /\ UNCHANGED <<cleaning, want, states, todo, closed, stopping, queue, target>>
        /\ pc[p] = "lock" /\ pc'[p] = Return(p) /\ \A q \in Procs \ {p} : pc'[q] = pc[q]
    BY <1>3, Zenon DEF Lookup, PcOK
  <2>2. \A r \in Runners \ {p} : EndSame(r)
    BY <2>1, Zenon DEF EndSame
  <2>3. ASSUME p \in Runners PROVE EndAt(p)'
    BY <1>e, <2>1, <2>3, EndInit, Returns, Zenon DEF Inside
  <2>. QED
    BY <2>1, <2>2, <2>3, EndOthers, Zenon
<1>4. ASSUME NEW p \in Callers \cup Runners, LookupMiss(p) PROVE EndInv'
  <2>1. /\ UNCHANGED <<cleaning, want, states, todo, closed, stopping, queue, target>>
        /\ pc[p] = "lock" /\ pc'[p] = "runner" /\ \A q \in Procs \ {p} : pc'[q] = pc[q]
    BY <1>4, Zenon DEF LookupMiss, PcOK
  <2>2. \A r \in Runners \ {p} : EndSame(r)
    BY <2>1, Zenon DEF EndSame
  <2>3. ASSUME p \in Runners PROVE EndAt(p)'
    BY <1>e, <2>1, <2>3, EndInit, Zenon DEF Inside
  <2>. QED
    BY <2>1, <2>2, <2>3, EndOthers, Zenon
<1>5. ASSUME NEW p \in Callers \cup Runners, TakeRunner(p) PROVE EndInv'
  <2>. DEFINE d == RunnerOf[want[p]]
  <2>1. UNCHANGED <<cleaning, want, states, todo, closed, stopping, queue, target>>
    BY <1>5, Zenon DEF TakeRunner
  <2>2. /\ pc[p] = "runner" /\ pc'[p] = "send" /\ d \in Runners
        /\ d \notin runners => pc[d] = "absent" /\ d # p /\ pc'[d] = "loop"
        /\ \A q \in Procs \ {p} : q # d \/ d \in runners => pc'[q] = pc[q]
    BY <1>5, TakeEffect, Zenon
  <2>. HIDE DEF d
  <2>3. ASSUME p \in Runners PROVE EndAt(p)'
    BY <1>e, <2>1, <2>2, <2>3, EndInit, Zenon DEF Inside
  <2>4. ASSUME NEW r \in Runners \ {p}, r # d \/ d \in runners PROVE EndAt(r)'
    <3>1. EndSame(r)
        BY <2>1, <2>2, <2>4, Zenon DEF EndSame
    <3>. QED
        BY <1>e, <3>1, EndKept, Zenon
  <2>5. ASSUME NEW r \in Runners \ {p}, r = d, d \notin runners PROVE EndAt(r)'
    <3>1. pc[r] = "absent" /\ pc'[r] = "loop" /\ EndAt(r)
        BY <1>e, <2>2, <2>5, Zenon
    <3>2. cleaning[r] = NoKey
        BY <3>1, EndLoop, Zenon
    <3>. QED
        BY <2>1, <3>1, <3>2, Zenon DEF EndAt, Leaving, Drained
  <2>6. \A e \in Exiters : pc'[e] = pc[e]
    BY <1>d, <2>2, Zenon
  <2>7. \A e \in Exiters : StopAt(e)'
    BY <1>e, <2>1, <2>6, Zenon DEF StopAt
  <2>. QED
    BY <2>3, <2>4, <2>5, <2>7, Zenon DEF EndInv
<1>6. ASSUME NEW p \in Callers \cup Runners, SendInit(p) PROVE EndInv'
  <2>. DEFINE d == RunnerOf[want[p]]
  <2>1. /\ UNCHANGED <<cleaning, want, states, todo, closed, stopping, target>>
        /\ pc[p] = "send" /\ pc'[p] = "await" /\ \A q \in Procs \ {p} : pc'[q] = pc[q]
        /\ d # p /\ ~closed[d] /\ queue' = [queue EXCEPT ![d] = Append(@, InitTask(p))]
    BY <1>6, Zenon DEF SendInit, PcOK
  <2>. HIDE DEF d
  <2>2. \A r \in Runners : queue'[r] = queue[r] \/ r = d
    BY <1>f, <2>1, Zenon
  <2>3. \A r \in Runners \ {p} : EndSame(r)
    BY <2>1, <2>2, Zenon DEF EndSame
  <2>4. ASSUME p \in Runners PROVE EndAt(p)'
    <3>1. queue'[p] = queue[p]
        BY <2>1, <2>2, <2>4, Zenon
    <3>. QED
        BY <1>e, <2>1, <2>4, <3>1, EndInit, Zenon DEF Inside
  <2>. QED
    BY <2>1, <2>3, <2>4, EndOthers, Zenon
<1>7. ASSUME NEW p \in Callers \cup Runners, SendInitClosed(p) PROVE EndInv'
  <2>1. /\ UNCHANGED <<cleaning, want, states, todo, closed, stopping, queue, target>>
        /\ pc[p] = "send" /\ pc'[p] = Unwind(p) /\ \A q \in Procs \ {p} : pc'[q] = pc[q]
    BY <1>7, Zenon DEF SendInitClosed, PcOK
  <2>2. \A r \in Runners \ {p} : EndSame(r)
    BY <2>1, Zenon DEF EndSame
  <2>3. ASSUME p \in Runners PROVE EndAt(p)'
    BY <1>e, <2>1, <2>3, EndInit, Returns, Zenon DEF Inside
  <2>. QED
    BY <2>1, <2>2, <2>3, EndOthers, Zenon
<1>8. ASSUME NEW p \in Callers \cup Runners, Finish(p) PROVE EndInv'
  <2>1. /\ UNCHANGED <<cleaning, want, states, todo, closed, stopping, queue, target>>
        /\ pc[p] = "await" /\ pc'[p] \in {Unwind(p), Return(p)}
        /\ \A q \in Procs \ {p} : pc'[q] = pc[q]
    BY <1>8, Zenon DEF Finish, PcOK
  <2>2. \A r \in Runners \ {p} : EndSame(r)
    BY <2>1, Zenon DEF EndSame
  <2>3. ASSUME p \in Runners PROVE EndAt(p)'
    BY <1>e, <2>1, <2>3, EndInit, Returns, Zenon DEF Inside
  <2>. QED
    BY <2>1, <2>2, <2>3, EndOthers, Zenon
<1>9. ASSUME NEW r \in Runners, InitDirect(r) PROVE EndInv'
  <2>1. /\ UNCHANGED <<cleaning, want, todo, closed, stopping, queue, target>>
        /\ pc[r] = "send" /\ RunnerOf[want[r]] = r
        /\ pc'[r] \in {"loop", "await"} /\ \A q \in Procs \ {r} : pc'[q] = pc[q]
    BY <1>9, Zenon DEF InitDirect, PcOK
  <2>2. states' = states \/ states' = [states EXCEPT ![r] = @ \cup {want[r]}]
    BY <1>9, Zenon DEF InitDirect, Initialize
  <2>3. /\ (\A s \in Runners \ {r} : states'[s] = states[s])
        /\ states'[r] \subseteq states[r] \cup {want[r]}
    BY <2>2, Zenon DEF DataOK
  <2>4. \A s \in Runners \ {r} : EndSame(s)
    BY <2>1, <2>3, Zenon DEF EndSame
  <2>5. cleaning[r] = NoKey
    BY <1>e, <2>1, CleansUpstream, Zenon
  <2>6. \A k \in states'[r] \cup todo'[r] : RunnerOf[k] = r
    BY <1>e, <2>1, <2>3, ZenonT(40) DEF EndAt
  <2>7. stopping'[r] => closed'[r]
    BY <1>e, <2>1, Zenon DEF EndAt
  <2>8. EndAt(r)'
    BY <2>1, <2>5, <2>6, <2>7, Zenon DEF EndAt, Leaving
  <2>. QED
    BY <2>1, <2>4, <2>8, EndOthers, Zenon
<1>10. ASSUME NEW r \in Runners, RunInit(r) PROVE EndInv'
  <2>1. UNCHANGED <<pc, cleaning, want, todo, closed, stopping, target>> /\ pc[r] = "loop"
    BY <1>10, Zenon DEF RunInit
  <2>2. PICK p \in Procs : /\ RunnerOf[want[p]] = r /\ Initialize(r, p)
                           /\ queue' = [queue EXCEPT ![r] = Tail(queue[r])]
    BY <1>10, HeadInit, Zenon
  <2>3. states' = states \/ states' = [states EXCEPT ![r] = @ \cup {want[p]}]
    BY <2>2, Zenon DEF Initialize
  <2>4. /\ (\A s \in Runners \ {r} : states'[s] = states[s])
        /\ states'[r] \subseteq states[r] \cup {want[p]}
    BY <2>3, Zenon DEF DataOK
  <2>5. \A s \in Runners \ {r} : queue'[s] = queue[s]
    BY <2>2, <1>f, Zenon
  <2>6. \A s \in Runners \ {r} : EndSame(s)
    BY <2>1, <2>4, <2>5, Zenon DEF EndSame
  <2>7. cleaning[r] = NoKey
    BY <1>e, <2>1, EndLoop, Zenon
  <2>8. (\A k \in states'[r] \cup todo'[r] : RunnerOf[k] = r) /\ (stopping'[r] => closed'[r])
    BY <1>e, <2>1, <2>2, <2>4, ZenonT(40) DEF EndAt
  <2>9. EndAt(r)'
    BY <2>1, <2>7, <2>8, Zenon DEF EndAt, Leaving
  <2>. QED
    BY <2>1, <2>6, <2>9, EndOthers, Zenon
<1>11. ASSUME NEW r \in Runners, RunWork(r) PROVE EndInv'
  <2>. DEFINE x == Head(queue[r])
  <2>1. UNCHANGED <<cleaning, states, todo, closed, stopping, target>> /\ pc[r] = "loop"
    BY <1>11, Zenon DEF RunWork
  <2>2. /\ queue' = [queue EXCEPT ![r] = Tail(queue[r])]
        /\ \/ pc' = pc /\ want' = want
           \/ pc' = [pc EXCEPT ![r] = "lock"] /\ want' = [want EXCEPT ![r] = x.nested]
    BY <1>11, Zenon DEF RunWork
  <2>. HIDE DEF x
  <2>3. /\ \A q \in Procs \ {r} : pc'[q] = pc[q] /\ want'[q] = want[q]
        /\ pc'[r] \in {"loop", "lock"}
    BY <2>1, <2>2, ZenonT(40) DEF PcOK, DataOK
  <2>4. \A s \in Runners \ {r} : queue'[s] = queue[s]
    BY <2>2, <1>f, Zenon
  <2>5. \A s \in Runners \ {r} : EndSame(s)
    BY <2>1, <2>3, <2>4, Zenon DEF EndSame
  <2>6. cleaning[r] = NoKey
    BY <1>e, <2>1, EndLoop, Zenon
  <2>7. (\A k \in states'[r] \cup todo'[r] : RunnerOf[k] = r) /\ (stopping'[r] => closed'[r])
    BY <1>e, <2>1, Zenon DEF EndAt
  <2>8. EndAt(r)'
    BY <2>1, <2>3, <2>6, <2>7, Zenon DEF EndAt, Leaving
  <2>. QED
    BY <2>1, <2>3, <2>5, <2>8, EndOthers, Zenon
<1>12. ASSUME NEW r \in Runners, LeaveLoop(r) PROVE EndInv'
  <2>1. /\ UNCHANGED <<cleaning, want, states, closed, stopping, queue, target>>
        /\ pc[r] = "loop" /\ stopping[r] /\ queue[r] = <<>> /\ todo'[r] = states[r]
        /\ pc'[r] = "services"
        /\ \A q \in Procs \ {r} : pc'[q] = pc[q]
        /\ \A s \in Runners \ {r} : todo'[s] = todo[s]
    BY <1>12, ZenonT(40) DEF LeaveLoop, PcOK, DataOK
  <2>2. \A s \in Runners \ {r} : EndSame(s)
    BY <2>1, Zenon DEF EndSame
  <2>3. cleaning[r] = NoKey
    BY <1>e, <2>1, EndLoop, Zenon
  <2>4. EndAt(r)'
    BY <1>e, <2>1, <2>3, Zenon DEF EndAt, Leaving, Drained
  <2>. QED
    BY <2>1, <2>2, <2>4, EndOthers, Zenon
<1>13. ASSUME NEW r \in Runners, NEW k \in Keys, Cleanup(r, k) PROVE EndInv'
  <2>1. /\ UNCHANGED <<states, closed, stopping, queue, target>> /\ pc[r] = "services"
        /\ k \in todo[r]
        /\ todo' = [todo EXCEPT ![r] = @ \ {k}]
    BY <1>13, Zenon DEF Cleanup
  <2>2. \/ UNCHANGED <<pc, want, cleaning>>
        \/ /\ pc' = [pc EXCEPT ![r] = "lock"] /\ want' = [want EXCEPT ![r] = Downstream[k]]
           /\ cleaning' = [cleaning EXCEPT ![r] = k] /\ Downstream[k] # NoKey
    BY <1>13, Zenon DEF Cleanup
  <2>3. /\ \A q \in Procs \ {r} : pc'[q] = pc[q] /\ want'[q] = want[q]
        /\ \A s \in Runners \ {r} : todo'[s] = todo[s] /\ cleaning'[s] = cleaning[s]
        /\ todo'[r] \subseteq todo[r]
    <3>1. \A q \in Procs \ {r} : pc'[q] = pc[q]
        BY <2>2, Zenon DEF PcOK
    <3>4. \A q \in Procs \ {r} : want'[q] = want[q]
        BY <2>2, Zenon DEF DataOK
    <3>2. \A s \in Runners \ {r} : cleaning'[s] = cleaning[s]
        BY <2>2, ZenonT(40) DEF DataOK
    <3>3. (\A s \in Runners \ {r} : todo'[s] = todo[s]) /\ todo'[r] \subseteq todo[r]
        BY <2>1, Zenon DEF DataOK
    <3>. QED
        BY <3>1, <3>2, <3>3, <3>4, Zenon
  <2>4. \A s \in Runners \ {r} : EndSame(s)
    BY <2>1, <2>3, Zenon DEF EndSame
  <2>5. cleaning[r] = NoKey
    BY <1>e, <2>1, EndLoop, Zenon
  <2>6. \/ pc'[r] = "services" /\ cleaning'[r] = NoKey
        \/ pc'[r] = "lock" /\ want'[r] = Downstream[k] /\ cleaning'[r] = k /\ Downstream[k] # NoKey
    BY <2>1, <2>2, <2>5, ZenonT(40) DEF PcOK, DataOK
  <2>7. Drained(r)' /\ (stopping'[r] => closed'[r])
    BY <1>e, <2>1, Zenon DEF EndAt, Leaving, Drained
  <2>8. RunnerOf[k] = r /\ \A j \in states'[r] \cup todo'[r] : RunnerOf[j] = r
    <3>1. (\A j \in states[r] \cup todo[r] : RunnerOf[j] = r) /\ states'[r] = states[r]
        BY <1>e, <2>1, Zenon DEF EndAt
    <3>. HIDE <1>e
    <3>. QED
        BY <2>1, <2>3, <3>1, Zenon
  <2>9. EndAt(r)'
    <3>1. CASE pc'[r] = "services" /\ cleaning'[r] = NoKey
        BY <2>7, <2>8, <3>1, Zenon DEF EndAt
    <3>2. CASE /\ pc'[r] = "lock" /\ want'[r] = Downstream[k]
               /\ cleaning'[r] = k /\ Downstream[k] # NoKey
        BY <2>7, <2>8, <3>2, Zenon DEF EndAt
    <3>. QED
        BY <2>6, <3>1, <3>2, Zenon
  <2>. QED
    BY <2>1, <2>3, <2>4, <2>9, EndOthers, Zenon
<1>14. ASSUME NEW r \in Runners, CleanupSubmit(r) PROVE EndInv'
  <2>. DEFINE d == RunnerOf[want[r]]
  <2>1. UNCHANGED <<states, closed, stopping, want, todo, target>> /\ pc[r] = "submit"
    BY <1>14, Zenon DEF CleanupSubmit
  <2>2. cleaning[r] # NoKey
    BY <1>e, <2>1, Zenon DEF EndAt
  <2>3. d # r
    BY <1>e, <2>2, CleansUpstream, Zenon
  <2>4. Drained(r) /\ stopping[r] /\ closed[r]
    BY <1>e, <2>2, Zenon DEF EndAt, Leaving, Drained
  <2>5. \/ closed[d] /\ pc' = [pc EXCEPT ![r] = "panicked"] /\ UNCHANGED <<queue, cleaning>>
        \/ /\ ~closed[d] /\ queue' = [queue EXCEPT ![d] = Append(@, PlainWork)]
           /\ cleaning' = [cleaning EXCEPT ![r] = NoKey] /\ pc' = [pc EXCEPT ![r] = "services"]
    BY <1>14, Zenon DEF CleanupSubmit
  <2>. HIDE DEF d
  <2>6. /\ \A q \in Procs \ {r} : pc'[q] = pc[q]
        /\ \A s \in Runners \ {r} : cleaning'[s] = cleaning[s]
        /\ \A s \in Runners : queue'[s] = queue[s] \/ (s = d /\ ~closed[d])
    <3>1. \A q \in Procs \ {r} : pc'[q] = pc[q]
        BY <2>5, Zenon DEF PcOK
    <3>2. \A s \in Runners \ {r} : cleaning'[s] = cleaning[s]
        BY <2>5, Zenon DEF DataOK
    <3>3. \A s \in Runners : queue'[s] = queue[s] \/ (s = d /\ ~closed[d])
        BY <1>f, <2>5, Zenon
    <3>. QED
        BY <3>1, <3>2, <3>3, Zenon
  <2>7. \A s \in Runners \ {r} : EndSame(s)
    BY <2>1, <2>6, Zenon DEF EndSame
  <2>8. Drained(r)'
    BY <2>1, <2>3, <2>4, <2>6, Zenon DEF Drained
  <2>9. \/ pc'[r] = "panicked" /\ cleaning'[r] = cleaning[r]
        \/ pc'[r] = "services" /\ cleaning'[r] = NoKey
    BY <2>5, Zenon DEF PcOK, DataOK
  <2>10. EndAt(r)'
    <3>1. CASE pc'[r] = "panicked" /\ cleaning'[r] = cleaning[r]
        BY <1>e, <2>1, <2>8, <3>1, Zenon DEF EndAt
    <3>2. CASE pc'[r] = "services" /\ cleaning'[r] = NoKey
        BY <1>e, <2>1, <2>8, <3>2, Zenon DEF EndAt
    <3>. QED
        BY <2>9, <3>1, <3>2, Zenon
  <2>. QED
    BY <2>1, <2>6, <2>7, <2>10, EndOthers, Zenon
<1>15. ASSUME NEW r \in Runners, TakeStates(r) PROVE EndInv'
  <2>1. /\ UNCHANGED <<pc, cleaning, want, closed, stopping, queue, target>>
        /\ pc[r] = "services" /\ todo'[r] = states[r] /\ states'[r] = {}
        /\ \A s \in Runners \ {r} : todo'[s] = todo[s] /\ states'[s] = states[s]
    BY <1>15, Zenon DEF TakeStates, DataOK
  <2>2. \A s \in Runners \ {r} : EndSame(s)
    BY <2>1, Zenon DEF EndSame
  <2>3. EndAt(r)'
    BY <1>e, <2>1, Zenon DEF EndAt, Leaving, Drained
  <2>. QED
    BY <2>1, <2>2, <2>3, EndOthers, Zenon
<1>16. ASSUME NEW r \in Runners, EndRunner(r) PROVE EndInv'
  <2>1. /\ UNCHANGED <<cleaning, want, states, todo, closed, stopping, queue, target>>
        /\ pc[r] = "services" /\ pc'[r] = "done" /\ \A q \in Procs \ {r} : pc'[q] = pc[q]
    BY <1>16, Zenon DEF EndRunner, PcOK
  <2>2. \A s \in Runners \ {r} : EndSame(s)
    BY <2>1, Zenon DEF EndSame
  <2>3. cleaning[r] = NoKey
    BY <1>e, <2>1, EndLoop, Zenon
  <2>4. EndAt(r)'
    BY <1>e, <2>1, <2>3, Zenon DEF EndAt, Leaving, Drained
  <2>. QED
    BY <2>1, <2>2, <2>4, EndOthers, Zenon
<1>17. ASSUME NEW e \in Exiters, BeginExit(e) PROVE EndInv'
  <2>1. /\ UNCHANGED <<cleaning, want, states, todo, closed, stopping, queue, target>>
        /\ \A q \in Procs \ {e} : pc'[q] = pc[q]
        /\ pc'[e] \notin {"stop", "join"}
    BY <1>17, Zenon DEF BeginExit, PcOK
  <2>2. \A s \in Runners \ {e} : EndSame(s)
    BY <2>1, Zenon DEF EndSame
  <2>3. StopAt(e)'
    BY <2>1, Zenon DEF StopAt
  <2>. QED
    BY <1>d, <2>1, <2>2, <2>3, EndOthers, Zenon
<1>18. ASSUME NEW e \in Exiters, Collect(e) PROVE EndInv'
  <2>1. /\ UNCHANGED <<cleaning, want, states, todo, closed, stopping, queue, target>>
        /\ \A q \in Procs \ {e} : pc'[q] = pc[q]
        /\ pc'[e] \notin {"stop", "join"}
    BY <1>18, Zenon DEF Collect, PcOK
  <2>2. \A s \in Runners \ {e} : EndSame(s)
    BY <2>1, Zenon DEF EndSame
  <2>3. StopAt(e)'
    BY <2>1, Zenon DEF StopAt
  <2>. QED
    BY <1>d, <2>1, <2>2, <2>3, EndOthers, Zenon
<1>19. ASSUME NEW e \in Exiters, NEW r \in Runners, Close(e, r) PROVE EndInv'
  <2>1. /\ UNCHANGED <<cleaning, want, states, todo, stopping, queue>>
        /\ \A q \in Procs \ {e} : pc'[q] = pc[q]
        /\ \A f \in Exiters \ {e} : target'[f] = target[f]
        /\ target'[e] = r /\ closed'[r] /\ \A s \in Runners : closed[s] => closed'[s]
    BY <1>19, Zenon DEF Close, PcOK, DataOK
  <2>2. \A s \in Runners \ {e} : EndSame(s)
    BY <2>1, Zenon DEF EndSame
  <2>3. StopAt(e)'
    BY <2>1, Zenon DEF StopAt
  <2>. QED
    BY <1>d, <2>1, <2>2, <2>3, EndOthers, Zenon
<1>20. ASSUME NEW e \in Exiters, NEW r \in Runners, CloseAgain(e, r) PROVE EndInv'
  <2>1. /\ UNCHANGED <<cleaning, want, states, todo, closed, stopping, queue, target>>
        /\ \A q \in Procs \ {e} : pc'[q] = pc[q]
        /\ pc'[e] \notin {"stop", "join"}
    BY <1>20, Zenon DEF CloseAgain, PcOK
  <2>2. \A s \in Runners \ {e} : EndSame(s)
    BY <2>1, Zenon DEF EndSame
  <2>3. StopAt(e)'
    BY <2>1, Zenon DEF StopAt
  <2>. QED
    BY <1>d, <2>1, <2>2, <2>3, EndOthers, Zenon
<1>21. ASSUME NEW e \in Exiters, RoundOver(e) PROVE EndInv'
  <2>1. /\ UNCHANGED <<cleaning, want, states, todo, closed, stopping, queue, target>>
        /\ \A q \in Procs \ {e} : pc'[q] = pc[q]
        /\ pc'[e] \notin {"stop", "join"}
    BY <1>21, Zenon DEF RoundOver, PcOK
  <2>2. \A s \in Runners \ {e} : EndSame(s)
    BY <2>1, Zenon DEF EndSame
  <2>3. StopAt(e)'
    BY <2>1, Zenon DEF StopAt
  <2>. QED
    BY <1>d, <2>1, <2>2, <2>3, EndOthers, Zenon
<1>22. ASSUME NEW e \in Exiters, Stop(e) PROVE EndInv'
  <2>1. /\ UNCHANGED <<cleaning, want, states, todo, closed, queue, target>> /\ pc[e] = "stop"
        /\ \A q \in Procs \ {e} : pc'[q] = pc[q]
    BY <1>22, Zenon DEF Stop, PcOK
  <2>2. target[e] \in Runners /\ closed[target[e]]
    BY <1>e, <2>1, Zenon DEF StopAt
  <2>3. \A s \in Runners : /\ stopping[s] => stopping'[s]
                           /\ stopping'[s] => stopping[s] \/ closed[s]
    BY <1>22, <2>2, Zenon DEF Stop, DataOK
  <2>4. \A s \in Runners \ {e} : EndSame(s)
    BY <1>d, <2>1, <2>3, Zenon DEF EndSame
  <2>5. StopAt(e)'
    BY <2>1, <2>2, Zenon DEF StopAt
  <2>. QED
    BY <1>d, <2>1, <2>4, <2>5, EndOthers, Zenon
<1>23. ASSUME NEW e \in Exiters, Join(e) PROVE EndInv'
  <2>1. /\ UNCHANGED <<cleaning, want, states, todo, closed, stopping, queue, target>>
        /\ \A q \in Procs \ {e} : pc'[q] = pc[q]
        /\ pc'[e] \notin {"stop", "join"}
    BY <1>23, Zenon DEF Join, PcOK
  <2>2. \A s \in Runners \ {e} : EndSame(s)
    BY <2>1, Zenon DEF EndSame
  <2>3. StopAt(e)'
    BY <2>1, Zenon DEF StopAt
  <2>. QED
    BY <1>d, <2>1, <2>2, <2>3, EndOthers, Zenon
<1>24. CASE UNCHANGED vars
    BY <1>24, Zenon DEF vars, EndInv, EndAt, StopAt, Leaving, Drained
<1>. QED
    BY <1>1, <1>2, <1>3, <1>4, <1>5, <1>6, <1>7, <1>8, <1>9, <1>10, <1>11, <1>12, <1>13,
       <1>14, <1>15, <1>16, <1>17, <1>18, <1>19, <1>20, <1>21, <1>22, <1>23, <1>24, Zenon
    DEF Next, CallStep, InitStep, RunnerStep, ExitStep

----------------------------------------------------------------------------
(* Services *)

LEMMA CreatedIs ==
    ASSUME NEW k
    PROVE  k \in Created <=> k \in channels \/ \E p \in Procs : reply[p] = "ok" /\ want[p] = k
    BY Zenon DEF Created

\* A thread that has a reply is inside init.
LEMMA ReplyIs ==
    ASSUME LockInv, NEW p \in Procs, reply[p] # "none"
    PROVE  pc[p] = "await" /\ lock = p /\ want[p] \in Keys
<1>1. LockAt(p)
    BY Zenon DEF LockInv
<1>. QED
    BY <1>1, Zenon DEF LockAt, Inside

LEMMA CreatedSame ==
    ASSUME channels' = channels,
           \A p \in Procs : (reply'[p] = "ok" <=> reply[p] = "ok"),
           \A p \in Procs : reply[p] = "ok" => want'[p] = want[p]
    PROVE  Created' = Created
<1>1. ASSUME NEW k PROVE k \in Created' <=> k \in Created
    <2>1. k \in Created' <=> k \in channels' \/ \E p \in Procs : reply'[p] = "ok" /\ want'[p] = k
        BY Zenon DEF Created
    <2>. QED
        BY <2>1, CreatedIs, Zenon
<1>. QED
    BY <1>1, Zenon

\* A runner that is stopped and drained stays so.
LEMMA DrainedKept ==
    ASSUME EndInv,
           \A r \in Runners : queue'[r] = queue[r] \/ ~closed[r] \/ queue[r] # <<>>,
           \A r \in Runners : stopping[r] => stopping'[r]
    PROVE  \A r \in Runners : Drained(r) => Drained(r)'
<1>1. ASSUME NEW r \in Runners, Drained(r) PROVE Drained(r)'
    <2>1. stopping[r] /\ queue[r] = <<>> /\ closed[r]
        BY <1>1, Zenon DEF Drained, EndInv, EndAt
    <2>. QED
        BY <2>1, Zenon DEF Drained
<1>. QED
    BY <1>1, Zenon

LEMMA CreatedKeys ==
    ASSUME DataOK, LockInv PROVE Created \subseteq Keys
<1>1. channels \subseteq Keys
    BY Zenon DEF DataOK
<1>2. \A p \in Procs : reply[p] = "ok" => want[p] \in Keys
    <2>1. TAKE p \in Procs
    <2>2. HAVE reply[p] = "ok"
    <2>3. reply[p] # "none"
        BY <2>2, Zenon
    <2>. QED
        BY <2>3, ReplyIs, Zenon
<1>. QED
    BY <1>1, <1>2, CreatedIs, Zenon

LEMMA CreatedKept ==
    ASSUME DataOK, LockInv, CreatedInv, Created' = Created, inits' = inits,
           runners \subseteq runners', \A r \in Runners : Drained(r) => Drained(r)',
           \A r \in Runners : states[r] \subseteq states'[r] \/ Drained(r)
    PROVE  CreatedInv'
<1>1. \A k \in Keys : inits'[k] = IF k \in Created' THEN 1 ELSE 0
    BY Zenon DEF CreatedInv
<1>2. \A k \in Created' : RunnerOf[k] \in runners'
    BY Zenon DEF CreatedInv
<1>3. ASSUME NEW k \in Created'
      PROVE  k \in states'[RunnerOf[k]] \/ Drained(RunnerOf[k])'
    <2>1. k \in Created /\ k \in Keys
        BY CreatedKeys, Zenon
    <2>2. RunnerOf[k] \in Runners
        BY <2>1, Kinds, Zenon
    <2>3. k \in states[RunnerOf[k]] \/ Drained(RunnerOf[k])
        BY <2>1, Zenon DEF CreatedInv
    <2>. QED
        BY <2>2, <2>3, Zenon
<1>. QED
    BY <1>1, <1>2, <1>3, Zenon DEF CreatedInv

\* Only one thread is inside init, so a service is created once.
LEMMA CreatedInit ==
    ASSUME DataOK, LockInv, CreatedInv, NEW r \in Runners, NEW p \in Procs, Initialize(r, p),
           pc[p] \in {"send", "await"}, reply[p] = "none", RunnerOf[want[p]] = r,
           UNCHANGED <<channels, runners, want>>,
           \A s \in Runners : Drained(s) => Drained(s)'
    PROVE  CreatedInv'
<1>. DEFINE k == want[p]
<1>1. k \in Keys /\ k \notin channels /\ r \in runners /\ lock = p
    BY Zenon DEF LockInv, LockAt, Inside
<1>. HIDE DEF k
<1>2. \A q \in Procs : reply[q] # "ok"
    BY <1>1, ReplyIs, Zenon
<1>3. k \notin Created
    BY <1>1, <1>2, CreatedIs, Zenon
<1>4. reply \in [Procs -> {"none", "ok", "err", "disconnected"}] /\ inits \in [Keys -> Nat]
      /\ states \in [Runners -> SUBSET Keys]
    BY Zenon DEF DataOK
<1>5. CASE /\ UNCHANGED <<states, inits>>
           /\ \E a \in {"err", "disconnected"} : reply' = [reply EXCEPT ![p] = a]
    <2>1. \A q \in Procs : (reply'[q] = "ok" <=> reply[q] = "ok")
        BY <1>2, <1>4, <1>5, Zenon
    <2>2. Created' = Created
        BY <1>2, <2>1, CreatedSame, Zenon
    <2>. QED
        BY <1>5, <2>2, CreatedKept, Zenon
<1>6. CASE /\ states' = [states EXCEPT ![r] = @ \cup {k}] /\ inits' = [inits EXCEPT ![k] = @ + 1]
           /\ reply' = [reply EXCEPT ![p] = "ok"]
    <2>1. /\ reply'[p] = "ok" /\ \A q \in Procs \ {p} : reply'[q] = reply[q]
        BY <1>4, <1>6, Zenon
    <2>2. \A j : j \in Created' <=> j \in Created \/ j = k
        <3>1. TAKE j
        <3>2. j \in Created'
                 <=> j \in channels' \/ \E q \in Procs : reply'[q] = "ok" /\ want'[q] = j
            BY Zenon DEF Created
        <3>3. (\E q \in Procs : reply'[q] = "ok" /\ want'[q] = j) <=> j = k
            BY <1>2, <2>1, Zenon DEF k
        <3>4. j \in Created <=> j \in channels
            BY <1>2, CreatedIs, Zenon
        <3>. QED
            BY <3>2, <3>3, <3>4, Zenon
    <2>3. inits'[k] = 1 /\ \A j \in Keys \ {k} : inits'[j] = inits[j]
        <3>1. inits[k] = 0
            BY <1>1, <1>3, Zenon DEF CreatedInv
        <3>2. inits'[k] = inits[k] + 1 /\ \A j \in Keys \ {k} : inits'[j] = inits[j]
            BY <1>1, <1>4, <1>6, Zenon
        <3>. QED
            BY <3>1, <3>2
    <2>4. \A j \in Keys : inits'[j] = IF j \in Created' THEN 1 ELSE 0
        BY <2>2, <2>3, Zenon DEF CreatedInv
    <2>5. RunnerOf[k] = r /\ k \in states'[r] /\ \A s \in Runners : states[s] \subseteq states'[s]
        BY <1>4, <1>6, Zenon DEF k
    <2>6. ASSUME NEW j \in Created'
          PROVE  RunnerOf[j] \in runners' /\ (j \in states'[RunnerOf[j]] \/ Drained(RunnerOf[j])')
        <3>1. CASE j = k
            BY <1>1, <2>5, <3>1, Zenon
        <3>2. CASE j # k
            <4>1. j \in Created /\ j \in Keys
                BY <2>2, <3>2, CreatedKeys, Zenon
            <4>2. RunnerOf[j] \in runners /\ (j \in states[RunnerOf[j]] \/ Drained(RunnerOf[j]))
                BY <4>1, Zenon DEF CreatedInv
            <4>3. RunnerOf[j] \in Runners
                BY <4>1, Kinds, Zenon
            <4>. QED
                BY <2>5, <4>2, <4>3, Zenon
        <3>. QED
            BY <3>1, <3>2, Zenon
    <2>. QED
        BY <2>4, <2>6, Zenon DEF CreatedInv
<1>. QED
    BY <1>5, <1>6, Zenon DEF Initialize, k

LEMMA CreatedStep ==
    TypesInv /\ LockInv /\ QueueInv /\ EndInv /\ CreatedInv /\ [Next]_vars => CreatedInv'
<1>. SUFFICES ASSUME PcOK, DataOK, LockInv, QueueInv, EndInv, CreatedInv, [Next]_vars
              PROVE  CreatedInv'
    BY Zenon DEF TypesInv
<1>a. Callers \subseteq Procs /\ Exiters \subseteq Procs /\ Runners \subseteq Procs
    BY Kinds, Zenon
<1>b. ASSUME NEW p \in Procs, pc[p] # "await" PROVE reply[p] = "none"
    BY <1>b, ReplyIs, Zenon
<1>c. ASSUME UNCHANGED <<queue, stopping>> PROVE \A r \in Runners : Drained(r) => Drained(r)'
    BY <1>c, Zenon DEF Drained
<1>d. queue \in [Runners -> Seq(Tasks)]
    BY Zenon DEF DataOK
<1>e. ASSUME UNCHANGED <<channels, want, reply>> PROVE Created' = Created
    BY <1>e, Zenon DEF Created
<1>. USE <1>a DEF registry, chan, exit, Goto
<1>1. ASSUME NEW p \in Callers, NEW k \in Keys, NEW g \in BOOLEAN, Call(p, k, g) PROVE CreatedInv'
  <2>1. /\ UNCHANGED <<channels, runners, states, queue, stopping, reply, inits>> /\ pc[p] = "idle"
        /\ \A q \in Procs \ {p} : want'[q] = want[q]
    BY <1>1, Zenon DEF Call, DataOK
  <2>2. Created' = Created
    BY <1>b, <2>1, CreatedSame, Zenon
  <2>. QED
    BY <1>c, <2>1, <2>2, CreatedKept, Zenon
<1>2. ASSUME NEW p \in Callers, NEW k \in Keys, NEW x \in Work, Submit(p, k, x) PROVE CreatedInv'
  <2>1. UNCHANGED <<channels, runners, states, stopping, want, reply, inits>>
    BY <1>2, Zenon DEF Submit
  <2>2. \A r \in Runners : queue'[r] = queue[r] \/ ~closed[r]
    BY <1>2, <1>d, Zenon DEF Submit
  <2>. QED
    BY <1>e, <2>1, <2>2, DrainedKept, CreatedKept, Zenon
<1>3. ASSUME NEW p \in Callers \cup Runners, Lookup(p) PROVE CreatedInv'
  <2>1. UNCHANGED <<channels, runners, states, queue, stopping, want, reply, inits>>
    BY <1>3, Zenon DEF Lookup
  <2>. QED
    BY <1>c, <1>e, <2>1, CreatedKept, Zenon
<1>4. ASSUME NEW p \in Callers \cup Runners, LookupMiss(p) PROVE CreatedInv'
  <2>1. UNCHANGED <<channels, runners, states, queue, stopping, want, reply, inits>>
    BY <1>4, Zenon DEF LookupMiss
  <2>. QED
    BY <1>c, <1>e, <2>1, CreatedKept, Zenon
<1>5. ASSUME NEW p \in Callers \cup Runners, TakeRunner(p) PROVE CreatedInv'
  <2>1. UNCHANGED <<channels, states, queue, stopping, want, reply, inits>>
    BY <1>5, Zenon DEF TakeRunner
  <2>2. runners \subseteq runners'
    BY <1>5, Zenon DEF TakeRunner
  <2>. QED
    BY <1>c, <1>e, <2>1, <2>2, CreatedKept, Zenon
<1>6. ASSUME NEW p \in Callers \cup Runners, SendInit(p) PROVE CreatedInv'
  <2>1. UNCHANGED <<channels, runners, states, stopping, want, reply, inits>>
    BY <1>6, Zenon DEF SendInit
  <2>2. \A r \in Runners : queue'[r] = queue[r] \/ ~closed[r]
    BY <1>6, <1>d, Zenon DEF SendInit
  <2>. QED
    BY <1>e, <2>1, <2>2, DrainedKept, CreatedKept, Zenon
<1>7. ASSUME NEW p \in Callers \cup Runners, SendInitClosed(p) PROVE CreatedInv'
  <2>1. UNCHANGED <<channels, runners, states, queue, stopping, want, reply, inits>>
    BY <1>7, Zenon DEF SendInitClosed
  <2>. QED
    BY <1>c, <1>e, <2>1, CreatedKept, Zenon
<1>8. ASSUME NEW p \in Callers \cup Runners, Finish(p) PROVE CreatedInv'
  <2>1. UNCHANGED <<runners, states, queue, stopping, want, inits>>
    BY <1>8, Zenon DEF Finish
  <2>2. /\ reply'[p] = "none" /\ \A q \in Procs \ {p} : reply'[q] = reply[q]
        /\ channels' = IF reply[p] = "ok" THEN channels \cup {want[p]} ELSE channels
    BY <1>8, Zenon DEF Finish, DataOK
  <2>3. ASSUME NEW k PROVE k \in Created' <=> k \in Created
    <3>1. k \in Created' <=> k \in channels' \/ \E q \in Procs : reply'[q] = "ok" /\ want[q] = k
        BY <2>1, Zenon DEF Created
    <3>2. k \in channels' <=> k \in channels \/ (reply[p] = "ok" /\ want[p] = k)
        BY <2>2, Zenon
    <3>3. \A q \in Procs : reply'[q] = "ok" <=> reply[q] = "ok" /\ q # p
        BY <2>2, Zenon
    <3>. QED
        BY <3>1, <3>2, <3>3, CreatedIs, Zenon
  <2>4. Created' = Created
    BY <2>3, Zenon
  <2>. QED
    BY <1>c, <2>1, <2>4, CreatedKept, Zenon
<1>9. ASSUME NEW r \in Runners, InitDirect(r) PROVE CreatedInv'
  <2>1. /\ UNCHANGED <<channels, runners, queue, stopping, want>> /\ pc[r] = "send"
        /\ RunnerOf[want[r]] = r
    BY <1>9, Zenon DEF InitDirect
  <2>2. CASE borrowed[r]
    <3>1. UNCHANGED <<states, reply, inits>>
        BY <1>9, <2>2, Zenon DEF InitDirect
    <3>. QED
        BY <1>c, <1>e, <2>1, <3>1, CreatedKept, Zenon
  <2>3. CASE ~borrowed[r]
    <3>1. Initialize(r, r) /\ reply[r] = "none"
        BY <1>9, <1>b, <2>1, <2>3, Zenon DEF InitDirect
    <3>. QED
        BY <1>c, <2>1, <3>1, CreatedInit, Zenon
  <2>. QED
    BY <2>2, <2>3, Zenon
<1>10. ASSUME NEW r \in Runners, RunInit(r) PROVE CreatedInv'
  <2>1. PICK p \in Procs : /\ pc[p] = "await" /\ reply[p] = "none" /\ RunnerOf[want[p]] = r
                           /\ Initialize(r, p)
    BY <1>10, HeadInit, Zenon
  <2>2. UNCHANGED <<channels, runners, stopping, want>>
    BY <1>10, Zenon DEF RunInit
  <2>3. \A s \in Runners : queue'[s] = queue[s] \/ queue[s] # <<>>
    BY <1>10, <1>d, Zenon DEF RunInit
  <2>4. \A s \in Runners : Drained(s) => Drained(s)'
    BY <2>2, <2>3, DrainedKept, Zenon
  <2>. QED
    BY <2>1, <2>2, <2>4, CreatedInit, Zenon
<1>11. ASSUME NEW r \in Runners, RunWork(r) PROVE CreatedInv'
  <2>. DEFINE x == Head(queue[r])
  <2>1. UNCHANGED <<channels, runners, states, stopping, reply, inits>> /\ pc[r] = "loop"
    BY <1>11, Zenon DEF RunWork
  <2>2. want' = want \/ want' = [want EXCEPT ![r] = x.nested]
    BY <1>11, Zenon DEF RunWork
  <2>3. \A s \in Runners : queue'[s] = queue[s] \/ queue[s] # <<>>
    BY <1>11, <1>d, Zenon DEF RunWork
  <2>. HIDE DEF x
  <2>4. \A q \in Procs \ {r} : want'[q] = want[q]
    BY <2>2, Zenon DEF DataOK
  <2>5. Created' = Created
    BY <1>b, <2>1, <2>4, CreatedSame, Zenon
  <2>. QED
    BY <2>1, <2>3, <2>5, DrainedKept, CreatedKept, Zenon
<1>12. ASSUME NEW r \in Runners, LeaveLoop(r) PROVE CreatedInv'
  <2>1. UNCHANGED <<channels, runners, states, queue, stopping, want, reply, inits>>
    BY <1>12, Zenon DEF LeaveLoop
  <2>. QED
    BY <1>c, <1>e, <2>1, CreatedKept, Zenon
<1>13. ASSUME NEW r \in Runners, NEW k \in Keys, Cleanup(r, k) PROVE CreatedInv'
  <2>1. /\ UNCHANGED <<channels, runners, states, queue, stopping, reply, inits>>
        /\ pc[r] = "services"
    BY <1>13, Zenon DEF Cleanup
  <2>2. want' = want \/ want' = [want EXCEPT ![r] = Downstream[k]]
    BY <1>13, Zenon DEF Cleanup
  <2>3. \A q \in Procs \ {r} : want'[q] = want[q]
    BY <2>2, Zenon DEF DataOK
  <2>4. Created' = Created
    BY <1>b, <2>1, <2>3, CreatedSame, Zenon
  <2>. QED
    BY <1>c, <2>1, <2>4, CreatedKept, Zenon
<1>14. ASSUME NEW r \in Runners, CleanupSubmit(r) PROVE CreatedInv'
  <2>1. UNCHANGED <<channels, runners, states, stopping, want, reply, inits>>
    BY <1>14, Zenon DEF CleanupSubmit
  <2>2. \A s \in Runners : queue'[s] = queue[s] \/ ~closed[s]
    BY <1>14, <1>d, Zenon DEF CleanupSubmit
  <2>. QED
    BY <1>e, <2>1, <2>2, DrainedKept, CreatedKept, Zenon
<1>15. ASSUME NEW r \in Runners, TakeStates(r) PROVE CreatedInv'
  <2>1. /\ UNCHANGED <<channels, runners, queue, stopping, want, reply, inits>>
        /\ pc[r] = "services"
        /\ \A s \in Runners \ {r} : states'[s] = states[s]
    BY <1>15, Zenon DEF TakeStates, DataOK
  <2>2. Drained(r)
    BY <2>1, Zenon DEF EndInv, EndAt, Leaving
  <2>. QED
    BY <1>c, <1>e, <2>1, <2>2, CreatedKept, Zenon
<1>16. ASSUME NEW r \in Runners, EndRunner(r) PROVE CreatedInv'
  <2>1. UNCHANGED <<channels, runners, states, queue, stopping, want, reply, inits>>
    BY <1>16, Zenon DEF EndRunner
  <2>. QED
    BY <1>c, <1>e, <2>1, CreatedKept, Zenon
<1>17. ASSUME NEW e \in Exiters, BeginExit(e) PROVE CreatedInv'
  <2>1. UNCHANGED <<channels, runners, states, queue, stopping, want, reply, inits>>
    BY <1>17, Zenon DEF BeginExit
  <2>. QED
    BY <1>c, <1>e, <2>1, CreatedKept, Zenon
<1>18. ASSUME NEW e \in Exiters, Collect(e) PROVE CreatedInv'
  <2>1. UNCHANGED <<channels, runners, states, queue, stopping, want, reply, inits>>
    BY <1>18, Zenon DEF Collect
  <2>. QED
    BY <1>c, <1>e, <2>1, CreatedKept, Zenon
<1>19. ASSUME NEW e \in Exiters, NEW r \in Runners, Close(e, r) PROVE CreatedInv'
  <2>1. UNCHANGED <<channels, runners, states, queue, stopping, want, reply, inits>>
    BY <1>19, Zenon DEF Close
  <2>. QED
    BY <1>c, <1>e, <2>1, CreatedKept, Zenon
<1>20. ASSUME NEW e \in Exiters, NEW r \in Runners, CloseAgain(e, r) PROVE CreatedInv'
  <2>1. UNCHANGED <<channels, runners, states, queue, stopping, want, reply, inits>>
    BY <1>20, Zenon DEF CloseAgain
  <2>. QED
    BY <1>c, <1>e, <2>1, CreatedKept, Zenon
<1>21. ASSUME NEW e \in Exiters, RoundOver(e) PROVE CreatedInv'
  <2>1. UNCHANGED <<channels, runners, states, queue, stopping, want, reply, inits>>
    BY <1>21, Zenon DEF RoundOver
  <2>. QED
    BY <1>c, <1>e, <2>1, CreatedKept, Zenon
<1>22. ASSUME NEW e \in Exiters, Stop(e) PROVE CreatedInv'
  <2>1. UNCHANGED <<channels, runners, states, queue, want, reply, inits>>
    BY <1>22, Zenon DEF Stop
  <2>2. \A r \in Runners : stopping[r] => stopping'[r]
    BY <1>22, Zenon DEF Stop, DataOK
  <2>. QED
    BY <1>e, <2>1, <2>2, DrainedKept, CreatedKept, Zenon
<1>23. ASSUME NEW e \in Exiters, Join(e) PROVE CreatedInv'
  <2>1. UNCHANGED <<channels, runners, states, queue, stopping, want, reply, inits>>
    BY <1>23, Zenon DEF Join
  <2>. QED
    BY <1>c, <1>e, <2>1, CreatedKept, Zenon
<1>24. CASE UNCHANGED vars
    BY <1>24, <1>c, <1>e, CreatedKept, Zenon DEF vars
<1>. QED
    BY <1>1, <1>2, <1>3, <1>4, <1>5, <1>6, <1>7, <1>8, <1>9, <1>10, <1>11, <1>12, <1>13,
       <1>14, <1>15, <1>16, <1>17, <1>18, <1>19, <1>20, <1>21, <1>22, <1>23, <1>24, Zenon
    DEF Next, CallStep, InitStep, RunnerStep, ExitStep

----------------------------------------------------------------------------
(* RegistryInv is an invariant *)

LEMMA RegistryInit == Init => RegistryInv
<1>. SUFFICES ASSUME Init PROVE RegistryInv
    OBVIOUS
<1>1. Callers \subseteq Procs /\ Exiters \subseteq Procs /\ Runners \subseteq Procs
    BY Kinds, Zenon
<1>2. \A p \in Procs : pc[p] \in {"absent", "idle"} /\ (p \in Runners <=> pc[p] = "absent")
    BY Zenon DEF Init
<1>3. PcOK
    <2>1. pc = [p \in Procs |-> IF p \in Runners THEN "absent" ELSE "idle"]
        BY Zenon DEF Init
    <2>2. pc \in [Procs -> Labels]
        BY <2>1, Zenon DEF Labels
    <2>. QED
        BY <1>1, <1>2, <2>2, Kinds, Zenon DEF PcOK, CallerLabels, ExiterLabels, RunnerLabels
<1>4. DataOK
    <2>1. <<>> \in Seq(Tasks) /\ 0 \in 0 .. MaxCalls /\ 0 \in Nat
        BY RegistryAssumption
    <2>2. queue \in [Runners -> Seq(Tasks)] /\ calls \in [Callers -> 0 .. MaxCalls]
          /\ inits \in [Keys -> Nat]
        BY <2>1, Zenon DEF Init
    <2>. QED
        BY <2>2, Zenon DEF Init, DataOK
<1>5. LockInv
    <2>1. \A p \in Procs : LockAt(p)
        <3>1. TAKE p \in Procs
        <3>2. /\ pc[p] \in {"absent", "idle"} /\ (p \in Runners <=> pc[p] = "absent")
              /\ lock = NoProc /\ p # NoProc /\ reply[p] = "none" /\ runners = {}
            BY <1>2, Kinds, Zenon DEF Init
        <3>. QED
            BY <3>2, Zenon DEF LockAt, Inside
    <2>. QED
        BY <2>1, Zenon DEF LockInv, Init
<1>6. \A r \in Runners : queue[r] = <<>>
    BY Zenon DEF Init
<1>7. QueueInv
    BY <1>6 DEF QueueInv
<1>8. CreatedInv
    <2>1. \A k : k \notin Created
        BY CreatedIs, Zenon DEF Init
    <2>. QED
        BY <2>1, Zenon DEF Init, CreatedInv
<1>9. EndInv
    <2>1. \A r \in Runners : EndAt(r)
        BY <1>1, <1>2, Zenon DEF Init, EndAt, Leaving
    <2>2. \A e \in Exiters : StopAt(e)
        BY <1>1, <1>2, Zenon DEF StopAt
    <2>. QED
        BY <2>1, <2>2, Zenon DEF EndInv
<1>. QED
    BY <1>3, <1>4, <1>5, <1>7, <1>8, <1>9, Zenon DEF RegistryInv, TypesInv

LEMMA RegistryStep == RegistryInv /\ [Next]_vars => RegistryInv'
    BY PcStep, DataStep, LockStep, QueueStep, EndStep, CreatedStep, Zenon
    DEF RegistryInv, TypesInv

\* Everything that is said of CHANNELS, of the queues and of the services holds whatever the
\* number of threads, runners and services is.
THEOREM RegistryInvariant == Spec => []RegistryInv
<1>1. Init => RegistryInv
    BY RegistryInit, Zenon
<1>2. RegistryInv /\ [Next]_vars => RegistryInv'
    BY RegistryStep, Zenon
<1>. QED
    BY <1>1, <1>2, PTL DEF Spec

\* The type invariant of the registry; CHANNELS is locked only by a thread inside init.
THEOREM RegistryTypes == Spec => []TypeOK
<1>1. ASSUME RegistryInv PROVE TypeOK
    <2>1. lock = NoProc \/ (lock \in Procs /\ pc[lock] \in {"runner", "send", "await"})
        BY <1>1, Zenon DEF RegistryInv, LockInv, LockAt, Inside
    <2>2. \A r \in Runners : \A i \in 1 .. Len(queue[r]) : queue[r][i] \in Tasks
        BY <1>1 DEF RegistryInv, TypesInv, DataOK
    <2>. QED
        BY <1>1, <2>1, <2>2, Zenon DEF RegistryInv, TypesInv, DataOK, PcOK, TypeOK, Tasks
<1>. QED
    BY <1>1, RegistryInvariant, PTL

\* S::init runs once for a service, however many threads ask for it at the same time.
THEOREM ServicesInitializedOnce == Spec => []InitializedOnce
<1>1. ASSUME RegistryInv PROVE InitializedOnce
    <2>1. \A k \in Keys : inits[k] \in {0, 1}
        BY <1>1, Zenon DEF RegistryInv, CreatedInv
    <2>. QED
        BY <2>1 DEF InitializedOnce
<1>. QED
    BY <1>1, RegistryInvariant, PTL

\* A handle that DeviceHandle::new returns leads to a runner that was started and that has the
\* service, until the runner is stopped and drained.
THEOREM HandlesBacked == Spec => []HandlesAreBacked
<1>1. ASSUME RegistryInv PROVE HandlesAreBacked
    <2>1. SUFFICES ASSUME NEW k \in channels
                   PROVE  /\ RunnerOf[k] \in runners /\ pc[RunnerOf[k]] # "absent"
                          /\ \/ k \in states[RunnerOf[k]]
                             \/ stopping[RunnerOf[k]] /\ queue[RunnerOf[k]] = <<>>
        BY Zenon DEF HandlesAreBacked
    <2>2. k \in Created /\ CreatedInv /\ LockInv /\ DataOK
        BY <1>1, CreatedIs, Zenon DEF RegistryInv, TypesInv
    <2>3. /\ RunnerOf[k] \in runners
          /\ k \in states[RunnerOf[k]] \/ Drained(RunnerOf[k])
        BY <2>2, Zenon DEF CreatedInv
    <2>4. RunnerOf[k] \in Runners /\ RunnerOf[k] \in Procs
        BY <2>2, Kinds, Zenon DEF DataOK
    <2>5. LockAt(RunnerOf[k])
        BY <2>2, <2>4, Zenon DEF LockInv
    <2>6. pc[RunnerOf[k]] # "absent"
        BY <2>3, <2>4, <2>5, Zenon DEF LockAt
    <2>. QED
        BY <2>3, <2>6, Zenon DEF Drained
<1>. QED
    BY <1>1, RegistryInvariant, PTL

----------------------------------------------------------------------------
(* shutdown_runners on one thread *)

\* A runner that is done stays done, and only exiting threads touch what is theirs.
LEMMA DoneStays ==
    ASSUME PcOK, DataOK, LockInv, QueueInv, [Next]_vars
    PROVE  \A r \in Runners : pc[r] = "done" => pc'[r] = "done"
<1>a. Callers \subseteq Procs /\ Exiters \subseteq Procs /\ Runners \subseteq Procs
    BY Kinds, Zenon
<1>b. (\A p \in Callers : p \notin Runners) /\ \A e \in Exiters : e \notin Runners
    BY Kinds, Zenon
<1>. DEFINE Stay == \A s \in Runners : pc[s] = "done" => pc'[s] = "done"
<1>. USE <1>a, <1>b DEF Goto
<1>1. ASSUME NEW p \in Callers, NEW k \in Keys, NEW g \in BOOLEAN, Call(p, k, g) PROVE Stay
    BY <1>1, Zenon DEF Call, PcOK
<1>2. ASSUME NEW p \in Callers, NEW k \in Keys, NEW x \in Work, Submit(p, k, x) PROVE Stay
    BY <1>2, Zenon DEF Submit, PcOK
<1>3. ASSUME NEW p \in Callers \cup Runners, Lookup(p) PROVE Stay
    BY <1>3, Zenon DEF Lookup, PcOK
<1>4. ASSUME NEW p \in Callers \cup Runners, LookupMiss(p) PROVE Stay
    BY <1>4, Zenon DEF LookupMiss, PcOK
<1>5. ASSUME NEW p \in Callers \cup Runners, TakeRunner(p) PROVE Stay
  <2>1. /\ pc[p] = "runner" /\ RunnerOf[want[p]] \in Runners
        /\ RunnerOf[want[p]] \notin runners => pc[RunnerOf[want[p]]] = "absent"
        /\ \A q \in Procs \ {p} : q # RunnerOf[want[p]] \/ RunnerOf[want[p]] \in runners =>
              pc'[q] = pc[q]
    BY <1>5, TakeEffect, Zenon
  <2>. QED
    BY <2>1, Zenon
<1>6. ASSUME NEW p \in Callers \cup Runners, SendInit(p) PROVE Stay
    BY <1>6, Zenon DEF SendInit, PcOK
<1>7. ASSUME NEW p \in Callers \cup Runners, SendInitClosed(p) PROVE Stay
    BY <1>7, Zenon DEF SendInitClosed, PcOK
<1>8. ASSUME NEW p \in Callers \cup Runners, Finish(p) PROVE Stay
    BY <1>8, Zenon DEF Finish, PcOK
<1>9. ASSUME NEW r \in Runners, InitDirect(r) PROVE Stay
    BY <1>9, Zenon DEF InitDirect, PcOK
<1>10. ASSUME NEW r \in Runners, RunInit(r) PROVE Stay
    BY <1>10, Zenon DEF RunInit, PcOK
<1>11. ASSUME NEW r \in Runners, RunWork(r) PROVE Stay
    BY <1>11, Zenon DEF RunWork, PcOK
<1>12. ASSUME NEW r \in Runners, LeaveLoop(r) PROVE Stay
    BY <1>12, Zenon DEF LeaveLoop, PcOK
<1>13. ASSUME NEW r \in Runners, NEW k \in Keys, Cleanup(r, k) PROVE Stay
    BY <1>13, Zenon DEF Cleanup, PcOK
<1>14. ASSUME NEW r \in Runners, CleanupSubmit(r) PROVE Stay
    BY <1>14, Zenon DEF CleanupSubmit, PcOK
<1>15. ASSUME NEW r \in Runners, TakeStates(r) PROVE Stay
    BY <1>15, Zenon DEF TakeStates, PcOK
<1>16. ASSUME NEW r \in Runners, EndRunner(r) PROVE Stay
    BY <1>16, Zenon DEF EndRunner, PcOK
<1>17. ASSUME NEW e \in Exiters, BeginExit(e) PROVE Stay
    BY <1>17, Zenon DEF BeginExit, PcOK
<1>18. ASSUME NEW e \in Exiters, Collect(e) PROVE Stay
    BY <1>18, Zenon DEF Collect, PcOK
<1>19. ASSUME NEW e \in Exiters, NEW r \in Runners, Close(e, r) PROVE Stay
    BY <1>19, Zenon DEF Close, PcOK
<1>20. ASSUME NEW e \in Exiters, NEW r \in Runners, CloseAgain(e, r) PROVE Stay
    BY <1>20, Zenon DEF CloseAgain, PcOK
<1>21. ASSUME NEW e \in Exiters, RoundOver(e) PROVE Stay
    BY <1>21, Zenon DEF RoundOver, PcOK
<1>22. ASSUME NEW e \in Exiters, Stop(e) PROVE Stay
    BY <1>22, Zenon DEF Stop, PcOK
<1>23. ASSUME NEW e \in Exiters, Join(e) PROVE Stay
    BY <1>23, Zenon DEF Join, PcOK
<1>24. CASE UNCHANGED vars
    BY <1>24, Zenon DEF vars
<1>. QED
    BY <1>1, <1>2, <1>3, <1>4, <1>5, <1>6, <1>7, <1>8, <1>9, <1>10, <1>11, <1>12, <1>13,
       <1>14, <1>15, <1>16, <1>17, <1>18, <1>19, <1>20, <1>21, <1>22, <1>23, <1>24, Zenon
    DEF Next, CallStep, InitStep, RunnerStep, ExitStep

\* A step of another thread, which starts a runner that shutdown_runners has to find at most while
\* it is at the upstream stage.
LEMMA ExitFrame ==
    ASSUME NEW e \in Exiters, ExitAt(e), DataOK,
           \A r \in Runners : pc[r] = "done" => pc'[r] = "done",
           pc'[e] = pc[e], clients'[e] = clients[e], target'[e] = target[e],
           stage'[e] = stage[e], closed' = closed, seen'[e] \subseteq runners',
           seen'[e] = seen[e] \/ stage[e] = "Upstream"
    PROVE  ExitAt(e)'
<1>1. seen[e] \subseteq Runners /\ Upstream \subseteq Runners
    BY RegistryAssumption, Zenon DEF DataOK
<1>2. /\ pc'[e] \in {"idle", "collect", "next", "returned"} =>
            \A r \in Runners : closed'[r] => pc'[r] = "done"
      /\ pc'[e] \in {"stop", "join"} =>
            \A r \in Runners \ {target'[e]} : closed'[r] => pc'[r] = "done"
    BY Zenon DEF ExitAt
<1>3. /\ pc'[e] = "idle" => stage'[e] = "Upstream"
      /\ pc'[e] \in {"next", "stop", "join"} => \A r \in clients'[e] : RunnerStage(r) = stage'[e]
      /\ stage'[e] = "Upstream" => \A r \in Runners \ Upstream : ~closed'[r]
    BY Zenon DEF ExitAt
<1>4. CASE stage[e] = "Upstream"
    <2>1. pc'[e] # "returned" /\ stage'[e] # "Downstream"
        BY <1>4, Zenon DEF ExitAt
    <2>. QED
        BY <1>2, <1>3, <2>1, Zenon DEF ExitAt
<1>5. CASE stage[e] # "Upstream"
    <2>1. seen'[e] = seen[e]
        BY <1>5, Zenon
    <2>2. pc'[e] = "returned" => stage'[e] = "Downstream" /\ \A r \in seen'[e] : pc'[r] = "done"
        BY <1>1, <2>1, Zenon DEF ExitAt
    <2>3. stage'[e] = "Downstream" => /\ \A r \in Upstream : closed'[r] => pc'[r] = "done"
                                      /\ \A r \in seen'[e] \cap Upstream : pc'[r] = "done"
        BY <1>1, <2>1, Zenon DEF ExitAt
    <2>. QED
        BY <1>2, <1>3, <2>2, <2>3, Zenon DEF ExitAt
<1>. QED
    BY <1>4, <1>5, Zenon

\* What the exiting thread does with the one runner it has closed.
LEMMA StageIs ==
    ASSUME NEW r
    PROVE  /\ RunnerStage(r) = "Upstream" <=> r \in Upstream
           /\ RunnerStage(r) = "Downstream" <=> r \notin Upstream
    BY Zenon DEF RunnerStage

\* The exiting thread goes on within a round, or unwinds.
LEMMA ExitGo ==
    ASSUME NEW e \in Exiters, ExitAt(e), DataOK,
           UNCHANGED <<runners, closed, stage, seen, target>>,
           \A s \in Runners : pc'[s] = pc[s], clients'[e] \subseteq clients[e],
           \/ pc[e] = "next" /\ pc'[e] \in {"next", "collect", "panicked"}
           \/ pc[e] = "stop" /\ pc'[e] = "join"
           \/ pc[e] = "join" /\ pc'[e] \in {"next", "panicked"},
           pc[e] = "join" /\ pc'[e] = "next" => pc[target[e]] = "done"
    PROVE  ExitAt(e)'
<1>1. seen[e] \subseteq Runners /\ Upstream \subseteq Runners
    BY RegistryAssumption, Zenon DEF DataOK
<1>2. /\ stage'[e] = "Upstream" => \A r \in Runners \ Upstream : ~closed'[r]
      /\ seen'[e] \subseteq runners'
    BY Zenon DEF ExitAt
<1>3. stage'[e] = "Downstream" => /\ \A r \in Upstream : closed'[r] => pc'[r] = "done"
                                  /\ \A r \in seen'[e] \cap Upstream : pc'[r] = "done"
    BY <1>1, Zenon DEF ExitAt
<1>4. \A r \in clients'[e] : RunnerStage(r) = stage'[e]
    BY Zenon DEF ExitAt
<1>5. ASSUME pc'[e] \in {"next", "collect"}
      PROVE  \A r \in Runners : closed'[r] => pc'[r] = "done"
    <2>1. CASE pc[e] = "next"
        BY <2>1, Zenon DEF ExitAt
    <2>2. CASE pc[e] = "join"
        BY <1>5, <2>2, Zenon DEF ExitAt
    <2>. QED
        BY <1>5, <2>1, <2>2, Zenon
<1>6. pc'[e] = "join" => \A r \in Runners \ {target'[e]} : closed'[r] => pc'[r] = "done"
    BY Zenon DEF ExitAt
<1>7. pc'[e] \in {"next", "collect", "join", "panicked"}
    BY Zenon
<1>. QED
    BY <1>2, <1>3, <1>4, <1>5, <1>6, <1>7, Zenon DEF ExitAt

LEMMA ExitInvStep == OneExiter /\ RegistryInv /\ ExitInv /\ [Next]_vars => ExitInv'
<1>. SUFFICES ASSUME OneExiter, RegistryInv, ExitInv, [Next]_vars PROVE ExitInv'
    OBVIOUS
<1>a. PcOK /\ DataOK /\ LockInv /\ QueueInv /\ EndInv
    BY Zenon DEF RegistryInv, TypesInv
<1>b. Callers \subseteq Procs /\ Exiters \subseteq Procs /\ Runners \subseteq Procs
    BY Kinds, Zenon
<1>c. /\ \A p \in Callers \cup Runners : p \notin Exiters
      /\ \A e \in Exiters : e \notin Runners
    BY Kinds, Zenon
<1>d. \A r \in Runners : pc[r] = "done" => pc'[r] = "done"
    BY <1>a, DoneStays, Zenon
<1>e. \A e \in Exiters : ExitAt(e) /\ seen[e] \subseteq runners
    BY Zenon DEF ExitInv, ExitAt
<1>f. ASSUME UNCHANGED <<runners, closed, clients, target, stage, seen>>,
             \A e \in Exiters : pc'[e] = pc[e]
      PROVE  ExitInv'
    <2>1. \A e \in Exiters : ExitAt(e)'
        BY <1>a, <1>d, <1>e, <1>f, ExitFrame, Zenon
    <2>. QED
        BY <1>f, <2>1, Zenon DEF ExitInv
<1>g. ASSUME NEW e \in Exiters, ExitAt(e)' PROVE ExitInv'
    BY <1>g, Zenon DEF OneExiter, ExitInv
<1>h. \A r \in Runners : stopping[r] => closed[r]
    BY <1>a, Zenon DEF EndInv, EndAt
<1>i. Upstream \subseteq Runners
    BY RegistryAssumption, Zenon
<1>. USE <1>a, <1>b DEF registry, chan, exit, Goto
<1>1. ASSUME NEW p \in Callers, NEW k \in Keys, NEW g \in BOOLEAN, Call(p, k, g) PROVE ExitInv'
    BY <1>1, <1>c, <1>f, Zenon DEF Call, PcOK
<1>2. ASSUME NEW p \in Callers, NEW k \in Keys, NEW x \in Work, Submit(p, k, x) PROVE ExitInv'
    BY <1>2, <1>c, <1>f, Zenon DEF Submit, PcOK
<1>3. ASSUME NEW p \in Callers \cup Runners, Lookup(p) PROVE ExitInv'
    BY <1>3, <1>c, <1>f, Zenon DEF Lookup, PcOK
<1>4. ASSUME NEW p \in Callers \cup Runners, LookupMiss(p) PROVE ExitInv'
    BY <1>4, <1>c, <1>f, Zenon DEF LookupMiss, PcOK
<1>5. ASSUME NEW p \in Callers \cup Runners, TakeRunner(p) PROVE ExitInv'
  <2>1. /\ UNCHANGED <<closed, clients, target, stage>> /\ pc[p] = "runner"
        /\ seen' = [e \in Exiters |-> IF p \in seen[e] \cap Upstream
                                      THEN seen[e] \cup {RunnerOf[want[p]]} ELSE seen[e]]
        /\ runners' = runners \cup {RunnerOf[want[p]]}
    BY <1>5, Zenon DEF TakeRunner
  <2>2. \A e \in Exiters : pc'[e] = pc[e]
    <3>1. /\ RunnerOf[want[p]] \in Runners
          /\ \A q \in Procs \ {p} : q # RunnerOf[want[p]] \/ RunnerOf[want[p]] \in runners =>
                pc'[q] = pc[q]
        BY <1>5, TakeEffect, Zenon
    <3>. QED
        BY <1>c, <3>1, Zenon
  <2>3. ASSUME NEW e \in Exiters PROVE ExitAt(e)'
    <3>1. seen'[e] = IF p \in seen[e] \cap Upstream THEN seen[e] \cup {RunnerOf[want[p]]}
                     ELSE seen[e]
        BY <2>1, Zenon
    <3>2. seen'[e] \subseteq runners'
        BY <1>e, <2>1, <3>1, Zenon
    <3>3. stage[e] \in {"Upstream", "Downstream"}
        BY Zenon DEF DataOK
    <3>4. seen'[e] = seen[e] \/ stage[e] = "Upstream"
        BY <1>e, <2>1, <3>1, <3>3, Zenon DEF ExitAt
    <3>5. /\ clients'[e] = clients[e] /\ target'[e] = target[e] /\ stage'[e] = stage[e]
          /\ closed' = closed
        BY <2>1, Zenon
    <3>. QED
        BY <1>d, <1>e, <2>2, <3>2, <3>4, <3>5, ExitFrame, Zenon
  <2>. QED
    BY <2>1, <2>3, Zenon DEF ExitInv
<1>6. ASSUME NEW p \in Callers \cup Runners, SendInit(p) PROVE ExitInv'
    BY <1>6, <1>c, <1>f, Zenon DEF SendInit, PcOK
<1>7. ASSUME NEW p \in Callers \cup Runners, SendInitClosed(p) PROVE ExitInv'
    BY <1>7, <1>c, <1>f, Zenon DEF SendInitClosed, PcOK
<1>8. ASSUME NEW p \in Callers \cup Runners, Finish(p) PROVE ExitInv'
    BY <1>8, <1>c, <1>f, Zenon DEF Finish, PcOK
<1>9. ASSUME NEW r \in Runners, InitDirect(r) PROVE ExitInv'
    BY <1>9, <1>c, <1>f, Zenon DEF InitDirect, PcOK
<1>10. ASSUME NEW r \in Runners, RunInit(r) PROVE ExitInv'
    BY <1>10, <1>c, <1>f, Zenon DEF RunInit, PcOK
<1>11. ASSUME NEW r \in Runners, RunWork(r) PROVE ExitInv'
    BY <1>11, <1>c, <1>f, Zenon DEF RunWork, PcOK
<1>12. ASSUME NEW r \in Runners, LeaveLoop(r) PROVE ExitInv'
    BY <1>12, <1>c, <1>f, Zenon DEF LeaveLoop, PcOK
<1>13. ASSUME NEW r \in Runners, NEW k \in Keys, Cleanup(r, k) PROVE ExitInv'
    BY <1>13, <1>c, <1>f, Zenon DEF Cleanup, PcOK
<1>14. ASSUME NEW r \in Runners, CleanupSubmit(r) PROVE ExitInv'
    BY <1>14, <1>c, <1>f, Zenon DEF CleanupSubmit, PcOK
<1>15. ASSUME NEW r \in Runners, TakeStates(r) PROVE ExitInv'
    BY <1>15, <1>c, <1>f, Zenon DEF TakeStates, PcOK
<1>16. ASSUME NEW r \in Runners, EndRunner(r) PROVE ExitInv'
    BY <1>16, <1>c, <1>f, Zenon DEF EndRunner, PcOK
<1>17. ASSUME NEW e \in Exiters, BeginExit(e) PROVE ExitInv'
  <2>1. /\ UNCHANGED <<runners, closed, clients, target, stage>> /\ pc[e] = "idle"
        /\ pc'[e] = "collect" /\ (\A r \in Runners : pc'[r] = pc[r]) /\ seen'[e] = runners
    BY <1>17, <1>c, Zenon DEF BeginExit, PcOK, DataOK
  <2>2. stage'[e] = "Upstream" /\ \A r \in Runners \ Upstream : ~closed'[r]
    BY <1>e, <2>1, Zenon DEF ExitAt
  <2>3. \A r \in Runners : closed'[r] => pc'[r] = "done"
    BY <1>e, <2>1, Zenon DEF ExitAt
  <2>4. ExitAt(e)'
    BY <2>1, <2>2, <2>3, Zenon DEF ExitAt
  <2>. QED
    BY <1>g, <2>4, Zenon
<1>18. ASSUME NEW e \in Exiters, Collect(e) PROVE ExitInv'
  <2>1. /\ UNCHANGED <<runners, closed, target, seen>> /\ pc[e] = "collect"
        /\ (\A r \in Runners : pc'[r] = pc[r]) /\ clients'[e] = Remaining(e)
        /\ pc'[e] = IF Remaining(e) # {} THEN "next"
                    ELSE IF stage[e] = "Upstream" THEN "collect" ELSE "returned"
        /\ stage'[e] = IF Remaining(e) = {} THEN "Downstream" ELSE stage[e]
    BY <1>18, <1>c, ZenonT(40) DEF Collect, PcOK, DataOK
  <2>2. \A r \in Runners : closed'[r] => pc'[r] = "done"
    BY <1>e, <2>1, ZenonT(40) DEF ExitAt
  <2>3. CASE Remaining(e) # {}
    <3>1. \A r \in Remaining(e) : RunnerStage(r) = stage[e]
        BY Zenon DEF Remaining
    <3>2. /\ pc'[e] = "next" /\ stage'[e] = stage[e]
          /\ \A r \in clients'[e] : RunnerStage(r) = stage'[e]
        BY <2>1, <2>3, <3>1, Zenon
    <3>3. stage'[e] = "Upstream" => \A r \in Runners \ Upstream : ~closed'[r]
        BY <1>e, <2>1, <3>2, ZenonT(40) DEF ExitAt
    <3>4. \A r \in seen[e] : r \in Runners
        BY Zenon DEF DataOK
    <3>5. stage'[e] = "Downstream" => \A r \in seen'[e] \cap Upstream : pc'[r] = "done"
        BY <1>e, <2>1, <3>2, <3>4, Zenon DEF ExitAt
    <3>. QED
        <4>1. ExitAt(e)'
            BY <1>e, <1>i, <2>1, <2>2, <3>2, <3>3, <3>5, Zenon DEF ExitAt
        <4>. QED
            BY <1>g, <4>1, Zenon
  <2>4. CASE Remaining(e) = {}
    <3>1. /\ stage'[e] = "Downstream"
          /\ pc'[e] = IF stage[e] = "Upstream" THEN "collect" ELSE "returned"
        BY <2>1, <2>4, Zenon
    <3>2. ASSUME NEW r \in seen[e], RunnerStage(r) = stage[e] PROVE pc'[r] = "done"
        <4>1. r \in runners /\ r \in Runners
            BY <1>e, Zenon DEF DataOK
        <4>2. stopping[r]
            BY <2>4, <3>2, <4>1, Zenon DEF Remaining
        <4>. QED
            BY <1>h, <2>1, <2>2, <4>1, <4>2, Zenon
    <3>3. CASE stage[e] = "Upstream"
        <4>1. \A r \in seen'[e] \cap Upstream : pc'[r] = "done"
            BY <2>1, <3>2, <3>3, StageIs, Zenon
        <4>2. ExitAt(e)'
            BY <1>e, <1>i, <2>1, <2>2, <3>1, <3>3, <4>1, Zenon DEF ExitAt
        <4>. QED
            BY <1>g, <4>2, Zenon
    <3>4. CASE stage[e] # "Upstream"
        <4>1. stage[e] = "Downstream"
            BY <3>4, Zenon DEF DataOK
        <4>2. \A r \in seen[e] : r \in Upstream => pc'[r] = "done"
            BY <1>e, <1>i, <2>1, <4>1, ZenonT(40) DEF ExitAt
        <4>3. \A r \in seen[e] : r \notin Upstream => pc'[r] = "done"
            BY <3>2, <4>1, StageIs, Zenon
        <4>4. \A r \in seen'[e] : pc'[r] = "done"
            BY <2>1, <4>2, <4>3, Zenon
        <4>5. ExitAt(e)'
            BY <1>e, <1>i, <2>1, <2>2, <3>1, <3>4, <4>4, Zenon DEF ExitAt
        <4>. QED
            BY <1>g, <4>5, Zenon
    <3>. QED
        BY <3>3, <3>4, Zenon
  <2>. QED
    BY <2>3, <2>4, Zenon
<1>19. ASSUME NEW e \in Exiters, NEW r \in Runners, Close(e, r) PROVE ExitInv'
  <2>1. /\ UNCHANGED <<runners, stage, seen>> /\ pc[e] = "next" /\ r \in clients[e]
        /\ pc'[e] = "stop" /\ target'[e] = r
        /\ (\A s \in Runners : pc'[s] = pc[s]) /\ clients'[e] \subseteq clients[e]
        /\ \A s \in Runners \ {r} : closed'[s] = closed[s]
    BY <1>19, <1>c, Zenon DEF Close, PcOK, DataOK
  <2>2. (r \in Upstream <=> stage[e] = "Upstream") /\ stage[e] \in {"Upstream", "Downstream"}
    <3>1. RunnerStage(r) = stage[e] /\ stage[e] \in {"Upstream", "Downstream"}
        BY <1>e, <2>1, ZenonT(40) DEF ExitAt, DataOK
    <3>. QED
        BY <3>1, StageIs, Zenon
  <2>3. \A s \in Runners \ {target'[e]} : closed'[s] => pc'[s] = "done"
    BY <1>e, <2>1, Zenon DEF ExitAt
  <2>4. \A s \in clients'[e] : RunnerStage(s) = stage'[e]
    BY <1>e, <2>1, Zenon DEF ExitAt
  <2>5. stage'[e] = "Upstream" => \A s \in Runners \ Upstream : ~closed'[s]
    BY <1>e, <2>1, <2>2, Zenon DEF ExitAt
  <2>6. ASSUME stage'[e] = "Downstream"
        PROVE  /\ \A s \in Upstream : closed'[s] => pc'[s] = "done"
               /\ \A s \in seen'[e] \cap Upstream : pc'[s] = "done"
    <3>1. stage[e] = "Downstream" /\ r \notin Upstream /\ seen'[e] = seen[e]
        BY <2>1, <2>2, <2>6, Zenon
    <3>2. \A s \in Upstream : closed'[s] => pc'[s] = "done"
        BY <1>i, <2>1, <2>3, <3>1, Zenon
    <3>3. \A s \in seen[e] \cap Upstream : pc'[s] = "done"
        BY <1>e, <1>i, <2>1, <3>1, ZenonT(40) DEF ExitAt
    <3>. QED
        BY <3>1, <3>2, <3>3, Zenon
  <2>7. seen'[e] \subseteq runners'
    BY <1>e, <2>1, Zenon
  <2>8. ExitAt(e)'
    BY <2>1, <2>3, <2>4, <2>5, <2>6, <2>7, Zenon DEF ExitAt
  <2>. QED
    BY <1>g, <2>8, Zenon
<1>20. ASSUME NEW e \in Exiters, NEW r \in Runners, CloseAgain(e, r) PROVE ExitInv'
  <2>1. /\ UNCHANGED <<runners, closed, stage, seen, target>> /\ pc[e] = "next"
        /\ pc'[e] \in {"next", "panicked"} /\ (\A s \in Runners : pc'[s] = pc[s])
        /\ clients'[e] \subseteq clients[e]
    BY <1>20, <1>c, ZenonT(40) DEF CloseAgain, PcOK, DataOK
  <2>2. ExitAt(e)'
    BY <1>e, <1>i, <2>1, ExitGo, Zenon
  <2>. QED
    BY <1>g, <2>2, Zenon
<1>21. ASSUME NEW e \in Exiters, RoundOver(e) PROVE ExitInv'
  <2>1. /\ UNCHANGED <<runners, closed, stage, seen, target>> /\ pc[e] = "next"
        /\ pc'[e] \in {"collect"} /\ (\A s \in Runners : pc'[s] = pc[s])
        /\ clients'[e] \subseteq clients[e]
    BY <1>21, <1>c, Zenon DEF RoundOver, PcOK, DataOK
  <2>2. ExitAt(e)'
    BY <1>e, <1>i, <2>1, ExitGo, Zenon
  <2>. QED
    BY <1>g, <2>2, Zenon
<1>22. ASSUME NEW e \in Exiters, Stop(e) PROVE ExitInv'
  <2>1. /\ UNCHANGED <<runners, closed, stage, seen, target>> /\ pc[e] = "stop"
        /\ pc'[e] \in {"join"} /\ (\A s \in Runners : pc'[s] = pc[s])
        /\ clients'[e] \subseteq clients[e]
    BY <1>22, <1>c, Zenon DEF Stop, PcOK, DataOK
  <2>2. ExitAt(e)'
    BY <1>e, <1>i, <2>1, ExitGo, Zenon
  <2>. QED
    BY <1>g, <2>2, Zenon
<1>23. ASSUME NEW e \in Exiters, Join(e) PROVE ExitInv'
  <2>1. /\ UNCHANGED <<runners, closed, stage, seen, target>> /\ pc[e] = "join"
        /\ pc'[e] \in {"next", "panicked"} /\ (\A s \in Runners : pc'[s] = pc[s])
        /\ clients' = clients /\ (pc'[e] = "next" => pc[target[e]] = "done")
    BY <1>23, <1>c, Zenon DEF Join, PcOK
  <2>2. ExitAt(e)'
    BY <1>e, <1>i, <2>1, ExitGo, Zenon
  <2>. QED
    BY <1>g, <2>2, Zenon
<1>24. CASE UNCHANGED vars
    BY <1>24, <1>f, Zenon DEF vars
<1>. QED
    BY <1>1, <1>2, <1>3, <1>4, <1>5, <1>6, <1>7, <1>8, <1>9, <1>10, <1>11, <1>12, <1>13,
       <1>14, <1>15, <1>16, <1>17, <1>18, <1>19, <1>20, <1>21, <1>22, <1>23, <1>24, Zenon
    DEF Next, CallStep, InitStep, RunnerStep, ExitStep

LEMMA ExitInvariant == OneExiter /\ Spec => [](RegistryInv /\ ExitInv)
<1>1. Init => RegistryInv /\ ExitInv
    <2>1. SUFFICES ASSUME Init PROVE ExitInv
        BY RegistryInit, Zenon
    <2>2. \A e \in Exiters : e \in Procs /\ e \notin Runners
        BY Kinds, Zenon
    <2>3. \A e \in Exiters : pc[e] = "idle" /\ stage[e] = "Upstream" /\ seen[e] = {}
        BY <2>1, <2>2, Zenon DEF Init
    <2>4. \A r \in Runners : ~closed[r]
        BY <2>1, Zenon DEF Init
    <2>. QED
        BY <2>3, <2>4, Zenon DEF ExitInv, ExitAt
<1>2. OneExiter /\ RegistryInv /\ ExitInv /\ [Next]_vars => (RegistryInv /\ ExitInv)'
    BY RegistryStep, ExitInvStep, Zenon
<1>3. CASE OneExiter
    BY <1>1, <1>2, <1>3, PTL DEF Spec
<1>4. CASE ~OneExiter
    BY <1>4, PTL
<1>. QED
    BY <1>3, <1>4, Zenon

\* When one thread runs shutdown_runners, it returns only after the runner threads it found, and
\* those that the upstream ones of these have started, have ended.
THEOREM ShutdownJoinsRunners == OneExiter /\ Spec => []RunnersJoined
<1>1. ASSUME ExitInv PROVE RunnersJoined
    BY <1>1, Zenon DEF ExitInv, ExitAt, RunnersJoined
<1>. QED
    BY <1>1, ExitInvariant, PTL

\* When one thread runs shutdown_runners, the downstream service that an upstream one submits to
\* while it shuts down, or is dropped, is open.
THEOREM DownstreamStaysAvailable == OneExiter /\ Spec => []DownstreamAvailable
<1>1. ASSUME RegistryInv, ExitInv PROVE DownstreamAvailable
    <2>1. SUFFICES ASSUME NEW r \in Runners, cleaning[r] # NoKey,
                          closed[RunnerOf[Downstream[cleaning[r]]]]
                   PROVE  FALSE
        BY Zenon DEF DownstreamAvailable
    <2>2. EndAt(r) /\ DataOK
        BY <1>1, Zenon DEF RegistryInv, EndInv, TypesInv
    <2>. DEFINE d == RunnerOf[Downstream[cleaning[r]]]
    <2>3. Downstream[cleaning[r]] \in Keys /\ want[r] = Downstream[cleaning[r]]
        <3>1. cleaning[r] \in Keys /\ Downstream[cleaning[r]] # NoKey
              /\ want[r] = Downstream[cleaning[r]]
            BY <2>1, <2>2, Zenon DEF EndAt, DataOK
        <3>2. Downstream[cleaning[r]] \in Keys \cup {NoKey}
            BY <3>1, RegistryAssumption, Zenon
        <3>. QED
            BY <3>1, <3>2, Zenon
    <2>4. r \in Upstream /\ d \notin Upstream /\ d \in Runners
        BY <2>1, <2>2, <2>3, CleansUpstream, Kinds, Zenon
    <2>5. closed[r] /\ pc[r] # "done"
        BY <2>1, <2>2, Zenon DEF EndAt, Leaving, Drained, Inside
    <2>6. PICK e \in Exiters : ExitAt(e)
        BY <1>1, <2>5, Zenon DEF ExitInv
    <2>7. stage[e] \in {"Upstream", "Downstream"}
        BY <2>2, Zenon DEF DataOK
    <2>8. CASE stage[e] = "Upstream"
        BY <2>1, <2>4, <2>6, <2>8, Zenon DEF ExitAt
    <2>9. CASE stage[e] = "Downstream"
        BY <2>4, <2>5, <2>6, <2>9, Zenon DEF ExitAt
    <2>. QED
        BY <2>7, <2>8, <2>9, Zenon
<1>. QED
    BY <1>1, ExitInvariant, PTL
=============================================================================
