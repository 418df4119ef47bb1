------------------------- MODULE DeviceChannelQueue ------------------------
(***************************************************************************)
(* DeviceChannel implements TaskQueue: a task is accepted by the fetch_add *)
(* that reserves its slot, and the queue closes when a shutdown sees no    *)
(* submission in flight.                                                   *)
(***************************************************************************)
EXTENDS DeviceChannel

\* A shutdown is past its wait for the submissions in flight.
QueueClosed ==
    \/ stopping
    \/ \E k \in Closers : pc[k] \in {"reserve", "write", "publish", "wake", "stop"}

Queue == INSTANCE TaskQueue WITH
    accepted <- reserved,
    done     <- executed,
    open     <- ~QueueClosed,
    ended    <- pc[Runner] \in {"exit", "done", "panicked"}

\* Every step of the channel is a step of TaskQueue or leaves the queue alone:
\* enqueue accepts, execute_tasks runs the oldest task, shutdown closes, and
\* the runner loop is left only when everything accepted has run.
ImplementsTaskQueue == Queue!Spec
=============================================================================
