------------------------- MODULE DeviceChannelInv --------------------------
(***************************************************************************)
(* The inductive invariant behind the safety properties of DeviceChannel,  *)
(* for runs in which available_index does not wrap around (~Wraps).        *)
(***************************************************************************)
EXTENDS DeviceChannel

SubmitLabels == {"reserve", "write", "publish", "wake", "release"}
Submitters == {t \in Clients \cup {Runner} : pc[t] \in SubmitLabels}

\* The runner is between the swap of the buffers and the last reset.
Resetting == pc[Runner] \in {"resetCount", "resetIndex"}

\* Slots a thread has reserved and not yet published.
Held(t) == IF Holding(t) THEN lo[t] .. hi[t] - 1 ELSE {}

\* Local facts about threads.
LocalInv ==
    /\ \A t \in Threads : op[t] = "enqueue" => t \in Clients
    /\ \A c \in Clients : pc[c] # "idle" => calls[c] >= 1
    /\ ready => pc[Runner] \in {"top", "resetCount", "resetIndex"}
    /\ Resetting => ready
    /\ wr[Runner] < MaxTask \/ pc[Runner] = "publish"
    /\ (Resetting \/ (~ready /\ ~Holding(Runner))) => wr[Runner] = 0

\* What the two counters count.
CountInv ==
    /\ submissions = Cardinality(Submitters)
    /\ enqueued = Cardinality(published)

\* A slot of the client buffer below available_index is either published or
\* held by one thread; this is what makes a full count mean a full buffer.
SlotInv ==
    /\ available <= MaxTask
    /\ \A i \in published : i < available
    /\ \A t \in Threads : Holding(t) =>
          /\ lo[t] < hi[t] /\ hi[t] <= available
          /\ lo[t] <= wr[t] /\ wr[t] <= hi[t]
          /\ pc[t] = "write" => wr[t] < hi[t]
          /\ pc[t] = "publish" => wr[t] = hi[t]
          /\ op[t] = "enqueue" => hi[t] = lo[t] + 1
    /\ \A t \in Threads : Held(t) \cap published = {}
    /\ \A t, u \in Threads : t # u => Held(t) \cap Held(u) = {}
    /\ pc[Runner] \in {"fetch", "resetCount"} => published = Slot
    /\ pc[Runner] = "resetIndex" =>
          /\ published = {} /\ available = MaxTask
          /\ \A t \in Threads : ~Holding(t)

\* What the slots of the two buffers hold.
BufferInv ==
    /\ ~ready => \A i \in Slot : slots[1 - queuePtr][i] = Stale
    /\ ready => \A i \in Slot :
          (slots[1 - queuePtr][i] = Stale) <=> (i < wr[Runner])
    /\ Resetting => \A i \in Slot : slots[queuePtr][i] = Stale
    /\ ~Resetting =>
          /\ \A i \in published : slots[queuePtr][i] # Stale
          /\ \A i \in Slot : i >= available => slots[queuePtr][i] = Stale
          /\ \A t \in Threads : \A i \in Held(t) :
                (slots[queuePtr][i] = Stale) <=> (i >= wr[t])

SafetyInv == ~Wraps /\ TypeOK /\ LocalInv /\ CountInv /\ SlotInv /\ BufferInv

=============================================================================
