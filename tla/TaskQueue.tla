----------------------------- MODULE TaskQueue -----------------------------
(***************************************************************************)
(* What a device channel promises to the handles that share it: a queue    *)
(* that runs every accepted task once, in the order of acceptance, and     *)
(* that ends only after it was closed and has run everything it accepted.  *)
(***************************************************************************)
EXTENDS Naturals, Sequences

CONSTANT Task       \* closures that can be submitted

VARIABLES
    accepted,       \* tasks in the order they were accepted
    done,           \* tasks in the order they were run
    open,           \* may a task still be accepted?
    ended           \* has the runner left its loop?

vars == <<accepted, done, open, ended>>

Init == accepted = <<>> /\ done = <<>> /\ open = TRUE /\ ended = FALSE

Accept ==
    /\ open
    /\ \E x \in Task : accepted' = Append(accepted, x)
    /\ UNCHANGED <<done, open, ended>>

Run ==
    /\ ~ended /\ Len(done) < Len(accepted)
    /\ done' = Append(done, accepted[Len(done) + 1])
    /\ UNCHANGED <<accepted, open, ended>>

Close ==
    /\ open /\ open' = FALSE
    /\ UNCHANGED <<accepted, done, ended>>

End ==
    /\ ~open /\ ~ended /\ done = accepted
    /\ ended' = TRUE
    /\ UNCHANGED <<accepted, done, open>>

Next == Accept \/ Run \/ Close \/ End

Spec == Init /\ [][Next]_vars
=============================================================================
