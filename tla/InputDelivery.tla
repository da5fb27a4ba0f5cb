---------------------------- MODULE InputDelivery ----------------------------
(***************************************************************************)
(* What the queue of inputs promises (engine/input.go: claim, canonical    *)
(* history commit, acknowledgement): an input that was queued is taken     *)
(* into the history of its run once, and settled only after that.          *)
(***************************************************************************)
EXTENDS FiniteSets

CONSTANT Inputs

VARIABLE status         \* Inputs -> how far the input has come

Statuses == {"absent", "queued", "taken", "settled"}

Move(S, from, to) ==
    /\ S # {} /\ \A i \in S : status[i] = from
    /\ status' = [i \in Inputs |-> IF i \in S THEN to ELSE status[i]]

Queue(i) == Move({i}, "absent", "queued")
Take(S) == Move(S, "queued", "taken")
Settle(S) == Move(S, "taken", "settled")

Init == status = [i \in Inputs |-> "absent"]

Next ==
    \/ \E i \in Inputs : Queue(i)
    \/ \E S \in SUBSET Inputs : Take(S) \/ Settle(S)

Spec == Init /\ [][Next]_status
=============================================================================
