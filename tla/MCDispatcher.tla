---------------------------- MODULE MCDispatcher ----------------------------
(* Instances of the dispatcher and its two stores for TLC.                 *)
EXTENDS Dispatcher, TLC

CONSTANTS e1, e2, t1, t2

MCAlone == <<e1>>
MCBoth == <<e1, e2>>
MCPeople == {"close", "revise", "judge", "manual", "age"}
MCDisturbances ==
    {{"cancel", "failure", "bare", "reject", "needs_human", "crash", "giveup", "close"},
     {"cancel", "reject", "needs_human"} \cup MCPeople,
     {"failure", "bare"} \cup MCPeople,
     {"lapse", "offline", "move"}}
MCNoParents == {[tid \in TaskIds |-> None]}
MCFamily == {[tid \in TaskIds |-> IF tid = t2 THEN t1 ELSE None]}

MCSymmetry ==
    Permutations(Computers) \cup Permutations(ConnLeases) \cup Permutations(Capabilities)
        \cup Permutations(CancelOps) \cup Permutations(Reviewers)
=============================================================================
