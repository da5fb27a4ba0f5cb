-------------------------------- MODULE Plans --------------------------------
(***************************************************************************)
(* The plan of a scope (internal/plan/store.go) and the update_plan and    *)
(* read_plan tools.  An update replaces plan.json and then the two texts   *)
(* made from it, PLAN.md and TODO.md, each file at once; the process may   *)
(* die, or a write fail, between any two of them.  The store's mutex makes *)
(* an update or a read wait for the one before.                            *)
(***************************************************************************)
EXTENDS Integers, Sequences, FiniteSets

CONSTANTS
    OperationIds,
    Contents,       \* objectives with their steps
    MaxRevision     \* bound

VARIABLES
    plan,           \* plan.json
    texts,          \* of which plan PLAN.md and TODO.md are made
    work,           \* the call in progress, or what has become of the last
    written,        \* the plans that plan.json has been
    answers         \* the plans that calls have answered with

vars == <<plan, texts, work, written, answers>>

NoPlan == [rev |-> 0]
Plan(rev, op, content) == [rev |-> rev, op |-> op, content |-> content]

Free == work.step \in {"answered", "broken off"}
Project(current) == [step |-> "PLAN", plan |-> current]

-----------------------------------------------------------------------------
(* Update, up to its first text.  A call that is refused, as the revision  *)
(* is not the expected one or the last operation had other contents,       *)
(* changes nothing.                                                        *)

Same(op, content) == plan.rev > 0 /\ plan.op = op /\ plan.content = content

(* Mutant: a repeated operation is answered at once.                       *)
ReplayAtOnce(op, content) ==
    /\ Free /\ Same(op, content)
    /\ work' = [step |-> "answered", plan |-> plan]
    /\ answers' = answers \cup {plan}
    /\ UNCHANGED <<plan, texts, written>>

Replay(op, content) ==
    /\ Free /\ Same(op, content)
    /\ work' = Project(plan)
    /\ UNCHANGED <<plan, texts, written, answers>>

Update(op, content, expected) ==
    /\ Free
    /\ plan.rev > 0 => plan.op # op
    /\ expected = plan.rev
    /\ plan.rev < MaxRevision
    /\ plan' = Plan(plan.rev + 1, op, content)
    /\ written' = Append(written, plan')
    /\ work' = Project(plan')
    /\ UNCHANGED <<texts, answers>>

Get ==
    /\ Free /\ plan.rev > 0
    /\ work' = Project(plan)
    /\ UNCHANGED <<plan, texts, written, answers>>

(* repairProjections, and the answer after it.                             *)
WritePlanText ==
    /\ work.step = "PLAN"
    /\ texts' = [texts EXCEPT !.PLAN = work.plan]
    /\ work' = [work EXCEPT !.step = "TODO"]
    /\ UNCHANGED <<plan, written, answers>>

WriteTodoText ==
    /\ work.step = "TODO"
    /\ texts' = [texts EXCEPT !.TODO = work.plan]
    /\ work' = [work EXCEPT !.step = "answered"]
    /\ answers' = answers \cup {work.plan}
    /\ UNCHANGED <<plan, written>>

(* A crash, or a write that fails.                                         *)
BreakOff ==
    /\ ~Free
    /\ work' = [work EXCEPT !.step = "broken off"]
    /\ UNCHANGED <<plan, texts, written, answers>>

Init ==
    /\ plan = NoPlan
    /\ texts = [PLAN |-> NoPlan, TODO |-> NoPlan]
    /\ work = [step |-> "answered", plan |-> NoPlan]
    /\ written = <<>>
    /\ answers = {}

Next ==
    \/ \E op \in OperationIds, content \in Contents :
          \/ Replay(op, content)
          \/ \E expected \in 0..MaxRevision : Update(op, content, expected)
    \/ Get \/ WritePlanText \/ WriteTodoText \/ BreakOff

Spec == Init /\ [][Next]_vars

-----------------------------------------------------------------------------
Known == {NoPlan} \cup {Plan(rev, op, content) :
                           rev \in 1..MaxRevision, op \in OperationIds, content \in Contents}

(* Type correctness.                                                       *)
TypeOK ==
    /\ plan \in Known /\ texts \in [PLAN : Known, TODO : Known]
    /\ work \in [step : {"PLAN", "TODO", "answered", "broken off"}, plan : Known]
    /\ written \in Seq(Known) /\ answers \subseteq Known

(* Whatever was broken off before: once a call is answered, both texts     *)
(* show the plan, the plan is the one answered, and every plan that was    *)
(* ever answered has been the plan of its revision.                        *)
AnsweredPlansStand ==
    /\ work.step = "answered" => texts.PLAN = plan /\ texts.TODO = plan /\ work.plan = plan
    /\ \A answer \in answers : answer.rev \in DOMAIN written /\ written[answer.rev] = answer
=============================================================================
