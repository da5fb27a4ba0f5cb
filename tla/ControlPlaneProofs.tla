-------------------------- MODULE ControlPlaneProofs --------------------------
(* Theorems about the control plane, for any values of its constants: what *)
(* its steps are to its parts, the plan of a run, approvals, the context   *)
(* window, and the file tools.  The theorems about the other parts rest on *)
(* this module.                                                            *)
EXTENDS ControlPlane, SequenceTheorems, FiniteSetTheorems, WellFoundedInduction, TLAPS

-----------------------------------------------------------------------------
(* A new element goes behind the others, which stay as they are.           *)
LEMMA Appended ==
  ASSUME NEW S, NEW s \in Seq(S), NEW e \in S
  PROVE  /\ Append(s, e) \in Seq(S) /\ Len(Append(s, e)) = Len(s) + 1
         /\ Append(s, e)[Len(s) + 1] = e
         /\ \A n \in DOMAIN s : n \in DOMAIN Append(s, e) /\ Append(s, e)[n] = s[n]
  BY AppendProperties, LenProperties

(* A sequence whose elements are replaced, each in its place.              *)
LEMMA Mapped ==
  ASSUME NEW S, NEW s \in Seq(S), NEW T, NEW t \in [DOMAIN s -> T]
  PROVE  t \in Seq(T) /\ DOMAIN t = DOMAIN s /\ Len(t) = Len(s)
  <1>1. DOMAIN s = 1..Len(s) /\ Len(s) \in Nat
    BY LenProperties
  <1>2. t \in Seq(T)
    BY <1>1, SeqDef
  <1> QED BY <1>1, <1>2, LenProperties

(* A step of the control plane is to each part a step of that part or      *)
(* leaves it alone: a theorem about the steps of a part is one about the   *)
(* control plane.                                                          *)
LEMMA StepsOfParts ==
  ASSUME [Next]_vars
  PROVE  /\ [Jobs!Next]_jobVars /\ [Approvals!Next]_approvalVars
         /\ [Attention!Next]_attentionVars /\ [Automation!Next]_automationVars
         /\ [Teams!TeamNext]_teamVars /\ [Daemon!Next]_daemonVars /\ [Chat!Next]_chatVars
         /\ [Window!Next]_windowVars /\ [Edits!Next]_editVars /\ [Plans!Next]_planVars
  <1> USE DEF JobsMove, ApprovalsMove, AttentionMoves, AutomationMoves, TeamMoves, DaemonMoves,
      ChatMoves, WindowMoves, FilesMove, PlanMoves, StoreMoves, Move, storeVars, peerVars, runVars
  <1>1. CASE UNCHANGED vars
    BY <1>1 DEF vars
  <1>2. CASE Next
    <2>1. [Jobs!Next]_jobVars
      BY <1>2 DEF Next
    <2>2. [Approvals!Next]_approvalVars
      BY <1>2 DEF Next
    <2>3. [Attention!Next]_attentionVars
      BY <1>2 DEF Next, Attention!Next
    <2>4. [Automation!Next]_automationVars
      BY <1>2 DEF Next
    <2>5. [Teams!TeamNext]_teamVars
      BY <1>2 DEF Next, Teams!TeamNext, Teams!Next, teamVars
    <2>6. [Daemon!Next]_daemonVars
      BY <1>2 DEF Next
    <2>7. [Chat!Next]_chatVars
      BY <1>2 DEF Next
    <2>8. [Window!Next]_windowVars
      BY <1>2 DEF Next
    <2>9. [Edits!Next]_editVars
      BY <1>2 DEF Next
    <2>10. [Plans!Next]_planVars
      BY <1>2 DEF Next
    <2> QED BY <2>1, <2>2, <2>3, <2>4, <2>5, <2>6, <2>7, <2>8, <2>9, <2>10
  <1> QED BY <1>1, <1>2

-----------------------------------------------------------------------------
(* The plan.  A call answers only with the plan it wrote or read, and this *)
(* is the plan of its revision: revisions are numbered by the plans        *)
(* written.  A call in progress works on the plan that is there, and has   *)
(* written the first text when it comes to the second.                     *)

PlanInv ==
    /\ Plans!TypeOK
    /\ Plans!AnsweredPlansStand
    /\ Len(written) = plan.rev
    /\ plan.rev > 0 => written[plan.rev] = plan
    /\ work.step # "broken off" => work.plan = plan
    /\ work.step = "TODO" => texts.PLAN = plan
    /\ work.step \in {"PLAN", "TODO"} => plan.rev > 0

(* Revisions are numbers.                                                  *)
LEMMA PlanRevisions == \A p \in Plans!Known : p.rev \in Nat
  <1>1. Plans!NoPlan.rev \in Nat
    BY DEF Plans!NoPlan
  <1>2. \A rev \in 1..MaxRevision, op \in OperationIds, content \in Contents :
           Plans!Plan(rev, op, content).rev \in Nat
    BY RevisionsAssumption DEF Plans!Plan
  <1> QED BY <1>1, <1>2 DEF Plans!Known

(* There is no plan at first.                                              *)
LEMMA PlanStarts == Init => PlanInv
  BY EmptySeq DEF Init, Plans!Init, PlanInv, Plans!TypeOK, Plans!AnsweredPlansStand, Plans!Known,
      Plans!NoPlan

(* Every step of a call keeps the invariant.                               *)
LEMMA PlanKept == PlanInv /\ [Plans!Next]_planVars => PlanInv'
  <1> SUFFICES ASSUME PlanInv, [Plans!Next]_planVars PROVE PlanInv'
    OBVIOUS
  <1>0. /\ plan \in Plans!Known /\ written \in Seq(Plans!Known) /\ answers \subseteq Plans!Known
        /\ work.plan \in Plans!Known /\ texts \in [PLAN : Plans!Known, TODO : Plans!Known]
        /\ work \in [step : {"PLAN", "TODO", "answered", "broken off"}, plan : Plans!Known]
    BY DEF PlanInv, Plans!TypeOK
  <1>1. plan.rev \in Nat
    BY <1>0, PlanRevisions
  <1>2. DOMAIN written = 1..plan.rev
    BY <1>0, LenProperties DEF PlanInv
  <1>3. CASE UNCHANGED planVars
    BY <1>3 DEF planVars, PlanInv, Plans!TypeOK, Plans!AnsweredPlansStand
  <1>4. ASSUME NEW op \in OperationIds, NEW content \in Contents, Plans!Replay(op, content)
        PROVE  PlanInv'
    BY <1>0, <1>4 DEF Plans!Replay, Plans!Same, Plans!Project, PlanInv, Plans!TypeOK,
        Plans!AnsweredPlansStand
  <1>5. ASSUME NEW op \in OperationIds, NEW content \in Contents, NEW expected \in 0..MaxRevision,
               Plans!Update(op, content, expected)
        PROVE  PlanInv'
    <2> DEFINE next == Plans!Plan(plan.rev + 1, op, content)
    <2>1. /\ plan' = next /\ written' = Append(written, next) /\ work' = Plans!Project(next)
          /\ UNCHANGED <<texts, answers>> /\ plan.rev < MaxRevision
      BY <1>5 DEF Plans!Update
    <2>2. plan.rev \in Nat /\ plan.rev + 1 \in 1..MaxRevision
      BY <1>1, <2>1, RevisionsAssumption
    <2>3. next.rev = plan.rev + 1 /\ next \in Plans!Known
      <3>1. next \in Plans!Known
        BY <2>2 DEF Plans!Known
      <3> QED BY <3>1 DEF Plans!Plan
    <2> HIDE DEF next
    <2>4. /\ written' \in Seq(Plans!Known) /\ Len(written') = plan.rev + 1
          /\ written'[plan.rev + 1] = next
          /\ \A n \in DOMAIN written : n \in DOMAIN written' /\ written'[n] = written[n]
      <3>1. written \in Seq(Plans!Known) /\ Len(written) = plan.rev /\ written' = Append(written, next)
        BY <1>0, <2>1 DEF PlanInv
      <3> QED BY <2>3, <3>1, Appended
    <2>5. work'.plan = next /\ work'.step = "PLAN"
      BY <2>1 DEF Plans!Project
    <2>6. Plans!TypeOK'
      BY <1>0, <2>1, <2>3, <2>4 DEF Plans!TypeOK, Plans!Project
    <2>7. Plans!AnsweredPlansStand'
      BY <2>1, <2>4, <2>5 DEF PlanInv, Plans!AnsweredPlansStand
    <2>8. plan' = next
      BY <2>1
    <2>9. Len(written') = plan'.rev
      BY <1>1, <2>3, <2>4, <2>8
    <2>10. plan'.rev > 0 => written'[plan'.rev] = plan'
      BY <1>1, <2>3, <2>4, <2>8
    <2>11. work'.step # "broken off" => work'.plan = plan'
      BY <2>5, <2>8
    <2>12. work'.step = "TODO" => texts'.PLAN = plan'
      BY <2>5, <2>8
    <2>13. work'.step \in {"PLAN", "TODO"} => plan'.rev > 0
      BY <1>1, <2>3, <2>8
    <2> QED BY <2>6, <2>7, <2>9, <2>10, <2>11, <2>12, <2>13 DEF PlanInv
  <1>6. CASE Plans!Get
    BY <1>0, <1>6 DEF Plans!Get, Plans!Project, PlanInv, Plans!TypeOK,
        Plans!AnsweredPlansStand
  <1>7. CASE Plans!WritePlanText
    BY <1>0, <1>7 DEF Plans!WritePlanText, PlanInv, Plans!TypeOK,
        Plans!AnsweredPlansStand
  <1>8. CASE Plans!WriteTodoText
    <2>1. /\ work'.step = "answered" /\ work'.plan = plan /\ texts'.PLAN = plan /\ texts'.TODO = plan
          /\ answers' = answers \cup {plan} /\ plan' = plan /\ written' = written
      BY <1>0, <1>8 DEF Plans!WriteTodoText, PlanInv
    <2>2. plan.rev \in DOMAIN written
      BY <1>1, <1>2, <1>8 DEF Plans!WriteTodoText, PlanInv
    <2>3. Plans!TypeOK'
      BY <1>0, <1>8 DEF Plans!WriteTodoText, Plans!TypeOK
    <2>4. Plans!AnsweredPlansStand'
      BY <1>8, <2>1, <2>2 DEF Plans!WriteTodoText, PlanInv, Plans!AnsweredPlansStand
    <2> QED BY <2>1, <2>3, <2>4 DEF PlanInv
  <1>9. CASE Plans!BreakOff
    BY <1>0, <1>9 DEF Plans!BreakOff, PlanInv, Plans!TypeOK, Plans!AnsweredPlansStand
  <1> QED BY <1>3, <1>4, <1>5, <1>6, <1>7, <1>8, <1>9 DEF Plans!Next

(* An answered call leaves plan.json and both texts at the same plan, and  *)
(* no plan was ever answered that was not written under its revision,      *)
(* whatever writes were broken off before.                                 *)
THEOREM PlansAreWhole == Spec => []PlansStand
  <1>1. PlanInv => PlansStand
    BY DEF PlanInv, PlansStand
  <1> QED BY <1>1, PlanStarts, StepsOfParts, PlanKept, PTL DEF Spec

-----------------------------------------------------------------------------
(* Approvals.  A record says what was decided, and one that is consumed is *)
(* the only one a call was ever granted from: before that nobody was       *)
(* granted the call, and since then at most one attempt was, which either  *)
(* waits or was carried out.                                               *)

Directives == [input : Calls \X Approvals!Decisions, claim : {<<0, 0>>}, ack : {0}]

ApprovalTypes ==
    /\ requests \in [Calls -> {"none", "pending", "approved", "rejected", "expired", "consumed"}]
    /\ granted \subseteq [by : Attempts, call : Calls]
    /\ deciding \subseteq [call : Calls, as : Approvals!Decisions]
    /\ decided \in [Calls -> {"none", "approved", "rejected"}]
    /\ executed \in [Calls -> {0, 1}]
    /\ directives \in Seq(Directives)

RecordsSayDecisions ==
    \A c \in Calls :
        /\ requests[c] \in {"approved", "consumed"} => decided[c] = "approved"
        /\ requests[c] = "rejected" => decided[c] = "rejected"
        /\ requests[c] \in {"none", "pending"} => decided[c] = "none"

GrantedOnce ==
    /\ \A g, h \in granted : g.call = h.call => g = h
    /\ \A g \in granted : requests[g.call] = "consumed" /\ executed[g.call] = 0
    /\ \A c \in Calls : executed[c] = 1 => requests[c] = "consumed"

ToldAsDecided ==
    /\ \A d \in deciding : decided[d.call] = d.as
    /\ \A k \in DOMAIN directives : directives[k].input[2] = decided[directives[k].input[1]]

ApprovalInv == ApprovalTypes /\ RecordsSayDecisions /\ GrantedOnce /\ ToldAsDecided

(* The module of approvals counts as every other.                          *)
LEMMA SizesAgree == ASSUME NEW S PROVE Approvals!Cardinality(S) = Cardinality(S)
  BY DEF Approvals!Cardinality, Cardinality, Approvals!IsFiniteSet, IsFiniteSet

(* Nothing was asked for at first.                                         *)
LEMMA ApprovalsStart == Init => ApprovalInv
  BY EmptySeq DEF Init, Approvals!Init, ApprovalInv, ApprovalTypes, RecordsSayDecisions,
      GrantedOnce, ToldAsDecided, Approvals!Decisions

(* Every request, decision, execution and crash keeps the invariant.       *)
LEMMA ApprovalsKept == ApprovalInv /\ [Approvals!Next]_approvalVars => ApprovalInv'
  <1> SUFFICES ASSUME ApprovalInv, [Approvals!Next]_approvalVars PROVE ApprovalInv'
    OBVIOUS
  <1> USE DEF ApprovalInv
  <1>1. CASE UNCHANGED approvalVars
    BY <1>1 DEF approvalVars, ApprovalTypes, RecordsSayDecisions, GrantedOnce, ToldAsDecided
  <1>2. ASSUME NEW a \in Attempts, NEW c \in Calls, Approvals!Request(a, c) PROVE ApprovalInv'
    <2>1. UNCHANGED <<deciding, directives, decided, executed>>
      BY <1>2 DEF Approvals!Request
    <2>2. \/ /\ requests[c] = "approved" /\ requests' = [requests EXCEPT ![c] = "consumed"]
             /\ granted' = granted \cup {[by |-> a, call |-> c]}
          \/ /\ requests[c] = "none" /\ requests' = [requests EXCEPT ![c] = "pending"]
             /\ granted' = granted
          \/ /\ requests[c] = "pending" /\ requests' = [requests EXCEPT ![c] = "expired"]
             /\ granted' = granted
          \/ requests' = requests /\ granted' = granted
      BY <1>2 DEF Approvals!Request, Approvals!Resolved, Approvals!Current, ApprovalTypes
    <2>3. ApprovalTypes'
      <3>1. requests' \in [Calls -> {"none", "pending", "approved", "rejected", "expired", "consumed"}]
        BY <2>2 DEF ApprovalTypes
      <3>2. granted' \subseteq [by : Attempts, call : Calls]
        BY <2>2 DEF ApprovalTypes
      <3> QED BY <2>1, <3>1, <3>2 DEF ApprovalTypes
    <2>4. RecordsSayDecisions'
      BY <2>1, <2>2 DEF ApprovalTypes, RecordsSayDecisions
    <2>5. GrantedOnce'
      BY <2>1, <2>2 DEF ApprovalTypes, GrantedOnce
    <2> QED BY <2>1, <2>3, <2>4, <2>5 DEF ToldAsDecided
  <1>3. ASSUME NEW g \in granted, Approvals!Execute(g) PROVE ApprovalInv'
    <2>1. /\ granted' = granted \ {g} /\ g.call \in Calls /\ executed[g.call] = 0
          /\ \/ executed' = [executed EXCEPT ![g.call] = 1]
             \/ executed' = executed
          /\ UNCHANGED <<requests, deciding, directives, decided>>
      BY <1>3 DEF Approvals!Execute, ApprovalTypes, GrantedOnce
    <2>2. ApprovalTypes'
      BY <2>1 DEF ApprovalTypes
    <2>3. GrantedOnce'
      BY <2>1 DEF ApprovalTypes, GrantedOnce
    <2> QED BY <2>1, <2>2, <2>3 DEF RecordsSayDecisions, ToldAsDecided
  <1>4. ASSUME NEW c \in Calls, NEW d \in Approvals!Decisions, Approvals!Decide(c, d)
        PROVE  ApprovalInv'
    <2>1. UNCHANGED <<granted, directives, executed>>
      BY <1>4 DEF Approvals!Decide
    <2>2. \/ /\ requests[c] = "pending" /\ requests' = [requests EXCEPT ![c] = d]
             /\ decided' = [decided EXCEPT ![c] = d]
             /\ deciding' = deciding \cup {[call |-> c, as |-> d]}
          \/ /\ requests[c] = "pending" /\ requests' = [requests EXCEPT ![c] = "expired"]
             /\ decided' = decided /\ deciding' = deciding
          \/ /\ requests[c] = d /\ requests' = requests /\ decided' = decided
             /\ deciding' = deciding \cup {[call |-> c, as |-> d]}
          \/ requests' = requests /\ decided' = decided /\ deciding' = deciding
      BY <1>4 DEF Approvals!Decide, Approvals!Decided, Approvals!Current, ApprovalTypes,
          Approvals!Decisions
    <2>3. ApprovalTypes'
      <3>1. requests' \in [Calls -> {"none", "pending", "approved", "rejected", "expired", "consumed"}]
        BY <2>2 DEF ApprovalTypes, Approvals!Decisions
      <3>2. decided' \in [Calls -> {"none", "approved", "rejected"}]
        BY <2>2 DEF ApprovalTypes, Approvals!Decisions
      <3>3. deciding' \subseteq [call : Calls, as : Approvals!Decisions]
        BY <2>2 DEF ApprovalTypes
      <3> QED BY <2>1, <3>1, <3>2, <3>3 DEF ApprovalTypes
    <2>4. RecordsSayDecisions'
      BY <2>1, <2>2 DEF ApprovalTypes, RecordsSayDecisions, Approvals!Decisions
    <2>5. GrantedOnce'
      BY <2>1, <2>2 DEF ApprovalTypes, GrantedOnce
    <2>6. \A e \in deciding' : decided'[e.call] = e.as
      BY <2>2 DEF ApprovalTypes, RecordsSayDecisions, ToldAsDecided, Approvals!Decisions
    <2>7. \A k \in DOMAIN directives : directives[k].input[2] = decided'[directives[k].input[1]]
      <3>1. \A k \in DOMAIN directives :
               /\ directives[k].input[1] \in Calls /\ directives[k].input[2] \in {"approved", "rejected"}
               /\ directives[k].input[2] = decided[directives[k].input[1]]
        <4>1. \A k \in DOMAIN directives : directives[k].input \in Calls \X Approvals!Decisions
          <5>1. \A k \in 1..Len(directives) : directives[k] \in Directives
            BY ElementOfSeq DEF ApprovalTypes
          <5>2. DOMAIN directives = 1..Len(directives)
            BY LenProperties DEF ApprovalTypes
          <5> QED BY <5>1, <5>2 DEF Directives
        <4> QED BY <4>1 DEF ToldAsDecided, Approvals!Decisions
      <3>2. requests[c] = "pending" => decided[c] = "none"
        BY DEF RecordsSayDecisions
      <3> QED BY <2>2, <3>1, <3>2 DEF ApprovalTypes
    <2> QED BY <2>1, <2>3, <2>4, <2>5, <2>6, <2>7 DEF ToldAsDecided
  <1>5. ASSUME NEW c \in Calls, Approvals!Expire(c) PROVE ApprovalInv'
    BY <1>5 DEF Approvals!Expire, ApprovalTypes, RecordsSayDecisions, GrantedOnce, ToldAsDecided
  <1>6. ASSUME NEW d \in deciding, Approvals!QueueDirective(d) PROVE ApprovalInv'
    <2> DEFINE item == [input |-> <<d.call, d.as>>, claim |-> <<0, 0>>, ack |-> 0]
    <2>1. /\ d.call \in Calls /\ d.as \in Approvals!Decisions /\ decided[d.call] = d.as
          /\ UNCHANGED <<requests, granted, decided, executed>>
          /\ deciding' = deciding \ {d}
      BY <1>6 DEF Approvals!QueueDirective, ApprovalTypes, ToldAsDecided
    <2>2. directives' = directives \/ directives' = Append(directives, item)
      BY <1>6 DEF Approvals!QueueDirective, Approvals!Enqueued, Approvals!Item, Approvals!NoClaim
    <2>3. item \in Directives /\ item.input[1] = d.call /\ item.input[2] = d.as
      BY <2>1 DEF Directives
    <2> HIDE DEF item
    <2>4. /\ directives' \in Seq(Directives)
          /\ \A k \in DOMAIN directives' :
                directives'[k] = item \/ (k \in DOMAIN directives /\ directives'[k] = directives[k])
      <3>1. directives \in Seq(Directives)
        BY DEF ApprovalTypes
      <3>2. CASE directives' = Append(directives, item)
        BY <2>3, <3>1, <3>2, AppendProperties, LenProperties
      <3> QED BY <2>2, <3>1, <3>2
    <2>5. \A k \in DOMAIN directives' : directives'[k].input[2] = decided[directives'[k].input[1]]
      BY <2>1, <2>3, <2>4 DEF ToldAsDecided
    <2>6. ApprovalTypes'
      BY <2>1, <2>4 DEF ApprovalTypes
    <2>7. ToldAsDecided'
      BY <2>1, <2>5 DEF ToldAsDecided
    <2> QED BY <2>1, <2>6, <2>7 DEF RecordsSayDecisions, GrantedOnce
  <1>7. CASE Approvals!Crash
    BY <1>7 DEF Approvals!Crash, ApprovalTypes, RecordsSayDecisions, GrantedOnce, ToldAsDecided
  <1> QED BY <1>1, <1>2, <1>3, <1>4, <1>5, <1>6, <1>7 DEF Approvals!Next

(* A call is carried out at most once, after a person approved it, and the *)
(* run is told the decision that counts, whatever requests race in a       *)
(* batch, are repeated or are cut off by a crash.                          *)
THEOREM ApprovalsAreSpent == Spec => []ApprovalsAreSpentOnce
  <1>1. ApprovalInv => ApprovalsAreSpentOnce
    <2> SUFFICES ASSUME ApprovalInv, NEW c \in Calls
                 PROVE  /\ executed[c] + Approvals!Cardinality({g \in granted : g.call = c}) <= 1
                        /\ executed[c] > 0 => decided[c] = "approved"
                        /\ \A k \in DOMAIN directives :
                              directives[k].input[1] = c => directives[k].input[2] = decided[c]
      BY DEF ApprovalsAreSpentOnce, Approvals!ApprovalsAreSpentOnce
    <2> DEFINE waiting == {g \in granted : g.call = c}
    <2>1. executed[c] \in {0, 1}
      BY DEF ApprovalInv, ApprovalTypes
    <2>2. executed[c] + Cardinality(waiting) <= 1
      <3>1. CASE waiting = {}
        <4>1. Cardinality(waiting) = 0
          BY <3>1, FS_EmptySet
        <4> QED BY <2>1, <4>1
      <3>2. CASE waiting # {}
        <4>1. PICK g \in granted : g.call = c
          BY <3>2
        <4>2. waiting = {g} /\ executed[c] = 0
          BY <4>1 DEF ApprovalInv, GrantedOnce
        <4>3. Cardinality(waiting) = 1
          BY <4>2, FS_Singleton
        <4> QED BY <4>2, <4>3
      <3> QED BY <3>1, <3>2
    <2> QED BY <2>2, SizesAgree DEF ApprovalInv, ApprovalTypes, RecordsSayDecisions, GrantedOnce, ToldAsDecided
  <1> QED BY <1>1, ApprovalsStart, StepsOfParts, ApprovalsKept, PTL DEF Spec
-----------------------------------------------------------------------------
(* The context window.  Every message the run has had is shown or archived *)
(* as it was; what a marker or a cut text names is an entry of the same    *)
(* message, and one archived before it when it is archived itself.  A      *)
(* result of a tool has its message before it with only results between,   *)
(* so that the tail of a trimmed window starts with the message that asked *)
(* for the results it begins with.                                         *)

Speakers == {"system", "user", "assistant", "tool"}
Bodies == [of : Nat, form : {"raw", "marker", "cut"}, size : Nat, ref : Nat]
Lines == [role : Speakers, calls : SUBSET Nat, body : Bodies]
Filings == [turn : Nat, index : Nat, body : Bodies]

(* What a text names is among the first n entries.                         *)
Leads(body, entries, n) ==
    body.form = "raw" \/ (body.ref \in 1..n /\ entries[body.ref].body.of = body.of)

(* The entries of the archive are of messages that were said, and lead to  *)
(* earlier ones.                                                           *)
Chained(entries, last) ==
    \A k \in 1..Len(entries) :
        entries[k].body.of \in 1..last /\ Leads(entries[k].body, entries, k - 1)

(* A shown line is of a message that was said, or of none.                 *)
Stems(line, entries, last) ==
    IF line.role = "system" THEN line.body.of = 0 /\ line.body.form = "raw"
    ELSE line.body.of \in 1..last /\ Leads(line.body, entries, Len(entries))

Recalled(n, lines, entries) ==
    \/ \E i \in 1..Len(lines) : lines[i].body.of = n /\ lines[i].body.form = "raw"
    \/ \E k \in 1..Len(entries) : entries[k].body.of = n /\ entries[k].body.form = "raw"

(* The message that asked for a result, with only results between.         *)
Asks(lines, k, i) ==
    /\ k \in 2..(i - 1) /\ lines[k].role = "assistant" /\ lines[i].calls \subseteq lines[k].calls
    /\ \A j \in (k + 1)..(i - 1) : lines[j].role = "tool"

Answered(lines, i) ==
    \A c \in lines[i].calls : \E k \in 1..Cardinality(lines[i].calls) :
        i + k \in 1..Len(lines) /\ lines[i + k].role = "tool" /\ lines[i + k].calls = {c}

Placed(lines, i) ==
    /\ lines[i].role = "tool" => lines[i].calls # {} /\ \E k \in Nat : Asks(lines, k, i)
    /\ lines[i].role = "assistant" => Answered(lines, i)

Whole(lines) ==
    /\ Len(lines) >= 1 /\ lines[1].role = "system"
    /\ \A i \in 1..Len(lines) : Placed(lines, i)

WindowTypes ==
    /\ window \in Seq(Lines) /\ archive \in Seq(Filings) /\ torn \in BOOLEAN
    /\ said \in Nat /\ turn \in 1..MaxTurns

Kept(lines, entries, last) ==
    /\ Chained(entries, last)
    /\ \A i \in 1..Len(lines) : Stems(lines[i], entries, last)
    /\ \A n \in 1..last : Recalled(n, lines, entries)

WindowInv == WindowTypes /\ Kept(window, archive, said) /\ Whole(window)

-----------------------------------------------------------------------------
(* The archive of a window.                                                *)

(* A set of numbers that is not empty has a least one.                     *)
LEMMA Least ==
  ASSUME NEW T, T \subseteq Nat, T # {}
  PROVE  \E n \in T : \A m \in T : n <= m
  <1> DEFINE R == {z \in Nat \X Nat : z[1] < z[2]}
  <1>1. OpToRel(<, Nat) = R
    BY DEF OpToRel
  <1>2. IsWellFoundedOn(R, Nat)
    BY <1>1, NatLessThanWellFounded
  <1> HIDE DEF R
  <1>3. PICK n \in T : \A m \in T : ~(<<m, n>> \in R)
    BY <1>2, WFMin
  <1>4. \A m \in T : n <= m
    <2> SUFFICES ASSUME NEW m \in T, ~(n <= m) PROVE FALSE
      OBVIOUS
    <2>1. m \in Nat /\ n \in Nat /\ m < n
      OBVIOUS
    <2>2. <<m, n>> \in R
      BY <2>1 DEF R
    <2> QED BY <1>3, <2>2
  <1> QED BY <1>4

(* The file after each message exists and is what the loop says.           *)
LEMMA FilesUnfold ==
  ASSUME NEW w, NEW len \in Nat, len = Len(w)
  PROVE  /\ Window!Files(w)[0] = archive
         /\ \A k \in 1..len : Window!Files(w)[k] = Window!Filed(Window!Files(w)[k - 1], w, k)
  <1> DEFINE Step(f, k) == IF k = 0 THEN archive ELSE Window!Filed(f[k - 1], w, k)
             Solves(f, n) == f = [k \in 0..n |-> Step(f, k)]
             T == {n \in Nat : n <= len /\ ~\E f : Solves(f, n)}
  <1>1. T = {}
    <2> SUFFICES ASSUME T # {} PROVE FALSE
      OBVIOUS
    <2>1. T \subseteq Nat
      OBVIOUS
    <2> HIDE DEF T
    <2>2. PICK n \in T : \A m \in T : n <= m
      BY <2>1, Least
    <2>3. n \in Nat /\ n <= len /\ ~\E f : Solves(f, n)
      BY DEF T
    <2>4. n # 0
      <3>1. SUFFICES ASSUME n = 0 PROVE Solves([k \in 0..0 |-> archive], n)
        BY <2>3
      <3> QED BY <3>1
    <2>5. n - 1 \in Nat /\ n - 1 <= len /\ n - 1 \notin T
      BY <2>2, <2>3, <2>4
    <2>6. PICK g : Solves(g, n - 1)
      BY <2>5 DEF T
    <2> DEFINE f == [k \in 0..n |-> IF k = n THEN Window!Filed(g[n - 1], w, n) ELSE g[k]]
    <2>7. \A k \in 0..n : f[k] = Step(f, k)
      <3> SUFFICES ASSUME NEW k \in 0..n PROVE f[k] = Step(f, k)
        OBVIOUS
      <3>1. CASE k = n
        <4>1. f[k - 1] = g[n - 1]
          BY <2>3, <2>4, <3>1
        <4> QED BY <2>4, <3>1, <4>1
      <3>2. CASE k # n
        <4>1. k \in 0..(n - 1) /\ f[k] = g[k]
          BY <2>3, <3>2
        <4>2. g[k] = Step(g, k)
          BY <2>6, <4>1
        <4>3. k # 0 => f[k - 1] = g[k - 1]
          BY <2>3, <4>1
        <4> QED BY <4>1, <4>2, <4>3
      <3> QED BY <3>1, <3>2
    <2>8. Solves(f, n)
      <3> HIDE DEF Step
      <3> QED BY <2>7
    <2> QED BY <2>3, <2>8
  <1>2. PICK g : Solves(g, len)
    BY <1>1
  <1>3. Solves(Window!Files(w), len)
    <2>1. Window!Files(w) = CHOOSE f : Solves(f, len)
      BY DEF Window!Files
    <2> HIDE DEF Solves
    <2> QED BY <1>2, <2>1
  <1>4. Window!Files(w) = [k \in 0..len |-> Step(Window!Files(w), k)]
    BY <1>3
  <1>5. \A k \in 0..len : Window!Files(w)[k] = Step(Window!Files(w), k)
    <2> HIDE DEF Step
    <2> QED BY <1>4
  <1> QED BY <1>5

(* The file has grown by entries of the first n lines, and has them all.   *)
Enlarged(new, old, lines, n) ==
    /\ new \in Seq(Filings) /\ Len(new) >= Len(old)
    /\ \A k \in 1..Len(old) : new[k] = old[k]
    /\ \A k \in 1..Len(new) : k <= Len(old) \/
          \E j \in 1..n : lines[j].role # "system" /\ new[k].body = lines[j].body

Filing(new, lines, n) ==
    \A j \in 1..n : lines[j].role # "system" =>
        \E k \in 1..Len(new) : new[k] = Window!Entry(lines, j)

Grown(new, old, lines, n) == Enlarged(new, old, lines, n) /\ Filing(new, lines, n)

(* Filing one more line of the window appends to the archive or leaves it. *)
LEMMA FiledGrows ==
  ASSUME NEW old \in Seq(Filings), NEW w \in Seq(Lines), turn \in Nat, NEW n \in 1..Len(w),
         NEW f, Grown(f, old, w, n - 1)
  PROVE  Grown(Window!Filed(f, w, n), old, w, n)
  <1> DEFINE e == Window!Entry(w, n)
  <1>1. f \in Seq(Filings) /\ Len(f) \in Nat /\ Len(old) \in Nat /\ n \in Nat /\ Len(w) \in Nat
    BY LenProperties DEF Grown, Enlarged, Filing
  <1>2. \A j \in 1..n : j \in 1..(n - 1) \/ j = n
    BY <1>1
  <1>3. CASE w[n].role = "system"
    <2>1. Window!Filed(f, w, n) = f
      BY <1>3 DEF Window!Filed
    <2> QED BY <1>1, <1>2, <1>3, <2>1 DEF Grown, Enlarged, Filing
  <1>4. CASE w[n].role # "system" /\ \E k \in 1..Len(f) : f[k] = e
    <2>1. Window!Filed(f, w, n) = f
      BY <1>4 DEF Window!Filed, Window!Contains
    <2> HIDE DEF e
    <2> QED BY <1>1, <1>2, <1>4, <2>1 DEF Grown, Enlarged, Filing, e
  <1>5. CASE w[n].role # "system" /\ ~\E k \in 1..Len(f) : f[k] = e
    <2>1. Window!Filed(f, w, n) = Append(f, e)
      BY <1>5 DEF Window!Filed, Window!Contains
    <2>2. w[n] \in Lines
      BY <1>1, ElementOfSeq
    <2>3. e \in Filings /\ e.body = w[n].body
      BY <1>1, <2>2 DEF Window!Entry, Filings, Lines
    <2> HIDE DEF e
    <2>4. PICK g : g = Append(f, e)
      OBVIOUS
    <2>5. /\ g \in Seq(Filings) /\ Len(g) = Len(f) + 1 /\ g[Len(f) + 1] = e
          /\ \A k \in 1..Len(f) : g[k] = f[k]
      BY <1>1, <2>3, <2>4, AppendProperties
    <2>6. \A k \in 1..Len(old) : g[k] = old[k]
      <3>1. \A k \in 1..Len(old) : k \in 1..Len(f) /\ f[k] = old[k]
        BY <1>1 DEF Grown, Enlarged
      <3> QED BY <2>5, <3>1
    <2>7. ASSUME NEW k \in 1..Len(g)
          PROVE  k <= Len(old) \/ \E j \in 1..n : w[j].role # "system" /\ g[k].body = w[j].body
      <3>1. CASE k = Len(f) + 1
        <4>1. g[k].body = w[n].body /\ n \in 1..n
          BY <1>1, <2>3, <2>5, <3>1
        <4> QED BY <1>5, <4>1
      <3>2. CASE k # Len(f) + 1
        <4>1. k \in 1..Len(f)
          BY <1>1, <2>5, <3>2
        <4>2. CASE k <= Len(old)
          BY <4>2
        <4>3. CASE ~(k <= Len(old))
          <5>1. PICK j \in 1..(n - 1) : w[j].role # "system" /\ f[k].body = w[j].body
            BY <4>1, <4>3 DEF Grown, Enlarged
          <5> QED BY <1>1, <2>5, <4>1, <5>1
        <4> QED BY <4>2, <4>3
      <3> QED BY <3>1, <3>2
    <2>8. ASSUME NEW j \in 1..n, w[j].role # "system"
          PROVE  \E k \in 1..Len(g) : g[k] = Window!Entry(w, j)
      <3>1. CASE j = n
        <4>1. Len(f) + 1 \in 1..Len(g)
          BY <1>1, <2>5
        <4> QED BY <2>5, <3>1, <4>1 DEF e
      <3>2. CASE j # n
        <4>1. PICK k \in 1..Len(f) : f[k] = Window!Entry(w, j)
          BY <1>2, <2>8, <3>2 DEF Grown, Enlarged, Filing
        <4>2. k \in 1..Len(g)
          BY <1>1, <2>5
        <4> QED BY <2>5, <4>1, <4>2
      <3> QED BY <3>1, <3>2
    <2>9. Len(g) >= Len(old)
      BY <1>1, <2>5 DEF Grown, Enlarged, Filing
    <2>10. Enlarged(g, old, w, n)
      BY <2>5, <2>6, <2>7, <2>9 DEF Enlarged
    <2>11. Filing(g, w, n)
      BY <2>8 DEF Filing
    <2> QED BY <2>1, <2>4, <2>10, <2>11 DEF Grown
  <1> QED BY <1>3, <1>4, <1>5

(* Filing a whole window only appends to the archive, and files every      *)
(* line.                                                                   *)
LEMMA ArchivedGrows ==
  ASSUME archive \in Seq(Filings), NEW w \in Seq(Lines), turn \in Nat
  PROVE  Grown(Window!Archived(w), archive, w, Len(w))
  <1> DEFINE T == {n \in Nat : n <= Len(w) /\ ~Grown(Window!Files(w)[n], archive, w, n)}
  <1>1. Len(w) \in Nat /\ Len(archive) \in Nat
    BY LenProperties
  <1>2. /\ Window!Files(w)[0] = archive
        /\ \A k \in 1..Len(w) : Window!Files(w)[k] = Window!Filed(Window!Files(w)[k - 1], w, k)
    BY <1>1, FilesUnfold
  <1>3. Grown(archive, archive, w, 0)
    BY <1>1 DEF Grown, Enlarged, Filing
  <1>4. T = {}
    <2> SUFFICES ASSUME T # {} PROVE FALSE
      OBVIOUS
    <2>1. T \subseteq Nat
      OBVIOUS
    <2> HIDE DEF T
    <2>2. PICK n \in T : \A m \in T : n <= m
      BY <2>1, Least
    <2>3. n \in Nat /\ n <= Len(w) /\ ~Grown(Window!Files(w)[n], archive, w, n)
      BY DEF T
    <2>4. n # 0
      BY <1>2, <1>3, <2>3
    <2>5. n - 1 \in Nat /\ n - 1 <= Len(w) /\ n - 1 \notin T /\ n \in 1..Len(w)
      BY <1>1, <2>2, <2>3, <2>4
    <2>6. Grown(Window!Files(w)[n - 1], archive, w, n - 1)
      BY <2>5 DEF T
    <2> QED BY <1>2, <2>3, <2>5, <2>6, FiledGrows
  <1>5. Grown(Window!Files(w)[Len(w)], archive, w, Len(w))
    BY <1>1, <1>4
  <1> QED BY <1>5 DEF Window!Archived

(* An archive that has grown leads on as it did, and what is shown or      *)
(* archived still is.                                                      *)
LEMMA EnlargedKeeps ==
  ASSUME NEW old \in Seq(Filings), NEW w \in Seq(Lines), NEW last \in Nat,
         Kept(w, old, last), NEW new, Enlarged(new, old, w, Len(w))
  PROVE  Kept(w, new, last)
  <1>1. /\ Len(new) \in Nat /\ Len(old) \in Nat /\ Len(old) <= Len(new) /\ Len(w) \in Nat
        /\ \A k \in 1..Len(old) : k \in 1..Len(new) /\ new[k] = old[k]
    BY LenProperties DEF Enlarged
  <1>2. ASSUME NEW body, NEW m \in Nat, NEW n \in Nat, Leads(body, old, m), m <= Len(old), m <= n
        PROVE  Leads(body, new, n)
    <2>1. CASE body.form = "raw"
      BY <2>1 DEF Leads
    <2>2. CASE body.ref \in 1..m /\ old[body.ref].body.of = body.of
      <3>1. body.ref \in 1..Len(old) /\ body.ref \in 1..n
        BY <1>1, <1>2, <2>2
      <3> QED BY <1>1, <2>2, <3>1 DEF Leads
    <2> QED BY <1>2, <2>1, <2>2 DEF Leads
  <1>3. ASSUME NEW i \in 1..Len(w) PROVE Stems(w[i], new, last)
    <2>1. Stems(w[i], old, last)
      BY DEF Kept
    <2> QED BY <1>1, <1>2, <2>1 DEF Stems
  <1>4. ASSUME NEW k \in 1..Len(new)
        PROVE  new[k].body.of \in 1..last /\ Leads(new[k].body, new, k - 1)
    <2>1. CASE k <= Len(old)
      <3>1. k \in 1..Len(old) /\ k - 1 \in Nat /\ k - 1 <= Len(old) /\ new[k] = old[k]
        BY <1>1, <2>1
      <3>2. old[k].body.of \in 1..last /\ Leads(old[k].body, old, k - 1)
        BY <3>1 DEF Kept, Chained
      <3> QED BY <1>2, <3>1, <3>2
    <2>2. CASE ~(k <= Len(old))
      <3>1. PICK j \in 1..Len(w) : w[j].role # "system" /\ new[k].body = w[j].body
        BY <2>2 DEF Enlarged
      <3>2. w[j].body.of \in 1..last /\ Leads(w[j].body, old, Len(old))
        BY <3>1 DEF Kept, Stems
      <3>3. k - 1 \in Nat /\ Len(old) <= k - 1
        BY <1>1, <2>2
      <3> QED BY <1>1, <1>2, <3>1, <3>2, <3>3
    <2> QED BY <2>1, <2>2
  <1>5. ASSUME NEW n \in 1..last PROVE Recalled(n, w, new)
    <2>1. Recalled(n, w, old)
      BY DEF Kept
    <2> QED BY <1>1, <2>1 DEF Recalled
  <1>6. Chained(new, last)
    BY <1>4 DEF Chained
  <1> QED BY <1>3, <1>5, <1>6 DEF Kept

(* What was written before the process died is a part of the growth.       *)
LEMMA CutEnlarges ==
  ASSUME NEW old \in Seq(Filings), NEW w \in Seq(Lines), NEW new, Enlarged(new, old, w, Len(w)),
         NEW k \in Len(old)..Len(new)
  PROVE  Enlarged(SubSeq(new, 1, k), old, w, Len(w))
  <1>1. new \in Seq(Filings) /\ Len(new) \in Nat /\ Len(old) \in Nat /\ k \in Nat
    BY LenProperties DEF Enlarged
  <1>2. PICK g : g = SubSeq(new, 1, k)
    OBVIOUS
  <1>3. g \in Seq(Filings) /\ Len(g) = k /\ \A i \in 1..k : g[i] = new[i]
    <2>1. \A i \in 1..k : i \in 1..Len(new)
      BY <1>1
    <2>2. \A i \in 1..k : new[i] \in Filings
      BY <1>1, <2>1, ElementOfSeq
    <2>3. PICK one \in Nat : one = 1
      OBVIOUS
    <2>4. \A i \in one..k : new[i] \in Filings
      BY <2>2, <2>3
    <2>5. /\ SubSeq(new, one, k) \in Seq(Filings)
          /\ Len(SubSeq(new, one, k)) = IF one <= k THEN k - one + 1 ELSE 0
          /\ \A i \in 1..(k - one + 1) : SubSeq(new, one, k)[i] = new[one + i - 1]
      BY <1>1, <2>3, <2>4, SubSeqProperties
    <2> QED BY <1>1, <1>2, <2>3, <2>5
  <1>4. \A i \in 1..Len(old) : i \in 1..k /\ g[i] = new[i] /\ new[i] = old[i]
    BY <1>1, <1>3 DEF Enlarged
  <1>5. ASSUME NEW i \in 1..Len(g)
        PROVE  i <= Len(old) \/ \E j \in 1..Len(w) : w[j].role # "system" /\ g[i].body = w[j].body
    <2>1. i \in 1..Len(new) /\ g[i] = new[i]
      BY <1>1, <1>3
    <2> QED BY <2>1 DEF Enlarged
  <1> QED BY <1>1, <1>2, <1>3, <1>4, <1>5 DEF Enlarged

(* Once the window is archived, the archive alone has every message.       *)
LEMMA AllFiled ==
  ASSUME NEW old \in Seq(Filings), NEW w \in Seq(Lines), NEW last \in Nat,
         Kept(w, old, last), NEW new, Grown(new, old, w, Len(w)), NEW n \in 1..last
  PROVE  \E k \in 1..Len(new) : new[k].body.of = n /\ new[k].body.form = "raw"
  <1>1. /\ Len(new) \in Nat /\ Len(old) \in Nat
        /\ \A k \in 1..Len(old) : k \in 1..Len(new) /\ new[k] = old[k]
    BY LenProperties DEF Grown, Enlarged
  <1>2. Recalled(n, w, old)
    BY DEF Kept
  <1>3. CASE \E k \in 1..Len(old) : old[k].body.of = n /\ old[k].body.form = "raw"
    BY <1>1, <1>3
  <1>4. CASE \E i \in 1..Len(w) : w[i].body.of = n /\ w[i].body.form = "raw"
    <2>1. PICK i \in 1..Len(w) : w[i].body.of = n /\ w[i].body.form = "raw"
      BY <1>4
    <2>2. Stems(w[i], old, last) /\ n # 0
      BY DEF Kept
    <2>3. w[i].role # "system"
      BY <2>1, <2>2 DEF Stems
    <2>4. PICK k \in 1..Len(new) : new[k] = Window!Entry(w, i)
      BY <2>3 DEF Grown, Filing
    <2> QED BY <2>1, <2>4 DEF Window!Entry
  <1> QED BY <1>2, <1>3, <1>4 DEF Recalled

-----------------------------------------------------------------------------
(* The compaction of a window.                                             *)

(* A line that stays, or that names the entry of its message instead of    *)
(* what it said.                                                           *)
Named(body, line, entries) ==
    \/ body = line.body
    \/ /\ line.role # "system" /\ body.of = line.body.of
       /\ body.ref \in 1..Len(entries) /\ entries[body.ref].body.of = line.body.of

Redone(new, line, entries) ==
    new.role = line.role /\ new.calls = line.calls /\ Named(new.body, line, entries)

Rewritten(new, lines, entries) ==
    /\ new \in Seq(Lines) /\ Len(new) = Len(lines)
    /\ \A i \in 1..Len(lines) : Redone(new[i], lines[i], entries)

(* The new bodies of some lines, each in its place.                        *)
Bodied(w, b) == [i \in DOMAIN w |-> [w[i] EXCEPT !.body = b[i]]]

Wears(v, w, b) ==
    /\ v \in Seq(Lines) /\ Len(v) = Len(w)
    /\ \A i \in 1..Len(w) : v[i].role = w[i].role /\ v[i].calls = w[i].calls /\ v[i].body = b[i]

(* A window whose lines get new bodies keeps its lines otherwise.          *)
LEMMA BodiesReplaced ==
  ASSUME NEW w \in Seq(Lines), NEW b \in [1..Len(w) -> Bodies],
         NEW v, v = SubSeq(Bodied(w, b), 1, Len(w))
  PROVE  Wears(v, w, b)
  <1> DEFINE new == Bodied(w, b)
  <1>1. DOMAIN w = 1..Len(w) /\ Len(w) \in Nat
    BY LenProperties
  <1>2. ASSUME NEW i \in 1..Len(w)
        PROVE  /\ new[i] \in Lines /\ new[i].role = w[i].role /\ new[i].calls = w[i].calls
               /\ new[i].body = b[i]
    <2>1. w[i] \in Lines /\ b[i] \in Bodies
      BY <1>1, ElementOfSeq
    <2>2. new[i] = [w[i] EXCEPT !.body = b[i]]
      BY <1>1 DEF Bodied
    <2> HIDE DEF new
    <2> QED BY <2>1, <2>2 DEF Lines
  <1>3. new \in [DOMAIN w -> Lines]
    <2>1. \A i \in DOMAIN w : new[i] \in Lines
      BY <1>1, <1>2
    <2>2. new = [i \in DOMAIN w |-> new[i]]
      BY DEF Bodied
    <2> HIDE DEF new
    <2> QED BY <2>1, <2>2
  <1>4. v = SubSeq(new, 1, Len(w))
    OBVIOUS
  <1> HIDE DEF new
  <1>5. new \in Seq(Lines) /\ Len(new) = Len(w)
    BY <1>3, Mapped
  <1>6. v = new
    BY <1>4, <1>5, SubSeqFull
  <1> QED BY <1>2, <1>5, <1>6 DEF Wears

(* Bodies that stay, or that name the entry of their message.              *)
LEMMA BodiesRewritten ==
  ASSUME NEW w \in Seq(Lines), NEW entries, NEW b \in [1..Len(w) -> Bodies],
         NEW v, v = SubSeq(Bodied(w, b), 1, Len(w)),
         \A i \in 1..Len(w) : Named(b[i], w[i], entries)
  PROVE  Rewritten(v, w, entries)
  <1>1. Wears(v, w, b)
    BY BodiesReplaced
  <1>2. ASSUME NEW i \in 1..Len(w) PROVE Redone(v[i], w[i], entries)
    BY <1>1 DEF Redone, Wears
  <1> QED BY <1>1, <1>2 DEF Rewritten, Wears

(* The reference of a line that is filed is that of its own entry.         *)
LEMMA ReferenceIs ==
  ASSUME NEW entries \in Seq(Filings), NEW w \in Seq(Lines), Filing(entries, w, Len(w)),
         NEW i \in 1..Len(w), w[i].role # "system"
  PROVE  /\ Window!Reference(entries, w, i) \in 1..Len(entries)
         /\ entries[Window!Reference(entries, w, i)].body = w[i].body
  <1>1. DOMAIN entries = 1..Len(entries)
    BY LenProperties
  <1>2. \E k \in DOMAIN entries : entries[k] = Window!Entry(w, i)
    BY <1>1 DEF Filing
  <1>3. /\ Window!Reference(entries, w, i) \in DOMAIN entries
        /\ entries[Window!Reference(entries, w, i)] = Window!Entry(w, i)
    BY <1>2 DEF Window!Reference
  <1> QED BY <1>1, <1>3 DEF Window!Entry

(* A marker or a cut text stands for a body in place of its text.          *)
LEMMA Renamed ==
  ASSUME NEW body \in Bodies, NEW ref \in Nat
  PROVE  /\ Window!Marker(body, ref) \in Bodies /\ Window!Cut(body, ref) \in Bodies
         /\ Window!Marker(body, ref).of = body.of /\ Window!Cut(body, ref).of = body.of
         /\ Window!Marker(body, ref).ref = ref /\ Window!Cut(body, ref).ref = ref
  <1>1. Window!Marker(body, ref) \in Bodies /\ Window!Cut(body, ref) \in Bodies
    BY TextsAssumption DEF Window!Marker, Window!Cut, Bodies
  <1>2. Window!Marker(body, ref).of = body.of /\ Window!Cut(body, ref).of = body.of
    BY DEF Window!Marker, Window!Cut, Bodies
  <1>3. Window!Marker(body, ref).ref = ref /\ Window!Cut(body, ref).ref = ref
    BY DEF Window!Marker, Window!Cut, Bodies
  <1> QED BY <1>1, <1>2, <1>3

(* A body that stays, a marker or a cut text with the reference.           *)
LEMMA NamesEntry ==
  ASSUME NEW entries \in Seq(Filings), NEW w \in Seq(Lines), Filing(entries, w, Len(w)),
         NEW i \in 1..Len(w), NEW body \in Bodies, body.of = w[i].body.of, NEW new,
         \/ new = Window!Marker(body, Window!Reference(entries, w, i))
         \/ new = Window!Cut(body, Window!Reference(entries, w, i)),
         w[i].role # "system"
  PROVE  new \in Bodies /\ Named(new, w[i], entries)
  <1>1. PICK ref : ref = Window!Reference(entries, w, i)
    OBVIOUS
  <1>2. ref \in 1..Len(entries) /\ entries[ref].body = w[i].body
    BY <1>1, ReferenceIs
  <1>3. ref \in Nat
    BY <1>2, LenProperties
  <1>4. new \in Bodies /\ new.of = body.of /\ new.ref = ref
    <2>1. CASE new = Window!Marker(body, ref)
      BY <1>3, <2>1, Renamed
    <2>2. CASE new = Window!Cut(body, ref)
      BY <1>3, <2>2, Renamed
    <2> QED BY <1>1, <2>1, <2>2
  <1> QED BY <1>2, <1>4 DEF Named

(* Masking old observations rewrites bodies to what the archive holds.     *)
LEMMA MaskedIs ==
  ASSUME NEW entries \in Seq(Filings), NEW w \in Seq(Lines), Filing(entries, w, Len(w))
  PROVE  Rewritten(Window!Masked(w, entries), w, entries)
  <1> DEFINE R(i) ==
         LET m == w[i] ref == Window!Reference(entries, w, i) IN
         IF Window!Old(w, i) /\ m.role = "tool" /\ m.body.form # "marker"
         THEN Window!Marker(m.body, ref)
         ELSE IF Window!Old(w, i) /\ m.role = "assistant" /\ m.body.size > Long
         THEN Window!Marker(m.body, ref)
         ELSE IF ~Window!Old(w, i) /\ m.role = "tool" /\ m.body.size > MaxTool
         THEN Window!Cut(m.body, ref)
         ELSE m.body
             b == [i \in 1..Len(w) |-> R(i)]
  <1>1. ASSUME NEW i \in 1..Len(w)
        PROVE  R(i) \in Bodies /\ Named(R(i), w[i], entries)
    <2>1. w[i] \in Lines
      BY ElementOfSeq
    <2>2. w[i].body \in Bodies
      BY <2>1 DEF Lines
    <2>3. \/ R(i) = w[i].body
          \/ /\ w[i].role # "system"
             /\ \/ R(i) = Window!Marker(w[i].body, Window!Reference(entries, w, i))
                \/ R(i) = Window!Cut(w[i].body, Window!Reference(entries, w, i))
      OBVIOUS
    <2> HIDE DEF R
    <2>4. CASE R(i) = w[i].body
      BY <2>2, <2>4 DEF Named
    <2>5. CASE R(i) # w[i].body
      BY <2>2, <2>3, <2>5, NamesEntry
    <2> QED BY <2>4, <2>5
  <1>2. Window!Masked(w, entries) = SubSeq([i \in DOMAIN w |-> [w[i] EXCEPT !.body = R(i)]], 1, Len(w))
    BY DEF Window!Masked, Window!Map
  <1> HIDE DEF R
  <1>3. DOMAIN w = 1..Len(w)
    BY LenProperties
  <1>4. [i \in DOMAIN w |-> [w[i] EXCEPT !.body = R(i)]] = Bodied(w, b)
    BY <1>3 DEF Bodied
  <1>5. b \in [1..Len(w) -> Bodies] /\ \A i \in 1..Len(w) : Named(b[i], w[i], entries)
    BY <1>1
  <1> HIDE DEF b
  <1> QED BY <1>2, <1>4, <1>5, BodiesRewritten

(* Collapsing old calls rewrites bodies to what the archive holds.         *)
LEMMA CollapsedIs ==
  ASSUME NEW entries \in Seq(Filings), NEW w \in Seq(Lines), Filing(entries, w, Len(w)),
         NEW u, Rewritten(u, w, entries)
  PROVE  Rewritten(Window!Collapsed(u, w, entries), w, entries)
  <1> DEFINE R(i) ==
         LET m == u[i] IN
         IF Window!Old(u, i) /\ m.role = "assistant" /\ m.body.size > 0 /\ m.body.form # "marker"
         THEN Window!Marker(m.body, Window!Reference(entries, w, i)) ELSE m.body
             b == [i \in 1..Len(u) |-> R(i)]
  <1>1. u \in Seq(Lines) /\ Len(u) = Len(w) /\ \A i \in 1..Len(w) : Redone(u[i], w[i], entries)
    BY DEF Rewritten
  <1>2. ASSUME NEW i \in 1..Len(u)
        PROVE  R(i) \in Bodies /\ Named(R(i), w[i], entries)
    <2>1. u[i] \in Lines
      BY <1>1, ElementOfSeq
    <2>2. u[i].body \in Bodies
      BY <2>1 DEF Lines
    <2>3. \/ R(i) = u[i].body
          \/ u[i].role # "system" /\ R(i) = Window!Marker(u[i].body, Window!Reference(entries, w, i))
      OBVIOUS
    <2>4. u[i].role = w[i].role /\ Named(u[i].body, w[i], entries)
      BY <1>1 DEF Redone
    <2>5. u[i].body.of = w[i].body.of
      BY <2>4 DEF Named
    <2> HIDE DEF R
    <2>6. CASE R(i) = u[i].body
      BY <2>2, <2>4, <2>6
    <2>7. CASE R(i) # u[i].body
      BY <1>1, <2>2, <2>3, <2>4, <2>5, <2>7, NamesEntry
    <2> QED BY <2>6, <2>7
  <1>3. Window!Collapsed(u, w, entries)
           = SubSeq([i \in DOMAIN u |-> [u[i] EXCEPT !.body = R(i)]], 1, Len(u))
    BY DEF Window!Collapsed, Window!Map
  <1> HIDE DEF R
  <1>4. DOMAIN u = 1..Len(u)
    BY <1>1, LenProperties
  <1>5. [i \in DOMAIN u |-> [u[i] EXCEPT !.body = R(i)]] = Bodied(u, b)
    BY <1>4 DEF Bodied
  <1>6. b \in [1..Len(u) -> Bodies] /\ \A i \in 1..Len(u) : b[i] = R(i)
    BY <1>2
  <1> HIDE DEF b
  <1>7. PICK v : v = Window!Collapsed(u, w, entries)
    OBVIOUS
  <1>8. Wears(v, u, b)
    <2>1. u \in Seq(Lines) /\ b \in [1..Len(u) -> Bodies]
      BY <1>1, <1>6
    <2>2. v = SubSeq(Bodied(u, b), 1, Len(u))
      BY <1>3, <1>5, <1>7
    <2> QED BY <2>1, <2>2, BodiesReplaced
  <1>9. ASSUME NEW i \in 1..Len(w) PROVE Redone(v[i], w[i], entries)
    <2>1. u[i].role = w[i].role /\ u[i].calls = w[i].calls
      BY <1>1 DEF Redone
    <2>2. Named(v[i].body, w[i], entries)
      BY <1>1, <1>2, <1>6, <1>8 DEF Wears
    <2> QED BY <1>1, <1>8, <2>1, <2>2 DEF Redone, Wears
  <1> QED BY <1>1, <1>7, <1>8, <1>9 DEF Rewritten, Wears

(* A greatest number of a set that has a bound.                            *)
LEMMA Greatest ==
  ASSUME NEW S, S \subseteq Nat, S # {}, NEW n \in Nat, \A x \in S : x <= n
  PROVE  Window!Max(S) \in S /\ \A x \in S : Window!Max(S) >= x
  <1> DEFINE T == {n - x : x \in S}
  <1>1. \A x \in S : x \in Nat /\ n - x \in Nat
    OBVIOUS
  <1>9. T \subseteq Nat /\ T # {}
    BY <1>1
  <1> HIDE DEF T
  <1>2. PICK d \in T : \A e \in T : d <= e
    BY <1>9, Least
  <1>3. PICK x \in S : d = n - x
    BY DEF T
  <1>4. \A y \in S : x >= y
    <2> SUFFICES ASSUME NEW y \in S PROVE x >= y
      OBVIOUS
    <2>1. n - y \in T
      BY DEF T
    <2>2. n - x <= n - y
      BY <1>2, <1>3, <2>1
    <2> QED BY <2>2
  <1>5. \E z \in S : \A y \in S : z >= y
    BY <1>4
  <1> QED BY <1>5 DEF Window!Max

(* The tail starts behind the first line.                                  *)
LEMMA TailStarts ==
  ASSUME NEW w \in Seq(Lines), Len(w) >= 1
  PROVE  Window!TailStart(w) \in 2..(Len(w) + 1)
  <1> DEFINE Fits(k) ==
                \/ Len(w) - k < MinTail
                \/ Window!Tokens(<<w[1], Window!Notice>>)
                      + Window!Tokens(SubSeq(w, k, Len(w))) <= Budget
             S == {1} \cup {k \in 2..Len(w) : ~Fits(k)}
  <1>1. Window!TailStart(w) = Window!Max(S) + 1
    BY DEF Window!TailStart
  <1> HIDE DEF Fits
  <1>2. Len(w) \in Nat
    BY LenProperties
  <1>3. S \subseteq Nat /\ S # {} /\ \A x \in S : x <= Len(w) + 1
    <2>1. \A x \in S : x \in Nat /\ x <= Len(w) + 1
      BY <1>2
    <2> QED BY <2>1
  <1>4. \A x \in S : x = 1 \/ x \in 2..Len(w)
    OBVIOUS
  <1> HIDE DEF S
  <1>5. Window!Max(S) \in S
    <2>1. PICK n \in Nat : n = Len(w) + 1
      BY <1>2
    <2>2. \A x \in S : x <= n
      BY <1>3, <2>1
    <2> QED BY <1>3, <2>2, Greatest
  <1>6. PICK m : m = Window!Max(S)
    OBVIOUS
  <1>7. m \in Nat /\ 1 <= m /\ m <= Len(w) + 1 /\ (m = 1 \/ m <= Len(w))
    <2>1. CASE m = 1
      BY <1>2, <2>1
    <2>2. CASE m \in 2..Len(w)
      BY <1>2, <2>2
    <2> QED BY <1>4, <1>5, <1>6, <2>1, <2>2
  <1> QED BY <1>1, <1>2, <1>6, <1>7

(* Every result from the start on has its message there too.               *)
Covered(w, s) ==
    \A i \in s..Len(w) : w[i].role = "tool" => \E k \in s..Len(w) : Asks(w, k, i)

(* A result whose message is before a line has only results up to it.      *)
LEMMA AskedBefore ==
  ASSUME NEW w \in Seq(Lines), NEW i \in 1..Len(w), NEW k \in Nat, Asks(w, k, i),
         NEW s \in Nat, k < s, s <= i, w[i].role = "tool"
  PROVE  w[s].role = "tool"
  BY LenProperties DEF Asks

(* The cut is moved back to the call that owns the result it fell on, so   *)
(* every result behind the cut has its call there too.                     *)
LEMMA OwnerStarts ==
  ASSUME NEW w \in Seq(Lines), Whole(w), NEW s \in 2..(Len(w) + 1)
  PROVE  Window!OwnerStart(w, s) \in 2..s /\ Covered(w, Window!OwnerStart(w, s))
  <1> DEFINE Results == {k \in s..Len(w) : \A j \in s..k : w[j].role = "tool"}
             needed == UNION {w[k].calls : k \in Results}
             Asked(i) == UNION {w[j].calls : j \in {j \in i..(s - 1) : w[j].role = "assistant"}}
             owners == {i \in 2..(s - 1) : w[i].role = "assistant" /\ needed \subseteq Asked(i)}
  <1>1. Window!OwnerStart(w, s) = IF needed = {} \/ owners = {} THEN s ELSE Window!Max(owners)
    BY DEF Window!OwnerStart
  <1>2. Len(w) \in Nat /\ s \in Nat
    BY LenProperties
  <1>3. ASSUME NEW i \in 1..Len(w), w[i].role = "tool" PROVE \E k \in 2..(i - 1) : Asks(w, k, i)
    BY <1>3 DEF Whole, Placed, Asks
  <1>4. CASE ~(s <= Len(w) /\ w[s].role = "tool")
    <2>1. Results = {}
      BY <1>2, <1>4
    <2>2. needed = {}
      BY <2>1
    <2>3. Window!OwnerStart(w, s) = s
      BY <1>1, <2>2
    <2> HIDE DEF Results, needed, Asked, owners
    <2>4. ASSUME NEW i \in s..Len(w), w[i].role = "tool" PROVE \E k \in s..Len(w) : Asks(w, k, i)
      <3>1. i \in 1..Len(w) /\ i \in Nat /\ s <= i /\ s <= Len(w)
        BY <1>2
      <3>2. PICK k \in 2..(i - 1) : Asks(w, k, i)
        BY <1>3, <2>4, <3>1
      <3>3. k \in Nat /\ k <= Len(w)
        BY <1>2, <3>1
      <3>4. ~(k < s)
        BY <1>2, <1>4, <2>4, <3>1, <3>2, <3>3, AskedBefore
      <3> QED BY <1>2, <3>2, <3>3, <3>4
    <2> QED BY <1>2, <2>3, <2>4 DEF Covered
  <1>5. CASE s <= Len(w) /\ w[s].role = "tool"
    <2>1. s \in 1..Len(w) /\ s \in Results
      BY <1>2, <1>5
    <2>2. PICK a \in 2..(s - 1) : Asks(w, a, s)
      BY <1>3, <1>5, <2>1
    <2>3. /\ a \in Nat /\ a < s /\ w[a].role = "assistant"
          /\ \A j \in (a + 1)..(s - 1) : w[j].role = "tool"
      BY <1>2, <2>2 DEF Asks
    <2>4. ASSUME NEW i \in Results PROVE w[i].calls \subseteq w[a].calls
      <3>1. i \in 1..Len(w) /\ i \in Nat /\ s <= i /\ \A j \in s..i : w[j].role = "tool"
        BY <1>2
      <3> HIDE DEF Results
      <3>2. w[i].role = "tool"
        BY <1>2, <3>1
      <3>3. PICK k \in 2..(i - 1) : Asks(w, k, i)
        BY <1>3, <3>1, <3>2
      <3>4. /\ k \in Nat /\ k < i /\ w[k].role = "assistant" /\ w[i].calls \subseteq w[k].calls
            /\ \A j \in (k + 1)..(i - 1) : w[j].role = "tool"
        BY <3>1, <3>3 DEF Asks
      <3>5. k < s
        BY <1>2, <3>1, <3>4
      <3>6. ~(k < a)
        BY <1>2, <2>3, <3>1, <3>4
      <3>7. ~(a < k)
        BY <1>2, <2>3, <3>4, <3>5
      <3>8. k = a
        BY <2>3, <3>4, <3>6, <3>7
      <3> QED BY <3>4, <3>8
    <2>5. needed \subseteq w[a].calls
      BY <2>4
    <2>6. w[s].calls # {} /\ w[s].calls \subseteq needed
      BY <1>5, <2>1 DEF Whole, Placed
    <2>7. w[a].calls \subseteq Asked(a)
      BY <1>2, <2>3
    <2>8. a \in owners
      BY <2>2, <2>3, <2>5, <2>7
    <2>9. owners \subseteq Nat /\ \A o \in owners : o \in 2..(s - 1) /\ w[o].role = "assistant"
      BY <1>2
    <2>10. Window!OwnerStart(w, s) = Window!Max(owners)
      BY <1>1, <2>6, <2>8
    <2> HIDE DEF Results, needed, Asked, owners
    <2>11. \A o \in owners : o <= a
      <3> SUFFICES ASSUME NEW o \in owners, ~(o <= a) PROVE FALSE
        OBVIOUS
      <3>1. o \in (a + 1)..(s - 1) /\ w[o].role = "assistant"
        BY <1>2, <2>3, <2>9
      <3> QED BY <2>3, <3>1
    <2>12. Window!Max(owners) \in owners /\ Window!Max(owners) >= a
      BY <2>3, <2>8, <2>9, <2>11, Greatest
    <2>13. Window!OwnerStart(w, s) = a
      <3>1. Window!Max(owners) <= a /\ Window!Max(owners) \in Nat
        BY <2>9, <2>11, <2>12
      <3> QED BY <2>3, <2>10, <2>12, <3>1
    <2>14. ASSUME NEW i \in a..Len(w), w[i].role = "tool" PROVE \E k \in a..Len(w) : Asks(w, k, i)
      <3>1. i \in 1..Len(w) /\ i \in Nat /\ a <= i
        BY <1>2, <2>2
      <3>2. PICK k \in 2..(i - 1) : Asks(w, k, i)
        BY <1>3, <2>14, <3>1
      <3>3. k \in Nat /\ k <= Len(w)
        BY <1>2, <3>1
      <3>4. ~(k < a)
        <4>1. w[a].role # "tool"
          BY <2>3
        <4> QED BY <2>3, <2>14, <3>1, <3>2, <3>3, <4>1, AskedBefore
      <3> QED BY <2>3, <3>2, <3>3, <3>4
    <2> QED BY <2>2, <2>3, <2>13, <2>14 DEF Covered
  <1> QED BY <1>4, <1>5

(* The first line, the notice and a tail.                                  *)
LEMMA TailIs ==
  ASSUME NEW w \in Seq(Lines), Len(w) >= 1, NEW s \in 3..(Len(w) + 1),
         NEW u, u = <<w[1], Window!Notice>> \o SubSeq(w, s, Len(w))
  PROVE  /\ u \in Seq(Lines) /\ Len(u) = Len(w) - (s - 3)
         /\ u[1] = w[1] /\ u[2] = Window!Notice
         /\ \A i \in 3..Len(u) : i + (s - 3) \in s..Len(w) /\ u[i] = w[i + (s - 3)]
  <1>1. Len(w) \in Nat /\ s \in Nat /\ 1 \in 1..Len(w)
    BY LenProperties
  <1>2. \A i \in 1..Len(w) : w[i] \in Lines
    BY <1>1, ElementOfSeq
  <1>3. Window!Notice \in Lines
    BY TextsAssumption DEF Window!Notice, Window!Message, Lines, Bodies, Speakers
  <1>4. PICK head : head = <<w[1], Window!Notice>>
    OBVIOUS
  <1>5. head \in Seq(Lines) /\ Len(head) = 2 /\ head[1] = w[1] /\ head[2] = Window!Notice
    BY <1>1, <1>2, <1>3, <1>4
  <1>6. PICK tail : tail = SubSeq(w, s, Len(w))
    OBVIOUS
  <1>7. /\ tail \in Seq(Lines) /\ Len(tail) = Len(w) - s + 1
        /\ \A i \in 1..(Len(w) - s + 1) : tail[i] = w[s + i - 1]
    <2>1. \A i \in s..Len(w) : w[i] \in Lines
      BY <1>1, <1>2
    <2>2. /\ tail \in Seq(Lines) /\ Len(tail) = IF s <= Len(w) THEN Len(w) - s + 1 ELSE 0
          /\ \A i \in 1..(Len(w) - s + 1) : tail[i] = w[s + i - 1]
      BY <1>1, <1>6, <2>1, SubSeqProperties
    <2> QED BY <1>1, <2>2
  <1>8. /\ u \in Seq(Lines) /\ Len(u) = 2 + Len(tail)
        /\ \A i \in 1..(2 + Len(tail)) : u[i] = IF i <= 2 THEN head[i] ELSE tail[i - 2]
    <2>1. u = head \o tail
      BY <1>4, <1>6
    <2> QED BY <1>5, <1>7, <2>1, ConcatProperties
  <1>9. Len(u) = Len(w) - (s - 3)
    BY <1>1, <1>7, <1>8
  <1>10. ASSUME NEW i \in 3..Len(u) PROVE i + (s - 3) \in s..Len(w) /\ u[i] = w[i + (s - 3)]
    <2>1. i \in Nat /\ i - 2 \in 1..(Len(w) - s + 1) /\ i \in 1..(2 + Len(tail)) /\ ~(i <= 2)
      BY <1>1, <1>7, <1>9, <1>8
    <2>2. u[i] = w[s + (i - 2) - 1]
      BY <1>7, <1>8, <2>1
    <2>3. s + (i - 2) - 1 = i + (s - 3)
      BY <1>1, <2>1
    <2> QED BY <1>1, <1>9, <2>1, <2>2, <2>3
  <1>11. u[1] = w[1] /\ u[2] = Window!Notice
    <2>1. 1 \in 1..(2 + Len(tail)) /\ 2 \in 1..(2 + Len(tail))
      BY <1>1, <1>7
    <2> QED BY <1>5, <1>8, <2>1
  <1> QED BY <1>8, <1>9, <1>10, <1>11

(* A line that stays where it is in a tail.                                *)
Picked(u, w) ==
    \A i \in 1..Len(u) : u[i] = Window!Notice \/ \E j \in 1..Len(w) : u[i] = w[j]

(* A tail with the messages of its results is whole when the window was.   *)
LEMMA TailWhole ==
  ASSUME NEW w \in Seq(Lines), Whole(w), NEW s \in 3..(Len(w) + 1), Covered(w, s),
         NEW u, u = <<w[1], Window!Notice>> \o SubSeq(w, s, Len(w))
  PROVE  u \in Seq(Lines) /\ Whole(u) /\ Picked(u, w)
  <1>1. PICK d : d = s - 3
    OBVIOUS
  <1>2. Len(w) \in Nat /\ s \in Nat /\ d \in Nat /\ Len(w) >= 1
    <2>1. Len(w) >= 1
      BY DEF Whole
    <2>2. Len(w) \in Nat
      BY LenProperties
    <2>3. s \in Nat /\ d \in Nat
      BY <1>1, <2>2
    <2> QED BY <2>1, <2>2, <2>3
  <1>3. /\ u \in Seq(Lines) /\ Len(u) = Len(w) - d /\ u[1] = w[1] /\ u[2] = Window!Notice
        /\ \A i \in 3..Len(u) : i + d \in s..Len(w) /\ u[i] = w[i + d]
    <2>1. /\ u \in Seq(Lines) /\ Len(u) = Len(w) - (s - 3) /\ u[1] = w[1] /\ u[2] = Window!Notice
          /\ \A i \in 3..Len(u) : i + (s - 3) \in s..Len(w) /\ u[i] = w[i + (s - 3)]
      BY <1>2, TailIs
    <2> QED BY <1>1, <2>1
  <1>4. Len(u) \in Nat /\ Len(u) >= 2
    BY <1>1, <1>2, <1>3
  <1>5. u[1].role = "system" /\ u[2].role = "system"
    BY <1>3 DEF Whole, Window!Notice, Window!Message
  <1>6. \A i \in 1..Len(u) : i \in {1, 2} \/ i \in 3..Len(u)
    BY <1>4
  <1>7. ASSUME NEW i \in 1..Len(u), u[i].role = "tool"
        PROVE  u[i].calls # {} /\ \E k \in Nat : Asks(u, k, i)
    <2>1. i \in 3..Len(u)
      BY <1>5, <1>6, <1>7
    <2>2. i + d \in s..Len(w) /\ i + d \in 1..Len(w) /\ u[i] = w[i + d]
      BY <1>2, <1>3, <2>1
    <2>3. PICK k \in s..Len(w) : Asks(w, k, i + d)
      BY <1>7, <2>2 DEF Covered
    <2>4. /\ k \in Nat /\ k <= i + d - 1 /\ w[k].role = "assistant" /\ w[i + d].calls \subseteq w[k].calls
          /\ \A j \in (k + 1)..(i + d - 1) : w[j].role = "tool"
      <3>1. PICK p \in Nat : p = i + d
        BY <1>2, <2>1
      <3>2. k \in Nat /\ k \in 2..(p - 1)
        BY <1>2, <2>3, <3>1 DEF Asks
      <3>3. k <= p - 1
        BY <3>1, <3>2
      <3>4. /\ w[k].role = "assistant" /\ w[p].calls \subseteq w[k].calls
            /\ \A j \in (k + 1)..(p - 1) : w[j].role = "tool"
        BY <2>3, <3>1 DEF Asks
      <3>5. k <= i + d - 1
        BY <1>2, <3>1, <3>3
      <3>6. w[i + d].calls \subseteq w[k].calls
        BY <3>1, <3>4
      <3>7. i + d - 1 = p - 1
        BY <1>2, <3>1
      <3>8. \A j \in (k + 1)..(i + d - 1) : w[j].role = "tool"
        BY <3>4, <3>7
      <3> QED BY <3>2, <3>4, <3>5, <3>6, <3>8
    <2>5. k - d \in 3..Len(u) /\ k - d \in 2..(i - 1) /\ u[k - d] = w[k]
      <3>1. k - d \in 3..Len(u) /\ k - d \in 2..(i - 1)
        BY <1>1, <1>2, <1>4, <2>1, <2>4
      <3>2. (k - d) + d = k
        BY <1>2, <2>4
      <3> QED BY <1>3, <3>1, <3>2
    <2>6. ASSUME NEW j \in ((k - d) + 1)..(i - 1) PROVE u[j].role = "tool"
      <3>1. j \in 3..Len(u) /\ j + d \in (k + 1)..(i + d - 1)
        BY <1>2, <1>4, <2>1, <2>4, <2>5
      <3> QED BY <1>3, <2>4, <3>1
    <2>7. Asks(u, k - d, i)
      BY <2>2, <2>4, <2>5, <2>6 DEF Asks
    <2>8. u[i].calls # {}
      BY <1>7, <2>2 DEF Whole, Placed
    <2>9. k - d \in Nat
      BY <2>5
    <2> QED BY <2>7, <2>8, <2>9
  <1>8. ASSUME NEW i \in 1..Len(u), u[i].role = "assistant" PROVE Answered(u, i)
    <2>1. i \in 3..Len(u)
      BY <1>5, <1>6, <1>8
    <2>2. i + d \in 1..Len(w) /\ u[i] = w[i + d] /\ i \in Nat
      BY <1>2, <1>3, <2>1
    <2>3. Answered(w, i + d)
      BY <1>8, <2>2 DEF Whole, Placed
    <2> DEFINE n == Cardinality(u[i].calls)
    <2>4. ASSUME NEW c \in u[i].calls
          PROVE  \E k \in 1..n : i + k \in 1..Len(u) /\ u[i + k].role = "tool" /\ u[i + k].calls = {c}
      <3>1. PICK k \in 1..n : /\ i + d + k \in 1..Len(w) /\ w[i + d + k].role = "tool"
                              /\ w[i + d + k].calls = {c}
        BY <2>2, <2>3, <2>4 DEF Answered
      <3> HIDE DEF n
      <3>2. k \in Nat /\ k >= 1
        <4>1. \A m : \A l \in 1..m : l \in Int /\ l >= 1
          OBVIOUS
        <4> QED BY <4>1
      <3>3. i + k \in 3..Len(u) /\ (i + k) + d = i + d + k /\ i + k \in 1..Len(u)
        BY <1>2, <1>3, <1>4, <2>1, <3>1, <3>2
      <3>4. u[i + k] = w[i + d + k]
        BY <1>3, <3>3
      <3> QED BY <3>1, <3>3, <3>4
    <2> QED BY <2>4 DEF Answered
  <1>9. ASSUME NEW i \in 1..Len(u) PROVE u[i] = Window!Notice \/ \E j \in 1..Len(w) : u[i] = w[j]
    <2>1. CASE i = 1
      BY <1>2, <1>3, <2>1
    <2>2. CASE i = 2
      BY <1>3, <2>2
    <2>3. CASE i \in 3..Len(u)
      BY <1>2, <1>3, <2>3
    <2> QED BY <1>6, <2>1, <2>2, <2>3
  <1>10. \A i \in 1..Len(u) : Placed(u, i)
    BY <1>7, <1>8 DEF Placed
  <1>11. Whole(u)
    <2>1. Len(u) >= 1
      BY <1>4
    <2> QED BY <1>5, <1>10, <2>1 DEF Whole
  <1> QED BY <1>3, <1>9, <1>11 DEF Picked

(* Dropping the oldest lines keeps each result with its call and picks     *)
(* from the lines there were.                                              *)
LEMMA TrimmedIs ==
  ASSUME NEW w \in Seq(Lines), Whole(w), NEW u, u = Window!Trimmed(w)
  PROVE  u \in Seq(Lines) /\ Whole(u) /\ Picked(u, w)
  <1>1. PICK s : s = Window!OwnerStart(w, Window!TailStart(w))
    OBVIOUS
  <1>2. Window!TailStart(w) \in 2..(Len(w) + 1)
    BY TailStarts DEF Whole
  <1>3. s \in 2..Window!TailStart(w) /\ Covered(w, s)
    BY <1>1, <1>2, OwnerStarts
  <1>4. u = IF s <= 2 THEN w ELSE <<w[1], Window!Notice>> \o SubSeq(w, s, Len(w))
    BY <1>1 DEF Window!Trimmed
  <1>5. Len(w) \in Nat
    BY LenProperties
  <1>6. CASE s <= 2
    BY <1>4, <1>6 DEF Picked
  <1>7. CASE ~(s <= 2)
    <2>1. s \in 3..(Len(w) + 1)
      BY <1>2, <1>3, <1>5, <1>7
    <2>2. u = <<w[1], Window!Notice>> \o SubSeq(w, s, Len(w))
      BY <1>4, <1>7
    <2> QED BY <1>3, <2>1, <2>2, TailWhole
  <1> QED BY <1>6, <1>7


(* What is shown instead of a whole window is whole, and stems from what   *)
(* the window stemmed from.                                                *)
Stemmed(lines, entries, last) == \A i \in 1..Len(lines) : Stems(lines[i], entries, last)

(* New bodies part no result from its call.                                *)
LEMMA RewrittenWhole ==
  ASSUME NEW entries, NEW w \in Seq(Lines), Whole(w), NEW v, Rewritten(v, w, entries)
  PROVE  Whole(v)
  <1>1. /\ Len(w) \in Nat /\ Len(v) = Len(w)
        /\ \A i \in 1..Len(w) : v[i].role = w[i].role /\ v[i].calls = w[i].calls
    BY LenProperties DEF Rewritten, Redone
  <1>2. ASSUME NEW i \in 1..Len(v) PROVE Placed(v, i)
    <2>1. Placed(w, i) /\ v[i].role = w[i].role /\ v[i].calls = w[i].calls
      BY <1>1 DEF Whole
    <2>2. ASSUME v[i].role = "tool" PROVE v[i].calls # {} /\ \E k \in Nat : Asks(v, k, i)
      <3>1. PICK k \in Nat : Asks(w, k, i)
        BY <2>1, <2>2 DEF Placed
      <3>2. /\ k \in 2..(i - 1) /\ w[k].role = "assistant" /\ w[i].calls \subseteq w[k].calls
            /\ \A j \in (k + 1)..(i - 1) : w[j].role = "tool"
        BY <3>1 DEF Asks
      <3>3. k \in 1..Len(w) /\ \A j \in (k + 1)..(i - 1) : j \in 1..Len(w)
        BY <1>1, <3>2
      <3>4. Asks(v, k, i)
        BY <1>1, <2>1, <3>2, <3>3 DEF Asks
      <3> QED BY <2>1, <2>2, <3>4 DEF Placed
    <2>3. ASSUME v[i].role = "assistant" PROVE Answered(v, i)
      <3>1. Answered(w, i)
        BY <2>1, <2>3 DEF Placed
      <3> QED BY <1>1, <2>1, <3>1 DEF Answered
    <2> QED BY <2>2, <2>3 DEF Placed
  <1>3. Len(v) >= 1 /\ v[1].role = "system"
    <2>1. Len(w) >= 1 /\ w[1].role = "system" /\ 1 \in 1..Len(w)
      BY <1>1 DEF Whole
    <2> QED BY <1>1, <2>1
  <1> QED BY <1>2, <1>3 DEF Whole

(* A rewritten line still stems from what was said or stands in the        *)
(* archive.                                                                *)
LEMMA RewrittenStems ==
  ASSUME NEW entries \in Seq(Filings), NEW w \in Seq(Lines), NEW last,
         Stemmed(w, entries, last), NEW v, Rewritten(v, w, entries)
  PROVE  Stemmed(v, entries, last)
  <1>1. ASSUME NEW i \in 1..Len(w) PROVE Stems(v[i], entries, last)
    <2>1. Stems(w[i], entries, last) /\ Redone(v[i], w[i], entries)
      BY DEF Stemmed, Rewritten
    <2>2. v[i].role = w[i].role /\ Named(v[i].body, w[i], entries)
      BY <2>1 DEF Redone
    <2>3. CASE v[i].body = w[i].body
      BY <2>1, <2>2, <2>3 DEF Stems
    <2>4. CASE /\ w[i].role # "system" /\ v[i].body.of = w[i].body.of
               /\ v[i].body.ref \in 1..Len(entries) /\ entries[v[i].body.ref].body.of = w[i].body.of
      <3>1. w[i].body.of \in 1..last
        BY <2>1, <2>4 DEF Stems
      <3>2. Leads(v[i].body, entries, Len(entries))
        BY <2>4 DEF Leads
      <3> QED BY <2>2, <2>4, <3>1, <3>2 DEF Stems
    <2> QED BY <2>2, <2>3, <2>4 DEF Named
  <1>2. Len(v) = Len(w)
    BY DEF Rewritten
  <1> QED BY <1>1, <1>2 DEF Stemmed

(* The lines picked from a window stem from where they stemmed before.     *)
LEMMA PickedStems ==
  ASSUME NEW entries, NEW w, NEW last, Stemmed(w, entries, last), NEW u, Picked(u, w)
  PROVE  Stemmed(u, entries, last)
  <1>1. Stems(Window!Notice, entries, last)
    BY DEF Stems, Window!Notice, Window!Message
  <1> QED BY <1>1 DEF Stemmed, Picked

(* A compaction of a filed window leaves results with their calls and      *)
(* lines that stem from what was said.                                     *)
LEMMA CompactedIs ==
  ASSUME NEW entries \in Seq(Filings), NEW w \in Seq(Lines), NEW last, Whole(w),
         Filing(entries, w, Len(w)), Stemmed(w, entries, last),
         NEW v, v = Window!Compacted(w, entries)
  PROVE  v \in Seq(Lines) /\ Whole(v) /\ Stemmed(v, entries, last)
  <1>1. PICK masked : masked = Window!Masked(w, entries)
    OBVIOUS
  <1>2. PICK collapsed : collapsed = Window!Collapsed(masked, w, entries)
    OBVIOUS
  <1>3. v = masked \/ v = collapsed \/ v = Window!Trimmed(collapsed)
    BY <1>1, <1>2 DEF Window!Compacted
  <1>4. Rewritten(masked, w, entries)
    BY <1>1, MaskedIs
  <1>5. Rewritten(collapsed, w, entries)
    BY <1>2, <1>4, CollapsedIs
  <1>6. masked \in Seq(Lines) /\ Whole(masked) /\ Stemmed(masked, entries, last)
    <2>1. masked \in Seq(Lines)
      BY <1>4 DEF Rewritten
    <2> QED BY <1>4, <2>1, RewrittenWhole, RewrittenStems
  <1>7. collapsed \in Seq(Lines) /\ Whole(collapsed) /\ Stemmed(collapsed, entries, last)
    <2>1. collapsed \in Seq(Lines)
      BY <1>5 DEF Rewritten
    <2> QED BY <1>5, <2>1, RewrittenWhole, RewrittenStems
  <1>8. ASSUME v = Window!Trimmed(collapsed)
        PROVE  v \in Seq(Lines) /\ Whole(v) /\ Picked(v, collapsed)
    BY <1>7, <1>8, TrimmedIs
  <1> QED BY <1>3, <1>6, <1>7, <1>8, PickedStems

-----------------------------------------------------------------------------
(* What a turn adds: messages as they are said, each result behind the     *)
(* message that asked for it.                                              *)
Spoken(added, last) ==
    \A i \in 1..Len(added) :
        added[i].role # "system" /\ added[i].body.of = last + i /\ added[i].body.form = "raw"

Behind(added, i) ==
    /\ added[i].role = "tool" =>
          /\ added[i].calls # {}
          /\ \E k \in 1..(i - 1) :
                /\ added[k].role = "assistant" /\ added[i].calls \subseteq added[k].calls
                /\ \A j \in (k + 1)..(i - 1) : added[j].role = "tool"
    /\ added[i].role = "assistant" => Answered(added, i)

Turned(added, last) == Spoken(added, last) /\ \A i \in 1..Len(added) : Behind(added, i)

Joined(v, w, a) ==
    /\ v \in Seq(Lines) /\ Len(v) = Len(w) + Len(a)
    /\ \A i \in 1..Len(w) : v[i] = w[i]
    /\ \A i \in 1..Len(a) : v[Len(w) + i] = a[i]

(* Two windows, one behind the other.                                      *)
LEMMA Joins ==
  ASSUME NEW w \in Seq(Lines), NEW a \in Seq(Lines), NEW v, v = w \o a
  PROVE  Joined(v, w, a)
  <1>1. Len(w) \in Nat /\ Len(a) \in Nat
    BY LenProperties
  <1>2. /\ v \in Seq(Lines) /\ Len(v) = Len(w) + Len(a)
        /\ \A i \in 1..(Len(w) + Len(a)) : v[i] = IF i <= Len(w) THEN w[i] ELSE a[i - Len(w)]
    BY ConcatProperties
  <1>3. \A i \in 1..Len(w) : i \in 1..(Len(w) + Len(a)) /\ i <= Len(w)
    BY <1>1
  <1>4. ASSUME NEW i \in 1..Len(a) PROVE v[Len(w) + i] = a[i]
    <2>1. PICK p : p = Len(w) + i
      OBVIOUS
    <2>2. p \in 1..(Len(w) + Len(a)) /\ ~(p <= Len(w)) /\ p - Len(w) = i
      BY <1>1, <2>1
    <2> QED BY <1>2, <2>1, <2>2
  <1> QED BY <1>2, <1>3, <1>4 DEF Joined

(* A turn says new lines behind the window: nothing said before is lost.   *)
LEMMA TurnedKept ==
  ASSUME NEW entries, NEW w \in Seq(Lines), NEW last \in Nat, Kept(w, entries, last),
         NEW a \in Seq(Lines), Spoken(a, last), NEW v, Joined(v, w, a)
  PROVE  Kept(v, entries, last + Len(a))
  <1>1. Len(w) \in Nat /\ Len(a) \in Nat /\ Len(v) = Len(w) + Len(a)
    BY LenProperties DEF Joined
  <1>2. Chained(entries, last + Len(a))
    <2>1. \A x \in 1..last : x \in 1..(last + Len(a))
      BY <1>1
    <2> QED BY <2>1 DEF Kept, Chained
  <1>3. ASSUME NEW i \in 1..Len(v) PROVE Stems(v[i], entries, last + Len(a))
    <2>1. CASE i \in 1..Len(w)
      <3>1. Stems(w[i], entries, last) /\ v[i] = w[i]
        BY <2>1 DEF Kept, Joined
      <3>2. \A x \in 1..last : x \in 1..(last + Len(a))
        BY <1>1
      <3> QED BY <3>1, <3>2 DEF Stems
    <2>2. CASE ~(i \in 1..Len(w))
      <3>1. PICK j \in 1..Len(a) : i = Len(w) + j
        <4>1. i - Len(w) \in 1..Len(a) /\ i = Len(w) + (i - Len(w))
          BY <1>1, <2>2
        <4> QED BY <4>1
      <3>2. v[i] = a[j]
        BY <3>1 DEF Joined
      <3>3. v[i].role # "system" /\ v[i].body.of = last + j /\ v[i].body.form = "raw"
        BY <3>2 DEF Spoken
      <3>4. last + j \in 1..(last + Len(a))
        BY <1>1
      <3> QED BY <3>3, <3>4 DEF Stems, Leads
    <2> QED BY <2>1, <2>2
  <1>4. ASSUME NEW n \in 1..(last + Len(a)) PROVE Recalled(n, v, entries)
    <2>1. CASE n \in 1..last
      <3>1. Recalled(n, w, entries)
        BY <2>1 DEF Kept
      <3>2. \A i \in 1..Len(w) : i \in 1..Len(v) /\ v[i] = w[i]
        BY <1>1 DEF Joined
      <3> QED BY <3>1, <3>2 DEF Recalled
    <2>2. CASE ~(n \in 1..last)
      <3>1. PICK j \in 1..Len(a) : n = last + j
        <4>1. n - last \in 1..Len(a) /\ n = last + (n - last)
          BY <1>1, <2>2
        <4> QED BY <4>1
      <3>2. Len(w) + j \in 1..Len(v) /\ v[Len(w) + j] = a[j]
        BY <1>1 DEF Joined
      <3>3. a[j].body.of = n /\ a[j].body.form = "raw"
        BY <3>1 DEF Spoken
      <3> QED BY <3>2, <3>3 DEF Recalled
    <2> QED BY <2>1, <2>2
  <1> QED BY <1>2, <1>3, <1>4 DEF Kept

(* The results a turn says stand behind their own calls.                   *)
LEMMA TurnedWhole ==
  ASSUME NEW w \in Seq(Lines), Whole(w), NEW a \in Seq(Lines),
         \A i \in 1..Len(a) : Behind(a, i), NEW v, Joined(v, w, a)
  PROVE  Whole(v)
  <1>1. PICK d : d = Len(w)
    OBVIOUS
  <1>2. /\ d \in Nat /\ d >= 1 /\ Len(a) \in Nat /\ Len(v) = d + Len(a)
        /\ \A i \in 1..d : i \in 1..Len(v) /\ v[i] = w[i]
        /\ \A i \in 1..Len(a) : v[d + i] = a[i]
    BY <1>1, LenProperties DEF Joined, Whole
  <1>3. ASSUME NEW i \in 1..d PROVE Placed(v, i)
    <2>1. Placed(w, i) /\ v[i] = w[i]
      BY <1>1, <1>2 DEF Whole
    <2>2. ASSUME v[i].role = "tool" PROVE v[i].calls # {} /\ \E k \in Nat : Asks(v, k, i)
      <3>1. PICK k \in Nat : Asks(w, k, i)
        BY <2>1, <2>2 DEF Placed
      <3>2. /\ k \in 2..(i - 1) /\ w[k].role = "assistant" /\ w[i].calls \subseteq w[k].calls
            /\ \A j \in (k + 1)..(i - 1) : w[j].role = "tool"
        BY <3>1 DEF Asks
      <3>3. k \in 1..d /\ \A j \in (k + 1)..(i - 1) : j \in 1..d
        BY <1>2, <3>2
      <3>4. Asks(v, k, i)
        BY <1>2, <2>1, <3>2, <3>3 DEF Asks
      <3> QED BY <2>1, <2>2, <3>4 DEF Placed
    <2>3. ASSUME v[i].role = "assistant" PROVE Answered(v, i)
      <3>1. Answered(w, i)
        BY <2>1, <2>3 DEF Placed
      <3> QED BY <1>1, <1>2, <2>1, <3>1 DEF Answered
    <2> QED BY <2>2, <2>3 DEF Placed
  <1>4. ASSUME NEW n \in 1..Len(a), NEW i, i = d + n PROVE Placed(v, i)
    <2>1. Behind(a, n) /\ v[i] = a[n] /\ i \in Nat /\ n \in Nat
      BY <1>2, <1>4
    <2>2. ASSUME v[i].role = "tool" PROVE v[i].calls # {} /\ \E k \in Nat : Asks(v, k, i)
      <3>1. a[n].calls # {}
        BY <2>1, <2>2 DEF Behind
      <3>2. PICK k \in 1..(n - 1) :
               /\ a[k].role = "assistant" /\ a[n].calls \subseteq a[k].calls
               /\ \A j \in (k + 1)..(n - 1) : a[j].role = "tool"
        BY <2>1, <2>2 DEF Behind
      <3>3. k \in Nat /\ k \in 1..Len(a) /\ d + k \in 2..(i - 1)
        BY <1>2, <1>4, <2>1
      <3>4. ASSUME NEW j \in ((d + k) + 1)..(i - 1) PROVE v[j].role = "tool"
        <4>1. j - d \in (k + 1)..(n - 1) /\ j - d \in 1..Len(a) /\ d + (j - d) = j
          BY <1>2, <1>4, <2>1, <3>3
        <4>2. v[d + (j - d)] = a[j - d]
          BY <1>2, <4>1
        <4>3. a[j - d].role = "tool"
          BY <3>2, <4>1
        <4> QED BY <4>1, <4>2, <4>3
      <3>5. v[d + k] = a[k]
        BY <1>2, <3>3
      <3>6. Asks(v, d + k, i)
        BY <2>1, <3>2, <3>3, <3>4, <3>5 DEF Asks
      <3>7. d + k \in Nat
        BY <1>2, <3>3
      <3> QED BY <2>1, <3>1, <3>6, <3>7
    <2>3. ASSUME v[i].role = "assistant" PROVE Answered(v, i)
      <3>1. Answered(a, n)
        BY <2>1, <2>3 DEF Behind
      <3> DEFINE m == Cardinality(v[i].calls)
      <3>2. ASSUME NEW c \in v[i].calls
            PROVE  \E k \in 1..m : i + k \in 1..Len(v) /\ v[i + k].role = "tool" /\ v[i + k].calls = {c}
        <4>1. PICK k \in 1..m : n + k \in 1..Len(a) /\ a[n + k].role = "tool" /\ a[n + k].calls = {c}
          BY <2>1, <3>1, <3>2 DEF Answered
        <4> HIDE DEF m
        <4>2. k \in Int
          <5>1. \A p : \A l \in 1..p : l \in Int
            OBVIOUS
          <5> QED BY <5>1
        <4>3. i + k \in 1..Len(v) /\ d + (n + k) = i + k
          BY <1>2, <1>4, <2>1, <4>1, <4>2
        <4>4. v[d + (n + k)] = a[n + k]
          BY <1>2, <4>1
        <4> QED BY <4>1, <4>3, <4>4
      <3> QED BY <3>2 DEF Answered
    <2> QED BY <2>2, <2>3 DEF Placed
  <1>5. ASSUME NEW i \in 1..Len(v) PROVE Placed(v, i)
    <2>1. CASE i \in 1..d
      BY <1>3, <2>1
    <2>2. CASE ~(i \in 1..d)
      <3>1. i - d \in 1..Len(a) /\ i = d + (i - d)
        BY <1>2, <2>2
      <3> QED BY <1>4, <3>1
    <2> QED BY <2>1, <2>2
  <1>6. Len(v) >= 1 /\ v[1].role = "system"
    <2>1. 1 \in 1..d /\ w[1].role = "system"
      BY <1>2 DEF Whole
    <2> QED BY <1>2, <2>1
  <1> QED BY <1>5, <1>6 DEF Whole

(* The message of the model and the results of its calls.                  *)
LEMMA AnswerIs ==
  ASSUME said \in Nat, NEW c \in 0..2, NEW size \in Sizes, NEW results \in Sizes,
         NEW a, a = Window!Answer(c, size, results)
  PROVE  a \in Seq(Lines) /\ Len(a) = c + 1 /\ Turned(a, said)
  <1> DEFINE Result(k) == Window!Message("tool", {said + 1 + k}, Window!Raw(said + 1 + k, results))
             ids == {said + 1 + k : k \in 1..c}
             answer == Window!Message("assistant", ids, Window!Raw(said + 1, size))
             told == [k \in 1..c |-> Result(k)]
  <1>1. a = <<answer>> \o told
    BY DEF Window!Answer
  <1>2. size \in Nat /\ results \in Nat /\ c \in Nat
    BY TextsAssumption
  <1>3. ASSUME NEW k \in 1..c
        PROVE  /\ Result(k) \in Lines /\ Result(k).role = "tool" /\ Result(k).calls = {said + 1 + k}
               /\ Result(k).body.of = said + 1 + k /\ Result(k).body.form = "raw"
    <2>1. PICK m \in Nat : m = said + 1 + k
      BY <1>2
    <2> QED BY <1>2, <2>1 DEF Window!Message, Window!Raw, Lines, Bodies, Speakers
  <1>4. ids \subseteq Nat
    BY <1>2
  <1>5. /\ answer \in Lines /\ answer.role = "assistant" /\ answer.calls = ids
        /\ answer.body.of = said + 1 /\ answer.body.form = "raw"
    <2> HIDE DEF ids
    <2> QED BY <1>2, <1>4 DEF Window!Message, Window!Raw, Lines, Bodies, Speakers
  <1>6. Cardinality(ids) = c
    <2>1. ids = (said + 2)..(said + 1 + c)
      <3>1. \A x \in ids : x \in (said + 2)..(said + 1 + c)
        BY <1>2
      <3>2. ASSUME NEW x \in (said + 2)..(said + 1 + c) PROVE x \in ids
        <4>1. x - said - 1 \in 1..c /\ x = said + 1 + (x - said - 1)
          BY <1>2
        <4> QED BY <4>1
      <3> QED BY <3>1, <3>2
    <2>2. PICK lo \in Int, hi \in Int : lo = said + 2 /\ hi = said + 1 + c
      BY <1>2
    <2>3. Cardinality(lo..hi) = IF lo > hi THEN 0 ELSE hi - lo + 1
      BY <2>2, FS_Interval
    <2> HIDE DEF ids
    <2> QED BY <1>2, <2>1, <2>2, <2>3
  <1>7. \A k \in 1..c : told[k] = Result(k)
    OBVIOUS
  <1>8. told \in Seq(Lines) /\ Len(told) = c
    <2>1. told \in [1..c -> Lines]
      BY <1>3
    <2> HIDE DEF told
    <2> QED BY <1>2, <2>1, SeqDef, LenProperties
  <1> HIDE DEF told, answer
  <1>9. /\ a \in Seq(Lines) /\ Len(a) = c + 1 /\ a[1] = answer
        /\ \A i \in 1..(c + 1) : i = 1 \/ (i - 1 \in 1..c /\ a[i] = Result(i - 1))
    <2>1. PICK h : h = <<answer>>
      OBVIOUS
    <2>2. h \in Seq(Lines) /\ Len(h) = 1 /\ h[1] = answer
      BY <1>5, <2>1
    <2>3. Joined(a, h, told)
      BY <1>1, <1>8, <2>1, <2>2, Joins
    <2>4. 1 \in 1..Len(h)
      BY <2>2
    <2>5. Len(a) = c + 1 /\ a[1] = answer
      BY <1>2, <1>8, <2>2, <2>3, <2>4 DEF Joined
    <2>6. ASSUME NEW i \in 1..(c + 1), i # 1 PROVE i - 1 \in 1..c /\ a[i] = Result(i - 1)
      <3> HIDE DEF Result
      <3>1. PICK j : j = i - 1
        OBVIOUS
      <3>2. j \in 1..c /\ 1 + j = i
        BY <1>2, <2>6, <3>1
      <3>3. a[1 + j] = told[j]
        BY <1>8, <2>2, <2>3, <3>2 DEF Joined
      <3> QED BY <1>7, <3>1, <3>2, <3>3
    <2>7. a \in Seq(Lines)
      BY <2>3 DEF Joined
    <2> QED BY <2>5, <2>6, <2>7
  <1>10. ASSUME NEW i \in 1..(c + 1), i # 1
         PROVE  /\ i \in Nat /\ i - 1 \in 1..c /\ a[i].role = "tool" /\ a[i].calls = {said + i}
                /\ a[i].body.of = said + i /\ a[i].body.form = "raw"
    <2>1. i \in Nat /\ i - 1 \in 1..c /\ said + 1 + (i - 1) = said + i
      BY <1>2, <1>9, <1>10
    <2>2. a[i] = Result(i - 1)
      BY <1>9, <1>10
    <2> HIDE DEF Result
    <2> QED BY <1>3, <2>1, <2>2
  <1> HIDE DEF Result
  <1>11. ASSUME NEW i \in 1..(c + 1)
         PROVE  a[i].role # "system" /\ a[i].body.of = said + i /\ a[i].body.form = "raw"
    BY <1>5, <1>9, <1>10
  <1>12. \A x \in ids : \E k \in 1..c : x = said + 1 + k
    OBVIOUS
  <1>13. \A k \in 1..c : said + 1 + k \in ids
    OBVIOUS
  <1> HIDE DEF ids
  <1>14. ASSUME NEW i \in 1..(c + 1), i # 1 PROVE Behind(a, i)
    <2>1. i \in Nat /\ i - 1 \in 1..c /\ a[i].role = "tool" /\ a[i].calls = {said + i}
      BY <1>10, <1>14
    <2>2. PICK one \in Nat : one = 1
      OBVIOUS
    <2>3. one \in 1..(i - 1)
      BY <1>2, <2>1, <2>2
    <2>4. a[one].role = "assistant" /\ a[one].calls = ids
      BY <1>5, <1>9, <2>2
    <2>5. said + i \in ids
      <3>1. said + 1 + (i - 1) = said + i
        BY <2>1
      <3> QED BY <1>13, <2>1, <3>1
    <2>6. \A j \in (one + 1)..(i - 1) : a[j].role = "tool"
      <3>1. \A j \in (one + 1)..(i - 1) : j \in 1..(c + 1) /\ j # 1
        BY <1>2, <2>1, <2>2
      <3> QED BY <1>10, <3>1
    <2>7. a[i].calls # {} /\ a[i].calls \subseteq a[one].calls
      BY <2>1, <2>4, <2>5
    <2> QED BY <2>1, <2>3, <2>4, <2>6, <2>7 DEF Behind
  <1>15. Behind(a, 1)
    <2>1. PICK one \in Nat : one = 1
      OBVIOUS
    <2>2. a[one].role = "assistant" /\ a[one].calls = ids
      BY <1>5, <1>9, <2>1
    <2>3. ASSUME NEW x \in ids
          PROVE  \E k \in 1..c :
                    one + k \in 1..Len(a) /\ a[one + k].role = "tool" /\ a[one + k].calls = {x}
      <3>1. PICK k \in 1..c : x = said + 1 + k
        BY <1>12
      <3>2. PICK i : i = one + k
        OBVIOUS
      <3>3. i \in 1..(c + 1) /\ i # 1 /\ said + i = x
        BY <1>2, <2>1, <3>1, <3>2
      <3>4. a[i].role = "tool" /\ a[i].calls = {x}
        BY <1>10, <3>3
      <3>5. i \in 1..Len(a)
        BY <1>9, <3>3
      <3> QED BY <3>2, <3>4, <3>5
    <2>4. Answered(a, one)
      <3>1. Cardinality(a[one].calls) = c
        BY <1>6, <2>2
      <3> QED BY <2>2, <2>3, <3>1 DEF Answered
    <2>5. Behind(a, one)
      BY <2>2, <2>4 DEF Behind
    <2> QED BY <2>1, <2>5
  <1>16. Spoken(a, said)
    BY <1>9, <1>11 DEF Spoken
  <1>17. \A i \in 1..Len(a) : Behind(a, i)
    BY <1>9, <1>14, <1>15
  <1> QED BY <1>9, <1>16, <1>17 DEF Turned

(* A message of a person is said as any other.                             *)
LEMMA AskedIs ==
  ASSUME NEW last \in Nat, NEW size \in Sizes,
         NEW a, a = <<Window!Message("user", {}, Window!Raw(last + 1, size))>>
  PROVE  a \in Seq(Lines) /\ Len(a) = 1 /\ Turned(a, last)
  <1>1. size \in Nat
    BY TextsAssumption
  <1>2. PICK m : m = Window!Message("user", {}, Window!Raw(last + 1, size))
    OBVIOUS
  <1>3. m \in Lines /\ m.role = "user" /\ m.body.of = last + 1 /\ m.body.form = "raw"
    BY <1>1, <1>2 DEF Window!Message, Window!Raw, Lines, Bodies, Speakers
  <1>4. a \in Seq(Lines) /\ Len(a) = 1 /\ a[1] = m
    BY <1>2, <1>3
  <1>5. \A i \in 1..Len(a) : i = 1
    BY <1>4
  <1>6. Spoken(a, last)
    BY <1>3, <1>4, <1>5 DEF Spoken
  <1>7. \A i \in 1..Len(a) : Behind(a, i)
    BY <1>3, <1>4, <1>5 DEF Behind
  <1> QED BY <1>4, <1>6, <1>7 DEF Turned

-----------------------------------------------------------------------------
(* The steps of a run on its window.                                       *)

(* The run starts with its system message and what it was asked.           *)
LEMMA WindowStarts == Init => WindowInv
  <1> SUFFICES ASSUME Init PROVE WindowInv
    OBVIOUS
  <1>1. PICK a : a = Window!Message("system", {}, Window!Raw(0, 1))
    OBVIOUS
  <1>2. PICK b : b = Window!Message("user", {}, Window!Raw(1, 1))
    OBVIOUS
  <1>3. /\ window = <<a, b>> /\ archive = <<>> /\ torn = FALSE /\ turn = 1 /\ said = 1
    BY <1>1, <1>2 DEF Init, Window!Init
  <1>4. a \in Lines /\ a.role = "system" /\ a.body.of = 0 /\ a.body.form = "raw"
    BY <1>1 DEF Window!Message, Window!Raw, Lines, Bodies, Speakers
  <1>5. b \in Lines /\ b.role = "user" /\ b.body.of = 1 /\ b.body.form = "raw"
    BY <1>2 DEF Window!Message, Window!Raw, Lines, Bodies, Speakers
  <1>6. window \in Seq(Lines) /\ Len(window) = 2 /\ window[1] = a /\ window[2] = b
    BY <1>3, <1>4, <1>5
  <1>7. archive \in Seq(Filings) /\ Len(archive) = 0
    BY <1>3, EmptySeq
  <1>8. \A i \in 1..Len(window) : i = 1 \/ i = 2
    BY <1>6
  <1>9. WindowTypes
    <2>1. turn \in 1..MaxTurns /\ said \in Nat
      BY <1>3, TurnsAssumption
    <2>2. torn \in BOOLEAN
      BY <1>3
    <2> QED BY <1>6, <1>7, <2>1, <2>2 DEF WindowTypes
  <1>10. Chained(archive, said)
    BY <1>7 DEF Chained
  <1>11. \A i \in 1..Len(window) : Stems(window[i], archive, said)
    BY <1>3, <1>4, <1>5, <1>6, <1>8 DEF Stems, Leads
  <1>12. \A n \in 1..said : Recalled(n, window, archive)
    <2>1. \A n \in 1..said : n = 1
      BY <1>3
    <2>2. 2 \in 1..Len(window)
      BY <1>6
    <2> QED BY <1>5, <1>6, <2>1, <2>2 DEF Recalled
  <1>13. Whole(window)
    <2>1. \A i \in 1..Len(window) : Placed(window, i)
      BY <1>4, <1>5, <1>6, <1>8 DEF Placed
    <2> QED BY <1>4, <1>6, <2>1 DEF Whole
  <1> QED BY <1>9, <1>10, <1>11, <1>12, <1>13 DEF WindowInv, Kept

(* A compaction keeps the invariant of the window.                         *)
LEMMA CompactKeeps == ASSUME WindowInv, Window!Compact PROVE WindowInv'
  <1>1. /\ window \in Seq(Lines) /\ archive \in Seq(Filings) /\ said \in Nat /\ turn \in Nat
        /\ Kept(window, archive, said) /\ Whole(window)
    BY TurnsAssumption DEF WindowInv, WindowTypes
  <1>2. PICK new : new = Window!Archived(window)
    OBVIOUS
  <1>3. PICK v : v = Window!Compacted(window, new)
    OBVIOUS
  <1>4. archive' = new /\ window' = v /\ UNCHANGED <<torn, turn, said>>
    BY <1>2, <1>3 DEF Window!Compact
  <1>5. Grown(new, archive, window, Len(window))
    BY <1>1, <1>2, ArchivedGrows
  <1>6. /\ new \in Seq(Filings) /\ Filing(new, window, Len(window))
        /\ Enlarged(new, archive, window, Len(window))
    BY <1>5 DEF Grown, Enlarged
  <1>7. Kept(window, new, said)
    BY <1>1, <1>6, EnlargedKeeps
  <1>8. v \in Seq(Lines) /\ Whole(v) /\ Stemmed(v, new, said)
    <2>1. Stemmed(window, new, said)
      BY <1>7 DEF Kept, Stemmed
    <2> QED BY <1>1, <1>3, <1>6, <2>1, CompactedIs
  <1>9. Kept(v, new, said)
    <2>1. ASSUME NEW n \in 1..said PROVE Recalled(n, v, new)
      <3>1. archive \in Seq(Filings) /\ window \in Seq(Lines) /\ said \in Nat /\ Kept(window, archive, said)
        BY <1>1
      <3>2. \E k \in 1..Len(new) : new[k].body.of = n /\ new[k].body.form = "raw"
        BY <1>5, <3>1, AllFiled
      <3> QED BY <3>2 DEF Recalled
    <2> QED BY <1>7, <1>8, <2>1 DEF Kept, Stemmed
  <1>10. WindowTypes'
    BY <1>4, <1>6, <1>8 DEF WindowInv, WindowTypes
  <1> QED BY <1>4, <1>8, <1>9, <1>10 DEF WindowInv

(* A compaction that is cut off keeps the invariant of the window.         *)
LEMMA BreakOffKeeps == ASSUME WindowInv, Window!BreakOff PROVE WindowInv'
  <1>1. /\ window \in Seq(Lines) /\ archive \in Seq(Filings) /\ said \in Nat /\ turn \in Nat
        /\ Kept(window, archive, said) /\ Whole(window)
    BY TurnsAssumption DEF WindowInv, WindowTypes
  <1>2. PICK new : new = Window!Archived(window)
    OBVIOUS
  <1>3. PICK k \in Len(archive)..Len(new) : archive' = SubSeq(new, 1, k) /\ torn' \in BOOLEAN
    BY <1>2 DEF Window!BreakOff
  <1>4. UNCHANGED <<window, turn, said>>
    BY DEF Window!BreakOff
  <1>5. Enlarged(new, archive, window, Len(window))
    BY <1>1, <1>2, ArchivedGrows DEF Grown
  <1>6. PICK part : part = SubSeq(new, 1, k)
    OBVIOUS
  <1>7. Enlarged(part, archive, window, Len(window))
    BY <1>1, <1>5, <1>6, CutEnlarges
  <1>8. Kept(window, part, said)
    BY <1>1, <1>7, EnlargedKeeps
  <1>9. WindowTypes'
    BY <1>3, <1>4, <1>6, <1>7 DEF WindowInv, WindowTypes, Enlarged
  <1> QED BY <1>1, <1>3, <1>4, <1>6, <1>8, <1>9 DEF WindowInv

(* A turn keeps the invariant of the window.                               *)
LEMMA TurnKeeps == ASSUME WindowInv, Window!Turn PROVE WindowInv'
  <1>1. /\ window \in Seq(Lines) /\ archive \in Seq(Filings) /\ said \in Nat /\ turn \in Nat
        /\ Kept(window, archive, said) /\ Whole(window) /\ turn \in 1..MaxTurns
    BY TurnsAssumption DEF WindowInv, WindowTypes
  <1>2. PICK c \in 0..2, size \in Sizes, results \in Sizes, asked \in BOOLEAN :
           LET answer == Window!Answer(c, size, results)
               next == said + Len(answer) + 1
           IN /\ window' = window \o answer \o
                    IF asked THEN <<Window!Message("user", {}, Window!Raw(next, size))>> ELSE <<>>
              /\ said' = IF asked THEN next ELSE next - 1
    BY DEF Window!Turn
  <1>3. turn < MaxTurns /\ turn' = turn + 1 /\ UNCHANGED <<archive, torn>>
    BY DEF Window!Turn
  <1>4. PICK a : a = Window!Answer(c, size, results)
    OBVIOUS
  <1>5. a \in Seq(Lines) /\ Len(a) \in Nat /\ Turned(a, said)
    BY <1>1, <1>2, <1>4, AnswerIs, LenProperties
  <1>6. PICK v : v = window \o a
    OBVIOUS
  <1>7. PICK last \in Nat : last = said + Len(a)
    BY <1>1, <1>5
  <1>8. v \in Seq(Lines) /\ Kept(v, archive, last) /\ Whole(v)
    <2>1. Joined(v, window, a)
      BY <1>1, <1>5, <1>6, Joins
    <2>2. Kept(v, archive, last)
      BY <1>1, <1>5, <1>7, <2>1, TurnedKept DEF Turned
    <2>3. Whole(v)
      BY <1>1, <1>5, <2>1, TurnedWhole DEF Turned
    <2> QED BY <2>1, <2>2, <2>3 DEF Joined
  <1>9. turn' \in 1..MaxTurns
    BY <1>1, <1>3, TurnsAssumption
  <1>10. CASE asked
    <2>1. PICK b : b = <<Window!Message("user", {}, Window!Raw(last + 1, size))>>
      OBVIOUS
    <2>2. b \in Seq(Lines) /\ Len(b) = 1 /\ Turned(b, last)
      BY <1>2, <2>1, AskedIs
    <2>3. window' = v \o b /\ said' = last + 1
      BY <1>2, <1>4, <1>6, <1>7, <1>10, <2>1
    <2>4. PICK u : u = v \o b
      OBVIOUS
    <2>5. Joined(u, v, b)
      BY <1>8, <2>2, <2>4, Joins
    <2>6. Kept(u, archive, last + 1)
      <3>1. Kept(u, archive, last + Len(b))
        BY <1>8, <2>2, <2>5, TurnedKept DEF Turned
      <3> QED BY <2>2, <3>1
    <2>7. Whole(u)
      BY <1>8, <2>2, <2>5, TurnedWhole DEF Turned
    <2>8. u \in Seq(Lines)
      BY <2>5 DEF Joined
    <2>9. WindowTypes'
      BY <1>3, <1>9, <2>3, <2>4, <2>8 DEF WindowInv, WindowTypes
    <2> QED BY <1>3, <2>3, <2>4, <2>6, <2>7, <2>9 DEF WindowInv
  <1>11. CASE ~asked
    <2>1. window' = v /\ said' = last
      <3>1. window' = v \o <<>> /\ said' = last
        BY <1>1, <1>2, <1>4, <1>5, <1>6, <1>7, <1>11
      <3> QED BY <1>8, <3>1
    <2>2. WindowTypes'
      BY <1>3, <1>8, <1>9, <2>1 DEF WindowInv, WindowTypes
    <2> QED BY <1>3, <1>8, <2>1, <2>2 DEF WindowInv
  <1> QED BY <1>10, <1>11

(* Every step keeps the invariant of the window.                           *)
LEMMA WindowKept == WindowInv /\ [Window!Next]_windowVars => WindowInv'
  <1> SUFFICES ASSUME WindowInv, [Window!Next]_windowVars PROVE WindowInv'
    OBVIOUS
  <1>1. CASE Window!Compact
    BY <1>1, CompactKeeps
  <1>2. CASE Window!BreakOff
    BY <1>2, BreakOffKeeps
  <1>3. CASE Window!Turn
    BY <1>3, TurnKeeps
  <1>4. CASE UNCHANGED windowVars
    BY <1>4 DEF windowVars, WindowInv, WindowTypes
  <1> QED BY <1>1, <1>2, <1>3, <1>4 DEF Window!Next

(* A line of the archive is written whole or not at all.                   *)
LEMMA NeverTorn ==
  ASSUME Tears = FALSE, torn = FALSE, [Window!Next]_windowVars
  PROVE  torn' = FALSE
  BY DEF windowVars, Window!Next, Window!Compact, Window!BreakOff, Window!Turn

(* The module of the window counts as every other.                         *)
LEMMA CallsAgree == ASSUME NEW S PROVE Window!Cardinality(S) = Cardinality(S)
  BY DEF Window!Cardinality, Cardinality, Window!IsFiniteSet, IsFiniteSet

(* The invariant of the window holds its types.                            *)
LEMMA WindowIsTyped == WindowInv => Window!TypeOK
  <1> SUFFICES ASSUME WindowInv PROVE Window!TypeOK
    OBVIOUS
  <1>1. /\ window \in Seq(Lines) /\ archive \in Seq(Filings) /\ said \in Nat
        /\ turn \in 1..MaxTurns /\ torn \in BOOLEAN
    BY DEF WindowInv, WindowTypes
  <1>2. DOMAIN window = 1..Len(window) /\ DOMAIN archive = 1..Len(archive)
    BY <1>1, LenProperties
  <1>3. ASSUME NEW i \in DOMAIN window
        PROVE  /\ window[i].role \in {"system", "user", "assistant", "tool"}
               /\ window[i].body.of \in 0..said
    <2>1. window[i] \in Lines
      BY <1>1, <1>2, ElementOfSeq
    <2>2. Stems(window[i], archive, said)
      BY <1>2 DEF WindowInv, Kept
    <2>3. window[i].body.of \in 0..said
      BY <1>1, <2>2 DEF Stems
    <2> QED BY <2>1, <2>3 DEF Lines, Speakers
  <1>4. ASSUME NEW k \in DOMAIN archive PROVE archive[k].body.of \in 1..said
    BY <1>2 DEF WindowInv, Kept, Chained
  <1> QED BY <1>1, <1>3, <1>4 DEF Window!TypeOK

(* The invariant of the window says that results stand with their calls.   *)
LEMMA WindowIsWhole == WindowInv => Window!CallsStayWhole
  <1> SUFFICES ASSUME WindowInv PROVE Window!CallsStayWhole
    OBVIOUS
  <1>1. window \in Seq(Lines) /\ Whole(window)
    BY DEF WindowInv, WindowTypes
  <1>2. DOMAIN window = 1..Len(window)
    BY <1>1, LenProperties
  <1>3. window[1].body.of = 0
    <2>1. 1 \in 1..Len(window) /\ window[1].role = "system"
      BY <1>1, LenProperties DEF Whole
    <2>2. Stems(window[1], archive, said)
      BY <2>1 DEF WindowInv, Kept
    <2> QED BY <2>1, <2>2 DEF Stems
  <1>4. ASSUME NEW i \in DOMAIN window, window[i].role = "assistant"
        PROVE  \A c \in window[i].calls : \E k \in 1..Window!Cardinality(window[i].calls) :
                  /\ i + k \in DOMAIN window
                  /\ window[i + k].role = "tool" /\ window[i + k].calls = {c}
    <2>1. Answered(window, i)
      BY <1>1, <1>2, <1>4 DEF Whole, Placed
    <2>2. Window!Cardinality(window[i].calls) = Cardinality(window[i].calls)
      BY CallsAgree
    <2> QED BY <1>2, <2>1, <2>2 DEF Answered
  <1>5. ASSUME NEW i \in DOMAIN window, window[i].role = "tool"
        PROVE  \E k \in 1..(i - 1) :
                  window[k].role = "assistant" /\ window[i].calls \subseteq window[k].calls
    <2>1. PICK k \in Nat : Asks(window, k, i)
      BY <1>1, <1>2, <1>5 DEF Whole, Placed
    <2>2. k \in 1..(i - 1)
      BY <1>1, <1>2, <2>1, LenProperties DEF Asks
    <2> QED BY <2>1, <2>2 DEF Asks
  <1> QED BY <1>3, <1>4, <1>5 DEF Window!CallsStayWhole

(* While the archive was never torn, what left the window stands there.    *)
LEMMA WindowLosesNothing ==
  ASSUME WindowInv, torn = FALSE
  PROVE  Window!NothingIsLost
  <1> DEFINE bodies == {window[i].body : i \in DOMAIN window}
                          \cup {archive[k].body : k \in DOMAIN archive}
  <1>1. /\ window \in Seq(Lines) /\ archive \in Seq(Filings) /\ said \in Nat
        /\ Kept(window, archive, said)
    BY DEF WindowInv, WindowTypes
  <1>2. DOMAIN window = 1..Len(window) /\ DOMAIN archive = 1..Len(archive)
    BY <1>1, LenProperties
  <1>3. ASSUME NEW n \in 1..said PROVE \E body \in bodies : body.of = n /\ body.form = "raw"
    <2>1. Recalled(n, window, archive)
      BY <1>1 DEF Kept
    <2>2. CASE \E i \in 1..Len(window) : window[i].body.of = n /\ window[i].body.form = "raw"
      BY <1>2, <2>2
    <2>3. CASE \E k \in 1..Len(archive) : archive[k].body.of = n /\ archive[k].body.form = "raw"
      BY <1>2, <2>3
    <2> QED BY <2>1, <2>2, <2>3 DEF Recalled
  <1>4. ASSUME NEW i \in DOMAIN window
        PROVE  \/ window[i].body.form = "raw"
               \/ /\ window[i].body.ref \in 1..Len(archive)
                  /\ archive[window[i].body.ref].body.of = window[i].body.of
    <2>1. Stems(window[i], archive, said)
      BY <1>1, <1>2 DEF Kept
    <2> QED BY <2>1 DEF Stems, Leads
  <1>5. ASSUME NEW k \in DOMAIN archive
        PROVE  \/ archive[k].body.form = "raw"
               \/ /\ archive[k].body.ref \in 1..(k - 1)
                  /\ archive[archive[k].body.ref].body.of = archive[k].body.of
    BY <1>1, <1>2 DEF Kept, Chained, Leads
  <1> QED BY <1>3, <1>4, <1>5 DEF Window!NothingIsLost

(* Whatever the window is cut to, its results stay behind the message that *)
(* asked for them and none of that message's is missing, also when a write *)
(* of the archive is torn and the run goes on.                             *)
THEOREM CallsAreWhole == Spec => []Window!CallsStayWhole
  BY WindowIsWhole, WindowStarts, StepsOfParts, WindowKept, PTL DEF Spec

(* While no write of the archive is torn, whatever a run was told can be   *)
(* recalled and the window keeps calls and results together (Compact of    *)
(* internal/contextmanager over ArchiveMessages of internal/memory).       *)
THEOREM ContextIsKept == ASSUME Tears = FALSE PROVE Spec => []ContextHolds
  <1> DEFINE Inv == WindowInv /\ torn = FALSE
  <1>1. Init => Inv
    BY WindowStarts DEF Init, Window!Init
  <1>2. Inv /\ [Next]_vars => Inv'
    BY StepsOfParts, WindowKept, NeverTorn
  <1>3. Inv => ContextHolds
    BY WindowLosesNothing, WindowIsWhole DEF ContextHolds
  <1> QED BY <1>1, <1>2, <1>3, PTL DEF Spec
-----------------------------------------------------------------------------
(* The edits of a file.                                                    *)

(* The numbers of a set in their order.                                    *)
Rising(s) == \A j, k \in 1..Len(s) : j < k => s[j] < s[k]

Enumerates(s, S) ==
    /\ s \in Seq(Nat) /\ Rising(s)
    /\ \A k \in 1..Len(s) : s[k] \in S
    /\ \A i \in S : \E k \in 1..Len(s) : s[k] = i

Walks(f, S, n) ==
    /\ f[0] = <<>>
    /\ \A k \in 1..n : f[k] = IF k \in S THEN Append(f[k - 1], k) ELSE f[k - 1]

(* The numbers of a set up to n are listed by a walk over 1..n.            *)
LEMMA AscendingUnfolds ==
  ASSUME NEW S, NEW n \in Nat
  PROVE  \E f : Walks(f, S, n) /\ Edits!Ascending(S, n) = f[n]
  <1> DEFINE Step(f, i) == IF i = 0 THEN <<>>
                           ELSE IF i \in S THEN Append(f[i - 1], i) ELSE f[i - 1]
             Solves(f, m) == f = [i \in 0..m |-> Step(f, i)]
             T == {m \in Nat : ~\E f : Solves(f, m)}
  <1>1. T = {}
    <2> SUFFICES ASSUME T # {} PROVE FALSE
      OBVIOUS
    <2>1. T \subseteq Nat
      OBVIOUS
    <2> HIDE DEF T
    <2>2. PICK m \in T : \A l \in T : m <= l
      BY <2>1, Least
    <2>3. m \in Nat /\ ~\E f : Solves(f, m)
      BY DEF T
    <2>4. m # 0
      <3>1. SUFFICES ASSUME m = 0 PROVE Solves([i \in 0..0 |-> <<>>], m)
        BY <2>3
      <3> QED BY <3>1
    <2>5. m - 1 \in Nat /\ m - 1 \notin T
      BY <2>2, <2>3, <2>4
    <2>6. PICK g : Solves(g, m - 1)
      BY <2>5 DEF T
    <2> DEFINE f == [i \in 0..m |-> IF i = m THEN IF m \in S THEN Append(g[m - 1], m) ELSE g[m - 1]
                                    ELSE g[i]]
    <2>7. \A i \in 0..m : f[i] = Step(f, i)
      <3> SUFFICES ASSUME NEW i \in 0..m PROVE f[i] = Step(f, i)
        OBVIOUS
      <3>1. CASE i = m
        <4>1. f[i - 1] = g[m - 1]
          BY <2>3, <2>4, <3>1
        <4> QED BY <2>4, <3>1, <4>1
      <3>2. CASE i # m
        <4>1. i \in 0..(m - 1) /\ f[i] = g[i]
          BY <2>3, <3>2
        <4>2. g[i] = Step(g, i)
          BY <2>6, <4>1
        <4>3. i # 0 => f[i - 1] = g[i - 1]
          BY <2>3, <4>1
        <4> QED BY <4>1, <4>2, <4>3
      <3> QED BY <3>1, <3>2
    <2>8. Solves(f, m)
      <3> HIDE DEF Step
      <3> QED BY <2>7
    <2> QED BY <2>3, <2>8
  <1>2. PICK g : Solves(g, n)
    BY <1>1
  <1>3. PICK f : f = CHOOSE h : Solves(h, n)
    OBVIOUS
  <1>4. Solves(f, n) /\ Edits!Ascending(S, n) = f[n]
    <2>1. Edits!Ascending(S, n) = (CHOOSE h : Solves(h, n))[n]
      BY DEF Edits!Ascending
    <2> HIDE DEF Solves
    <2> QED BY <1>2, <1>3, <2>1
  <1>5. \A i \in 0..n : f[i] = Step(f, i)
    <2>1. f = [i \in 0..n |-> Step(f, i)]
      BY <1>4
    <2> HIDE DEF Step
    <2> QED BY <2>1
  <1>6. Walks(f, S, n)
    <2>1. f[0] = <<>>
      BY <1>5
    <2>2. ASSUME NEW k \in 1..n
          PROVE  f[k] = IF k \in S THEN Append(f[k - 1], k) ELSE f[k - 1]
      <3>1. k \in 0..n /\ k # 0
        OBVIOUS
      <3> QED BY <1>5, <3>1
    <2> QED BY <2>1, <2>2 DEF Walks
  <1> QED BY <1>4, <1>6

(* The walk lists each number of the set once, the smaller ones first.     *)
LEMMA AscendingIs ==
  ASSUME NEW n \in Nat, NEW S, S \subseteq 1..n
  PROVE  Enumerates(Edits!Ascending(S, n), S)
  <1>1. PICK f : Walks(f, S, n) /\ Edits!Ascending(S, n) = f[n]
    BY AscendingUnfolds
  <1> DEFINE Upto(k) == {i \in S : i <= k}
             T == {k \in Nat : k <= n /\ ~Enumerates(f[k], Upto(k))}
  <1>2. Enumerates(f[0], Upto(0))
    <2>1. f[0] = <<>>
      BY <1>1 DEF Walks
    <2>2. Upto(0) = {}
      <3>1. \A i \in S : i \in Nat /\ ~(i <= 0)
        OBVIOUS
      <3> QED BY <3>1
    <2> HIDE DEF Upto
    <2> QED BY <2>1, <2>2, EmptySeq DEF Enumerates, Rising
  <1>3. ASSUME NEW k \in 1..n, Enumerates(f[k - 1], Upto(k - 1)) PROVE Enumerates(f[k], Upto(k))
    <2>1. k \in Nat /\ \A i \in S : i \in Nat
      OBVIOUS
    <2>2. CASE k \in S
      <3>1. f[k] = Append(f[k - 1], k)
        BY <1>1, <2>2 DEF Walks
      <3>2. PICK s : s = f[k - 1]
        OBVIOUS
      <3>3. PICK t : t = f[k]
        OBVIOUS
      <3>4. /\ s \in Seq(Nat) /\ Rising(s) /\ Len(s) \in Nat
            /\ \A j \in 1..Len(s) : s[j] \in Upto(k - 1)
            /\ \A i \in Upto(k - 1) : \E j \in 1..Len(s) : s[j] = i
        BY <1>3, <3>2, LenProperties DEF Enumerates
      <3>5. /\ t \in Seq(Nat) /\ Len(t) = Len(s) + 1 /\ t[Len(s) + 1] = k
            /\ \A j \in 1..Len(s) : t[j] = s[j]
        BY <2>1, <3>1, <3>2, <3>3, <3>4, AppendProperties
      <3>6. \A j \in 1..Len(s) : s[j] \in S /\ s[j] \in Nat /\ s[j] < k
        BY <2>1, <3>4
      <3>7. \A j \in 1..Len(t) : j \in 1..Len(s) \/ j = Len(s) + 1
        BY <3>4, <3>5
      <3>8. \A j \in 1..Len(t) : t[j] \in Upto(k)
        BY <2>1, <2>2, <3>5, <3>6, <3>7
      <3>9. Rising(t)
        <4> SUFFICES ASSUME NEW i \in 1..Len(t), NEW j \in 1..Len(t), i < j PROVE t[i] < t[j]
          BY DEF Rising
        <4>1. i \in 1..Len(s)
          BY <3>4, <3>5
        <4>2. CASE j \in 1..Len(s)
          BY <3>4, <3>5, <4>1, <4>2 DEF Rising
        <4>3. CASE j = Len(s) + 1
          BY <3>5, <3>6, <4>1, <4>3
        <4> QED BY <3>7, <4>2, <4>3
      <3>10. \A i \in Upto(k) : \E j \in 1..Len(t) : t[j] = i
        <4> SUFFICES ASSUME NEW i \in Upto(k) PROVE \E j \in 1..Len(t) : t[j] = i
          OBVIOUS
        <4>1. CASE i = k
          <5>1. Len(s) + 1 \in 1..Len(t)
            BY <3>4, <3>5
          <5> QED BY <3>5, <4>1, <5>1
        <4>2. CASE i # k
          <5>1. i \in Upto(k - 1)
            BY <2>1, <4>2
          <5>2. PICK j \in 1..Len(s) : s[j] = i
            BY <3>4, <5>1
          <5>3. j \in 1..Len(t)
            BY <3>4, <3>5
          <5> QED BY <3>5, <5>2, <5>3
        <4> QED BY <4>1, <4>2
      <3> HIDE DEF Upto
      <3> QED BY <3>3, <3>5, <3>8, <3>9, <3>10 DEF Enumerates
    <2>3. CASE k \notin S
      <3>1. f[k] = f[k - 1]
        BY <1>1, <2>3 DEF Walks
      <3>2. \A i \in S : i <= k - 1 <=> i <= k
        BY <2>1, <2>3
      <3>3. Upto(k) = Upto(k - 1)
        BY <3>2
      <3> HIDE DEF Upto
      <3> QED BY <1>3, <3>1, <3>3
    <2> QED BY <2>2, <2>3
  <1>4. T = {}
    <2> SUFFICES ASSUME T # {} PROVE FALSE
      OBVIOUS
    <2>1. T \subseteq Nat
      OBVIOUS
    <2> HIDE DEF T
    <2>2. PICK k \in T : \A l \in T : k <= l
      BY <2>1, Least
    <2>3. k \in Nat /\ k <= n /\ ~Enumerates(f[k], Upto(k))
      BY DEF T
    <2> HIDE DEF Upto
    <2>4. k # 0
      BY <1>2, <2>3
    <2>5. k \in 1..n /\ k - 1 \in Nat /\ k - 1 <= n /\ k - 1 \notin T
      BY <2>2, <2>3, <2>4
    <2>6. Enumerates(f[k - 1], Upto(k - 1))
      BY <2>5 DEF T
    <2> QED BY <1>3, <2>3, <2>5, <2>6
  <1>5. Upto(n) = S
    <2>1. \A i \in S : i <= n
      OBVIOUS
    <2> QED BY <2>1
  <1> HIDE DEF Upto
  <1>6. Enumerates(f[n], Upto(n))
    BY <1>4
  <1> QED BY <1>1, <1>5, <1>6

(* There is one enumeration of a set.                                      *)
LEMMA OneEnumeration ==
  ASSUME NEW S, NEW s, Enumerates(s, S), NEW t, Enumerates(t, S)
  PROVE  s = t
  <1>1. /\ s \in Seq(Nat) /\ t \in Seq(Nat) /\ Len(s) \in Nat /\ Len(t) \in Nat
        /\ \A k \in 1..Len(s) : s[k] \in Nat
        /\ \A k \in 1..Len(t) : t[k] \in Nat
    BY LenProperties, ElementOfSeq DEF Enumerates
  <1> DEFINE U == {k \in Nat : k \in 1..Len(s) /\ k \in 1..Len(t) /\ s[k] # t[k]}
  <1>2. ASSUME NEW a, Enumerates(a, S), NEW b, Enumerates(b, S),
               NEW k \in 1..Len(a), k \in 1..Len(b), a[k] < b[k],
               \A j \in 1..(k - 1) : a[j] = b[j],
               Len(b) \in Nat, \A j \in 1..Len(b) : b[j] \in Nat, a[k] \in Nat
        PROVE  FALSE
    <2>1. PICK j \in 1..Len(b) : b[j] = a[k]
      BY <1>2 DEF Enumerates
    <2>2. ~(k <= j)
      <3>1. k = j \/ ~(k < j) \/ b[k] < b[j]
        BY <1>2 DEF Enumerates, Rising
      <3> QED BY <1>2, <2>1, <3>1
    <2>3. j \in 1..(k - 1) /\ j < k /\ j \in 1..Len(a)
      BY <1>2, <2>2
    <2>4. a[j] < a[k]
      BY <1>2, <2>3 DEF Enumerates, Rising
    <2> QED BY <1>2, <2>1, <2>3, <2>4
  <1>3. U = {}
    <2> SUFFICES ASSUME U # {} PROVE FALSE
      OBVIOUS
    <2>1. U \subseteq Nat
      OBVIOUS
    <2> HIDE DEF U
    <2>2. PICK k \in U : \A l \in U : k <= l
      BY <2>1, Least
    <2>3. k \in 1..Len(s) /\ k \in 1..Len(t) /\ s[k] # t[k] /\ k \in Nat
      BY DEF U
    <2>4. \A j \in 1..(k - 1) : s[j] = t[j]
      <3> SUFFICES ASSUME NEW j \in 1..(k - 1) PROVE s[j] = t[j]
        OBVIOUS
      <3>1. j \in Nat /\ j \in 1..Len(s) /\ j \in 1..Len(t) /\ ~(k <= j)
        BY <1>1, <2>3
      <3>2. j \notin U
        BY <2>2, <3>1
      <3> QED BY <3>1, <3>2 DEF U
    <2>5. s[k] < t[k] \/ t[k] < s[k]
      BY <1>1, <2>3
    <2>6. \A j \in 1..(k - 1) : t[j] = s[j]
      BY <2>4
    <2>7. CASE s[k] < t[k]
      BY <1>1, <1>2, <2>3, <2>4, <2>7
    <2>8. CASE t[k] < s[k]
      BY <1>1, <1>2, <2>3, <2>6, <2>8
    <2> QED BY <2>5, <2>7, <2>8
  <1>4. ASSUME NEW a, Enumerates(a, S), NEW b, Enumerates(b, S), Len(a) \in Nat, Len(b) \in Nat,
               Len(a) < Len(b), \A j \in 1..Len(a) : a[j] = b[j],
               \A j \in 1..Len(b) : b[j] \in Nat
        PROVE  FALSE
    <2>1. PICK k : k = Len(a) + 1
      OBVIOUS
    <2>2. k \in 1..Len(b) /\ k \in Nat
      BY <1>4, <2>1
    <2>3. b[k] \in S
      BY <1>4, <2>2 DEF Enumerates
    <2>4. PICK j \in 1..Len(a) : a[j] = b[k]
      BY <1>4, <2>3 DEF Enumerates
    <2>5. j \in 1..Len(b) /\ j < k /\ b[j] = b[k]
      BY <1>4, <2>1, <2>4
    <2>6. b[j] < b[k]
      BY <1>4, <2>2, <2>5 DEF Enumerates, Rising
    <2> QED BY <1>4, <2>2, <2>5, <2>6
  <1>5. ASSUME NEW j \in 1..Len(s), j \in 1..Len(t) PROVE s[j] = t[j]
    <2>1. j \in Nat /\ j \notin U
      BY <1>3
    <2> QED BY <1>5, <2>1
  <1> HIDE DEF U
  <1>6. ~(Len(s) < Len(t))
    <2> SUFFICES ASSUME Len(s) < Len(t) PROVE FALSE
      OBVIOUS
    <2>1. \A j \in 1..Len(s) : j \in 1..Len(t)
      BY <1>1
    <2> QED BY <1>1, <1>4, <1>5, <2>1
  <1>7. ~(Len(t) < Len(s))
    <2> SUFFICES ASSUME Len(t) < Len(s) PROVE FALSE
      OBVIOUS
    <2>1. \A j \in 1..Len(t) : j \in 1..Len(s)
      BY <1>1
    <2>2. \A j \in 1..Len(t) : t[j] = s[j]
      BY <1>5, <2>1
    <2> QED BY <1>1, <1>4, <2>2
  <1>8. Len(s) = Len(t)
    BY <1>1, <1>6, <1>7
  <1> QED BY <1>1, <1>5, <1>8, SeqEqual

-----------------------------------------------------------------------------
(* Texts and their parts.                                                  *)

Symbols == {Letter, "SP", "LF", "CR"}
Uncut(text) == {i \in 1..Len(text) : ~Edits!CutsPair(text, i)}
Plain(symbol) == IF symbol = "CR" THEN "LF" ELSE symbol

(* A part of a sequence, from behind one position to another.              *)
Sliced(part, s, from, to) ==
    /\ Len(part) = to - from /\ \A i \in 1..(to - from) : part[i] = s[from + i]

(* A part of a sequence and its elements.                                  *)
LEMMA PartOf ==
  ASSUME NEW S, NEW s \in Seq(S), NEW from \in 0..Len(s), NEW to \in from..Len(s)
  PROVE  SubSeq(s, from + 1, to) \in Seq(S) /\ Sliced(SubSeq(s, from + 1, to), s, from, to)
  <1>1. Len(s) \in Nat /\ from \in Nat /\ to \in Nat /\ from <= to
    BY LenProperties
  <1>2. PICK first : first = from + 1
    OBVIOUS
  <1>3. first \in Nat /\ \A i \in first..to : s[i] \in S
    <2>1. \A i \in first..to : i \in 1..Len(s)
      BY <1>1, <1>2
    <2> QED BY <1>1, <1>2, <2>1, ElementOfSeq
  <1>4. PICK part : part = SubSeq(s, first, to)
    OBVIOUS
  <1>5. /\ part \in Seq(S) /\ Len(part) = IF first <= to THEN to - first + 1 ELSE 0
        /\ \A i \in 1..(to - first + 1) : part[i] = s[first + i - 1]
    BY <1>1, <1>3, <1>4, SubSeqProperties
  <1>6. Len(part) = to - from
    BY <1>1, <1>2, <1>5
  <1>7. ASSUME NEW i \in 1..(to - from) PROVE part[i] = s[from + i]
    <2>1. i \in 1..(to - first + 1) /\ first + i - 1 = from + i
      BY <1>1, <1>2
    <2> QED BY <1>5, <2>1
  <1> QED BY <1>2, <1>4, <1>5, <1>6, <1>7 DEF Sliced

(* Parts that say the same are the same.                                   *)
LEMMA SamePart ==
  ASSUME NEW S, NEW p \in Seq(S), NEW q \in Seq(S), Len(p) = Len(q),
         \A i \in 1..Len(p) : p[i] = q[i]
  PROVE  p = q
  BY SeqEqual

(* What is said for each number up to n is a sequence.                     *)
LEMMA Tabled ==
  ASSUME NEW S, NEW n \in Nat, NEW s \in [1..n -> S]
  PROVE  s \in Seq(S) /\ Len(s) = n
  <1>1. s \in Seq(S)
    BY SeqDef
  <1>2. DOMAIN s = 1..n /\ DOMAIN s = 1..Len(s) /\ Len(s) \in Nat
    BY <1>1, LenProperties
  <1> QED BY <1>1, <1>2

(* The ends of the symbols of the normal text, where no pair is cut.       *)
LEMMA EndsAre ==
  ASSUME NEW text \in Seq(Symbols)
  PROVE  /\ Enumerates(Edits!Ends(text), Uncut(text))
         /\ Len(Edits!Ends(text)) \in Nat /\ Len(text) \in Nat
         /\ \A k \in 1..Len(Edits!Ends(text)) :
               Edits!Ends(text)[k] \in 1..Len(text) /\ Edits!Ends(text)[k] \in Uncut(text)
  <1>1. Len(text) \in Nat /\ DOMAIN text = 1..Len(text)
    BY LenProperties
  <1>2. Uncut(text) \subseteq 1..Len(text)
    BY DEF Uncut
  <1>3. Edits!Ends(text) = Edits!Ascending(Uncut(text), Len(text))
    BY <1>1 DEF Edits!Ends, Uncut
  <1>4. Enumerates(Edits!Ends(text), Uncut(text))
    BY <1>1, <1>2, <1>3, AscendingIs
  <1> QED BY <1>1, <1>2, <1>4, LenProperties DEF Enumerates

(* The normal text has one symbol for each end, and no carriage return.    *)
LEMMA NormalIs ==
  ASSUME NEW text \in Seq(Symbols)
  PROVE  /\ Edits!Normal(text) \in Seq(Symbols)
         /\ Len(Edits!Normal(text)) = Len(Edits!Ends(text))
         /\ \A k \in 1..Len(Edits!Ends(text)) :
               /\ Edits!Normal(text)[k] = Plain(text[Edits!Ends(text)[k]])
               /\ Edits!Normal(text)[k] # "CR"
  <1>1. PICK e : e = Edits!Ends(text)
    OBVIOUS
  <1>2. /\ e \in Seq(Nat) /\ Len(e) \in Nat /\ DOMAIN e = 1..Len(e)
        /\ \A k \in 1..Len(e) : text[e[k]] \in Symbols
    <2>1. e \in Seq(Nat) /\ Len(e) \in Nat /\ \A k \in 1..Len(e) : e[k] \in 1..Len(text)
      BY <1>1, EndsAre DEF Enumerates
    <2> QED BY <2>1, LenProperties, ElementOfSeq
  <1>3. Edits!Normal(text) = [k \in 1..Len(e) |-> Plain(text[e[k]])]
    BY <1>1, <1>2 DEF Edits!Normal, Plain
  <1>4. \A k \in 1..Len(e) : Plain(text[e[k]]) \in Symbols /\ Plain(text[e[k]]) # "CR"
    BY <1>2 DEF Plain, Symbols
  <1>5. PICK n : n = Edits!Normal(text)
    OBVIOUS
  <1>6. n \in [1..Len(e) -> Symbols] /\ \A k \in 1..Len(e) : n[k] = Plain(text[e[k]])
    BY <1>3, <1>4, <1>5
  <1>7. n \in Seq(Symbols) /\ Len(n) = Len(e)
    BY <1>2, <1>6, Tabled
  <1> QED BY <1>1, <1>4, <1>5, <1>6, <1>7

(* Offsets rise with the positions of the normal text, and every position  *)
(* that cuts no pair is one.                                               *)
LEMMA OffsetsRise ==
  ASSUME NEW text \in Seq(Symbols), NEW a \in 0..Len(Edits!Ends(text)),
         NEW b \in 0..Len(Edits!Ends(text))
  PROVE  /\ Edits!Offset(text, a) \in 0..Len(text)
         /\ a < b => Edits!Offset(text, a) < Edits!Offset(text, b)
         /\ ~Edits!CutsPair(text, Edits!Offset(text, a))
  <1>1. PICK e : e = Edits!Ends(text)
    OBVIOUS
  <1>2. /\ Enumerates(e, Uncut(text)) /\ Len(e) \in Nat /\ Len(text) \in Nat
        /\ \A k \in 1..Len(e) : e[k] \in 1..Len(text) /\ e[k] \in Uncut(text)
    BY <1>1, EndsAre
  <1>3. /\ \A k \in 1..Len(e) : Edits!Offset(text, k) = e[k]
        /\ Edits!Offset(text, 0) = 0
    BY <1>1, <1>2 DEF Edits!Offset
  <1>4. a = 0 \/ a \in 1..Len(e)
    BY <1>1, <1>2
  <1>5. b = 0 \/ b \in 1..Len(e)
    BY <1>1, <1>2
  <1>6. Edits!Offset(text, a) \in 0..Len(text)
    BY <1>2, <1>3, <1>4
  <1>7. ~Edits!CutsPair(text, Edits!Offset(text, a))
    <2>1. CASE a = 0
      BY <1>2, <1>3, <2>1 DEF Edits!CutsPair
    <2>2. CASE a \in 1..Len(e)
      BY <1>2, <1>3, <2>2 DEF Uncut
    <2> QED BY <1>4, <2>1, <2>2
  <1>8. ASSUME a < b PROVE Edits!Offset(text, a) < Edits!Offset(text, b)
    <2>1. b \in 1..Len(e)
      BY <1>4, <1>5, <1>8
    <2>2. CASE a = 0
      BY <1>2, <1>3, <2>1, <2>2
    <2>3. CASE a \in 1..Len(e)
      BY <1>2, <1>3, <1>8, <2>1, <2>3 DEF Enumerates, Rising
    <2> QED BY <1>4, <2>2, <2>3
  <1> QED BY <1>6, <1>7, <1>8

(* A place that cuts no pair is the offset of a place in the normal text.  *)
LEMMA UncutIsOffset ==
  ASSUME NEW text \in Seq(Symbols), NEW i \in 0..Len(text), ~Edits!CutsPair(text, i)
  PROVE  \E a \in 0..Len(Edits!Ends(text)) : Edits!Offset(text, a) = i
  <1>1. PICK e : e = Edits!Ends(text)
    OBVIOUS
  <1>2. Enumerates(e, Uncut(text)) /\ Len(e) \in Nat /\ Len(text) \in Nat
    BY <1>1, EndsAre
  <1>3. CASE i = 0
    <2>1. Edits!Offset(text, 0) = 0 /\ 0 \in 0..Len(e)
      BY <1>2 DEF Edits!Offset
    <2> QED BY <1>1, <1>3, <2>1
  <1>4. CASE i # 0
    <2>1. i \in Uncut(text)
      BY <1>2, <1>4 DEF Uncut
    <2>2. PICK k \in 1..Len(e) : e[k] = i
      BY <1>2, <2>1 DEF Enumerates
    <2>3. k \in 0..Len(e) /\ Edits!Offset(text, k) = e[k]
      BY <1>1, <1>2 DEF Edits!Offset
    <2> QED BY <1>1, <2>2, <2>3
  <1> QED BY <1>3, <1>4

(* The normal text of a part that cuts no pair is a part of the normal     *)
(* text.                                                                   *)
LEMMA NormalOfPart ==
  ASSUME NEW text \in Seq(Symbols), NEW a \in 0..Len(Edits!Ends(text)),
         NEW b \in a..Len(Edits!Ends(text))
  PROVE  Edits!Normal(SubSeq(text, Edits!Offset(text, a) + 1, Edits!Offset(text, b)))
            = SubSeq(Edits!Normal(text), a + 1, b)
  <1>1. PICK e : e = Edits!Ends(text)
    OBVIOUS
  <1>2. /\ Enumerates(e, Uncut(text)) /\ Len(e) \in Nat /\ Len(text) \in Nat
        /\ \A k \in 1..Len(e) : e[k] \in 1..Len(text) /\ e[k] \in Uncut(text)
    BY <1>1, EndsAre
  <1>3. a \in Nat /\ b \in Nat /\ a <= b /\ b <= Len(e)
    BY <1>1, <1>2
  <1>4. PICK f : f = Edits!Offset(text, a)
    OBVIOUS
  <1>5. PICK t : t = Edits!Offset(text, b)
    OBVIOUS
  <1>6. f \in 0..Len(text) /\ t \in f..Len(text) /\ ~Edits!CutsPair(text, t) /\ f \in Nat /\ t \in Nat
    <2>1. b \in 0..Len(e) /\ a \in 0..Len(e)
      BY <1>2, <1>3
    <2>2. f \in 0..Len(text) /\ t \in 0..Len(text) /\ ~Edits!CutsPair(text, t)
      BY <1>1, <1>4, <1>5, <2>1, OffsetsRise
    <2>3. a = b \/ f < t
      <3>1. a < b => f < t
        BY <1>1, <1>4, <1>5, <2>1, OffsetsRise
      <3> QED BY <1>3, <3>1
    <2>4. f <= t
      BY <1>2, <1>4, <1>5, <2>2, <2>3
    <2> QED BY <1>2, <2>2, <2>4
  <1>7. PICK p : p = SubSeq(text, f + 1, t)
    OBVIOUS
  <1>8. p \in Seq(Symbols) /\ Len(p) = t - f /\ \A i \in 1..(t - f) : p[i] = text[f + i]
    BY <1>6, <1>7, PartOf DEF Sliced
  <1>9. PICK d \in Nat : d = b - a
    BY <1>3
  <1>10. PICK s : s = [k \in 1..d |-> e[a + k] - f]
    OBVIOUS
  <1>11. ASSUME NEW k \in 1..d
         PROVE  /\ a + k \in 1..Len(e) /\ e[a + k] \in Nat /\ f < e[a + k] /\ e[a + k] <= t
                /\ e[a + k] \in Uncut(text)
    <2>1. a + k \in 1..Len(e) /\ a + k \in 1..b /\ a < a + k
      BY <1>2, <1>3, <1>9
    <2>2. e[a + k] \in 1..Len(text) /\ e[a + k] \in Uncut(text)
      BY <1>2, <2>1
    <2>3. f < e[a + k]
      <3>1. CASE a = 0
        <4>1. f = 0
          BY <1>4, <3>1 DEF Edits!Offset
        <4> QED BY <1>2, <2>2, <4>1
      <3>2. CASE a # 0
        <4>1. f = e[a] /\ a \in 1..Len(e)
          BY <1>1, <1>2, <1>3, <1>4, <3>2 DEF Edits!Offset
        <4> QED BY <1>2, <2>1, <4>1 DEF Enumerates, Rising
      <3> QED BY <3>1, <3>2
    <2>4. e[a + k] <= t
      <3>1. t = e[b] /\ b \in 1..Len(e)
        BY <1>1, <1>2, <1>3, <1>5, <1>9, <2>1 DEF Edits!Offset
      <3>2. a + k = b \/ e[a + k] < e[b]
        BY <1>2, <2>1, <3>1 DEF Enumerates, Rising
      <3>3. t \in Nat
        BY <1>6
      <3> QED BY <1>2, <2>1, <3>1, <3>2, <3>3
    <2> QED BY <1>2, <2>1, <2>2, <2>3, <2>4
  <1>12. /\ s \in Seq(Nat) /\ Len(s) = d
         /\ \A k \in 1..d : s[k] = e[a + k] - f /\ s[k] \in 1..(t - f) /\ s[k] \in Nat
    <2>1. ASSUME NEW k \in 1..d PROVE e[a + k] - f \in 1..(t - f) /\ e[a + k] - f \in Nat
      <3>1. PICK x : x = e[a + k]
        OBVIOUS
      <3>2. x \in Nat /\ f < x /\ x <= t
        BY <1>11, <3>1
      <3>3. x - f \in 1..(t - f) /\ x - f \in Nat
        BY <1>6, <3>2
      <3> QED BY <3>1, <3>3
    <2>2. s \in [1..d -> Nat] /\ \A k \in 1..d : s[k] = e[a + k] - f
      BY <1>10, <2>1
    <2>3. s \in Seq(Nat) /\ Len(s) = d
      BY <2>2, Tabled
    <2>4. \A k \in 1..d : s[k] \in 1..(t - f) /\ s[k] \in Nat
      BY <2>1, <2>2
    <2> QED BY <2>2, <2>3, <2>4
  <1>24. ASSUME NEW k \in 1..d PROVE f + s[k] = e[a + k]
    <2>1. PICK x : x = e[a + k]
      OBVIOUS
    <2>2. x \in Nat /\ s[k] = x - f
      BY <1>11, <1>12, <2>1
    <2> QED BY <1>6, <2>1, <2>2
  <1>13. \A i \in 1..(t - f) : Edits!CutsPair(p, i) <=> Edits!CutsPair(text, f + i)
    <2> SUFFICES ASSUME NEW i \in 1..(t - f)
                 PROVE  Edits!CutsPair(p, i) <=> Edits!CutsPair(text, f + i)
      OBVIOUS
    <2>1. CASE i = t - f
      <3>1. f + i = t /\ ~(i \in 1..(Len(p) - 1))
        BY <1>6, <1>8, <2>1
      <3> QED BY <1>6, <3>1 DEF Edits!CutsPair
    <2>2. CASE i # t - f
      <3>1. /\ i \in 1..(Len(p) - 1) /\ i + 1 \in 1..(t - f) /\ f + i \in 1..(Len(text) - 1)
            /\ f + (i + 1) = (f + i) + 1
        BY <1>2, <1>6, <1>8, <2>2
      <3>2. p[i] = text[f + i] /\ p[i + 1] = text[(f + i) + 1]
        BY <1>8, <3>1
      <3> QED BY <3>1, <3>2 DEF Edits!CutsPair
    <2> QED BY <2>1, <2>2
  <1>14. Enumerates(s, Uncut(p))
    <2>1. Rising(s)
      <3> SUFFICES ASSUME NEW j \in 1..d, NEW k \in 1..d, j < k PROVE s[j] < s[k]
        BY <1>12 DEF Rising
      <3>1. a + j < a + k
        BY <1>3
      <3>2. e[a + j] < e[a + k]
        BY <1>2, <1>11, <3>1 DEF Enumerates, Rising
      <3>3. f + s[j] = e[a + j] /\ f + s[k] = e[a + k] /\ s[j] \in Nat /\ s[k] \in Nat
        BY <1>12, <1>24
      <3>4. f + s[j] < f + s[k]
        BY <3>2, <3>3
      <3> QED BY <1>6, <3>3, <3>4
    <2>2. \A k \in 1..d : s[k] \in Uncut(p)
      <3> SUFFICES ASSUME NEW k \in 1..d PROVE s[k] \in Uncut(p)
        OBVIOUS
      <3>1. s[k] \in 1..(t - f) /\ f + s[k] = e[a + k]
        BY <1>12, <1>24
      <3>2. ~Edits!CutsPair(text, e[a + k])
        BY <1>11 DEF Uncut
      <3> QED BY <1>8, <1>13, <3>1, <3>2 DEF Uncut
    <2>3. ASSUME NEW i \in Uncut(p) PROVE \E k \in 1..d : s[k] = i
      <3>1. i \in 1..(t - f) /\ ~Edits!CutsPair(p, i) /\ f + i \in 1..Len(text)
        BY <1>2, <1>6, <1>8 DEF Uncut
      <3>2. f + i \in Uncut(text)
        BY <1>13, <3>1 DEF Uncut
      <3>3. PICK m \in 1..Len(e) : e[m] = f + i
        BY <1>2, <3>2 DEF Enumerates
      <3>4. a < m
        <4>1. CASE a = 0
          BY <1>2, <4>1
        <4>2. CASE a # 0
          <5>1. f = e[a] /\ a \in 1..Len(e)
            BY <1>1, <1>2, <1>3, <1>4, <4>2 DEF Edits!Offset
          <5>2. e[m] > e[a]
            BY <1>2, <1>6, <3>1, <3>3, <5>1
          <5>3. m < a => e[m] < e[a]
            BY <1>2, <5>1 DEF Enumerates, Rising
          <5>4. e[m] \in Nat /\ e[a] \in Nat
            BY <1>2, <5>1
          <5>5. ~(m < a) /\ m # a
            BY <5>2, <5>3, <5>4
          <5> QED BY <1>2, <1>3, <5>5
        <4> QED BY <4>1, <4>2
      <3>5. m <= b
        <4>1. CASE b = 0
          <5>1. a = 0
            BY <1>3, <4>1
          <5>2. t = f
            BY <1>4, <1>5, <4>1, <5>1
          <5> QED BY <1>6, <3>1, <5>2
        <4>2. CASE b # 0
          <5>1. t = e[b] /\ b \in 1..Len(e)
            BY <1>1, <1>2, <1>3, <1>5, <4>2 DEF Edits!Offset
          <5>2. e[m] <= t
            BY <1>6, <3>1, <3>3
          <5>3. b < m => e[b] < e[m]
            BY <1>2, <5>1 DEF Enumerates, Rising
          <5>4. e[m] \in Nat /\ e[b] \in Nat
            BY <1>2, <5>1
          <5>5. ~(b < m)
            BY <5>1, <5>2, <5>3, <5>4
          <5> QED BY <1>2, <1>3, <5>5
        <4> QED BY <4>1, <4>2
      <3>6. m - a \in 1..d /\ a + (m - a) = m
        BY <1>2, <1>3, <1>9, <3>4, <3>5
      <3>7. s[m - a] = i
        BY <1>6, <1>12, <3>1, <3>3, <3>6
      <3> QED BY <3>6, <3>7
    <2> QED BY <1>12, <2>1, <2>2, <2>3 DEF Enumerates
  <1>15. Edits!Ends(p) = s
    BY <1>8, <1>14, EndsAre, OneEnumeration
  <1>16. PICK n : n = Edits!Normal(text)
    OBVIOUS
  <1>17. n \in Seq(Symbols) /\ Len(n) = Len(e) /\ \A k \in 1..Len(e) : n[k] = Plain(text[e[k]])
    BY <1>1, <1>16, NormalIs
  <1>18. PICK q : q = SubSeq(n, a + 1, b)
    OBVIOUS
  <1>19. q \in Seq(Symbols) /\ Len(q) = d /\ \A i \in 1..d : q[i] = n[a + i]
    <2>1. a \in 0..Len(n) /\ b \in a..Len(n)
      BY <1>2, <1>3, <1>17
    <2> QED BY <1>9, <1>17, <1>18, <2>1, PartOf DEF Sliced
  <1>20. PICK r : r = Edits!Normal(p)
    OBVIOUS
  <1>21. r \in Seq(Symbols) /\ Len(r) = d /\ \A k \in 1..d : r[k] = Plain(p[s[k]])
    BY <1>8, <1>12, <1>15, <1>20, NormalIs
  <1>22. ASSUME NEW k \in 1..d PROVE r[k] = q[k]
    <2>1. p[s[k]] = text[e[a + k]]
      <3>1. s[k] \in 1..(t - f) /\ f + s[k] = e[a + k]
        BY <1>12, <1>24
      <3> QED BY <1>8, <3>1
    <2>2. q[k] = n[a + k] /\ n[a + k] = Plain(text[e[a + k]])
      BY <1>11, <1>17, <1>19
    <2> QED BY <1>21, <2>1, <2>2
  <1>23. r = q
    BY <1>19, <1>21, <1>22, SamePart
  <1> QED BY <1>4, <1>5, <1>7, <1>16, <1>18, <1>20, <1>23

-----------------------------------------------------------------------------
(* Places of a file.  What a search finds is chosen from the places that   *)
(* answer: some of them when there are any, and when it is one place, then *)
(* every other overlaps it.                                                *)
Chosen(found, all) ==
    /\ found \subseteq all
    /\ all # {} => found # {}
    /\ \A p \in found, q \in all : found = {p} => q.from < p.to /\ p.from < q.to

(* A place and the part of a text it names.                                *)
LEMMA PlaceIs ==
  ASSUME NEW i, NEW j
  PROVE  /\ Edits!Place(i, j).from = i /\ Edits!Place(i, j).to = j
         /\ \A text : Edits!Part(text, Edits!Place(i, j)) = SubSeq(text, i + 1, j)
  BY DEF Edits!Place, Edits!Part

(* A place of a text lies within it.                                       *)
LEMMA InPlaces ==
  ASSUME NEW text, NEW p \in Edits!Places(text)
  PROVE  p.from \in 0..Len(text) /\ p.to \in 0..Len(text) /\ p = Edits!Place(p.from, p.to)
  <1>1. PICK i \in 0..Len(text), j \in 0..Len(text) : p = Edits!Place(i, j)
    BY DEF Edits!Places
  <1> QED BY <1>1, PlaceIs

Occurs(text, fragment, i) ==
    /\ i \in 0..(Len(text) - Len(fragment))
    /\ SubSeq(text, i + 1, i + Len(fragment)) = fragment

(* The occurrences found: the only one found overlaps every other.         *)
LEMMA OccurrencesAre ==
  ASSUME NEW text \in Seq(Symbols), NEW fragment \in Seq(Symbols), fragment # <<>>,
         NEW found, found = Edits!Occurrences(text, fragment)
  PROVE  /\ Len(text) \in Nat /\ Len(fragment) \in Nat /\ Len(fragment) >= 1
         /\ \A p \in found : \E i \in Nat :
               Occurs(text, fragment, i) /\ p = Edits!Place(i, i + Len(fragment))
         /\ \A i \in Nat : Occurs(text, fragment, i) => found # {}
         /\ \A p \in found, i \in Nat :
               found = {p} /\ Occurs(text, fragment, i) => p.from <= i /\ i < p.to
  <1>1. Len(text) \in Nat /\ Len(fragment) \in Nat
    BY LenProperties
  <1>2. Len(fragment) >= 1
    <2>1. Len(fragment) # 0
      BY EmptySeq
    <2> QED BY <1>1, <2>1
  <1> DEFINE n == Len(fragment)
             all == {Edits!Place(i, i + n) :
                        i \in {i \in 0..(Len(text) - n) : SubSeq(text, i + 1, i + n) = fragment}}
             first == CHOOSE place \in all : \A other \in all : place.from <= other.from
             T == {i \in Nat : Occurs(text, fragment, i)}
  <1>4. found = IF all = {} THEN {} ELSE {place \in all : place = first \/ place.from >= first.to}
    BY DEF Edits!Occurrences
  <1>3. n \in Nat /\ n = Len(fragment)
    BY <1>1
  <1> HIDE DEF n
  <1>5. \A p \in all : \E i \in Nat : i \in T /\ p = Edits!Place(i, i + n)
    <2> SUFFICES ASSUME NEW p \in all PROVE \E i \in Nat : i \in T /\ p = Edits!Place(i, i + n)
      OBVIOUS
    <2>1. PICK i \in 0..(Len(text) - n) :
             SubSeq(text, i + 1, i + n) = fragment /\ p = Edits!Place(i, i + n)
      OBVIOUS
    <2>2. i \in Nat
      BY <1>1, <1>3
    <2> QED BY <1>3, <2>1, <2>2 DEF Occurs
  <1>6. \A i \in T : i \in Nat /\ Edits!Place(i, i + n) \in all
    BY <1>3 DEF Occurs
  <1> HIDE DEF all, T
  <1>7. ASSUME NEW i \in T
        PROVE  /\ first \in all
               /\ \A other \in all : first.from <= other.from
    <2>1. T \subseteq Nat
      BY DEF T
    <2>2. PICK j \in T : \A k \in T : j <= k
      BY <1>7, <2>1, Least
    <2>3. \A other \in all : Edits!Place(j, j + n).from <= other.from
      <3> SUFFICES ASSUME NEW other \in all PROVE Edits!Place(j, j + n).from <= other.from
        OBVIOUS
      <3>1. PICK k \in Nat : k \in T /\ other = Edits!Place(k, k + n)
        BY <1>5
      <3>2. other.from = k /\ Edits!Place(j, j + n).from = j
        BY <3>1, PlaceIs
      <3> QED BY <2>2, <3>1, <3>2
    <2>4. \E place \in all : \A other \in all : place.from <= other.from
      BY <1>6, <2>3
    <2> QED BY <2>4
  <1> HIDE DEF first
  <1>8. ASSUME NEW p \in found
        PROVE  \E i \in Nat : Occurs(text, fragment, i) /\ p = Edits!Place(i, i + Len(fragment))
    <2>1. p \in all
      BY <1>4
    <2> QED BY <1>3, <1>5, <2>1 DEF T
  <1>9. ASSUME NEW i \in T PROVE first \in found
    <2>1. first \in all
      BY <1>7
    <2> QED BY <1>4, <2>1
  <1>10. ASSUME NEW p \in found, NEW i \in Nat, found = {p}, i \in T
         PROVE  p.from <= i /\ i < p.to
    <2>1. p = first
      BY <1>9, <1>10
    <2>2. PICK j \in Nat : j \in T /\ first = Edits!Place(j, j + n)
      BY <1>5, <1>7, <1>10
    <2>3. first.from = j /\ first.to = j + n
      BY <2>2, PlaceIs
    <2>4. PICK q : q = Edits!Place(i, i + n)
      OBVIOUS
    <2>5. q \in all /\ q.from = i
      BY <1>6, <1>10, <2>4, PlaceIs
    <2>6. j <= i
      BY <1>7, <1>10, <2>3, <2>5
    <2>7. i < j + n
      <3>1. CASE q = first
        BY <1>2, <1>3, <2>2, <2>3, <2>5, <3>1
      <3>2. CASE q # first
        <4>1. q \notin found
          BY <1>10, <2>1, <3>2
        <4>2. ~(i >= j + n)
          BY <1>4, <2>3, <2>5, <4>1
        <4> QED BY <1>3, <4>2
      <3> QED BY <3>1, <3>2
    <2> QED BY <2>1, <2>3, <2>6, <2>7
  <1>11. \A i \in Nat : Occurs(text, fragment, i) => i \in T
    BY DEF T
  <1> QED BY <1>1, <1>2, <1>8, <1>9, <1>10, <1>11

(* The places of a file that cut no pair and whose normal text is given.   *)
Wholes(text, normal) ==
    {p \in Edits!Places(text) :
        /\ p.from < p.to /\ ~Edits!CutsPair(text, p.from) /\ ~Edits!CutsPair(text, p.to)
        /\ Edits!Normal(Edits!Part(text, p)) = normal}

(* Such a place is one of the normal text.                                 *)
LEMMA WholeIsBack ==
  ASSUME NEW text \in Seq(Symbols), NEW q \in Edits!Places(text), q.from < q.to,
         ~Edits!CutsPair(text, q.from), ~Edits!CutsPair(text, q.to)
  PROVE  \E a, b \in 0..Len(Edits!Normal(text)) :
            /\ a < b /\ Edits!Offset(text, a) = q.from /\ Edits!Offset(text, b) = q.to
            /\ Edits!Normal(Edits!Part(text, q)) = SubSeq(Edits!Normal(text), a + 1, b)
  <1>1. PICK m : m = Len(Edits!Ends(text))
    OBVIOUS
  <1>2. m \in Nat /\ Len(text) \in Nat /\ Len(Edits!Normal(text)) = m
    BY <1>1, EndsAre, NormalIs
  <1>3. q.from \in 0..Len(text) /\ q.to \in 0..Len(text) /\ q = Edits!Place(q.from, q.to)
    BY InPlaces
  <1>4. PICK a \in 0..m : Edits!Offset(text, a) = q.from
    BY <1>1, <1>3, UncutIsOffset
  <1>5. PICK b \in 0..m : Edits!Offset(text, b) = q.to
    BY <1>1, <1>3, UncutIsOffset
  <1>6. a < b
    <2>1. b < a => q.to < q.from
      BY <1>1, <1>4, <1>5, OffsetsRise
    <2>2. a # b
      BY <1>2, <1>3, <1>4, <1>5
    <2> QED BY <1>2, <1>3, <2>1, <2>2
  <1>7. Edits!Part(text, q) = SubSeq(text, q.from + 1, q.to)
    BY DEF Edits!Part
  <1>8. b \in a..m
    BY <1>2, <1>6
  <1>9. Edits!Normal(Edits!Part(text, q)) = SubSeq(Edits!Normal(text), a + 1, b)
    BY <1>1, <1>4, <1>5, <1>7, <1>8, NormalOfPart
  <1> QED BY <1>2, <1>4, <1>5, <1>6, <1>9

(* A place of the normal text is one of the file that cuts no pair.        *)
LEMMA BackIsWhole ==
  ASSUME NEW text \in Seq(Symbols), NEW a \in 0..Len(Edits!Normal(text)),
         NEW b \in 0..Len(Edits!Normal(text)), a < b,
         NEW q, q = Edits!Back(text, Edits!Place(a, b))
  PROVE  /\ q \in Wholes(text, SubSeq(Edits!Normal(text), a + 1, b))
         /\ q.from = Edits!Offset(text, a) /\ q.to = Edits!Offset(text, b)
  <1>1. PICK m : m = Len(Edits!Ends(text))
    OBVIOUS
  <1>2. m \in Nat /\ Len(text) \in Nat /\ Len(Edits!Normal(text)) = m
    BY <1>1, EndsAre, NormalIs
  <1>3. PICK f : f = Edits!Offset(text, a)
    OBVIOUS
  <1>4. PICK t : t = Edits!Offset(text, b)
    OBVIOUS
  <1>5. /\ f \in 0..Len(text) /\ t \in 0..Len(text) /\ f < t
        /\ ~Edits!CutsPair(text, f) /\ ~Edits!CutsPair(text, t)
    BY <1>1, <1>2, <1>3, <1>4, OffsetsRise
  <1>6. q = Edits!Place(f, t)
    BY <1>3, <1>4, PlaceIs DEF Edits!Back
  <1>7. q.from = f /\ q.to = t /\ Edits!Part(text, q) = SubSeq(text, f + 1, t)
    BY <1>6, PlaceIs
  <1>8. b \in a..m
    BY <1>2
  <1>9. Edits!Normal(Edits!Part(text, q)) = SubSeq(Edits!Normal(text), a + 1, b)
    <2>1. a \in 0..Len(Edits!Ends(text)) /\ b \in a..Len(Edits!Ends(text))
      BY <1>1, <1>2, <1>8
    <2>2. Edits!Normal(SubSeq(text, Edits!Offset(text, a) + 1, Edits!Offset(text, b)))
             = SubSeq(Edits!Normal(text), a + 1, b)
      BY <2>1, NormalOfPart
    <2> QED BY <1>3, <1>4, <1>7, <2>2
  <1>10. q \in Edits!Places(text)
    BY <1>5, <1>6 DEF Edits!Places
  <1> QED BY <1>3, <1>4, <1>5, <1>7, <1>9, <1>10 DEF Wholes

(* Two places of the normal text that are one in the file are one.         *)
LEMMA BackIsOne ==
  ASSUME NEW text \in Seq(Symbols), NEW a \in 0..Len(Edits!Normal(text)),
         NEW b \in 0..Len(Edits!Normal(text)), Edits!Offset(text, a) = Edits!Offset(text, b)
  PROVE  a = b
  <1>1. PICK m : m = Len(Edits!Ends(text))
    OBVIOUS
  <1>2. m \in Nat /\ Len(text) \in Nat /\ Len(Edits!Normal(text)) = m
    BY <1>1, EndsAre, NormalIs
  <1>3. a \in 0..Len(Edits!Ends(text)) /\ b \in 0..Len(Edits!Ends(text))
    BY <1>1, <1>2
  <1>4. a < b => Edits!Offset(text, a) < Edits!Offset(text, b)
    BY <1>3, OffsetsRise
  <1>5. b < a => Edits!Offset(text, b) < Edits!Offset(text, a)
    BY <1>3, OffsetsRise
  <1>6. Edits!Offset(text, a) \in 0..Len(text)
    BY <1>3, OffsetsRise
  <1> QED BY <1>2, <1>3, <1>4, <1>5, <1>6

(* A search in the normal text.                                            *)
LEMMA SearchChooses ==
  ASSUME NEW text \in Seq(Symbols), NEW fragment \in Seq(Symbols), fragment # <<>>,
         NEW found, found = {Edits!Back(text, p) :
                               p \in Edits!Occurrences(Edits!Normal(text), fragment)}
  PROVE  Chosen(found, Wholes(text, fragment))
  <1>1. PICK content : content = Edits!Normal(text)
    OBVIOUS
  <1>2. PICK occurrences : occurrences = Edits!Occurrences(content, fragment)
    OBVIOUS
  <1>3. PICK n : n = Len(fragment)
    OBVIOUS
  <1>4. content \in Seq(Symbols)
    BY <1>1, NormalIs
  <1>5. /\ Len(content) \in Nat /\ n \in Nat /\ n >= 1
        /\ \A p \in occurrences : \E i \in Nat :
              Occurs(content, fragment, i) /\ p = Edits!Place(i, i + n)
        /\ \A i \in Nat : Occurs(content, fragment, i) => occurrences # {}
        /\ \A p \in occurrences, i \in Nat :
              occurrences = {p} /\ Occurs(content, fragment, i) => p.from <= i /\ i < p.to
    BY <1>2, <1>3, <1>4, OccurrencesAre
  <1>6. found = {Edits!Back(text, p) : p \in occurrences}
    BY <1>1, <1>2
  <1>7. ASSUME NEW p \in occurrences
        PROVE  \E i \in Nat :
                  /\ i \in 0..Len(content) /\ i + n \in 0..Len(content)
                  /\ p = Edits!Place(i, i + n) /\ Edits!Back(text, p) \in Wholes(text, fragment)
                  /\ Edits!Back(text, p).from = Edits!Offset(text, i)
                  /\ Edits!Back(text, p).to = Edits!Offset(text, i + n)
    <2>1. PICK i \in Nat : Occurs(content, fragment, i) /\ p = Edits!Place(i, i + n)
      BY <1>5
    <2>2. /\ i \in 0..Len(content) /\ i + n \in 0..Len(content) /\ i < i + n
          /\ SubSeq(content, i + 1, i + n) = fragment
      <3>1. i \in 0..(Len(content) - n) /\ SubSeq(content, i + 1, i + n) = fragment
        BY <1>3, <2>1 DEF Occurs
      <3>2. Len(content) \in Nat /\ n \in Nat /\ n >= 1
        BY <1>5
      <3> QED BY <3>1, <3>2
    <2>3. PICK j : j = i + n
      OBVIOUS
    <2>4. /\ Edits!Back(text, p) \in Wholes(text, SubSeq(content, i + 1, j))
          /\ Edits!Back(text, p).from = Edits!Offset(text, i)
          /\ Edits!Back(text, p).to = Edits!Offset(text, j)
      <3>1. i \in 0..Len(Edits!Normal(text)) /\ j \in 0..Len(Edits!Normal(text)) /\ i < j
        BY <1>1, <2>2, <2>3
      <3>2. PICK q : q = Edits!Back(text, Edits!Place(i, j))
        OBVIOUS
      <3>3. /\ q \in Wholes(text, SubSeq(Edits!Normal(text), i + 1, j))
            /\ q.from = Edits!Offset(text, i) /\ q.to = Edits!Offset(text, j)
        BY <3>1, <3>2, BackIsWhole
      <3> QED BY <1>1, <2>1, <2>3, <3>2, <3>3
    <2> QED BY <2>1, <2>2, <2>3, <2>4
  <1>8. found \subseteq Wholes(text, fragment)
    BY <1>6, <1>7
  <1>9. ASSUME NEW q \in Wholes(text, fragment)
        PROVE  \E a, b \in 0..Len(content) :
                  /\ Occurs(content, fragment, a) /\ b = a + n
                  /\ Edits!Offset(text, a) = q.from /\ Edits!Offset(text, b) = q.to
    <2>1. /\ q \in Edits!Places(text) /\ q.from < q.to
          /\ ~Edits!CutsPair(text, q.from) /\ ~Edits!CutsPair(text, q.to)
          /\ Edits!Normal(Edits!Part(text, q)) = fragment
      BY DEF Wholes
    <2>2. PICK a, b \in 0..Len(content) :
             /\ a < b /\ Edits!Offset(text, a) = q.from /\ Edits!Offset(text, b) = q.to
             /\ fragment = SubSeq(content, a + 1, b)
      BY <1>1, <2>1, WholeIsBack
    <2>3. b \in a..Len(content)
      BY <1>5, <2>2
    <2>4. n = b - a
      BY <1>3, <1>4, <2>2, <2>3, PartOf DEF Sliced
    <2>5. b = a + n /\ a \in 0..(Len(content) - n)
      BY <1>5, <2>2, <2>4
    <2>6. Occurs(content, fragment, a)
      BY <1>3, <2>2, <2>5 DEF Occurs
    <2> QED BY <2>2, <2>5, <2>6
  <1>10. ASSUME NEW q \in Wholes(text, fragment) PROVE found # {}
    <2>1. PICK a, b \in 0..Len(content) : Occurs(content, fragment, a)
      BY <1>9
    <2>2. a \in Nat
      BY <1>5
    <2>3. PICK p : p \in occurrences
      BY <1>5, <2>1, <2>2
    <2> QED BY <1>6, <2>3
  <1>11. ASSUME NEW r \in found, NEW q \in Wholes(text, fragment), found = {r}
         PROVE  q.from < r.to /\ r.from < q.to
    <2>1. PICK p \in occurrences : r = Edits!Back(text, p)
      BY <1>6
    <2>2. PICK i \in Nat :
             /\ i \in 0..Len(content) /\ i + n \in 0..Len(content) /\ p = Edits!Place(i, i + n)
             /\ r.from = Edits!Offset(text, i) /\ r.to = Edits!Offset(text, i + n)
      BY <1>7, <2>1
    <2>3. ASSUME NEW o \in occurrences PROVE o = p
      <3>1. PICK j \in Nat :
               /\ j \in 0..Len(content) /\ o = Edits!Place(j, j + n)
               /\ Edits!Back(text, o).from = Edits!Offset(text, j)
        BY <1>7
      <3>2. Edits!Back(text, o) = r
        BY <1>6, <1>11
      <3>3. Edits!Offset(text, j) = Edits!Offset(text, i)
        BY <2>2, <3>1, <3>2
      <3>4. j = i
        BY <1>1, <2>2, <3>1, <3>3, BackIsOne
      <3> QED BY <2>2, <3>1, <3>4
    <2>4. occurrences = {p}
      BY <2>3
    <2>5. PICK a, b \in 0..Len(content) :
             /\ Occurs(content, fragment, a) /\ b = a + n
             /\ Edits!Offset(text, a) = q.from /\ Edits!Offset(text, b) = q.to
      BY <1>9
    <2>6. p.from = i /\ p.to = i + n
      BY <2>2, PlaceIs
    <2>7. i <= a /\ a < i + n /\ a \in Nat /\ b \in Nat
      BY <1>5, <2>4, <2>5, <2>6
    <2>8. PICK m : m = Len(Edits!Ends(text))
      OBVIOUS
    <2>9. Len(content) = m
      BY <1>1, <2>8, NormalIs
    <2>10. Edits!Offset(text, a) < Edits!Offset(text, i + n)
      <3>1. PICK j : j = i + n
        OBVIOUS
      <3>2. a < j /\ j \in 0..m /\ a \in 0..m
        BY <2>2, <2>5, <2>7, <2>9, <3>1
      <3>3. Edits!Offset(text, a) < Edits!Offset(text, j)
        BY <2>8, <3>2, OffsetsRise
      <3> QED BY <3>1, <3>3
    <2>11. Edits!Offset(text, i) < Edits!Offset(text, b)
      <3>1. i < b /\ i \in 0..m /\ b \in 0..m
        BY <1>5, <2>2, <2>5, <2>7, <2>9
      <3> QED BY <2>8, <3>1, OffsetsRise
    <2> QED BY <2>2, <2>5, <2>10, <2>11
  <1> QED BY <1>8, <1>10, <1>11 DEF Chosen

-----------------------------------------------------------------------------
(* The lines of a text.                                                    *)
Breaks(text) == {i \in 1..Len(text) : text[i] = "LF"} \cup {Len(text) + 1}
LineEnds(text) == Edits!Ascending(Breaks(text), Len(text) + 1)
LineStart(text, k) == IF k = 1 THEN 0 ELSE LineEnds(text)[k - 1]

(* The ends of lines are listed in order, the end of the text among them.  *)
LEMMA LineEndsAre ==
  ASSUME NEW text \in Seq(Symbols)
  PROVE  /\ Enumerates(LineEnds(text), Breaks(text))
         /\ Len(text) \in Nat /\ Len(LineEnds(text)) \in Nat /\ Len(LineEnds(text)) >= 1
         /\ \A k \in 1..Len(LineEnds(text)) :
               /\ LineEnds(text)[k] \in 1..(Len(text) + 1) /\ LineEnds(text)[k] \in Breaks(text)
               /\ LineStart(text, k) \in 0..(LineEnds(text)[k] - 1)
  <1>1. Len(text) \in Nat
    BY LenProperties
  <1>2. Breaks(text) \subseteq 1..(Len(text) + 1) /\ Len(text) + 1 \in Breaks(text)
    BY <1>1 DEF Breaks
  <1>3. PICK n \in Nat : n = Len(text) + 1
    BY <1>1
  <1>4. Enumerates(LineEnds(text), Breaks(text))
    BY <1>2, <1>3, AscendingIs DEF LineEnds
  <1>5. PICK b : b = LineEnds(text)
    OBVIOUS
  <1>6. /\ Len(b) \in Nat /\ \A k \in 1..Len(b) : b[k] \in Breaks(text)
        /\ \A j, k \in 1..Len(b) : j < k => b[j] < b[k]
    BY <1>4, <1>5, LenProperties DEF Enumerates, Rising
  <1>7. Len(b) >= 1
    <2>1. PICK k \in 1..Len(b) : b[k] = Len(text) + 1
      BY <1>2, <1>4, <1>5 DEF Enumerates
    <2> QED BY <1>6, <2>1
  <1>8. \A k \in 1..Len(b) : b[k] \in 1..(Len(text) + 1)
    BY <1>2, <1>6
  <1>9. ASSUME NEW k \in 1..Len(b) PROVE LineStart(text, k) \in 0..(b[k] - 1)
    <2>1. CASE k = 1
      BY <1>1, <1>8, <2>1 DEF LineStart
    <2>2. CASE k # 1
      <3>1. k - 1 \in 1..Len(b) /\ k - 1 < k
        BY <1>6, <2>2
      <3>2. b[k - 1] < b[k] /\ b[k - 1] \in Nat /\ b[k] \in Nat
        BY <1>1, <1>6, <1>8, <3>1
      <3> QED BY <1>5, <2>2, <3>2 DEF LineStart
    <2> QED BY <2>1, <2>2
  <1> QED BY <1>1, <1>4, <1>5, <1>6, <1>7, <1>8, <1>9

(* A text has one line for each end of a line.                             *)
LEMMA LinesAre ==
  ASSUME NEW text \in Seq(Symbols)
  PROVE  /\ DOMAIN Edits!Lines(text) = 1..Len(LineEnds(text))
         /\ Len(Edits!Lines(text)) = Len(LineEnds(text))
         /\ \A k \in 1..Len(LineEnds(text)) :
               Edits!Lines(text)[k] = Edits!Place(LineStart(text, k), LineEnds(text)[k] - 1)
  <1>1. DOMAIN text = 1..Len(text)
    BY LenProperties
  <1>2. LineEnds(text) = Edits!Ascending({i \in DOMAIN text : text[i] = "LF"} \cup {Len(text) + 1},
                                         Len(text) + 1)
    BY <1>1 DEF LineEnds, Breaks
  <1>3. DOMAIN LineEnds(text) = 1..Len(LineEnds(text)) /\ Len(LineEnds(text)) \in Nat
    BY LineEndsAre, LenProperties DEF Enumerates
  <1>4. Edits!Lines(text) = [k \in 1..Len(LineEnds(text)) |->
                                Edits!Place(LineStart(text, k), LineEnds(text)[k] - 1)]
    BY <1>2, <1>3 DEF Edits!Lines, LineStart
  <1>5. PICK l : l = Edits!Lines(text)
    OBVIOUS
  <1>6. PICK n \in Nat : n = Len(LineEnds(text))
    BY <1>3
  <1>7. /\ DOMAIN l = 1..n
        /\ \A k \in 1..n : l[k] = Edits!Place(LineStart(text, k), LineEnds(text)[k] - 1)
    BY <1>4, <1>5, <1>6
  <1>8. Len(l) = n
    <2>1. l \in [1..n -> {l[k] : k \in 1..n}]
      <3>1. l = [k \in 1..n |-> l[k]]
        BY <1>4, <1>5, <1>6, <1>7
      <3> QED BY <3>1
    <2> QED BY <2>1, Tabled
  <1> QED BY <1>5, <1>6, <1>7, <1>8

(* The text of a line.                                                     *)
LineText(text, k) == SubSeq(text, LineStart(text, k) + 1, LineEnds(text)[k] - 1)

(* The text of one line.                                                   *)
LEMMA LineTextIs ==
  ASSUME NEW text \in Seq(Symbols), NEW k \in 1..Len(LineEnds(text))
  PROVE  /\ Edits!Part(text, Edits!Lines(text)[k]) = LineText(text, k)
         /\ LineText(text, k) \in Seq(Symbols)
         /\ Sliced(LineText(text, k), text, LineStart(text, k), LineEnds(text)[k] - 1)
  <1>1. Edits!Part(text, Edits!Lines(text)[k]) = LineText(text, k)
    BY LinesAre, PlaceIs DEF LineText
  <1>2. PICK f : f = LineStart(text, k)
    OBVIOUS
  <1>3. PICK t : t = LineEnds(text)[k] - 1
    OBVIOUS
  <1>4. f \in 0..Len(text) /\ t \in f..Len(text)
    <2>1. Len(text) \in Nat /\ t + 1 \in 1..(Len(text) + 1) /\ f \in 0..t
      BY <1>2, <1>3, LineEndsAre
    <2>2. t \in Int
      BY <1>3, LineEndsAre
    <2> QED BY <2>1, <2>2
  <1> QED BY <1>1, <1>2, <1>3, <1>4, PartOf DEF LineText

(* A line without the blanks around it; what is left is not blank.         *)
LEMMA TrimSpaceIs ==
  ASSUME NEW line \in Seq(Symbols)
  PROVE  /\ Edits!TrimSpace(line) \in Seq(Symbols)
         /\ Edits!TrimSpace(line) # <<>> => \E i \in 1..Len(line) : line[i] # "SP"
  <1> DEFINE solid == {i \in 1..Len(line) : line[i] # "SP"}
  <1>1. DOMAIN line = 1..Len(line) /\ Len(line) \in Nat
    BY LenProperties
  <1>2. Edits!TrimSpace(line)
           = IF solid = {} THEN <<>> ELSE SubSeq(line, Edits!Min(solid), Edits!Max(solid))
    BY <1>1 DEF Edits!TrimSpace
  <1>3. CASE solid = {}
    BY <1>2, <1>3, EmptySeq
  <1>4. CASE solid # {}
    <2>1. \E i \in 1..Len(line) : line[i] # "SP"
      BY <1>4
    <2>2. \A i \in solid : i \in 1..Len(line)
      OBVIOUS
    <2> HIDE DEF solid
    <2>3. solid \subseteq Nat /\ \A i \in solid : i <= Len(line)
      BY <1>1, <2>2
    <2>4. Edits!Min(solid) \in solid
      <3>1. PICK n \in solid : \A m \in solid : n <= m
        BY <1>4, <2>3, Least
      <3> QED BY <3>1 DEF Edits!Min
    <2>5. Edits!Max(solid) \in solid
      <3>1. Window!Max(solid) \in solid /\ \A x \in solid : Window!Max(solid) >= x
        BY <1>1, <1>4, <2>3, Greatest
      <3> QED BY <3>1 DEF Edits!Max
    <2>6. PICK lo \in 1..Len(line) : lo = Edits!Min(solid)
      BY <2>2, <2>4
    <2>7. PICK hi \in 1..Len(line) : hi = Edits!Max(solid)
      BY <2>2, <2>5
    <2>8. \A i \in lo..hi : line[i] \in Symbols
      <3>1. \A i \in lo..hi : i \in 1..Len(line)
        BY <1>1
      <3> QED BY <3>1, ElementOfSeq
    <2>9. SubSeq(line, lo, hi) \in Seq(Symbols)
      BY <1>1, <2>8, SubSeqProperties
    <2> QED BY <1>2, <1>4, <2>1, <2>6, <2>7, <2>9
  <1> QED BY <1>3, <1>4

(* The lines of a text, each without the blanks around it.                 *)
LEMMA TrimmedAre ==
  ASSUME NEW text \in Seq(Symbols)
  PROVE  /\ Edits!Trimmed(text) \in Seq(Seq(Symbols))
         /\ Len(Edits!Trimmed(text)) = Len(LineEnds(text))
         /\ \A k \in 1..Len(LineEnds(text)) :
               Edits!Trimmed(text)[k] = Edits!TrimSpace(LineText(text, k))
  <1>1. PICK n \in Nat : n = Len(LineEnds(text))
    BY LineEndsAre
  <1>2. \A k \in 1..n : /\ Edits!Part(text, Edits!Lines(text)[k]) = LineText(text, k)
                        /\ Edits!TrimSpace(LineText(text, k)) \in Seq(Symbols)
    BY <1>1, LineTextIs, TrimSpaceIs
  <1>3. PICK s : s = Edits!Trimmed(text)
    OBVIOUS
  <1>4. s = [k \in 1..n |-> Edits!TrimSpace(Edits!Part(text, Edits!Lines(text)[k]))]
    BY <1>1, <1>3, LinesAre DEF Edits!Trimmed
  <1>5. s \in [1..n -> Seq(Symbols)] /\ \A k \in 1..n : s[k] = Edits!TrimSpace(LineText(text, k))
    BY <1>2, <1>4
  <1>6. s \in Seq(Seq(Symbols)) /\ Len(s) = n
    BY <1>5, Tabled
  <1> QED BY <1>1, <1>3, <1>5, <1>6

(* Where a line starts or ends.                                            *)
LEMMA StartsLine ==
  ASSUME NEW text \in Seq(Symbols), NEW f \in 0..Len(text), f = 0 \/ text[f] = "LF"
  PROVE  \E k \in 1..Len(LineEnds(text)) : LineStart(text, k) = f
  <1>1. PICK b : b = LineEnds(text)
    OBVIOUS
  <1>2. /\ Enumerates(b, Breaks(text)) /\ Len(text) \in Nat /\ Len(b) \in Nat /\ Len(b) >= 1
        /\ \A k \in 1..Len(b) : b[k] \in 1..(Len(text) + 1)
    BY <1>1, LineEndsAre
  <1>3. CASE f = 0
    <2>1. 1 \in 1..Len(b) /\ LineStart(text, 1) = 0
      BY <1>2 DEF LineStart
    <2> QED BY <1>1, <1>3, <2>1
  <1>4. CASE f # 0
    <2>1. f \in Breaks(text) /\ f \in Nat /\ Len(text) + 1 \in Breaks(text)
      BY <1>2, <1>4 DEF Breaks
    <2>2. PICK j \in 1..Len(b) : b[j] = f
      BY <1>2, <2>1 DEF Enumerates
    <2>3. PICK l \in 1..Len(b) : b[l] = Len(text) + 1
      BY <1>2, <2>1 DEF Enumerates
    <2>4. j < l
      <3>1. l < j => b[l] < b[j]
        BY <1>2 DEF Enumerates, Rising
      <3>2. b[j] < b[l] /\ b[j] \in Nat /\ b[l] \in Nat
        BY <1>2, <2>2, <2>3
      <3>3. l # j
        BY <3>2
      <3> QED BY <1>2, <3>1, <3>2, <3>3
    <2>5. j + 1 \in 1..Len(b) /\ j + 1 # 1 /\ (j + 1) - 1 = j
      BY <1>2, <2>4
    <2>6. LineStart(text, j + 1) = f
      BY <1>1, <2>2, <2>5 DEF LineStart
    <2> QED BY <1>1, <2>5, <2>6
  <1> QED BY <1>3, <1>4

(* A place before a line feed, or at the end of the text, ends a line.     *)
LEMMA EndsLine ==
  ASSUME NEW text \in Seq(Symbols), NEW t \in 0..Len(text), t = Len(text) \/ text[t + 1] = "LF"
  PROVE  \E m \in 1..Len(LineEnds(text)) : LineEnds(text)[m] - 1 = t
  <1>1. Len(text) \in Nat
    BY LenProperties
  <1>2. t + 1 \in Breaks(text)
    BY <1>1 DEF Breaks
  <1>3. PICK m \in 1..Len(LineEnds(text)) : LineEnds(text)[m] = t + 1
    BY <1>2, LineEndsAre DEF Enumerates
  <1>4. LineEnds(text)[m] - 1 = t
    BY <1>1, <1>3
  <1> QED BY <1>4

(* Some lines of a text are the lines of that part of it.                  *)
LEMMA LinesOfPart ==
  ASSUME NEW text \in Seq(Symbols), NEW k \in 1..Len(LineEnds(text)),
         NEW m \in k..Len(LineEnds(text)),
         NEW part, part = SubSeq(text, LineStart(text, k) + 1, LineEnds(text)[m] - 1)
  PROVE  /\ part \in Seq(Symbols) /\ Len(LineEnds(part)) = m - k + 1
         /\ \A j \in 1..(m - k + 1) : LineText(part, j) = LineText(text, k - 1 + j)
         /\ Edits!Trimmed(part) = SubSeq(Edits!Trimmed(text), k, m)
  <1>1. PICK b : b = LineEnds(text)
    OBVIOUS
  <1>2. /\ Enumerates(b, Breaks(text)) /\ Len(text) \in Nat /\ Len(b) \in Nat /\ Len(b) >= 1
        /\ \A l \in 1..Len(b) : /\ b[l] \in 1..(Len(text) + 1) /\ b[l] \in Breaks(text)
                                /\ LineStart(text, l) \in 0..(b[l] - 1)
    BY <1>1, LineEndsAre
  <1>3. \A j, l \in 1..Len(b) : j < l => b[j] < b[l]
    BY <1>2 DEF Enumerates, Rising
  <1>4. k \in Nat /\ m \in Nat /\ 1 <= k /\ k <= m /\ m <= Len(b) /\ m \in 1..Len(b) /\ k \in 1..Len(b)
    BY <1>1, <1>2
  <1>5. PICK f : f = LineStart(text, k)
    OBVIOUS
  <1>6. PICK t : t = b[m] - 1
    OBVIOUS
  <1>7. PICK d \in Nat : d = m - k + 1
    BY <1>4
  <1>8. ASSUME NEW l \in 1..Len(b) PROVE l < k => b[l] <= f
    <2> SUFFICES ASSUME l < k PROVE b[l] <= f
      OBVIOUS
    <2>1. k # 1 /\ k - 1 \in 1..Len(b) /\ (l = k - 1 \/ l < k - 1)
      BY <1>4
    <2>2. f = b[k - 1]
      BY <1>1, <1>5, <2>1 DEF LineStart
    <2>3. l = k - 1 \/ b[l] < b[k - 1]
      BY <1>3, <2>1
    <2> QED BY <1>2, <2>1, <2>2, <2>3
  <1>9. ASSUME NEW l \in 1..Len(b), k <= l PROVE b[l] \in Nat /\ f < b[l]
    <2>1. PICK x : x = b[l]
      OBVIOUS
    <2>2. PICK y : y = b[k]
      OBVIOUS
    <2>3. x \in 1..(Len(text) + 1)
      BY <1>2, <2>1
    <2>4. y \in 1..(Len(text) + 1) /\ LineStart(text, k) \in 0..(y - 1)
      BY <1>2, <1>4, <2>2
    <2>5. f \in 0..(y - 1)
      BY <1>5, <2>4
    <2>6. x = y \/ y < x
      BY <1>3, <1>4, <1>9, <2>1, <2>2
    <2>7. x \in Nat /\ f < x
      BY <1>2, <2>3, <2>4, <2>5, <2>6
    <2> QED BY <2>1, <2>7
  <1>10. f \in Nat /\ t \in Nat /\ f <= t /\ t <= Len(text) /\ b[m] = t + 1
    <2>1. PICK x : x = b[m]
      OBVIOUS
    <2>2. x \in 1..(Len(text) + 1)
      BY <1>2, <1>4, <2>1
    <2>3. f < x
      BY <1>4, <1>9, <2>1
    <2>4. f \in Nat
      <3>1. PICK y : y = b[k]
        OBVIOUS
      <3>2. y \in 1..(Len(text) + 1) /\ LineStart(text, k) \in 0..(y - 1)
        BY <1>2, <1>4, <3>1
      <3> QED BY <1>5, <3>2
    <2>5. t = x - 1
      BY <1>6, <2>1
    <2> QED BY <1>2, <2>1, <2>2, <2>3, <2>4, <2>5
  <1>11. part \in Seq(Symbols) /\ Len(part) = t - f /\ \A i \in 1..(t - f) : part[i] = text[f + i]
    <2>1. f \in 0..Len(text) /\ t \in f..Len(text)
      BY <1>2, <1>10
    <2>2. SubSeq(text, f + 1, t) \in Seq(Symbols) /\ Sliced(SubSeq(text, f + 1, t), text, f, t)
      BY <2>1, PartOf
    <2>3. part = SubSeq(text, f + 1, t)
      BY <1>1, <1>5, <1>6
    <2> QED BY <2>2, <2>3 DEF Sliced
  <1>12. PICK s : s = [j \in 1..d |-> b[k - 1 + j] - f]
    OBVIOUS
  <1>13. ASSUME NEW j \in 1..d
         PROVE  /\ k - 1 + j \in 1..Len(b) /\ s[j] \in Nat /\ f + s[j] = b[k - 1 + j]
                /\ s[j] \in 1..(t - f + 1)
    <2>1. PICK l : l = k - 1 + j
      OBVIOUS
    <2>2. l \in 1..Len(b) /\ k <= l /\ l <= m
      BY <1>4, <1>7, <2>1
    <2>3. PICK x : x = b[l]
      OBVIOUS
    <2>4. x \in Nat /\ f < x
      BY <1>9, <2>2, <2>3
    <2>5. x <= t + 1
      <3>1. l = m \/ b[l] < b[m]
        BY <1>3, <1>4, <2>2
      <3> QED BY <1>10, <2>3, <2>4, <3>1
    <2>6. s[j] = x - f
      BY <1>12, <2>1, <2>3
    <2>7. PICK z : z = s[j]
      OBVIOUS
    <2>8. z \in Nat /\ f + z = x /\ z \in 1..(t - f + 1)
      BY <1>10, <2>4, <2>5, <2>6, <2>7
    <2>9. b[k - 1 + j] = x
      BY <2>1, <2>3
    <2>10. k - 1 + j \in 1..Len(b)
      BY <2>1, <2>2
    <2> QED BY <2>7, <2>8, <2>9, <2>10
  <1>14. s \in Seq(Nat) /\ Len(s) = d
    <2>1. s \in [1..d -> Nat]
      <3>1. s = [j \in 1..d |-> s[j]] /\ \A j \in 1..d : s[j] \in Nat
        BY <1>12, <1>13
      <3> QED BY <3>1
    <2> QED BY <2>1, Tabled
  <1>15. ASSUME NEW i \in 1..(t - f + 1)
         PROVE  i \in Breaks(part) <=> f + i \in Breaks(text)
    <2>1. CASE i = t - f + 1
      <3>1. i = Len(part) + 1
        BY <1>10, <1>11, <2>1
      <3>2. f + i = t + 1
        BY <1>10, <2>1
      <3>3. b[m] \in Breaks(text)
        BY <1>2, <1>4
      <3>4. f + i \in Breaks(text)
        BY <1>10, <3>2, <3>3
      <3>5. i \in Breaks(part)
        BY <3>1 DEF Breaks
      <3> QED BY <3>4, <3>5
    <2>2. CASE i # t - f + 1
      <3>1. /\ i \in 1..(t - f) /\ i # Len(part) + 1 /\ f + i \in 1..Len(text)
            /\ f + i # Len(text) + 1
        <4>1. PICK n : n = Len(text)
          OBVIOUS
        <4>2. f \in Nat /\ t \in Nat /\ n \in Nat /\ t <= n /\ Len(part) = t - f
          BY <1>2, <1>10, <1>11, <4>1
        <4>3. PICK w : w = Len(part)
          OBVIOUS
        <4>4. w = t - f /\ i \in Int /\ 1 <= i /\ i <= w
          BY <2>2, <4>2, <4>3
        <4>5. i \in 1..(t - f) /\ i # w + 1
          BY <4>2, <4>4
        <4>6. f + i \in 1..n /\ f + i # n + 1
          BY <4>2, <4>4
        <4> QED BY <4>1, <4>3, <4>5, <4>6
      <3> QED BY <1>11, <3>1 DEF Breaks
    <2> QED BY <2>1, <2>2
  <1>16. Enumerates(s, Breaks(part))
    <2>1. Rising(s)
      <3> SUFFICES ASSUME NEW j \in 1..d, NEW l \in 1..d, j < l PROVE s[j] < s[l]
        BY <1>14 DEF Rising
      <3>1. k - 1 + j < k - 1 + l
        BY <1>4
      <3>2. b[k - 1 + j] < b[k - 1 + l]
        BY <1>3, <1>13, <3>1
      <3>3. f + s[j] < f + s[l] /\ s[j] \in Nat /\ s[l] \in Nat
        BY <1>13, <3>2
      <3> QED BY <1>10, <3>3
    <2>2. \A j \in 1..d : s[j] \in Breaks(part)
      <3> SUFFICES ASSUME NEW j \in 1..d PROVE s[j] \in Breaks(part)
        OBVIOUS
      <3>1. s[j] \in 1..(t - f + 1) /\ f + s[j] \in Breaks(text)
        BY <1>2, <1>13
      <3> QED BY <1>15, <3>1
    <2>3. ASSUME NEW i \in Breaks(part) PROVE \E j \in 1..d : s[j] = i
      <3>1. i \in 1..(t - f + 1) /\ i \in Nat
        <4>1. i \in 1..Len(part) \/ i = Len(part) + 1
          BY DEF Breaks
        <4> QED BY <1>10, <1>11, <4>1
      <3>2. PICK l \in 1..Len(b) : b[l] = f + i
        BY <1>2, <1>15, <3>1 DEF Enumerates
      <3>3. ~(l < k)
        BY <1>8, <1>10, <3>1, <3>2
      <3>4. ~(m < l)
        <4>1. m < l => b[m] < b[l]
          BY <1>3, <1>4
        <4> QED BY <1>10, <3>1, <3>2, <4>1
      <3>5. PICK j : j = l - (k - 1)
        OBVIOUS
      <3>6. j \in 1..d /\ k - 1 + j = l
        BY <1>2, <1>4, <1>7, <3>3, <3>4, <3>5
      <3>7. f + s[j] = f + i /\ s[j] \in Nat
        BY <1>13, <3>2, <3>6
      <3> QED BY <1>10, <3>1, <3>6, <3>7
    <2> QED BY <1>14, <2>1, <2>2, <2>3 DEF Enumerates
  <1>17. LineEnds(part) = s
    BY <1>11, <1>16, LineEndsAre, OneEnumeration
  <1>18. ASSUME NEW j \in 1..d PROVE f + LineStart(part, j) = LineStart(text, k - 1 + j)
    <2>1. CASE j = 1
      <3>1. k - 1 + j = k /\ LineStart(part, j) = 0
        BY <1>4, <2>1 DEF LineStart
      <3> QED BY <1>5, <1>10, <3>1
    <2>2. CASE j # 1
      <3>1. PICK i : i = j - 1
        OBVIOUS
      <3>2. i \in 1..d /\ (k - 1 + j) - 1 = k - 1 + i /\ k - 1 + j # 1
        BY <1>4, <2>2, <3>1
      <3>3. LineStart(part, j) = s[i] /\ LineStart(text, k - 1 + j) = b[k - 1 + i]
        BY <1>1, <1>17, <2>2, <3>1, <3>2 DEF LineStart
      <3> QED BY <1>13, <3>2, <3>3
    <2> QED BY <2>1, <2>2
  <1>19. ASSUME NEW j \in 1..d PROVE LineText(part, j) = LineText(text, k - 1 + j)
    <2>1. PICK l \in 1..Len(b) : l = k - 1 + j
      BY <1>13
    <2>2. PICK u : u = LineStart(part, j)
      OBVIOUS
    <2>3. PICK v : v = s[j] - 1
      OBVIOUS
    <2>4. u \in Nat /\ v \in Nat /\ u <= v /\ v <= t - f
      <3>1. PICK z : z = s[j]
        OBVIOUS
      <3>2. z \in 1..(t - f + 1)
        BY <1>13, <3>1
      <3>3. j \in 1..Len(LineEnds(part)) /\ LineEnds(part)[j] = z
        BY <1>14, <1>17, <3>1
      <3>4. LineStart(part, j) \in 0..(LineEnds(part)[j] - 1)
        BY <1>11, <3>3, LineEndsAre
      <3>5. u \in 0..(z - 1)
        BY <2>2, <3>3, <3>4
      <3>6. v = z - 1
        BY <2>3, <3>1
      <3> QED BY <1>10, <3>2, <3>5, <3>6
    <2>5. LineStart(text, l) = f + u /\ LineEnds(text)[l] - 1 = f + v
      <3>1. f + LineStart(part, j) = LineStart(text, k - 1 + j)
        BY <1>18
      <3>2. f + s[j] = b[k - 1 + j] /\ s[j] \in Nat
        BY <1>13
      <3>3. PICK z : z = s[j]
        OBVIOUS
      <3>4. PICK x : x = b[l]
        OBVIOUS
      <3>5. z \in Nat /\ x = f + z /\ v = z - 1
        BY <2>1, <2>3, <3>2, <3>3, <3>4
      <3>6. x - 1 = f + v
        BY <1>10, <3>5
      <3>7. LineEnds(text)[l] = x /\ LineStart(text, l) = f + u
        BY <1>1, <2>1, <2>2, <3>1, <3>4
      <3> QED BY <3>6, <3>7
    <2>6. PICK p : p = LineText(part, j)
      OBVIOUS
    <2>7. PICK q : q = LineText(text, l)
      OBVIOUS
    <2>8. p \in Seq(Symbols) /\ Len(p) = v - u /\ \A i \in 1..(v - u) : p[i] = part[u + i]
      BY <1>11, <1>14, <1>17, <2>2, <2>3, <2>6, LineTextIs DEF Sliced
    <2>9. q \in Seq(Symbols) /\ Len(q) = v - u /\ \A i \in 1..(v - u) : q[i] = text[(f + u) + i]
      <3>1. Sliced(q, text, f + u, f + v) /\ q \in Seq(Symbols)
        BY <1>1, <2>5, <2>7, LineTextIs
      <3>2. (f + v) - (f + u) = v - u
        BY <1>10, <2>4
      <3> QED BY <3>1, <3>2 DEF Sliced
    <2>10. ASSUME NEW i \in 1..(v - u) PROVE p[i] = q[i]
      <3>1. u + i \in 1..(t - f) /\ f + (u + i) = (f + u) + i
        BY <1>10, <2>4
      <3>2. part[u + i] = text[f + (u + i)]
        BY <1>11, <3>1
      <3> QED BY <2>8, <2>9, <3>1, <3>2
    <2>11. p = q
      BY <2>8, <2>9, <2>10, SamePart
    <2> QED BY <2>1, <2>6, <2>7, <2>11
  <1>20. PICK x : x = Edits!Trimmed(part)
    OBVIOUS
  <1>21. PICK y : y = SubSeq(Edits!Trimmed(text), k, m)
    OBVIOUS
  <1>22. x \in Seq(Seq(Symbols)) /\ Len(x) = d /\ \A j \in 1..d : x[j] = Edits!TrimSpace(LineText(part, j))
    BY <1>11, <1>14, <1>17, <1>20, TrimmedAre
  <1>23. y \in Seq(Seq(Symbols)) /\ Len(y) = d /\ \A j \in 1..d : y[j] = Edits!Trimmed(text)[k - 1 + j]
    <2>1. PICK c : c = k - 1
      OBVIOUS
    <2>2. PICK z : z = Edits!Trimmed(text)
      OBVIOUS
    <2>3. z \in Seq(Seq(Symbols)) /\ Len(z) = Len(b)
      BY <1>1, <2>2, TrimmedAre
    <2>4. c \in 0..Len(z) /\ m \in c..Len(z) /\ c + 1 = k /\ m - c = d
      BY <1>2, <1>4, <1>7, <2>1, <2>3
    <2>5. SubSeq(z, c + 1, m) \in Seq(Seq(Symbols)) /\ Sliced(SubSeq(z, c + 1, m), z, c, m)
      BY <2>3, <2>4, PartOf
    <2>6. y = SubSeq(z, c + 1, m)
      BY <1>21, <2>2, <2>4
    <2> QED BY <2>1, <2>2, <2>4, <2>5, <2>6 DEF Sliced
  <1>24. ASSUME NEW j \in 1..d PROVE x[j] = y[j]
    <2>1. y[j] = Edits!TrimSpace(LineText(text, k - 1 + j))
      BY <1>1, <1>13, <1>23, TrimmedAre
    <2> QED BY <1>19, <1>22, <2>1
  <1>25. x = y
    BY <1>22, <1>23, <1>24, SamePart
  <1> QED BY <1>7, <1>11, <1>14, <1>17, <1>19, <1>20, <1>21, <1>25

LinesUpto(text, k, m) == SubSeq(text, LineStart(text, k) + 1, LineEnds(text)[m] - 1)

(* Lines taken from a text have, one by one, the trimmed lines of the      *)
(* text.                                                                   *)
LEMMA LinesTaken ==
  ASSUME NEW text \in Seq(Symbols), NEW k \in 1..Len(LineEnds(text)),
         NEW m \in k..Len(LineEnds(text))
  PROVE  /\ LinesUpto(text, k, m) \in Seq(Symbols)
         /\ Len(LineEnds(LinesUpto(text, k, m))) = m - k + 1
         /\ Edits!Trimmed(LinesUpto(text, k, m)) = SubSeq(Edits!Trimmed(text), k, m)
  <1>1. PICK part : part = SubSeq(text, LineStart(text, k) + 1, LineEnds(text)[m] - 1)
    OBVIOUS
  <1>2. /\ part \in Seq(Symbols) /\ Len(LineEnds(part)) = m - k + 1
        /\ Edits!Trimmed(part) = SubSeq(Edits!Trimmed(text), k, m)
    BY <1>1, LinesOfPart
  <1>3. part = LinesUpto(text, k, m)
    BY <1>1 DEF LinesUpto
  <1> QED BY <1>2, <1>3

(* The fragment without its outer blank lines starts with a line of its    *)
(* own text, or is empty.                                                  *)
LEMMA InnerIs ==
  ASSUME NEW text \in Seq(Symbols), NEW inner, inner = Edits!TrimOuterBlankLines(text)
  PROVE  inner \in Seq(Symbols) /\ (inner # <<>> => Edits!Trimmed(inner)[1] # <<>>)
  <1>1. PICK n \in Nat : n = Len(LineEnds(text))
    BY LineEndsAre
  <1>2. PICK r : r = Edits!Trimmed(text)
    OBVIOUS
  <1>3. DOMAIN Edits!Lines(text) = 1..n
    BY <1>1, LinesAre
  <1> DEFINE solid == {k \in 1..n : r[k] # <<>>}
  <1>4. inner = IF solid = {} THEN <<>>
                ELSE Edits!Part(text, Edits!Place(Edits!Lines(text)[Edits!Min(solid)].from,
                                                  Edits!Lines(text)[Edits!Max(solid)].to))
    BY <1>2, <1>3 DEF Edits!TrimOuterBlankLines
  <1>5. CASE solid = {}
    BY <1>4, <1>5, EmptySeq
  <1>6. CASE solid # {}
    <2>1. \A k \in solid : k \in 1..n /\ r[k] # <<>>
      OBVIOUS
    <2> HIDE DEF solid
    <2>2. solid \subseteq Nat /\ \A k \in solid : k <= n
      BY <2>1
    <2>3. PICK lo \in solid : lo = Edits!Min(solid) /\ \A k \in solid : lo <= k
      <3>1. PICK k \in solid : \A j \in solid : k <= j
        BY <1>6, <2>2, Least
      <3>2. Edits!Min(solid) \in solid /\ \A j \in solid : Edits!Min(solid) <= j
        BY <3>1 DEF Edits!Min
      <3> QED BY <3>2
    <2>4. PICK hi \in solid : hi = Edits!Max(solid) /\ \A k \in solid : hi >= k
      <3>1. Window!Max(solid) \in solid /\ \A x \in solid : Window!Max(solid) >= x
        BY <1>1, <1>6, <2>2, Greatest
      <3>2. PICK x : x = Window!Max(solid)
        OBVIOUS
      <3>3. Edits!Max(solid) \in solid /\ \A j \in solid : Edits!Max(solid) >= j
        BY <3>1 DEF Edits!Max
      <3> QED BY <3>3
    <2>5. lo \in 1..n /\ hi \in 1..n /\ lo <= hi
      BY <2>1, <2>3, <2>4
    <2>6. hi \in lo..Len(LineEnds(text)) /\ lo \in 1..Len(LineEnds(text)) /\ hi \in 1..Len(LineEnds(text))
      BY <1>1, <2>5
    <2>7. /\ Edits!Lines(text)[lo].from = LineStart(text, lo)
          /\ Edits!Lines(text)[hi].to = LineEnds(text)[hi] - 1
      BY <2>6, LinesAre, PlaceIs
    <2>8. inner = SubSeq(text, LineStart(text, lo) + 1, LineEnds(text)[hi] - 1)
      BY <1>4, <1>6, <2>3, <2>4, <2>7, PlaceIs
    <2>9. inner \in Seq(Symbols) /\ Edits!Trimmed(inner) = SubSeq(r, lo, hi)
      BY <1>2, <2>6, <2>8, LinesOfPart
    <2>10. r \in Seq(Seq(Symbols)) /\ Len(r) = n
      BY <1>1, <1>2, TrimmedAre
    <2>11. PICK c : c = lo - 1
      OBVIOUS
    <2>12. c \in 0..Len(r) /\ hi \in c..Len(r) /\ c + 1 = lo /\ 1 \in 1..(hi - c)
      BY <1>1, <2>5, <2>10, <2>11
    <2>13. Sliced(SubSeq(r, c + 1, hi), r, c, hi)
      BY <2>10, <2>12, PartOf
    <2>14. SubSeq(r, c + 1, hi)[1] = r[c + 1]
      BY <2>12, <2>13 DEF Sliced
    <2>15. Edits!Trimmed(inner)[1] = r[lo]
      BY <2>9, <2>12, <2>14
    <2> QED BY <2>1, <2>3, <2>9, <2>15
  <1> QED BY <1>5, <1>6

(* The normal text ends where the text does.                               *)
LEMMA OffsetOfEnd ==
  ASSUME NEW text \in Seq(Symbols)
  PROVE  Edits!Offset(text, Len(Edits!Normal(text))) = Len(text)
  <1>1. PICK m : m = Len(Edits!Ends(text))
    OBVIOUS
  <1>2. m \in Nat /\ Len(text) \in Nat /\ Len(Edits!Normal(text)) = m
        /\ Edits!Normal(text) \in Seq(Symbols)
    BY <1>1, EndsAre, NormalIs
  <1>3. ~Edits!CutsPair(text, Len(text)) /\ Len(text) \in 0..Len(text)
    BY <1>2 DEF Edits!CutsPair
  <1>4. PICK a \in 0..m : Edits!Offset(text, a) = Len(text)
    BY <1>1, <1>3, UncutIsOffset
  <1>5. ~(a < m)
    <2> SUFFICES ASSUME a < m PROVE FALSE
      OBVIOUS
    <2>1. m \in 0..m
      BY <1>2
    <2>2. Edits!Offset(text, m) \in 0..Len(text) /\ Edits!Offset(text, a) < Edits!Offset(text, m)
      BY <1>1, <2>1, OffsetsRise
    <2>3. PICK o : o = Edits!Offset(text, m)
      OBVIOUS
    <2> QED BY <1>2, <1>4, <2>2, <2>3
  <1>6. a = m
    BY <1>2, <1>5
  <1> QED BY <1>2, <1>4, <1>6

(* A fragment keeps a symbol when its line ends are made one.              *)
LEMMA NormalIsFull ==
  ASSUME NEW text \in Seq(Symbols), text # <<>>
  PROVE  Edits!Normal(text) # <<>> /\ Edits!Normal(text) \in Seq(Symbols)
  <1>1. Len(text) # 0
    BY EmptySeq
  <1>2. Edits!Offset(text, 0) = 0
    BY DEF Edits!Offset
  <1>3. Len(Edits!Normal(text)) # 0
    BY <1>1, <1>2, OffsetOfEnd
  <1>4. Edits!Normal(text) # <<>>
    BY <1>3, EmptySeq
  <1> QED BY <1>4, NormalIs

(* A line end of the normal text is one of the text, before and after a    *)
(* place.                                                                  *)
LEMMA BeforeIs ==
  ASSUME NEW text \in Seq(Symbols), NEW a \in 1..Len(Edits!Normal(text))
  PROVE  Edits!Normal(text)[a] = "LF" <=> text[Edits!Offset(text, a)] \in {"LF", "CR"}
  <1>1. a \in 1..Len(Edits!Ends(text)) /\ a # 0
    BY NormalIs, EndsAre
  <1>2. Edits!Offset(text, a) = Edits!Ends(text)[a]
    BY <1>1 DEF Edits!Offset
  <1>3. Edits!Normal(text)[a] = Plain(text[Edits!Offset(text, a)])
    BY <1>1, <1>2, NormalIs
  <1> QED BY <1>3 DEF Plain

(* Behind an offset the text breaks its line where the normal text does.   *)
LEMMA AfterIs ==
  ASSUME NEW text \in Seq(Symbols), NEW b \in 0..Len(Edits!Normal(text)),
         b < Len(Edits!Normal(text)), NEW o, o = Edits!Offset(text, b)
  PROVE  Edits!Normal(text)[b + 1] = "LF" <=> text[o + 1] \in {"LF", "CR"}
  <1>1. PICK m : m = Len(Edits!Ends(text))
    OBVIOUS
  <1>2. PICK n : n = Len(text)
    OBVIOUS
  <1>3. m \in Nat /\ n \in Nat /\ Len(Edits!Normal(text)) = m
    BY <1>1, <1>2, EndsAre, NormalIs
  <1>4. PICK c : c = b + 1
    OBVIOUS
  <1>5. b \in 0..m /\ c \in 0..m /\ b < c /\ c \in 1..m
    BY <1>3, <1>4
  <1>6. PICK w : w = Edits!Offset(text, c)
    OBVIOUS
  <1>7. o \in 0..n /\ w \in 0..n /\ o < w /\ ~Edits!CutsPair(text, w)
    BY <1>1, <1>2, <1>5, <1>6, OffsetsRise
  <1>8. Edits!Normal(text)[c] = "LF" <=> text[w] \in {"LF", "CR"}
    BY <1>3, <1>5, <1>6, BeforeIs
  <1>9. ASSUME NEW i \in 0..n, ~Edits!CutsPair(text, i), o < i PROVE w <= i
    <2>1. PICK d \in 0..m : Edits!Offset(text, d) = i
      BY <1>1, <1>2, <1>9, UncutIsOffset
    <2>2. d < b => i < o
      BY <1>1, <1>5, <2>1, OffsetsRise
    <2>3. d # b
      BY <1>7, <1>9, <2>1
    <2>4. ~(d < b)
      BY <1>7, <1>9, <2>2
    <2>5. d = c \/ c < d
      BY <1>3, <1>4, <1>5, <2>3, <2>4
    <2>6. c < d => w < i
      BY <1>1, <1>5, <1>6, <2>1, OffsetsRise
    <2> QED BY <1>6, <1>7, <2>1, <2>5, <2>6
  <1>10. PICK i : i = o + 1
    OBVIOUS
  <1>11. i \in 1..n /\ i <= w /\ o < i /\ i \in 0..n
    BY <1>3, <1>7, <1>10
  <1>12. CASE ~Edits!CutsPair(text, i)
    <2>1. w = i
      BY <1>7, <1>9, <1>11, <1>12
    <2> QED BY <1>4, <1>8, <1>10, <2>1
  <1>13. CASE Edits!CutsPair(text, i)
    <2>1. PICK j : j = i + 1
      OBVIOUS
    <2>2. i \in 1..(n - 1) /\ text[i] = "CR" /\ text[j] = "LF"
      BY <1>2, <1>13, <2>1 DEF Edits!CutsPair
    <2>3. j \in 0..n /\ o < j
      BY <1>3, <1>7, <1>10, <2>1, <2>2
    <2>4. ~Edits!CutsPair(text, j)
      BY <2>2 DEF Edits!CutsPair
    <2>5. w <= j
      BY <1>9, <2>3, <2>4
    <2>6. w # i
      BY <1>7, <1>13
    <2>7. w = j
      BY <1>7, <1>11, <2>1, <2>3, <2>5, <2>6
    <2> QED BY <1>4, <1>8, <1>10, <2>2, <2>7
  <1> QED BY <1>12, <1>13

-----------------------------------------------------------------------------
(* The places that answer a fragment at a level.                           *)
LineMatch(content, fragment, k, m) ==
    /\ k \in 1..Len(LineEnds(content)) /\ m \in k..Len(LineEnds(content))
    /\ m - k + 1 = Len(LineEnds(fragment))
    /\ SubSeq(Edits!Trimmed(content), k, m) = Edits!Trimmed(fragment)

LinePlace(content, k, m) == Edits!Place(LineStart(content, k), LineEnds(content)[m] - 1)

(* The matches by lines are the stretches of lines that agree once         *)
(* trimmed.                                                                *)
LEMMA LineMatchesAre ==
  ASSUME NEW content \in Seq(Symbols), NEW fragment \in Seq(Symbols), fragment # <<>>,
         NEW found, found = Edits!LineMatches(content, fragment)
  PROVE  /\ \A p \in found : \E k, m \in Nat :
               LineMatch(content, fragment, k, m) /\ p = LinePlace(content, k, m)
         /\ \A k, m \in Nat :
               LineMatch(content, fragment, k, m) => LinePlace(content, k, m) \in found
  <1>1. PICK n \in Nat : n = Len(LineEnds(fragment)) /\ n >= 1
    BY LineEndsAre
  <1>2. PICK c \in Nat : c = Len(LineEnds(content))
    BY LineEndsAre
  <1>3. Len(Edits!Lines(fragment)) = n /\ Len(Edits!Lines(content)) = c
    BY <1>1, <1>2, LinesAre
  <1> DEFINE ks == {k \in 1..(c - n + 1) :
                      SubSeq(Edits!Trimmed(content), k, k + n - 1) = Edits!Trimmed(fragment)}
  <1>4. found = {Edits!Place(Edits!Lines(content)[k].from, Edits!Lines(content)[k + n - 1].to) :
                    k \in ks}
    BY <1>3 DEF Edits!LineMatches
  <1>5. ASSUME NEW k \in Nat, NEW m \in Nat, m = k + n - 1, k \in 1..c, m \in 1..c
        PROVE  Edits!Place(Edits!Lines(content)[k].from, Edits!Lines(content)[m].to)
                  = LinePlace(content, k, m)
    BY <1>2, <1>5, LinesAre, PlaceIs DEF LinePlace
  <1>6. ASSUME NEW p \in found
        PROVE  \E k, m \in Nat : LineMatch(content, fragment, k, m) /\ p = LinePlace(content, k, m)
    <2>1. PICK k \in ks :
             p = Edits!Place(Edits!Lines(content)[k].from, Edits!Lines(content)[k + n - 1].to)
      BY <1>4
    <2>2. k \in 1..(c - n + 1)
          /\ SubSeq(Edits!Trimmed(content), k, k + n - 1) = Edits!Trimmed(fragment)
      OBVIOUS
    <2>3. PICK m : m = k + n - 1
      OBVIOUS
    <2>4. k \in Nat /\ m \in Nat /\ k \in 1..c /\ m \in 1..c /\ m \in k..c /\ m - k + 1 = n
      BY <1>1, <1>2, <2>2, <2>3
    <2>5. LineMatch(content, fragment, k, m)
      BY <1>1, <1>2, <2>2, <2>3, <2>4 DEF LineMatch
    <2>6. p = LinePlace(content, k, m)
      BY <1>5, <2>1, <2>3, <2>4
    <2> QED BY <2>4, <2>5, <2>6
  <1>7. ASSUME NEW k \in Nat, NEW m \in Nat, LineMatch(content, fragment, k, m)
        PROVE  LinePlace(content, k, m) \in found
    <2>1. /\ k \in 1..c /\ m \in k..c /\ m - k + 1 = n
          /\ SubSeq(Edits!Trimmed(content), k, m) = Edits!Trimmed(fragment)
      BY <1>1, <1>2, <1>7 DEF LineMatch
    <2>2. m = k + n - 1 /\ m \in 1..c /\ k \in 1..(c - n + 1)
      BY <1>1, <1>2, <2>1
    <2>3. k \in ks
      BY <2>1, <2>2
    <2>4. Edits!Place(Edits!Lines(content)[k].from, Edits!Lines(content)[m].to)
             = LinePlace(content, k, m)
      BY <1>5, <2>1, <2>2
    <2> QED BY <1>4, <2>2, <2>3, <2>4
  <1> QED BY <1>6, <1>7

(* Lines that match are not empty.                                         *)
LEMMA LinesAreSome ==
  ASSUME NEW content \in Seq(Symbols), NEW fragment \in Seq(Symbols),
         Edits!Trimmed(fragment)[1] # <<>>,
         NEW k \in Nat, NEW m \in Nat, LineMatch(content, fragment, k, m),
         NEW a, a = LineStart(content, k), NEW b, b = LineEnds(content)[m] - 1
  PROVE  /\ a \in 0..Len(content) /\ b \in 0..Len(content) /\ a < b
         /\ Edits!Trimmed(SubSeq(content, a + 1, b)) = Edits!Trimmed(fragment)
  <1>1. PICK c : c = LineEnds(content)
    OBVIOUS
  <1>2. /\ Len(content) \in Nat /\ Len(c) \in Nat
        /\ \A l \in 1..Len(c) : /\ c[l] \in 1..(Len(content) + 1)
                                /\ LineStart(content, l) \in 0..(c[l] - 1)
        /\ \A j, l \in 1..Len(c) : j < l => c[j] < c[l]
    BY <1>1, LineEndsAre DEF Enumerates, Rising
  <1>3. k \in 1..Len(c) /\ m \in k..Len(c) /\ m \in 1..Len(c)
    BY <1>1, <1>2 DEF LineMatch
  <1>4. a \in Nat /\ b \in Nat /\ a <= b /\ b <= Len(content)
    <2>1. PICK x : x = c[k]
      OBVIOUS
    <2>2. PICK y : y = c[m]
      OBVIOUS
    <2>3. x \in 1..(Len(content) + 1) /\ a \in 0..(x - 1)
      BY <1>2, <1>3, <2>1
    <2>4. y \in 1..(Len(content) + 1)
      BY <1>2, <1>3, <2>2
    <2>5. x = y \/ x < y
      <3>1. k = m \/ k < m
        BY <1>2, <1>3
      <3> QED BY <1>2, <1>3, <2>1, <2>2, <3>1
    <2>6. b = y - 1
      BY <1>1, <2>2
    <2> QED BY <1>2, <2>3, <2>4, <2>5, <2>6
  <1>5. PICK part : part = SubSeq(content, a + 1, b)
    OBVIOUS
  <1>6. part = SubSeq(content, LineStart(content, k) + 1, LineEnds(content)[m] - 1)
    BY <1>5
  <1>7. /\ part \in Seq(Symbols) /\ Edits!Trimmed(part) = SubSeq(Edits!Trimmed(content), k, m)
    <2>1. k \in 1..Len(LineEnds(content)) /\ m \in k..Len(LineEnds(content))
      BY <1>1, <1>3
    <2>2. part = LinesUpto(content, k, m)
      BY <1>6 DEF LinesUpto
    <2> QED BY <2>1, <2>2, LinesTaken
  <1>8. Edits!Trimmed(part) = Edits!Trimmed(fragment)
    BY <1>7 DEF LineMatch
  <1>9. a # b
    <2> SUFFICES ASSUME a = b PROVE FALSE
      OBVIOUS
    <2>1. a \in 0..Len(content) /\ b \in a..Len(content)
      BY <1>2, <1>4
    <2>2. Sliced(part, content, a, b)
      BY <1>5, <2>1, PartOf
    <2>3. Len(part) = 0
      BY <1>4, <2>2 DEF Sliced
    <2>4. 1 \in 1..Len(LineEnds(part)) /\ LineEnds(part)[1] \in 1..(Len(part) + 1)
      <3>1. PICK n \in Nat : n = Len(LineEnds(part)) /\ n >= 1
        BY <1>7, LineEndsAre
      <3>2. 1 \in 1..Len(LineEnds(part))
        BY <3>1
      <3> QED BY <1>7, <3>2, LineEndsAre
    <2>5. LineEnds(part)[1] = 1 /\ LineStart(part, 1) = 0
      BY <2>3, <2>4 DEF LineStart
    <2>6. PICK line : line = LineText(part, 1)
      OBVIOUS
    <2>7. line \in Seq(Symbols) /\ Len(line) = 0
      BY <1>7, <2>4, <2>5, <2>6, LineTextIs DEF Sliced
    <2>8. Edits!TrimSpace(line) = <<>>
      <3>1. ~\E i \in 1..Len(line) : line[i] # "SP"
        BY <2>7
      <3> QED BY <2>7, <3>1, TrimSpaceIs
    <2>9. Edits!Trimmed(part)[1] = Edits!TrimSpace(LineText(part, 1))
      BY <1>7, <2>4, TrimmedAre
    <2> QED BY <1>8, <2>6, <2>8, <2>9
  <1> QED BY <1>2, <1>4, <1>5, <1>8, <1>9

(* The lines of the file that match, and the places that answer at the     *)
(* level of indentation, are the same.                                     *)
LEMMA LinesAnswer ==
  ASSUME NEW text \in Seq(Symbols),
         NEW inner \in Seq(Symbols), Edits!Trimmed(inner)[1] # <<>>,
         NEW content, content = Edits!Normal(text),
         NEW k \in Nat, NEW m \in Nat, LineMatch(content, inner, k, m),
         NEW q, q = Edits!Back(text, LinePlace(content, k, m))
  PROVE  /\ q \in Edits!Places(text) /\ q.from < q.to
         /\ ~Edits!CutsPair(text, q.from) /\ ~Edits!CutsPair(text, q.to)
         /\ q.from = 0 \/ text[q.from] \in {"LF", "CR"}
         /\ q.to = Len(text) \/ text[q.to + 1] \in {"LF", "CR"}
         /\ Edits!Trimmed(Edits!Normal(Edits!Part(text, q))) = Edits!Trimmed(inner)
  <1>1. content \in Seq(Symbols) /\ Len(content) \in Nat /\ Len(text) \in Nat
    BY NormalIs, LenProperties
  <1>2. PICK a : a = LineStart(content, k)
    OBVIOUS
  <1>3. PICK b : b = LineEnds(content)[m] - 1
    OBVIOUS
  <1>4. /\ a \in 0..Len(content) /\ b \in 0..Len(content) /\ a < b
        /\ Edits!Trimmed(SubSeq(content, a + 1, b)) = Edits!Trimmed(inner)
    BY <1>1, <1>2, <1>3, LinesAreSome
  <1>5. q = Edits!Back(text, Edits!Place(a, b))
    BY <1>2, <1>3 DEF LinePlace
  <1>6. /\ q \in Wholes(text, SubSeq(content, a + 1, b))
        /\ q.from = Edits!Offset(text, a) /\ q.to = Edits!Offset(text, b)
    BY <1>4, <1>5, BackIsWhole
  <1>7. /\ q \in Edits!Places(text) /\ q.from < q.to
        /\ ~Edits!CutsPair(text, q.from) /\ ~Edits!CutsPair(text, q.to)
        /\ Edits!Normal(Edits!Part(text, q)) = SubSeq(content, a + 1, b)
    BY <1>6 DEF Wholes
  <1>8. k \in 1..Len(LineEnds(content)) /\ m \in 1..Len(LineEnds(content))
    <2>1. Len(LineEnds(content)) \in Nat
      BY <1>1, LineEndsAre
    <2>2. k \in 1..Len(LineEnds(content)) /\ m \in k..Len(LineEnds(content))
      BY DEF LineMatch
    <2> QED BY <2>1, <2>2
  <1>9. q.from = 0 \/ text[q.from] \in {"LF", "CR"}
    <2>1. CASE a = 0
      BY <1>6, <2>1 DEF Edits!Offset
    <2>2. CASE a # 0
      <3>1. k # 1
        BY <1>2, <2>2 DEF LineStart
      <3>2. PICK j : j = k - 1
        OBVIOUS
      <3>3. Len(LineEnds(content)) \in Nat
        BY <1>1, LineEndsAre
      <3>4. j \in 1..Len(LineEnds(content)) /\ a = LineEnds(content)[j]
        BY <1>2, <1>8, <3>1, <3>2, <3>3 DEF LineStart
      <3>5. a \in Breaks(content)
        BY <1>1, <3>4, LineEndsAre
      <3>6. a # Len(content) + 1 /\ a \in 1..Len(content)
        BY <1>1, <1>4, <2>2
      <3>7. content[a] = "LF"
        BY <3>5, <3>6 DEF Breaks
      <3> QED BY <1>6, <3>6, <3>7, BeforeIs
    <2> QED BY <2>1, <2>2
  <1>10. q.to = Len(text) \/ text[q.to + 1] \in {"LF", "CR"}
    <2>1. CASE b = Len(content)
      BY <1>6, <2>1, OffsetOfEnd
    <2>2. CASE b # Len(content)
      <3>1. b < Len(content) /\ b + 1 # Len(content) + 1
        BY <1>1, <1>4, <2>2
      <3>2. LineEnds(content)[m] \in Breaks(content) /\ LineEnds(content)[m] \in Int
        BY <1>1, <1>8, LineEndsAre
      <3>3. b + 1 \in Breaks(content)
        BY <1>3, <3>2
      <3>4. content[b + 1] = "LF"
        BY <3>1, <3>3 DEF Breaks
      <3> QED BY <1>4, <1>6, <3>1, <3>4, AfterIs
    <2> QED BY <2>1, <2>2
  <1> QED BY <1>4, <1>7, <1>9, <1>10

(* A place that answers the fragment, but for blanks, is a stretch of      *)
(* lines that matches.                                                     *)
LEMMA AnswersAreLines ==
  ASSUME NEW text \in Seq(Symbols),
         NEW inner \in Seq(Symbols),
         NEW content, content = Edits!Normal(text),
         NEW q \in Edits!Places(text), q.from < q.to,
         ~Edits!CutsPair(text, q.from), ~Edits!CutsPair(text, q.to),
         q.from = 0 \/ text[q.from] \in {"LF", "CR"},
         q.to = Len(text) \/ text[q.to + 1] \in {"LF", "CR"},
         Edits!Trimmed(Edits!Normal(Edits!Part(text, q))) = Edits!Trimmed(inner)
  PROVE  \E k, m \in Nat :
            LineMatch(content, inner, k, m) /\ q = Edits!Back(text, LinePlace(content, k, m))
  <1>1. content \in Seq(Symbols) /\ Len(content) \in Nat /\ Len(text) \in Nat
    BY NormalIs, LenProperties
  <1>2. PICK a, b \in 0..Len(content) :
           /\ a < b /\ Edits!Offset(text, a) = q.from /\ Edits!Offset(text, b) = q.to
           /\ Edits!Normal(Edits!Part(text, q)) = SubSeq(content, a + 1, b)
    BY WholeIsBack
  <1>3. a = 0 \/ content[a] = "LF"
    <2> SUFFICES ASSUME a # 0 PROVE content[a] = "LF"
      OBVIOUS
    <2>1. a \in 1..Len(content)
      BY <1>1
    <2>2. Edits!Offset(text, 0) = 0 /\ 0 \in 0..Len(content)
      BY <1>1 DEF Edits!Offset
    <2>3. q.from # 0
      BY <1>2, <2>2, BackIsOne
    <2> QED BY <1>2, <2>1, <2>3, BeforeIs
  <1>4. b = Len(content) \/ content[b + 1] = "LF"
    <2> SUFFICES ASSUME b # Len(content) PROVE content[b + 1] = "LF"
      OBVIOUS
    <2>1. b < Len(content) /\ Len(content) \in 0..Len(content)
      BY <1>1
    <2>2. Edits!Offset(text, Len(content)) = Len(text)
      BY OffsetOfEnd
    <2>3. q.to # Len(text)
      BY <1>2, <2>1, <2>2, BackIsOne
    <2> QED BY <1>2, <2>1, <2>3, AfterIs
  <1>5. PICK k \in 1..Len(LineEnds(content)) : LineStart(content, k) = a
    BY <1>1, <1>3, StartsLine
  <1>6. PICK m \in 1..Len(LineEnds(content)) : LineEnds(content)[m] - 1 = b
    BY <1>1, <1>4, EndsLine
  <1>7. PICK c : c = LineEnds(content)
    OBVIOUS
  <1>8. /\ Len(c) \in Nat /\ \A l \in 1..Len(c) : c[l] \in 1..(Len(content) + 1)
        /\ \A j, l \in 1..Len(c) : j < l => c[j] < c[l]
    BY <1>1, <1>7, LineEndsAre DEF Enumerates, Rising
  <1>9. m >= k
    <2> SUFFICES ASSUME m < k PROVE FALSE
      BY <1>8
    <2>1. PICK j : j = k - 1
      OBVIOUS
    <2>2. j \in 1..Len(c) /\ k # 1 /\ (m = j \/ m < j) /\ m \in 1..Len(c)
      BY <1>7, <1>8, <2>1
    <2>3. a = c[j]
      BY <1>5, <1>7, <2>1, <2>2 DEF LineStart
    <2>4. PICK x : x = c[m]
      OBVIOUS
    <2>5. x \in Nat /\ x - 1 = b
      BY <1>6, <1>7, <1>8, <2>2, <2>4
    <2>6. a = x \/ x < a
      BY <1>8, <2>2, <2>3, <2>4
    <2> QED BY <1>1, <1>2, <2>5, <2>6
  <1>10. m \in k..Len(LineEnds(content)) /\ k \in Nat /\ m \in Nat
    BY <1>7, <1>8, <1>9
  <1>11. PICK part : part = SubSeq(content, LineStart(content, k) + 1, LineEnds(content)[m] - 1)
    OBVIOUS
  <1>12. /\ part \in Seq(Symbols) /\ Len(LineEnds(part)) = m - k + 1
         /\ Edits!Trimmed(part) = SubSeq(Edits!Trimmed(content), k, m)
    <2>1. part = LinesUpto(content, k, m)
      BY <1>11 DEF LinesUpto
    <2> QED BY <1>1, <1>10, <2>1, LinesTaken
  <1>13. Edits!Normal(Edits!Part(text, q)) = part
    BY <1>2, <1>5, <1>6, <1>11
  <1>14. Edits!Trimmed(part) = Edits!Trimmed(inner)
    BY <1>13
  <1>15. m - k + 1 = Len(LineEnds(inner))
    <2>1. Len(Edits!Trimmed(part)) = Len(LineEnds(part))
      BY <1>12, TrimmedAre
    <2>2. Len(Edits!Trimmed(inner)) = Len(LineEnds(inner))
      BY TrimmedAre
    <2> QED BY <1>12, <1>14, <2>1, <2>2
  <1>16. LineMatch(content, inner, k, m)
    BY <1>10, <1>12, <1>14, <1>15 DEF LineMatch
  <1>17. q = Edits!Back(text, LinePlace(content, k, m))
    <2>1. LinePlace(content, k, m) = Edits!Place(a, b)
      BY <1>5, <1>6 DEF LinePlace
    <2>2. Edits!Place(a, b).from = a /\ Edits!Place(a, b).to = b
      BY PlaceIs
    <2>3. q = Edits!Place(q.from, q.to)
      BY InPlaces
    <2> QED BY <1>2, <2>1, <2>2, <2>3 DEF Edits!Back
  <1> QED BY <1>10, <1>16, <1>17

-----------------------------------------------------------------------------
(* Each level finds of the places that answer at it.                       *)
LEMMA ExactChooses ==
  ASSUME NEW text \in Seq(Symbols), NEW old \in Seq(Symbols), old # <<>>
  PROVE  Chosen(Edits!Matches(text, old, "exact"), Edits!Answering(text, old, "exact"))
  <1>1. PICK found : found = Edits!Occurrences(text, old)
    OBVIOUS
  <1>2. Edits!Matches(text, old, "exact") = found
    BY <1>1 DEF Edits!Matches
  <1>3. PICK all : all = Edits!Answering(text, old, "exact")
    OBVIOUS
  <1>4. all = {p \in Edits!Places(text) : p.from < p.to /\ Edits!Part(text, p) = old}
    BY <1>3 DEF Edits!Answering, Edits!Answers
  <1>5. PICK n : n = Len(old)
    OBVIOUS
  <1>6. /\ Len(text) \in Nat /\ n \in Nat /\ n >= 1
        /\ \A p \in found : \E i \in Nat : Occurs(text, old, i) /\ p = Edits!Place(i, i + n)
        /\ \A i \in Nat : Occurs(text, old, i) => found # {}
        /\ \A p \in found, i \in Nat :
              found = {p} /\ Occurs(text, old, i) => p.from <= i /\ i < p.to
    BY <1>1, <1>5, OccurrencesAre
  <1>7. ASSUME NEW p \in found PROVE p \in all /\ p.from \in Nat
    <2>1. PICK i \in Nat : Occurs(text, old, i) /\ p = Edits!Place(i, i + n)
      BY <1>6
    <2>2. i \in 0..(Len(text) - n) /\ SubSeq(text, i + 1, i + n) = old
      BY <1>5, <2>1 DEF Occurs
    <2>3. PICK j : j = i + n
      OBVIOUS
    <2>4. i \in 0..Len(text) /\ j \in 0..Len(text) /\ i < j
      BY <1>6, <2>2, <2>3
    <2>5. p = Edits!Place(i, j)
      BY <2>1, <2>3
    <2>6. p.from = i /\ p.to = j /\ Edits!Part(text, p) = old
      BY <2>2, <2>3, <2>5, PlaceIs
    <2>7. p \in Edits!Places(text)
      BY <2>4, <2>5 DEF Edits!Places
    <2> QED BY <1>4, <2>4, <2>6, <2>7
  <1>8. ASSUME NEW q \in all
        PROVE  q.from \in Nat /\ q.to \in Nat /\ q.from < q.to /\ Occurs(text, old, q.from)
    <2>1. q \in Edits!Places(text) /\ q.from < q.to /\ Edits!Part(text, q) = old
      BY <1>4
    <2>2. PICK i : i = q.from
      OBVIOUS
    <2>3. PICK j : j = q.to
      OBVIOUS
    <2>4. i \in 0..Len(text) /\ j \in i..Len(text) /\ i < j
      BY <1>6, <2>1, <2>2, <2>3, InPlaces
    <2>5. SubSeq(text, i + 1, j) = old
      BY <2>1, <2>2, <2>3 DEF Edits!Part
    <2>6. n = j - i
      BY <1>5, <2>4, <2>5, PartOf DEF Sliced
    <2>7. i + n = j /\ i \in 0..(Len(text) - n) /\ i \in Nat /\ j \in Nat
      BY <1>6, <2>4, <2>6
    <2>8. Occurs(text, old, i)
      BY <1>5, <2>5, <2>7 DEF Occurs
    <2> QED BY <2>2, <2>3, <2>4, <2>7, <2>8
  <1>9. ASSUME NEW p \in found, NEW q \in all, found = {p}
        PROVE  q.from < p.to /\ p.from < q.to
    <2>1. p.from <= q.from /\ q.from < p.to
      BY <1>6, <1>8, <1>9
    <2>2. q.from < q.to /\ q.from \in Nat /\ q.to \in Nat /\ p.from \in Nat
      BY <1>7, <1>8
    <2> QED BY <2>1, <2>2
  <1>10. Chosen(found, all)
    BY <1>6, <1>7, <1>8, <1>9 DEF Chosen
  <1> QED BY <1>2, <1>3, <1>10

(* Matching the normal texts chooses from the places that answer: one that *)
(* is found alone overlaps all the others.                                 *)
LEMMA NewlineChooses ==
  ASSUME NEW text \in Seq(Symbols), NEW old \in Seq(Symbols), old # <<>>
  PROVE  Chosen(Edits!Matches(text, old, "newline"), Edits!Answering(text, old, "newline"))
  <1>1. PICK fragment : fragment = Edits!Normal(old)
    OBVIOUS
  <1>2. fragment \in Seq(Symbols) /\ fragment # <<>>
    BY <1>1, NormalIsFull
  <1>3. Edits!Matches(text, old, "newline")
           = {Edits!Back(text, p) : p \in Edits!Occurrences(Edits!Normal(text), fragment)}
    BY <1>1 DEF Edits!Matches
  <1>4. Edits!Answering(text, old, "newline") = Wholes(text, fragment)
    BY <1>1 DEF Edits!Answering, Wholes, Edits!Answers
  <1> QED BY <1>2, <1>3, <1>4, SearchChooses

(* So does matching without the blank lines around the fragment.           *)
LEMMA OuterChooses ==
  ASSUME NEW text \in Seq(Symbols), NEW old \in Seq(Symbols)
  PROVE  Chosen(Edits!Matches(text, old, "outer_blank_lines"),
                Edits!Answering(text, old, "outer_blank_lines"))
  <1>1. PICK inner : inner = Edits!TrimOuterBlankLines(Edits!Normal(old))
    OBVIOUS
  <1>2. inner \in Seq(Symbols)
    BY <1>1, InnerIs, NormalIs
  <1>3. Edits!Matches(text, old, "outer_blank_lines")
           = {Edits!Back(text, p) : p \in Edits!Occurrences(Edits!Normal(text), inner)}
    BY <1>1 DEF Edits!Matches
  <1>4. CASE inner = <<>>
    <2>1. Edits!Occurrences(Edits!Normal(text), inner) = {}
      BY <1>4 DEF Edits!Occurrences
    <2>2. Edits!Matches(text, old, "outer_blank_lines") = {}
      BY <1>3, <2>1
    <2>3. Edits!Answering(text, old, "outer_blank_lines") = {}
      BY <1>1, <1>4 DEF Edits!Answering, Edits!Answers
    <2> QED BY <2>2, <2>3 DEF Chosen
  <1>5. CASE inner # <<>>
    <2>1. Edits!Answering(text, old, "outer_blank_lines") = Wholes(text, inner)
      BY <1>1, <1>5 DEF Edits!Answering, Wholes, Edits!Answers
    <2> QED BY <1>2, <1>3, <1>5, <2>1, SearchChooses
  <1> QED BY <1>4, <1>5

(* At the level of indentation what is found is all that answers.          *)
LEMMA IndentationChooses ==
  ASSUME NEW text \in Seq(Symbols), NEW old \in Seq(Symbols)
  PROVE  Chosen(Edits!Matches(text, old, "indentation"), Edits!Answering(text, old, "indentation"))
  <1>1. PICK inner : inner = Edits!TrimOuterBlankLines(Edits!Normal(old))
    OBVIOUS
  <1>2. inner \in Seq(Symbols) /\ (inner # <<>> => Edits!Trimmed(inner)[1] # <<>>)
    BY <1>1, InnerIs, NormalIs
  <1>3. PICK content : content = Edits!Normal(text)
    OBVIOUS
  <1>4. content \in Seq(Symbols)
    BY <1>3, NormalIs
  <1>5. PICK lines : lines = Edits!LineMatches(content, inner)
    OBVIOUS
  <1>6. PICK found : found = {Edits!Back(text, p) : p \in lines}
    OBVIOUS
  <1>7. Edits!Matches(text, old, "indentation") = found
    BY <1>1, <1>3, <1>5, <1>6 DEF Edits!Matches
  <1>8. PICK all : all = Edits!Answering(text, old, "indentation")
    OBVIOUS
  <1>9. \A q : q \in all <=>
           /\ q \in Edits!Places(text) /\ q.from < q.to
           /\ ~Edits!CutsPair(text, q.from) /\ ~Edits!CutsPair(text, q.to)
           /\ q.from = 0 \/ text[q.from] \in {"LF", "CR"}
           /\ q.to = Len(text) \/ text[q.to + 1] \in {"LF", "CR"}
           /\ inner # <<>>
           /\ Edits!Trimmed(Edits!Normal(Edits!Part(text, q))) = Edits!Trimmed(inner)
    BY <1>1, <1>8 DEF Edits!Answering, Edits!Answers
  <1>10. CASE inner = <<>>
    <2>1. lines = {}
      BY <1>5, <1>10 DEF Edits!LineMatches
    <2>2. found = {} /\ all = {}
      BY <1>6, <1>9, <1>10, <2>1
    <2> QED BY <1>7, <1>8, <2>2 DEF Chosen
  <1>11. CASE inner # <<>>
    <2>1. ASSUME NEW q \in found PROVE q \in all
      <3>1. PICK p \in lines : q = Edits!Back(text, p)
        BY <1>6
      <3>2. PICK k, m \in Nat : LineMatch(content, inner, k, m) /\ p = LinePlace(content, k, m)
        BY <1>2, <1>4, <1>5, <1>11, LineMatchesAre
      <3>3. q = Edits!Back(text, LinePlace(content, k, m))
        BY <3>1, <3>2
      <3>4. /\ q \in Edits!Places(text) /\ q.from < q.to
            /\ ~Edits!CutsPair(text, q.from) /\ ~Edits!CutsPair(text, q.to)
            /\ q.from = 0 \/ text[q.from] \in {"LF", "CR"}
            /\ q.to = Len(text) \/ text[q.to + 1] \in {"LF", "CR"}
            /\ Edits!Trimmed(Edits!Normal(Edits!Part(text, q))) = Edits!Trimmed(inner)
        BY <1>2, <1>3, <1>11, <3>2, <3>3, LinesAnswer
      <3> QED BY <1>9, <1>11, <3>4
    <2>2. ASSUME NEW q \in all PROVE q \in found
      <3>1. PICK k, m \in Nat :
               LineMatch(content, inner, k, m) /\ q = Edits!Back(text, LinePlace(content, k, m))
        BY <1>2, <1>3, <1>9, AnswersAreLines
      <3>2. LinePlace(content, k, m) \in lines
        BY <1>2, <1>4, <1>5, <1>11, <3>1, LineMatchesAre
      <3> QED BY <1>6, <3>1, <3>2
    <2>3. found = all
      BY <2>1, <2>2
    <2>4. \A q \in all : q.from < q.to
      BY <1>9
    <2>5. Chosen(found, all)
      BY <2>3, <2>4 DEF Chosen
    <2> QED BY <1>7, <1>8, <2>5
  <1> QED BY <1>10, <1>11

(* A text has finitely many places.                                        *)
LEMMA PlacesAreFinite ==
  ASSUME NEW text \in Seq(Symbols)
  PROVE  IsFiniteSet(Edits!Places(text))
  <1>1. PICK n \in Nat : n = Len(text)
    BY LenProperties
  <1>2. PICK S : S = 0..n
    OBVIOUS
  <1>3. IsFiniteSet(S)
    <2>1. 0 \in Int /\ n \in Int
      OBVIOUS
    <2> QED BY <1>2, <2>1, FS_Interval
  <1>4. IsFiniteSet(S \X S)
    BY <1>3, FS_Product
  <1> DEFINE f == [z \in S \X S |-> Edits!Place(z[1], z[2])]
  <1>5. f \in Surjection(S \X S, Edits!Places(text))
    <2>1. \A z \in S \X S : f[z] \in Edits!Places(text)
      BY <1>1, <1>2 DEF Edits!Places
    <2>2. f \in [S \X S -> Edits!Places(text)]
      BY <2>1
    <2>3. ASSUME NEW p \in Edits!Places(text) PROVE \E z \in S \X S : f[z] = p
      <3>1. PICK i \in 0..Len(text), j \in 0..Len(text) : p = Edits!Place(i, j)
        BY DEF Edits!Places
      <3>2. <<i, j>> \in S \X S /\ f[<<i, j>>] = p
        BY <1>1, <1>2, <3>1
      <3> QED BY <3>2
    <2> HIDE DEF f
    <2> QED BY <2>2, <2>3 DEF Surjection
  <1> HIDE DEF f
  <1> QED BY <1>4, <1>5, FS_Surjection

(* The sizes of sets as the file tools count them.                         *)
LEMMA EditSizesAgree == ASSUME NEW S PROVE Edits!Cardinality(S) = Cardinality(S)
  BY DEF Edits!Cardinality, Cardinality, Edits!IsFiniteSet, IsFiniteSet

(* The levels of matching, in the order they are tried.                    *)
LEMMA LevelsAre ==
  /\ DOMAIN Edits!Levels = 1..4
  /\ Edits!Levels[1] = "exact" /\ Edits!Levels[2] = "newline"
  /\ Edits!Levels[3] = "outer_blank_lines" /\ Edits!Levels[4] = "indentation"
  BY DEF Edits!Levels

(* Every level chooses from the places that answer at that level.          *)
LEMMA LevelChooses ==
  ASSUME NEW text \in Seq(Symbols), NEW old \in Seq(Symbols), old # <<>>, NEW k \in 1..4
  PROVE  Chosen(Edits!Matches(text, old, Edits!Levels[k]), Edits!Answering(text, old, Edits!Levels[k]))
  <1>1. k = 1 \/ k = 2 \/ k = 3 \/ k = 4
    OBVIOUS
  <1>2. CASE k = 1
    BY <1>2, LevelsAre, ExactChooses
  <1>3. CASE k = 2
    BY <1>3, LevelsAre, NewlineChooses
  <1>4. CASE k = 3
    BY <1>4, LevelsAre, OuterChooses
  <1>5. CASE k = 4
    BY <1>5, LevelsAre, IndentationChooses
  <1> QED BY <1>1, <1>2, <1>3, <1>4, <1>5

(* What a match says of the places that answer.                            *)
Missed(text, old) == \A k \in 1..4 : Edits!Answering(text, old, Edits!Levels[k]) = {}
Doubtful(text, old) == \E k \in 1..4 : Cardinality(Edits!Answering(text, old, Edits!Levels[k])) > 1
Marked(text, old, k, place) ==
    /\ \A j \in 1..(k - 1) : Edits!Answering(text, old, Edits!Levels[j]) = {}
    /\ place \in Edits!Answering(text, old, Edits!Levels[k])
    /\ \A q \in Edits!Answering(text, old, Edits!Levels[k]) : q.from < place.to /\ place.from < q.to

Tells(text, old, m) ==
    \/ m.level = "no_match" /\ Missed(text, old)
    \/ m.level = "ambiguous_match" /\ Doubtful(text, old)
    \/ \E k \in 1..4 : m.level = Edits!Levels[k] /\ Marked(text, old, k, m.place)

(* What an edit says of its match: that nothing answers, that several      *)
(* places do, or the place that a level chose.                             *)
LEMMA MatchTells ==
  ASSUME NEW text \in Seq(Symbols), NEW old \in Seq(Symbols), old # <<>>,
         NEW m, m = Edits!EditMatch(text, old)
  PROVE  Tells(text, old, m)
  <1> DEFINE hits == {k \in 1..4 : Edits!Matches(text, old, Edits!Levels[k]) # {}}
  <1>1. PICK k : k = Edits!Min(hits)
    OBVIOUS
  <1>2. PICK places : places = Edits!Matches(text, old, Edits!Levels[k])
    OBVIOUS
  <1>3. m = IF hits = {} THEN [level |-> "no_match"]
            ELSE IF Edits!Cardinality(places) > 1
            THEN [level |-> "ambiguous_match", at |-> Edits!Levels[k]]
            ELSE [level |-> Edits!Levels[k], place |-> CHOOSE place \in places : TRUE]
    BY <1>1, <1>2, LevelsAre DEF Edits!EditMatch
  <1>4. \A j \in 1..4 : j \in hits \/ Edits!Matches(text, old, Edits!Levels[j]) = {}
    OBVIOUS
  <1>5. \A j \in hits : j \in 1..4 /\ Edits!Matches(text, old, Edits!Levels[j]) # {}
    OBVIOUS
  <1> HIDE DEF hits
  <1>6. ASSUME NEW j \in 1..4, j \notin hits PROVE Edits!Answering(text, old, Edits!Levels[j]) = {}
    <2>1. PICK all : all = Edits!Answering(text, old, Edits!Levels[j])
      OBVIOUS
    <2>2. PICK none : none = Edits!Matches(text, old, Edits!Levels[j])
      OBVIOUS
    <2>3. Chosen(none, all)
      BY <2>1, <2>2, LevelChooses
    <2>4. none = {}
      BY <1>4, <1>6, <2>2
    <2>5. all = {}
      BY <2>3, <2>4 DEF Chosen
    <2> QED BY <2>1, <2>5
  <1>7. CASE hits = {}
    <2>1. Missed(text, old)
      BY <1>6, <1>7 DEF Missed
    <2>2. m.level = "no_match"
      BY <1>3, <1>7
    <2> QED BY <2>1, <2>2 DEF Tells
  <1>8. CASE hits # {}
    <2>1. k \in hits /\ \A j \in hits : k <= j
      <3>1. hits \subseteq Nat
        BY <1>5
      <3>2. PICK l \in hits : \A j \in hits : l <= j
        BY <1>8, <3>1, Least
      <3> QED BY <1>1, <3>2 DEF Edits!Min
    <2>2. k \in 1..4 /\ places # {}
      BY <1>2, <1>5, <2>1
    <2>3. PICK all : all = Edits!Answering(text, old, Edits!Levels[k])
      OBVIOUS
    <2>4. Chosen(places, all)
      BY <1>2, <2>2, <2>3, LevelChooses
    <2>5. IsFiniteSet(all) /\ IsFiniteSet(places)
      <3>1. all \subseteq Edits!Places(text)
        BY <2>3 DEF Edits!Answering
      <3>2. places \subseteq all
        BY <2>4 DEF Chosen
      <3>3. IsFiniteSet(all)
        BY <3>1, PlacesAreFinite, FS_Subset
      <3> QED BY <3>2, <3>3, FS_Subset
    <2>6. Cardinality(places) \in Nat /\ Cardinality(all) \in Nat /\ Cardinality(places) <= Cardinality(all)
      <3>1. places \subseteq all
        BY <2>4 DEF Chosen
      <3> QED BY <2>5, <3>1, FS_Subset, FS_CardinalityType
    <2>7. CASE Cardinality(places) > 1
      <3>1. Cardinality(all) > 1
        BY <2>6, <2>7
      <3>2. Doubtful(text, old)
        BY <2>2, <2>3, <3>1 DEF Doubtful
      <3>3. Edits!Cardinality(places) > 1
        BY <2>7, EditSizesAgree
      <3>4. m.level = "ambiguous_match"
        BY <1>3, <1>8, <3>3
      <3> QED BY <3>2, <3>4 DEF Tells
    <2>8. CASE ~(Cardinality(places) > 1)
      <3>1. Cardinality(places) = 1
        <4>1. Cardinality(places) # 0
          BY <2>2, <2>5, FS_EmptySet
        <4> QED BY <2>6, <2>8, <4>1
      <3>2. PICK p : places = {p}
        BY <2>5, <3>1, FS_Singleton
      <3>3. (CHOOSE place \in places : TRUE) = p
        BY <3>2
      <3>4. ~(Edits!Cardinality(places) > 1)
        BY <2>8, EditSizesAgree
      <3>5. m.level = Edits!Levels[k] /\ m.place = p
        BY <1>3, <1>8, <3>3, <3>4
      <3>6. p \in all /\ \A q \in all : q.from < p.to /\ p.from < q.to
        BY <2>4, <3>2 DEF Chosen
      <3>7. \A j \in 1..(k - 1) : Edits!Answering(text, old, Edits!Levels[j]) = {}
        <4> SUFFICES ASSUME NEW j \in 1..(k - 1) PROVE Edits!Answering(text, old, Edits!Levels[j]) = {}
          OBVIOUS
        <4>1. j \in 1..4 /\ ~(k <= j)
          BY <2>2
        <4> QED BY <1>6, <2>1, <4>1
      <3>8. Marked(text, old, k, p)
        BY <2>3, <3>6, <3>7 DEF Marked
      <3> QED BY <2>2, <3>5, <3>8 DEF Tells
    <2> QED BY <2>7, <2>8
  <1> QED BY <1>7, <1>8

(* The invariant says of an edit what its match said.                      *)
LEMMA HitsTheMark ==
  ASSUME edit # Edits!NoEdit, Tells(edit.before, edit.old, edit)
  PROVE  Edits!EditsHitTheirMark
  <1> DEFINE text == edit.before
             old == edit.old
             I == {i \in 1..Len(Edits!Levels) : Edits!Levels[i] = edit.level}
             found == IF I # {} THEN Edits!Min(I) ELSE 0
  <1>4. Len(Edits!Levels) = 4
    BY DEF Edits!Levels
  <1>5. SUFFICES IF edit.level = "ambiguous_match"
          THEN \E level \in Edits!Range(Edits!Levels) :
                  Edits!Cardinality(Edits!Answering(text, old, level)) > 1
          ELSE /\ \A k \in DOMAIN Edits!Levels :
                     found = 0 \/ k < found => Edits!Answering(text, old, Edits!Levels[k]) = {}
               /\ found # 0 =>
                    /\ edit.place \in Edits!Answering(text, old, edit.level)
                    /\ \A place \in Edits!Answering(text, old, edit.level) :
                          place.from < edit.place.to /\ edit.place.from < place.to
    BY DEF Edits!EditsHitTheirMark, Edits!SelectInSeq
  <1>3. Tells(text, old, edit)
    OBVIOUS
  <1>7. \A i : i \in I <=> i \in 1..4 /\ Edits!Levels[i] = edit.level
    BY <1>4
  <1>8. I = {} => found = 0
    OBVIOUS
  <1>9. I # {} => found = Edits!Min(I)
    OBVIOUS
  <1> HIDE DEF I, found, text, old
  <1>10. \A i, j \in 1..4 : Edits!Levels[i] = Edits!Levels[j] => i = j
    <2> SUFFICES ASSUME NEW i \in 1..4, NEW j \in 1..4, Edits!Levels[i] = Edits!Levels[j] PROVE i = j
      OBVIOUS
    <2>1. (i = 1 \/ i = 2 \/ i = 3 \/ i = 4) /\ (j = 1 \/ j = 2 \/ j = 3 \/ j = 4)
      OBVIOUS
    <2> QED BY <2>1, LevelsAre
  <1>11. \A i \in 1..4 : Edits!Levels[i] # "ambiguous_match" /\ Edits!Levels[i] # "no_match"
    <2> SUFFICES ASSUME NEW i \in 1..4
                 PROVE Edits!Levels[i] # "ambiguous_match" /\ Edits!Levels[i] # "no_match"
      OBVIOUS
    <2>1. i = 1 \/ i = 2 \/ i = 3 \/ i = 4
      OBVIOUS
    <2> QED BY <2>1, LevelsAre
  <1>12. CASE edit.level = "no_match" /\ Missed(text, old)
    <2>1. I = {}
      BY <1>7, <1>11, <1>12
    <2>2. \A k \in DOMAIN Edits!Levels : Edits!Answering(text, old, Edits!Levels[k]) = {}
      BY <1>12, LevelsAre DEF Missed
    <2>3. found = 0 /\ edit.level # "ambiguous_match"
      BY <1>8, <1>12, <2>1
    <2> QED BY <2>2, <2>3
  <1>13. CASE edit.level = "ambiguous_match" /\ Doubtful(text, old)
    <2>1. PICK k \in 1..4 : Cardinality(Edits!Answering(text, old, Edits!Levels[k])) > 1
      BY <1>13 DEF Doubtful
    <2>2. Edits!Levels[k] \in Edits!Range(Edits!Levels)
      BY LevelsAre DEF Edits!Range
    <2>3. Edits!Cardinality(Edits!Answering(text, old, Edits!Levels[k])) > 1
      BY <2>1, EditSizesAgree
    <2> QED BY <1>13, <2>2, <2>3
  <1>14. ASSUME NEW k \in 1..4, edit.level = Edits!Levels[k], Marked(text, old, k, edit.place)
         PROVE  /\ edit.level # "ambiguous_match"
                /\ \A j \in DOMAIN Edits!Levels : found = 0 \/ j < found => Edits!Answering(text, old, Edits!Levels[j]) = {}
                /\ found # 0 =>
                    /\ edit.place \in Edits!Answering(text, old, edit.level)
                    /\ \A place \in Edits!Answering(text, old, edit.level) :
                          place.from < edit.place.to /\ edit.place.from < place.to
    <2>1. I = {k}
      BY <1>7, <1>10, <1>14
    <2>2. Edits!Min({k}) = k
      BY DEF Edits!Min
    <2>3. found = k
      BY <1>9, <2>1, <2>2
    <2>4. /\ \A j \in 1..(k - 1) : Edits!Answering(text, old, Edits!Levels[j]) = {}
          /\ edit.place \in Edits!Answering(text, old, Edits!Levels[k])
          /\ \A q \in Edits!Answering(text, old, Edits!Levels[k]) :
                q.from < edit.place.to /\ edit.place.from < q.to
      BY <1>14 DEF Marked
    <2>5. ASSUME NEW j \in 1..4, found = 0 \/ j < found PROVE Edits!Answering(text, old, Edits!Levels[j]) = {}
      <3>1. j \in 1..(k - 1)
        BY <2>3, <2>5
      <3> QED BY <2>4, <3>1
    <2> QED BY <1>11, <1>14, <2>4, <2>5, LevelsAre
  <1>15. CASE \E k \in 1..4 : edit.level = Edits!Levels[k] /\ Marked(text, old, k, edit.place)
    BY <1>14, <1>15
  <1> QED BY <1>3, <1>12, <1>13, <1>15 DEF Tells

-----------------------------------------------------------------------------
(* Sequences put together: a set of sequences that holds the empty one,    *)
(* and with two their concatenation, holds what its sequences make.        *)
Strung(f, s) ==
    /\ f[1] = s[1]
    /\ \A k \in 2..Len(s) : f[k] = f[k - 1] \o s[k]

(* A sequence of texts is strung together one by one.                      *)
LEMMA FlattenUnfolds ==
  ASSUME NEW n \in Nat, n # 0, NEW s, Len(s) = n
  PROVE  \E f : Strung(f, s) /\ Edits!FlattenSeq(s) = f[n]
  <1> DEFINE Step(f, i) == IF i = 1 THEN s[i] ELSE f[i - 1] \o s[i]
             Solves(f, m) == f = [i \in 1..m |-> Step(f, i)]
             T == {m \in Nat : m # 0 /\ ~\E f : Solves(f, m)}
  <1>1. T = {}
    <2> SUFFICES ASSUME T # {} PROVE FALSE
      OBVIOUS
    <2>1. T \subseteq Nat
      OBVIOUS
    <2> HIDE DEF T
    <2>2. PICK m \in T : \A l \in T : m <= l
      BY <2>1, Least
    <2>3. m \in Nat /\ m # 0 /\ ~\E f : Solves(f, m)
      BY DEF T
    <2>4. m # 1
      <3>1. SUFFICES ASSUME m = 1 PROVE Solves([i \in 1..1 |-> s[i]], m)
        BY <2>3
      <3> QED BY <3>1
    <2>5. m - 1 \in Nat /\ m - 1 # 0 /\ m - 1 \notin T
      BY <2>2, <2>3, <2>4
    <2>6. PICK g : Solves(g, m - 1)
      BY <2>5 DEF T
    <2> DEFINE f == [i \in 1..m |-> IF i = m THEN g[m - 1] \o s[m] ELSE g[i]]
    <2>7. \A i \in 1..m : f[i] = Step(f, i)
      <3> SUFFICES ASSUME NEW i \in 1..m PROVE f[i] = Step(f, i)
        OBVIOUS
      <3>1. CASE i = m
        <4>1. f[i - 1] = g[m - 1]
          BY <2>3, <2>4, <3>1
        <4>2. f[i] = g[m - 1] \o s[m]
          BY <3>1
        <4> QED BY <2>4, <3>1, <4>1, <4>2
      <3>2. CASE i # m
        <4>1. i \in 1..(m - 1) /\ f[i] = g[i]
          BY <2>3, <3>2
        <4>2. g[i] = Step(g, i)
          BY <2>6, <4>1
        <4>3. i # 1 => f[i - 1] = g[i - 1]
          BY <2>3, <4>1
        <4> QED BY <4>1, <4>2, <4>3
      <3> QED BY <3>1, <3>2
    <2>8. Solves(f, m)
      <3> HIDE DEF Step
      <3> QED BY <2>7
    <2> QED BY <2>3, <2>8
  <1>2. PICK g : Solves(g, n)
    <2>1. n \notin T
      BY <1>1
    <2> QED BY <2>1 DEF T
  <1>3. PICK f : f = CHOOSE h : Solves(h, n)
    OBVIOUS
  <1>4. Solves(f, n) /\ Edits!FlattenSeq(s) = f[n]
    <2>1. Edits!FlattenSeq(s) = (CHOOSE h : Solves(h, n))[n]
      BY DEF Edits!FlattenSeq
    <2> HIDE DEF Solves
    <2> QED BY <1>2, <1>3, <2>1
  <1>5. \A i \in 1..n : f[i] = Step(f, i)
    <2>1. f = [i \in 1..n |-> Step(f, i)]
      BY <1>4
    <2> HIDE DEF Step
    <2> QED BY <2>1
  <1>6. Strung(f, s)
    <2>1. f[1] = s[1]
      <3>1. 1 \in 1..n
        OBVIOUS
      <3> QED BY <1>5, <3>1
    <2>2. ASSUME NEW k \in 2..n PROVE f[k] = f[k - 1] \o s[k]
      <3>1. k \in 1..n /\ k # 1
        OBVIOUS
      <3> QED BY <1>5, <3>1
    <2> QED BY <2>1, <2>2 DEF Strung
  <1> QED BY <1>4, <1>6

(* What holds of the empty text and of two texts strung together holds of  *)
(* any number of them.                                                     *)
LEMMA FlattenStays ==
  ASSUME NEW P, <<>> \in P, \A a, b \in P : a \o b \in P,
         NEW n \in Nat, NEW s \in [1..n -> P]
  PROVE  Edits!FlattenSeq(s) \in P
  <1>1. Len(s) = n /\ s \in Seq(P) /\ \A k \in 1..n : s[k] \in P
    BY Tabled
  <1>2. CASE n = 0
    <2>1. s = <<>>
      BY <1>1, <1>2, EmptySeq
    <2>2. Edits!FlattenSeq(s) = s
      BY <1>1, <1>2 DEF Edits!FlattenSeq
    <2> QED BY <2>1, <2>2
  <1>3. CASE n # 0
    <2>1. PICK f : Strung(f, s) /\ Edits!FlattenSeq(s) = f[n]
      BY <1>1, <1>3, FlattenUnfolds
    <2> DEFINE T == {k \in Nat : k \in 1..n /\ f[k] \notin P}
    <2>2. T = {}
      <3> SUFFICES ASSUME T # {} PROVE FALSE
        OBVIOUS
      <3>1. T \subseteq Nat
        OBVIOUS
      <3> HIDE DEF T
      <3>2. PICK k \in T : \A j \in T : k <= j
        BY <3>1, Least
      <3>3. k \in 1..n /\ f[k] \notin P
        BY DEF T
      <3>4. k # 1
        <4>1. f[1] = s[1]
          BY <2>1 DEF Strung
        <4>2. 1 \in 1..n
          BY <1>3
        <4> QED BY <1>1, <3>3, <4>1, <4>2
      <3>5. PICK j : j = k - 1
        OBVIOUS
      <3>6. j \in 1..n /\ j \in Nat /\ j < k /\ k \in 2..n
        BY <3>3, <3>4, <3>5
      <3>7. j \notin T
        BY <3>1, <3>2, <3>6
      <3>8. f[j] \in P
        BY <3>6, <3>7 DEF T
      <3>9. f[k] = f[j] \o s[k]
        BY <1>1, <2>1, <3>5, <3>6 DEF Strung
      <3> QED BY <1>1, <3>3, <3>8, <3>9
    <2>3. n \in 1..n
      BY <1>3
    <2> QED BY <2>1, <2>2, <2>3
  <1> QED BY <1>2, <1>3

(* The texts without a CR, and those in which CR and LF come in pairs.     *)
Single(s) == \A i \in 1..Len(s) : s[i] # "CR"
Paired(s) ==
    \A i \in 1..Len(s) :
        /\ s[i] = "LF" => i > 1 /\ s[i - 1] = "CR"
        /\ s[i] = "CR" => i < Len(s) /\ s[i + 1] = "LF"
SingleTexts == {s \in Seq(Symbols) : Single(s)}
PairedTexts == {s \in Seq(Symbols) : Paired(s)}

(* Two texts with the same line ends make one with these line ends.        *)
LEMMA TextsJoin ==
  ASSUME NEW a \in Seq(Symbols), NEW b \in Seq(Symbols)
  PROVE  /\ a \o b \in Seq(Symbols)
         /\ Single(a) /\ Single(b) => Single(a \o b)
         /\ Paired(a) /\ Paired(b) => Paired(a \o b)
  <1>1. PICK m \in Nat : m = Len(a)
    BY LenProperties
  <1>2. PICK n \in Nat : n = Len(b)
    BY LenProperties
  <1>3. PICK s : s = a \o b
    OBVIOUS
  <1>4. /\ s \in Seq(Symbols) /\ Len(s) = m + n
        /\ \A i \in 1..(m + n) : s[i] = IF i <= m THEN a[i] ELSE b[i - m]
    BY <1>1, <1>2, <1>3, ConcatProperties
  <1>5. \A i \in 1..(m + n) : i \in 1..m \/ (~(i <= m) /\ i - m \in 1..n)
    OBVIOUS
  <1>6. ASSUME Single(a), Single(b) PROVE Single(s)
    <2> SUFFICES ASSUME NEW i \in 1..(m + n) PROVE s[i] # "CR"
      BY <1>4 DEF Single
    <2>1. CASE i \in 1..m
      <3>1. s[i] = a[i]
        BY <1>4, <2>1
      <3> QED BY <1>1, <1>6, <2>1, <3>1 DEF Single
    <2>2. CASE ~(i <= m) /\ i - m \in 1..n
      <3>1. s[i] = b[i - m]
        BY <1>4, <2>2
      <3> QED BY <1>2, <1>6, <2>2, <3>1 DEF Single
    <2> QED BY <1>5, <2>1, <2>2
  <1>7. ASSUME Paired(a), Paired(b) PROVE Paired(s)
    <2>1. ASSUME NEW i \in 1..(m + n), s[i] = "LF" PROVE i > 1 /\ s[i - 1] = "CR"
      <3>1. CASE i \in 1..m
        <4>1. a[i] = "LF"
          BY <1>4, <2>1, <3>1
        <4>2. i > 1 /\ a[i - 1] = "CR"
          BY <1>1, <1>7, <3>1, <4>1 DEF Paired
        <4>3. PICK j : j = i - 1
          OBVIOUS
        <4>4. j \in 1..(m + n) /\ j <= m
          BY <3>1, <4>2, <4>3
        <4>5. s[j] = a[j]
          BY <1>4, <4>4
        <4> QED BY <4>2, <4>3, <4>5
      <3>2. CASE ~(i <= m) /\ i - m \in 1..n
        <4>1. PICK k : k = i - m
          OBVIOUS
        <4>2. b[k] = "LF" /\ k \in 1..n
          BY <1>4, <2>1, <3>2, <4>1
        <4>3. k > 1 /\ b[k - 1] = "CR"
          BY <1>2, <1>7, <4>2 DEF Paired
        <4>4. PICK j : j = i - 1
          OBVIOUS
        <4>5. j \in 1..(m + n) /\ ~(j <= m) /\ j - m = k - 1 /\ i > 1
          BY <3>2, <4>1, <4>2, <4>3, <4>4
        <4>6. s[j] = b[k - 1]
          BY <1>4, <4>5
        <4> QED BY <4>3, <4>4, <4>5, <4>6
      <3> QED BY <1>5, <3>1, <3>2
    <2>2. ASSUME NEW i \in 1..(m + n), s[i] = "CR" PROVE i < m + n /\ s[i + 1] = "LF"
      <3>1. CASE i \in 1..m
        <4>1. a[i] = "CR"
          BY <1>4, <2>2, <3>1
        <4>2. i < m /\ a[i + 1] = "LF"
          BY <1>1, <1>7, <3>1, <4>1 DEF Paired
        <4>3. PICK j : j = i + 1
          OBVIOUS
        <4>4. j \in 1..(m + n) /\ j <= m /\ i < m + n
          BY <3>1, <4>2, <4>3
        <4>5. s[j] = a[j]
          BY <1>4, <4>4
        <4> QED BY <4>2, <4>3, <4>4, <4>5
      <3>2. CASE ~(i <= m) /\ i - m \in 1..n
        <4>1. PICK k : k = i - m
          OBVIOUS
        <4>2. b[k] = "CR" /\ k \in 1..n
          BY <1>4, <2>2, <3>2, <4>1
        <4>3. k < n /\ b[k + 1] = "LF"
          BY <1>2, <1>7, <4>2 DEF Paired
        <4>4. PICK j : j = i + 1
          OBVIOUS
        <4>5. j \in 1..(m + n) /\ ~(j <= m) /\ j - m = k + 1 /\ i < m + n
          BY <3>2, <4>1, <4>2, <4>3, <4>4
        <4>6. s[j] = b[k + 1]
          BY <1>4, <4>5
        <4> QED BY <4>3, <4>4, <4>5, <4>6
      <3> QED BY <1>5, <3>1, <3>2
    <2> QED BY <1>4, <2>1, <2>2 DEF Paired
  <1> QED BY <1>3, <1>4, <1>6, <1>7

(* The empty text has line ends of either kind.                            *)
LEMMA EmptyText == <<>> \in Seq(Symbols) /\ <<>> \in SingleTexts /\ <<>> \in PairedTexts
  <1>1. <<>> \in Seq(Symbols) /\ Len(<<>>) = 0
    BY EmptySeq
  <1>2. 1..Len(<<>>) = {}
    BY <1>1
  <1> QED BY <1>1, <1>2 DEF SingleTexts, PairedTexts, Single, Paired

(* A uniform text has line feeds alone, or pairs alone.                    *)
LEMMA UniformIs ==
  ASSUME NEW text \in Seq(Symbols)
  PROVE  Edits!Uniform(text) <=> Single(text) \/ Paired(text)
  <1>1. PICK n \in Nat : n = Len(text)
    BY LenProperties
  <1>2. DOMAIN text = 1..n
    BY <1>1, LenProperties
  <1>3. ASSUME NEW i \in 1..n
        PROVE  /\ i \in 1..(n - 1) <=> i < n
    OBVIOUS
  <1>4. (\A i \in 1..n : text[i] # "CR") <=> Single(text)
    BY <1>1 DEF Single
  <1>5. ASSUME NEW i \in 1..n, text[i] = "CR"
        PROVE  Edits!CutsPair(text, i) <=> i < n /\ text[i + 1] = "LF"
    BY <1>1, <1>3, <1>5 DEF Edits!CutsPair
  <1>6. (\A i \in 1..n : /\ text[i] = "LF" => i > 1 /\ text[i - 1] = "CR"
                         /\ text[i] = "CR" => Edits!CutsPair(text, i))
           <=> Paired(text)
    BY <1>1, <1>5 DEF Paired
  <1> QED BY <1>2, <1>4, <1>6 DEF Edits!Uniform

(* A text has a pair where a carriage return stands before a line feed.    *)
LEMMA HasPairIs ==
  ASSUME NEW text \in Seq(Symbols)
  PROVE  Edits!HasPair(text)
            <=> \E i \in 1..Len(text) : i < Len(text) /\ text[i] = "CR" /\ text[i + 1] = "LF"
  <1>1. PICK n \in Nat : n = Len(text)
    BY LenProperties
  <1>2. DOMAIN text = 1..n
    BY <1>1, LenProperties
  <1>3. \A i \in 1..n : i \in 1..(n - 1) <=> i < n
    OBVIOUS
  <1>4. \A i \in 1..n : Edits!CutsPair(text, i) <=> i < n /\ text[i] = "CR" /\ text[i + 1] = "LF"
    BY <1>1, <1>3 DEF Edits!CutsPair
  <1> QED BY <1>1, <1>2, <1>4 DEF Edits!HasPair

(* A part of a text that starts and ends between the pairs is as the text. *)
Stays(text, f, t) ==
    /\ SubSeq(text, f + 1, t) \in Seq(Symbols)
    /\ Single(text) => Single(SubSeq(text, f + 1, t))
    /\ Paired(text) /\ ~Edits!CutsPair(text, f) /\ ~Edits!CutsPair(text, t)
          => Paired(SubSeq(text, f + 1, t))

(* A stretch of a uniform text that cuts no pair is uniform in the same    *)
(* way.                                                                    *)
LEMMA StretchStays ==
  ASSUME NEW text \in Seq(Symbols), NEW f \in 0..Len(text), NEW t \in f..Len(text)
  PROVE  Stays(text, f, t)
  <1>0. PICK part : part = SubSeq(text, f + 1, t)
    OBVIOUS
  <1>1. PICK n \in Nat : n = Len(text)
    BY LenProperties
  <1>2. f \in Nat /\ t \in Nat /\ f <= t /\ t <= n
    BY <1>1
  <1>3. PICK d \in Nat : d = t - f
    BY <1>2
  <1>4. part \in Seq(Symbols) /\ Len(part) = d /\ \A i \in 1..d : part[i] = text[f + i]
    <2>1. SubSeq(text, f + 1, t) \in Seq(Symbols) /\ Sliced(SubSeq(text, f + 1, t), text, f, t)
      BY PartOf
    <2> QED BY <1>0, <1>3, <2>1 DEF Sliced
  <1>5. ASSUME Single(text) PROVE Single(part)
    <2> SUFFICES ASSUME NEW i \in 1..d PROVE part[i] # "CR"
      BY <1>4 DEF Single
    <2>1. f + i \in 1..n
      BY <1>2, <1>3
    <2> QED BY <1>1, <1>4, <1>5, <2>1 DEF Single
  <1>6. ASSUME Paired(text), ~Edits!CutsPair(text, f), ~Edits!CutsPair(text, t) PROVE Paired(part)
    <2>1. ASSUME NEW i \in 1..d, part[i] = "LF" PROVE i > 1 /\ part[i - 1] = "CR"
      <3>1. PICK k : k = f + i
        OBVIOUS
      <3>2. k \in 1..n /\ text[k] = "LF"
        BY <1>2, <1>3, <1>4, <2>1, <3>1
      <3>3. k > 1 /\ text[k - 1] = "CR"
        BY <1>1, <1>6, <3>2 DEF Paired
      <3>4. i # 1
        <4> SUFFICES ASSUME i = 1 PROVE FALSE
          OBVIOUS
        <4>1. k - 1 = f /\ k = f + 1 /\ f \in 1..(n - 1)
          BY <1>2, <3>1, <3>2, <3>3
        <4>2. text[f] = "CR" /\ text[f + 1] = "LF"
          BY <3>2, <3>3, <4>1
        <4> QED BY <1>1, <1>6, <4>1, <4>2 DEF Edits!CutsPair
      <3>5. PICK j : j = i - 1
        OBVIOUS
      <3>6. j \in 1..d /\ f + j = k - 1 /\ i > 1
        BY <1>2, <3>1, <3>4, <3>5
      <3>7. part[j] = "CR"
        BY <1>4, <3>3, <3>6
      <3> QED BY <3>5, <3>6, <3>7
    <2>2. ASSUME NEW i \in 1..d, part[i] = "CR" PROVE i < d /\ part[i + 1] = "LF"
      <3>1. PICK k : k = f + i
        OBVIOUS
      <3>2. k \in 1..n /\ text[k] = "CR"
        BY <1>2, <1>3, <1>4, <2>2, <3>1
      <3>3. k < n /\ text[k + 1] = "LF"
        BY <1>1, <1>6, <3>2 DEF Paired
      <3>4. i # d
        <4> SUFFICES ASSUME i = d PROVE FALSE
          OBVIOUS
        <4>1. k = t /\ t \in 1..(n - 1)
          BY <1>2, <1>3, <3>1, <3>2, <3>3
        <4> QED BY <1>1, <1>6, <3>2, <3>3, <4>1 DEF Edits!CutsPair
      <3>5. PICK j : j = i + 1
        OBVIOUS
      <3>6. j \in 1..d /\ f + j = k + 1 /\ i < d
        BY <1>2, <3>1, <3>4, <3>5
      <3>7. part[j] = "LF"
        BY <1>4, <3>3, <3>6
      <3> QED BY <3>5, <3>6, <3>7
    <2> QED BY <1>4, <2>1, <2>2 DEF Paired
  <1> QED BY <1>0, <1>4, <1>5, <1>6 DEF Stays

(* The line ends of a replacement.                                         *)
TakesPairs(fragment, whole) ==
    Edits!HasPair(fragment) \/ (~Edits!Contains(fragment, "LF") /\ Edits!HasPair(whole))

(* A symbol is a text by itself.                                           *)
LEMMA SymbolIsText ==
  ASSUME NEW x \in Symbols, x # "CR"
  PROVE  <<x>> \in SingleTexts /\ (x # "LF" => <<x>> \in PairedTexts) /\ <<"CR", "LF">> \in PairedTexts
  <1>1. PICK s : s = <<x>>
    OBVIOUS
  <1>2. s \in Seq(Symbols) /\ Len(s) = 1 /\ s[1] = x
    BY <1>1
  <1>3. PICK p : p = <<"CR", "LF">>
    OBVIOUS
  <1>4. p \in Seq(Symbols) /\ Len(p) = 2 /\ p[1] = "CR" /\ p[2] = "LF"
    BY <1>3 DEF Symbols
  <1>5. Single(s)
    BY <1>2 DEF Single
  <1>6. x # "LF" => Paired(s)
    BY <1>2 DEF Paired
  <1>7. Paired(p)
    <2> SUFFICES ASSUME NEW i \in 1..2
                 PROVE  /\ p[i] = "LF" => i > 1 /\ p[i - 1] = "CR"
                        /\ p[i] = "CR" => i < 2 /\ p[i + 1] = "LF"
      BY <1>4 DEF Paired
    <2>1. i = 1 \/ i = 2
      OBVIOUS
    <2>2. CASE i = 1
      BY <1>4, <2>2
    <2>3. CASE i = 2
      BY <1>4, <2>3
    <2> QED BY <2>1, <2>2, <2>3
  <1> QED BY <1>1, <1>2, <1>3, <1>4, <1>5, <1>6, <1>7 DEF SingleTexts, PairedTexts

(* A replacement is given the line ends of the fragment it replaces, or    *)
(* those of the whole text.                                                *)
LEMMA ConvertedIs ==
  ASSUME NEW text \in Seq(Symbols), NEW fragment, NEW whole,
         NEW made, made = Edits!Converted(text, fragment, whole)
  PROVE  made \in IF TakesPairs(fragment, whole) THEN PairedTexts ELSE SingleTexts
  <1>1. PICK normal : normal = Edits!Normal(text)
    OBVIOUS
  <1>2. PICK n \in Nat : n = Len(normal)
    BY <1>1, NormalIs, LenProperties
  <1>3. DOMAIN normal = 1..n /\ \A k \in 1..n : normal[k] \in Symbols /\ normal[k] # "CR"
    <2>1. normal \in Seq(Symbols)
      BY <1>1, NormalIs
    <2>2. DOMAIN normal = 1..n
      BY <1>2, <2>1, LenProperties
    <2>3. \A k \in 1..n : normal[k] \in Symbols
      BY <1>2, <2>1, ElementOfSeq
    <2>4. \A k \in 1..n : normal[k] # "CR"
      BY <1>1, <1>2, NormalIs
    <2> QED BY <2>2, <2>3, <2>4
  <1>4. PICK crlf : crlf = TakesPairs(fragment, whole)
    OBVIOUS
  <1> DEFINE s == [k \in 1..n |-> IF normal[k] = "LF" /\ crlf THEN <<"CR", "LF">> ELSE <<normal[k]>>]
  <1>5. made = Edits!FlattenSeq(s)
    BY <1>1, <1>3, <1>4 DEF Edits!Converted, TakesPairs
  <1>6. CASE crlf
    <2>1. \A k \in 1..n : s[k] \in PairedTexts
      BY <1>3, <1>6, SymbolIsText
    <2>2. s \in [1..n -> PairedTexts]
      BY <2>1
    <2>3. \A a, b \in PairedTexts : a \o b \in PairedTexts
      BY TextsJoin DEF PairedTexts
    <2> HIDE DEF s
    <2>4. made \in PairedTexts
      BY <1>5, <2>2, <2>3, EmptyText, FlattenStays
    <2> QED BY <1>4, <1>6, <2>4
  <1>7. CASE ~crlf
    <2>1. \A k \in 1..n : s[k] \in SingleTexts
      BY <1>3, <1>7, SymbolIsText
    <2>2. s \in [1..n -> SingleTexts]
      BY <2>1
    <2>3. \A a, b \in SingleTexts : a \o b \in SingleTexts
      BY TextsJoin DEF SingleTexts
    <2> HIDE DEF s
    <2>4. made \in SingleTexts
      BY <1>5, <2>2, <2>3, EmptyText, FlattenStays
    <2> QED BY <1>4, <1>7, <2>4
  <1> QED BY <1>6, <1>7

(* Replacing a stretch of a uniform text keeps it uniform, unless the      *)
(* stretch cuts a pair.                                                    *)
LEMMA ReplacedIs ==
  ASSUME NEW text \in Seq(Symbols), NEW block \in Seq(Symbols),
         NEW f \in 0..Len(text), NEW t \in f..Len(text),
         NEW fragment, fragment = SubSeq(text, f + 1, t),
         NEW result, result = SubSeq(text, 1, f) \o Edits!Converted(block, fragment, text)
                                \o SubSeq(text, t + 1, Len(text))
  PROVE  /\ result \in Seq(Symbols)
         /\ Edits!Uniform(text) => \/ Edits!Uniform(result)
                                   \/ Edits!CutsPair(text, f) \/ Edits!CutsPair(text, t)
  <1>1. PICK n \in Nat : n = Len(text)
    BY LenProperties
  <1>2. f \in Nat /\ t \in Nat /\ f <= t /\ t <= n
    BY <1>1
  <1>3. ~Edits!CutsPair(text, 0) /\ ~Edits!CutsPair(text, n)
    BY <1>1 DEF Edits!CutsPair
  <1>4. PICK head : head = SubSeq(text, 1, f)
    OBVIOUS
  <1>5. PICK tail : tail = SubSeq(text, t + 1, n)
    OBVIOUS
  <1>6. PICK made : made = Edits!Converted(block, fragment, text)
    OBVIOUS
  <1>7. /\ head \in Seq(Symbols) /\ (Single(text) => Single(head))
        /\ Paired(text) /\ ~Edits!CutsPair(text, f) => Paired(head)
    <2>1. PICK z : z = 0
      OBVIOUS
    <2>2. z \in 0..Len(text) /\ f \in z..Len(text) /\ head = SubSeq(text, z + 1, f)
      BY <1>1, <1>2, <1>4, <2>1
    <2>3. Stays(text, z, f)
      BY <2>2, StretchStays
    <2> QED BY <1>3, <2>1, <2>2, <2>3 DEF Stays
  <1>8. /\ tail \in Seq(Symbols) /\ (Single(text) => Single(tail))
        /\ Paired(text) /\ ~Edits!CutsPair(text, t) => Paired(tail)
    <2>1. t \in 0..Len(text) /\ n \in t..Len(text)
      BY <1>1, <1>2
    <2>2. Stays(text, t, n)
      BY <2>1, StretchStays
    <2> QED BY <1>3, <1>5, <2>2 DEF Stays
  <1>9. made \in IF TakesPairs(fragment, text) THEN PairedTexts ELSE SingleTexts
    BY <1>6, ConvertedIs
  <1>10. made \in Seq(Symbols) /\ IF TakesPairs(fragment, text) THEN Paired(made) ELSE Single(made)
    BY <1>9 DEF PairedTexts, SingleTexts
  <1>11. PICK front : front = head \o made
    OBVIOUS
  <1>12. result = front \o tail
    BY <1>1, <1>4, <1>5, <1>6, <1>11
  <1>13. /\ front \in Seq(Symbols)
         /\ Single(head) /\ Single(made) => Single(front)
         /\ Paired(head) /\ Paired(made) => Paired(front)
    BY <1>7, <1>10, <1>11, TextsJoin
  <1>14. /\ result \in Seq(Symbols)
         /\ Single(front) /\ Single(tail) => Single(result)
         /\ Paired(front) /\ Paired(tail) => Paired(result)
    BY <1>8, <1>12, <1>13, TextsJoin
  <1>15. fragment \in Seq(Symbols) /\ (Single(text) => Single(fragment))
    <2>1. Stays(text, f, t)
      BY StretchStays
    <2> QED BY <2>1 DEF Stays
  <1>16. ASSUME NEW x \in Seq(Symbols), Single(x) PROVE ~Edits!HasPair(x)
    BY <1>16, HasPairIs DEF Single
  <1>17. CASE Single(text)
    <2>1. ~TakesPairs(fragment, text)
      BY <1>15, <1>16, <1>17 DEF TakesPairs
    <2>2. Single(result)
      BY <1>7, <1>8, <1>10, <1>13, <1>14, <1>17, <2>1
    <2> QED BY <1>14, <2>2, UniformIs
  <1>18. CASE Paired(text) /\ ~Single(text) /\ ~Edits!CutsPair(text, f) /\ ~Edits!CutsPair(text, t)
    <2>1. Edits!HasPair(text)
      <3>1. PICK i \in 1..n : text[i] = "CR"
        BY <1>1, <1>18 DEF Single
      <3>2. i < n /\ text[i + 1] = "LF"
        BY <1>1, <1>18, <3>1 DEF Paired
      <3> QED BY <1>1, <3>1, <3>2, HasPairIs
    <2>2. Paired(fragment)
      <3>1. Stays(text, f, t)
        BY StretchStays
      <3> QED BY <1>18, <3>1 DEF Stays
    <2>3. ASSUME Edits!Contains(fragment, "LF") PROVE Edits!HasPair(fragment)
      <3>1. PICK m \in Nat : m = Len(fragment)
        BY <1>15, LenProperties
      <3>2. PICK i \in 1..m : fragment[i] = "LF"
        BY <2>3, <3>1 DEF Edits!Contains
      <3>3. i > 1 /\ fragment[i - 1] = "CR"
        BY <2>2, <3>1, <3>2 DEF Paired
      <3>4. PICK j : j = i - 1
        OBVIOUS
      <3>5. j \in 1..m /\ j < m /\ j + 1 = i
        BY <3>2, <3>3, <3>4
      <3> QED BY <1>15, <3>1, <3>2, <3>3, <3>4, <3>5, HasPairIs
    <2>4. TakesPairs(fragment, text)
      BY <2>1, <2>3 DEF TakesPairs
    <2>5. Paired(result)
      BY <1>7, <1>8, <1>10, <1>13, <1>14, <1>18, <2>4
    <2> QED BY <1>14, <2>5, UniformIs
  <1> QED BY <1>14, <1>17, <1>18, UniformIs

-----------------------------------------------------------------------------
(* The indentation of a replacement.                                       *)
LEMMA WidthIs ==
  ASSUME NEW row \in Seq(Symbols), Edits!TrimSpace(row) # <<>>
  PROVE  Edits!Width(row) \in Nat
  <1> DEFINE solid == {i \in DOMAIN row : row[i] # "SP"}
  <1>1. DOMAIN row = 1..Len(row) /\ Len(row) \in Nat
    BY LenProperties
  <1>2. solid # {}
    BY <1>1, TrimSpaceIs
  <1>3. Edits!Width(row) = Edits!Min(solid) - 1
    BY DEF Edits!Width
  <1>4. \A i \in solid : i \in Nat /\ i >= 1
    BY <1>1
  <1> HIDE DEF solid
  <1>5. PICK i \in solid : \A j \in solid : i <= j
    <2>1. solid \subseteq Nat
      BY <1>4
    <2> QED BY <1>2, <2>1, Least
  <1>6. Edits!Min(solid) \in solid
    BY <1>5 DEF Edits!Min
  <1> QED BY <1>3, <1>4, <1>6

(* The rows of a text are texts.                                           *)
LEMMA RowsAre ==
  ASSUME NEW text \in Seq(Symbols), NEW rows, rows = Edits!Rows(text)
  PROVE  \E n \in Nat : DOMAIN rows = 1..n /\ \A k \in 1..n : rows[k] \in Seq(Symbols)
  <1>1. PICK n \in Nat : n = Len(LineEnds(text))
    BY LineEndsAre
  <1>2. DOMAIN Edits!Lines(text) = 1..n
    BY <1>1, LinesAre
  <1>3. DOMAIN rows = 1..n /\ \A k \in 1..n : rows[k] = Edits!Part(text, Edits!Lines(text)[k])
    BY <1>2 DEF Edits!Rows
  <1>4. \A k \in 1..n : rows[k] \in Seq(Symbols)
    BY <1>1, <1>3, LineTextIs
  <1> QED BY <1>3, <1>4

(* The indentation of a text is a number.                                  *)
LEMMA BaseIndentIs ==
  ASSUME NEW text \in Seq(Symbols)
  PROVE  Edits!BaseIndent(text) \in Nat
  <1>1. PICK rows : rows = Edits!Rows(Edits!Normal(text))
    OBVIOUS
  <1>2. PICK n \in Nat : DOMAIN rows = 1..n /\ \A k \in 1..n : rows[k] \in Seq(Symbols)
    BY <1>1, NormalIs, RowsAre
  <1>3. PICK solid : solid = Edits!Solid(rows)
    OBVIOUS
  <1>4. \A k \in solid : k \in 1..n /\ Edits!TrimSpace(rows[k]) # <<>>
    BY <1>2, <1>3 DEF Edits!Solid
  <1>5. Edits!BaseIndent(text) = IF solid = {} THEN 0 ELSE Edits!Width(rows[Edits!Min(solid)])
    BY <1>1, <1>3 DEF Edits!BaseIndent
  <1>6. CASE solid = {}
    BY <1>5, <1>6
  <1>7. CASE solid # {}
    <2>1. solid \subseteq Nat
      BY <1>4
    <2>2. PICK k \in solid : \A j \in solid : k <= j
      BY <1>7, <2>1, Least
    <2>3. Edits!Min(solid) \in solid
      BY <2>2 DEF Edits!Min
    <2> QED BY <1>2, <1>4, <1>5, <1>7, <2>3, WidthIs
  <1> QED BY <1>6, <1>7

(* A text that is indented anew is a text.                                 *)
LEMMA ReindentedIs ==
  ASSUME NEW text \in Seq(Symbols), NEW indent \in Nat
  PROVE  Edits!Reindented(text, indent) \in Seq(Symbols)
  <1>1. PICK rows : rows = Edits!Rows(Edits!Normal(text))
    OBVIOUS
  <1>2. PICK n \in Nat : DOMAIN rows = 1..n /\ \A k \in 1..n : rows[k] \in Seq(Symbols)
    BY <1>1, NormalIs, RowsAre
  <1>3. PICK solid : solid = Edits!Solid(rows)
    OBVIOUS
  <1>4. \A k \in solid : k \in 1..n /\ Edits!TrimSpace(rows[k]) # <<>>
    BY <1>2, <1>3 DEF Edits!Solid
  <1>5. CASE solid = {}
    BY <1>1, <1>3, <1>5 DEF Edits!Reindented
  <1>6. CASE solid # {}
    <2> DEFINE widths == {Edits!Width(rows[k]) : k \in solid}
    <2>1. \A k \in solid : Edits!Width(rows[k]) \in Nat
      BY <1>2, <1>4, WidthIs
    <2>2. widths \subseteq Nat /\ widths # {}
      BY <1>6, <2>1
    <2>3. PICK common : common = Edits!Min(widths)
      OBVIOUS
    <2>4. common \in Nat
      <3> HIDE DEF widths
      <3>1. PICK k \in widths : \A j \in widths : k <= j
        BY <2>2, Least
      <3>2. Edits!Min(widths) \in widths
        BY <3>1 DEF Edits!Min
      <3> QED BY <2>2, <2>3, <3>2
    <2>5. PICK spaces : spaces = [i \in 1..indent |-> "SP"]
      OBVIOUS
    <2>6. spaces \in Seq(Symbols)
      <3>1. spaces \in [1..indent -> Symbols]
        BY <2>5 DEF Symbols
      <3> QED BY <3>1, Tabled
    <2> DEFINE Row(k) == IF k \in solid THEN spaces \o SubSeq(rows[k], common + 1, Len(rows[k])) ELSE <<>>
               s == [k \in 1..n |-> IF k = 1 THEN Row(k) ELSE <<"LF">> \o Row(k)]
    <2>7. Edits!Reindented(text, indent) = Edits!FlattenSeq(s)
      BY <1>1, <1>2, <1>3, <1>6, <2>3, <2>5 DEF Edits!Reindented
    <2>8. ASSUME NEW k \in 1..n PROVE Row(k) \in Seq(Symbols)
      <3>1. CASE k \notin solid
        BY <3>1, EmptyText
      <3>2. CASE k \in solid
        <4>1. PICK row : row = rows[k]
          OBVIOUS
        <4>2. row \in Seq(Symbols) /\ Len(row) \in Nat
          BY <1>2, <4>1, LenProperties
        <4>3. PICK first : first = common + 1
          OBVIOUS
        <4>4. first \in Nat /\ first >= 1
          BY <2>4, <4>3
        <4>5. \A i \in first..Len(row) : i \in 1..Len(row)
          BY <4>2, <4>4
        <4>6. \A i \in first..Len(row) : row[i] \in Symbols
          BY <4>2, <4>5, ElementOfSeq
        <4>7. SubSeq(row, first, Len(row)) \in Seq(Symbols)
          BY <4>2, <4>4, <4>6, SubSeqProperties
        <4>8. spaces \o SubSeq(row, first, Len(row)) \in Seq(Symbols)
          BY <2>6, <4>7, TextsJoin
        <4> QED BY <3>2, <4>1, <4>3, <4>8
      <3> QED BY <3>1, <3>2
    <2> HIDE DEF Row
    <2>9. <<"LF">> \in Seq(Symbols)
      BY DEF Symbols
    <2>10. ASSUME NEW k \in 1..n PROVE s[k] \in Seq(Symbols)
      <3>1. <<"LF">> \o Row(k) \in Seq(Symbols)
        BY <2>8, <2>9, TextsJoin
      <3> QED BY <2>8, <3>1
    <2>11. s \in [1..n -> Seq(Symbols)]
      BY <2>10
    <2> HIDE DEF s
    <2>12. \A a, b \in Seq(Symbols) : a \o b \in Seq(Symbols)
      BY TextsJoin
    <2>13. Edits!FlattenSeq(s) \in Seq(Symbols)
      BY <2>11, <2>12, EmptyText, FlattenStays
    <2> QED BY <2>7, <2>13
  <1> QED BY <1>5, <1>6

-----------------------------------------------------------------------------
(* What an edit leaves behind: a text, with the line ends it had.          *)
Keeps(before, after, place) ==
    Edits!Uniform(before) => \/ Edits!Uniform(after)
                             \/ Edits!CutsPair(before, place.from)
                             \/ Edits!CutsPair(before, place.to)

(* An edit keeps a uniform text uniform, unless its place cuts a pair.     *)
LEMMA EditKeeps ==
  ASSUME NEW text \in Seq(Symbols), NEW new \in Seq(Symbols),
         NEW match, match.place \in Edits!Places(text), match.place.from < match.place.to,
         NEW after, after = Edits!Replaced(text, match, new)
  PROVE  after \in Seq(Symbols) /\ Keeps(text, after, match.place)
  <1>1. PICK f : f = match.place.from
    OBVIOUS
  <1>2. PICK t : t = match.place.to
    OBVIOUS
  <1>3. f \in 0..Len(text) /\ t \in f..Len(text)
    <2>1. f \in 0..Len(text) /\ t \in 0..Len(text) /\ f < t
      BY <1>1, <1>2, InPlaces
    <2>2. Len(text) \in Nat
      BY LenProperties
    <2> QED BY <2>1, <2>2
  <1>4. PICK fragment : fragment = SubSeq(text, f + 1, t)
    OBVIOUS
  <1>5. fragment = Edits!Part(text, match.place)
    BY <1>1, <1>2, <1>4 DEF Edits!Part
  <1>6. fragment \in Seq(Symbols)
    BY <1>3, <1>4, StretchStays DEF Stays
  <1>7. PICK block : block = IF match.level = "indentation"
                             THEN Edits!Reindented(new, Edits!BaseIndent(fragment)) ELSE new
    OBVIOUS
  <1>8. block \in Seq(Symbols)
    BY <1>6, <1>7, BaseIndentIs, ReindentedIs
  <1>9. after = SubSeq(text, 1, f) \o Edits!Converted(block, fragment, text)
                   \o SubSeq(text, t + 1, Len(text))
    BY <1>1, <1>2, <1>5, <1>7 DEF Edits!Replaced
  <1>10. /\ after \in Seq(Symbols)
         /\ Edits!Uniform(text) => \/ Edits!Uniform(after)
                                   \/ Edits!CutsPair(text, f) \/ Edits!CutsPair(text, t)
    BY <1>3, <1>4, <1>8, <1>9, ReplacedIs
  <1> QED BY <1>1, <1>2, <1>10 DEF Keeps

(* The inductive invariant: a file is a text, and an edit is what its      *)
(* match told of the text before it.                                       *)
EditTells(e) == e.before \in Seq(Symbols) /\ e.old \in Seq(Symbols) /\ Tells(e.before, e.old, e)

EditInv ==
    /\ file = Edits!Absent \/ file \in Seq(Symbols)
    /\ edit # Edits!NoEdit =>
          file # Edits!Absent /\ EditTells(edit) /\ Keeps(edit.before, file, edit.place)

(* An absent file has no text.                                             *)
LEMMA AbsentIsNoText == Edits!Absent \notin Seq(Symbols)
  <1>1. SUFFICES ASSUME Edits!Absent \in Seq(Symbols) PROVE FALSE
    OBVIOUS
  <1>2. PICK s \in Seq(Symbols) : s = Edits!Absent
    BY <1>1
  <1>3. Len(s) = 1 /\ s[1] = "absent"
    BY <1>2 DEF Edits!Absent
  <1>4. s[1] \in Symbols
    <2>1. 1 \in 1..Len(s)
      BY <1>3
    <2> QED BY <2>1, ElementOfSeq
  <1> QED BY <1>3, <1>4, EditsAssumption DEF Symbols

(* The fragments and contents the tools are given are texts.               *)
LEMMA FragmentsAreTexts ==
  ASSUME NEW n \in Nat, NEW text \in Edits!Texts(n)
  PROVE  text \in Seq(Symbols)
  <1>1. PICK k \in 0..n : text \in [1..k -> Symbols]
    BY DEF Edits!Texts, Symbols
  <1>2. k \in Nat
    OBVIOUS
  <1> QED BY <1>1, <1>2, Tabled

(* The invariant of the file tools holds at first.                         *)
LEMMA FilesStart == Init => EditInv
  BY DEF Init, Edits!Init, EditInv

(* Writing a file keeps the invariant of the file tools.                   *)
LEMMA WriteFileKeeps ==
  ASSUME EditInv, NEW content \in Edits!Texts(MaxFile), Edits!WriteFile(content)
  PROVE  EditInv'
  <1>1. content \in Seq(Symbols)
    BY EditsAssumption, FragmentsAreTexts
  <1>2. edit = Edits!NoEdit /\ file' = content /\ edit' = edit
    BY DEF EditInv, Edits!WriteFile
  <1> QED BY <1>1, <1>2 DEF EditInv

(* Editing a file keeps the invariant of the file tools.                   *)
LEMMA EditFileKeeps ==
  ASSUME EditInv, NEW old \in Edits!Texts(MaxFragment) \ {<<>>}, NEW new \in Replacements,
         Edits!EditFile(old, new)
  PROVE  EditInv'
  <1>1. old \in Seq(Symbols) /\ old # <<>> /\ new \in Seq(Symbols)
    BY EditsAssumption, FragmentsAreTexts DEF Symbols
  <1>2. PICK text : text = file
    OBVIOUS
  <1>3. text \in Seq(Symbols)
    BY <1>2 DEF EditInv, Edits!EditFile
  <1>4. PICK match : match = Edits!EditMatch(text, old)
    OBVIOUS
  <1>5. Tells(text, old, match)
    BY <1>1, <1>3, <1>4, MatchTells
  <1>6. PICK found : found = (match.level \in Edits!Range(Edits!Levels))
    OBVIOUS
  <1>7. PICK e : e = edit'
    OBVIOUS
  <1>8. e = [before |-> text, old |-> old, new |-> new, level |-> match.level,
             place |-> IF found THEN match.place ELSE Edits!Place(0, 0)]
    BY <1>2, <1>4, <1>6, <1>7 DEF Edits!EditFile
  <1>9. file' = IF found THEN Edits!Replaced(text, match, new) ELSE text
    BY <1>2, <1>4, <1>6 DEF Edits!EditFile
  <1>10. /\ e.before = text /\ e.old = old /\ e.level = match.level
         /\ found => e.place = match.place
    BY <1>8
  <1>11. ASSUME NEW k \in 1..4, match.level = Edits!Levels[k] PROVE found
    BY <1>6, <1>11, LevelsAre DEF Edits!Range
  <1>12. Tells(text, old, e)
    <2>1. CASE match.level = "no_match" /\ Missed(text, old)
      BY <1>10, <2>1 DEF Tells
    <2>2. CASE match.level = "ambiguous_match" /\ Doubtful(text, old)
      BY <1>10, <2>2 DEF Tells
    <2>3. ASSUME NEW k \in 1..4, match.level = Edits!Levels[k], Marked(text, old, k, match.place)
          PROVE  e.level = Edits!Levels[k] /\ Marked(text, old, k, e.place)
      BY <1>10, <1>11, <2>3
    <2> QED BY <1>5, <2>1, <2>2, <2>3 DEF Tells
  <1>13. file' \in Seq(Symbols) /\ Keeps(text, file', e.place)
    <2>1. CASE ~found
      BY <1>3, <1>9, <2>1 DEF Keeps
    <2>2. CASE found
      <3>1. PICK k \in 1..4 : match.level = Edits!Levels[k] /\ Marked(text, old, k, match.place)
        <4>1. PICK k \in 1..4 : match.level = Edits!Levels[k]
          BY <1>6, <2>2, LevelsAre DEF Edits!Range
        <4>2. k = 1 \/ k = 2 \/ k = 3 \/ k = 4
          OBVIOUS
        <4>3. match.level # "no_match" /\ match.level # "ambiguous_match"
          BY <4>1, <4>2, LevelsAre
        <4> QED BY <1>5, <4>3 DEF Tells
      <3>2. match.place \in Edits!Places(text) /\ match.place.from < match.place.to
        BY <3>1 DEF Marked, Edits!Answering
      <3>3. file' = Edits!Replaced(text, match, new)
        BY <1>9, <2>2
      <3>4. PICK after : after = file'
        OBVIOUS
      <3>5. after \in Seq(Symbols) /\ Keeps(text, after, match.place)
        BY <1>1, <1>3, <3>2, <3>3, <3>4, EditKeeps
      <3> QED BY <1>10, <2>2, <3>4, <3>5
    <2> QED BY <2>1, <2>2
  <1>14. EditTells(e)
    BY <1>1, <1>3, <1>10, <1>12 DEF EditTells
  <1>15. file' # Edits!Absent
    BY <1>13, AbsentIsNoText
  <1> QED BY <1>7, <1>10, <1>13, <1>14, <1>15 DEF EditInv

(* Every step keeps the invariant of the file tools.                       *)
LEMMA FilesKept == EditInv /\ [Edits!Next]_editVars => EditInv'
  <1> SUFFICES ASSUME EditInv, [Edits!Next]_editVars PROVE EditInv'
    OBVIOUS
  <1>1. CASE UNCHANGED editVars
    BY <1>1 DEF EditInv, editVars
  <1>2. CASE Edits!Next
    BY <1>2, WriteFileKeeps, EditFileKeeps DEF Edits!Next
  <1> QED BY <1>1, <1>2

(* The invariant of the file tools holds their types.                      *)
LEMMA FilesAreTyped == EditInv => Edits!TypeOK
  <1> SUFFICES ASSUME EditInv PROVE Edits!TypeOK
    OBVIOUS
  <1>1. file = Edits!Absent \/ Edits!Range(file) \subseteq Symbols
    <2> SUFFICES ASSUME file \in Seq(Symbols) PROVE Edits!Range(file) \subseteq Symbols
      BY DEF EditInv
    <2>1. DOMAIN file = 1..Len(file)
      BY LenProperties
    <2>2. \A i \in 1..Len(file) : file[i] \in Symbols
      BY ElementOfSeq
    <2> QED BY <2>1, <2>2 DEF Edits!Range
  <1>2. edit.level \in Edits!Range(Edits!Levels) \cup {"no edit", "no_match", "ambiguous_match"}
    <2>1. CASE edit = Edits!NoEdit
      BY <2>1 DEF Edits!NoEdit
    <2>2. CASE edit # Edits!NoEdit
      <3>1. Tells(edit.before, edit.old, edit)
        BY <2>2 DEF EditInv, EditTells
      <3>2. \A k \in 1..4 : Edits!Levels[k] \in Edits!Range(Edits!Levels)
        BY LevelsAre DEF Edits!Range
      <3> QED BY <3>1, <3>2 DEF Tells
    <2> QED BY <2>1, <2>2
  <1> QED BY <1>1, <1>2 DEF Edits!TypeOK, Symbols

(* The invariant of the file tools says what an edit does.                 *)
LEMMA FilesHold == EditInv => EditsHold
  <1> SUFFICES ASSUME EditInv PROVE EditsHold
    OBVIOUS
  <1>1. CASE edit = Edits!NoEdit
    BY <1>1 DEF EditsHold, Edits!EditsHitTheirMark, Edits!LineEndsStay
  <1>2. CASE edit # Edits!NoEdit
    <2>1. Tells(edit.before, edit.old, edit) /\ Keeps(edit.before, file, edit.place)
      BY <1>2 DEF EditInv, EditTells
    <2>2. Edits!EditsHitTheirMark
      BY <1>2, <2>1, HitsTheMark
    <2>3. Edits!LineEndsStay
      BY <2>1 DEF Keeps, Edits!LineEndsStay
    <2> QED BY <2>2, <2>3 DEF EditsHold
  <1> QED BY <1>1, <1>2

(* tools: edit_file replaces what was asked for: the place it reports      *)
(* answers old_text at the level it reports, nothing else does but what    *)
(* overlaps it, and nothing at a stricter level; no answer is overlooked,  *)
(* and the ends of the lines stay as they were.  For files, fragments and  *)
(* replacements of every length.                                           *)
THEOREM EditsHitTheMark == Spec => []EditsHold
  <1>1. EditInv /\ [Next]_vars => EditInv'
    BY StepsOfParts, FilesKept
  <1> QED BY FilesStart, <1>1, FilesHold, PTL DEF Spec

-----------------------------------------------------------------------------
(* What only the types say of the approvals: how old requests are and how  *)
(* often they were made.                                                   *)
RequestsCounted == late \subseteq Calls /\ tries \in [Calls -> 0..MaxTries]

(* The requests are counted at first.                                      *)
LEMMA RequestsStart == Init => RequestsCounted
  <1>1. 0 \in 0..MaxTries
    BY LimitsAssumption
  <1> QED BY <1>1 DEF Init, Approvals!Init, RequestsCounted

(* Every step keeps the requests counted.                                  *)
LEMMA RequestsKept == RequestsCounted /\ [Approvals!Next]_approvalVars => RequestsCounted'
  <1> SUFFICES ASSUME RequestsCounted, [Approvals!Next]_approvalVars PROVE RequestsCounted'
    OBVIOUS
  <1>1. CASE UNCHANGED <<late, tries>>
    BY <1>1 DEF RequestsCounted
  <1>2. ASSUME NEW a \in Attempts, NEW c \in Calls, Approvals!Request(a, c) PROVE RequestsCounted'
    <2>1. tries[c] < MaxTries /\ tries' = [tries EXCEPT ![c] = @ + 1] /\ late' = late
      BY <1>2 DEF Approvals!Request
    <2>2. tries[c] + 1 \in 0..MaxTries
      BY <2>1, LimitsAssumption DEF RequestsCounted
    <2> QED BY <2>1, <2>2 DEF RequestsCounted
  <1>3. ASSUME NEW c \in Calls, Approvals!Expire(c) PROVE RequestsCounted'
    BY <1>3 DEF Approvals!Expire, RequestsCounted
  <1>4. ASSUME NEW c \in Calls, NEW d \in Approvals!Decisions, Approvals!Decide(c, d)
        PROVE  UNCHANGED <<late, tries>>
    BY <1>4 DEF Approvals!Decide
  <1>5. ASSUME NEW g, Approvals!Execute(g) \/ Approvals!QueueDirective(g)
        PROVE  UNCHANGED <<late, tries>>
    BY <1>5 DEF Approvals!Execute, Approvals!QueueDirective
  <1>6. CASE Approvals!Crash
    BY <1>1, <1>6 DEF Approvals!Crash
  <1>7. CASE UNCHANGED approvalVars
    BY <1>1, <1>7 DEF approvalVars
  <1> QED BY <1>1, <1>2, <1>3, <1>4, <1>5, <1>6, <1>7 DEF Approvals!Next

(* The invariants of the approvals hold their types.                       *)
LEMMA ApprovalsAreTyped == ApprovalInv /\ RequestsCounted => Approvals!TypeOK
  BY DEF ApprovalInv, ApprovalTypes, RequestsCounted, Approvals!TypeOK, Approvals!Decisions

(* The part that moves is the one that was chosen.                         *)
LEMMA FocusKept == [Next]_vars => focus' = focus
  <1> SUFFICES ASSUME [Next]_vars PROVE focus' = focus
    OBVIOUS
  <1>1. CASE UNCHANGED vars
    BY <1>1 DEF vars
  <1>2. CASE Next
    BY <1>2 DEF Next, JobsMove, ApprovalsMove, AttentionMoves, AutomationMoves, TeamMoves,
        DaemonMoves, ChatMoves, WindowMoves, FilesMove, PlanMoves, StoreMoves, Move
  <1> QED BY <1>1, <1>2
=============================================================================
