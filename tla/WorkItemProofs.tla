--------------------------- MODULE WorkItemProofs ---------------------------
(* Theorems about the product task store, for any number of tasks, actors, *)
(* leases, artifacts and revisions.                                        *)
EXTENDS WorkItem, SequenceTheorems, TLAPS

-----------------------------------------------------------------------------
(* Type correctness.                                                       *)

(* The empty record is a task record.                                      *)
LEMMA NoTaskType == NoTask \in Tasks
  <1>1. <<>> \in Seq(Submissions) /\ <<>> \in Seq(Reviews)
    BY EmptySeq
  <1>2. NoClaim \in Claims
    BY DEF NoClaim, Claims
  <1> QED BY <1>1, <1>2 DEF NoTask, Tasks, TaskStates

(* Logging an operation keeps a task a task.                               *)
LEMMA LoggedType ==
  ASSUME NEW task \in Tasks, NEW op \in Nat, NEW fp \in Fingerprints
  PROVE  Logged(task, op, fp) \in Tasks
  <1>1. Entry(op, fp) \in [id : Nat, fp : Fingerprints]
    BY DEF Entry
  <1>2. task.ledger \cup {Entry(op, fp)} \in SUBSET [id : Nat, fp : Fingerprints]
    BY <1>1 DEF Tasks
  <1>3. task.rev + 1 \in Nat
    BY DEF Tasks
  <1> QED BY <1>2, <1>3 DEF Logged, Tasks

(* A mutation whose effect is well typed keeps every file well typed.      *)
LEMMA MutateType ==
  ASSUME TypeOK, NEW t \in TaskIds, NEW op \in Nat, NEW fp \in Fingerprints,
         NEW exp, NEW verdict, NEW effect \in Tasks,
         Mutate(t, op, fp, exp, verdict, effect)
  PROVE  TypeOK'
  BY LoggedType DEF Mutate, TypeOK

(* The effect of every operation is a task record.                         *)
LEMMA EffectTypes ==
  ASSUME NEW task \in Tasks, NEW actor \in Actors
  PROVE  /\ \A lease \in LeaseIds : ClaimEffect(task, actor, lease) \in Tasks
         /\ RenewEffect(task) \in Tasks
         /\ ReviseEffect(task, actor) \in Tasks
         /\ \A k \in ArtifactKeys, digest \in Digests : ArtifactEffect(task, k, digest) \in Tasks
         /\ CloseEffect(task) \in Tasks
  <1>1. \A lease \in LeaseIds : ClaimEffect(task, actor, lease) \in Tasks
    BY DEF ClaimEffect, NewClaim, Claims, Tasks, TaskStates, OpenStates
  <1>2. RenewEffect(task) \in Tasks
    BY DEF RenewEffect, Claims, Tasks
  <1>3. ReviseEffect(task, actor) \in Tasks
    <2>1. task.contract + 1 \in Nat
      BY DEF Tasks
    <2> QED BY <2>1 DEF ReviseEffect, Tasks
  <1>4. ASSUME NEW k \in ArtifactKeys, NEW digest \in Digests
        PROVE  ArtifactEffect(task, k, digest) \in Tasks
    <2>1. task.refs \cup {[key |-> k, digest |-> digest]} \in SUBSET Refs
      BY DEF Refs, Tasks
    <2> QED BY <2>1 DEF ArtifactEffect, Tasks
  <1>5. CloseEffect(task) \in Tasks
    BY DEF CloseEffect, NoClaim, Claims, Tasks, TaskStates, OpenStates
  <1> QED BY <1>1, <1>2, <1>3, <1>4, <1>5

(* So is what a submission leaves.                                         *)
LEMMA SubmitType ==
  ASSUME NEW task \in Tasks, NEW handoff \in HandoffRecords
  PROVE  SubmitEffect(task, handoff) \in Tasks
  <1> DEFINE sub == [contract |-> handoff.contract, author |-> handoff.author,
                     refs |-> handoff.refs, at |-> task.rev + 1]
  <1>1. sub \in Submissions
    BY DEF HandoffRecords, Submissions, Tasks
  <1>2. Append(task.subs, sub) \in Seq(Submissions)
    BY <1>1, AppendProperties DEF Tasks
  <1>3. NoClaim \in Claims
    BY DEF NoClaim, Claims
  <1> QED BY <1>2, <1>3 DEF SubmitEffect, Tasks, TaskStates, OpenStates

(* And what a gate result leaves.                                          *)
LEMMA ReviewType ==
  ASSUME NEW task \in Tasks, NEW result \in ResultRecords, NEW basis \in Nat
  PROVE  ReviewEffect(task, result, basis) \in Tasks
  <1> DEFINE review == [decision |-> result.decision, reviewer |-> result.reviewer,
                        refs |-> result.refs, basis |-> basis]
  <1>1. review \in Reviews
    BY DEF ResultRecords, Reviews
  <1>2. Append(task.reviews, review) \in Seq(Reviews)
    BY <1>1, AppendProperties DEF Tasks
  <1>3. NoClaim \in Claims
    BY DEF NoClaim, Claims
  <1>4. AfterReview(result.decision) \in TaskStates
    BY DEF AfterReview, TaskStates, OpenStates, ResultRecords, Decisions
  <1> QED BY <1>2, <1>3, <1>4 DEF ReviewEffect, Tasks

(* The handoffs and results callers send have the shape of the records.    *)
LEMMA InputTypes ==
  ASSUME TypeOK, NEW t \in TaskIds, NEW actor \in Actors
  PROVE  /\ FreshOp(t) \in Nat
         /\ AnyOp(t) \subseteq Nat
         /\ Revisions(t) \subseteq Nat
         /\ Handoffs(t, actor) \subseteq HandoffRecords
         /\ Results(t, actor) \subseteq ResultRecords
  BY DEF TypeOK, Tasks, FreshOp, AnyOp, Revisions, Handoffs, Results, HandoffRecords, ResultRecords

(* The empty store is well typed.                                         *)
LEMMA InitType == Init => TypeOK
  <1> SUFFICES ASSUME Init PROVE TypeOK
    OBVIOUS
  <1>1. tasks \in [TaskIds -> Tasks]
    BY NoTaskType DEF Init
  <1>2. artifacts \in [ArtifactKeys -> ArtifactFiles]
    BY DEF Init, NoArtifact, ArtifactFiles
  <1> QED BY <1>1, <1>2 DEF TypeOK

(* Every operation keeps the files well typed.                             *)
LEMMA StepType == TypeOK /\ [Next]_vars => TypeOK'
  <1> SUFFICES ASSUME TypeOK, [Next]_vars PROVE TypeOK'
    OBVIOUS
  <1>1. CASE UNCHANGED vars
    BY <1>1 DEF vars, TypeOK
  <1>2. ASSUME NEW t \in TaskIds, CreateStep(t) PROVE TypeOK'
    <2>1. PICK creator \in Actors, reviewer \in Actors, assignee \in Actors \cup {None},
               parent \in (TaskIds \ {t}) \cup {None} :
                 Create(t, FreshOp(t), creator, assignee, reviewer, parent)
      BY <1>2 DEF CreateStep
    <2> DEFINE fp == <<"create", creator, assignee, reviewer, parent>>
               new == [NoTask EXCEPT !.state = "todo", !.rev = 1, !.contract = 1,
                         !.creator = creator, !.assignee = assignee,
                         !.reviewer = reviewer, !.parent = parent,
                         !.ledger = {Entry(FreshOp(t), fp)}]
    <2>2. fp \in Fingerprints
      BY DEF Fingerprints
    <2>3. {Entry(FreshOp(t), fp)} \in SUBSET [id : Nat, fp : Fingerprints]
      BY <2>2, InputTypes, <2>1 DEF Entry
    <2>4. new \in Tasks
      <3> HIDE DEF fp
      <3> QED BY <2>3, NoTaskType DEF Tasks, TaskStates, OpenStates
    <2>5. tasks' = [tasks EXCEPT ![t] = new] /\ UNCHANGED artifacts
      BY <2>1 DEF Create
    <2> HIDE DEF new
    <2> QED BY <2>4, <2>5 DEF TypeOK
  <1>3. ASSUME NEW t \in TaskIds, ClaimStep(t) PROVE TypeOK'
    <2>1. PICK owner \in Actors, lease \in LeaseIds, exp \in Revisions(t) :
             Claim(t, FreshOp(t), owner, lease, exp)
      BY <1>3 DEF ClaimStep
    <2>2. <<"claim", owner, lease>> \in Fingerprints
      BY DEF Fingerprints
    <2>3. tasks[t] \in Tasks
      BY DEF TypeOK
    <2> QED BY <2>1, <2>2, <2>3, MutateType, EffectTypes, InputTypes DEF Claim
  <1>4. ASSUME NEW t \in TaskIds, RenewStep(t) PROVE TypeOK'
    <2>1. PICK owner \in Actors, lease \in LeaseIds, exp \in Revisions(t) :
             Renew(t, FreshOp(t), owner, lease, exp)
      BY <1>4 DEF RenewStep
    <2>2. <<"renew", owner, lease>> \in Fingerprints
      BY DEF Fingerprints
    <2>3. tasks[t] \in Tasks
      BY DEF TypeOK
    <2> QED BY <2>1, <2>2, <2>3, MutateType, EffectTypes, InputTypes DEF Renew
  <1>5. ASSUME NEW t \in TaskIds, ReviseStep(t) PROVE TypeOK'
    <2>1. PICK actor \in Actors, reviewer \in Actors, exp \in Revisions(t) :
             ReviseContract(t, FreshOp(t), actor, reviewer, exp)
      BY <1>5 DEF ReviseStep
    <2>2. <<"revise_contract", actor, reviewer>> \in Fingerprints
      BY DEF Fingerprints
    <2>3. tasks[t] \in Tasks
      BY DEF TypeOK
    <2> QED BY <2>1, <2>2, <2>3, MutateType, EffectTypes, InputTypes DEF ReviseContract
  <1>6. ASSUME NEW t \in TaskIds, ArtifactStep(t) PROVE TypeOK'
    <2>1. PICK op \in AnyOp(t), owner \in Actors, lease \in LeaseIds,
               k \in ArtifactKeys, digest \in Digests, exp \in Revisions(t) :
             \/ AddArtifact(t, op, owner, lease, k, digest, exp)
             \/ AddArtifactCrash(t, op, owner, lease, k, digest, exp)
      BY <1>6 DEF ArtifactStep
    <2>2. artifacts' \in [ArtifactKeys -> ArtifactFiles]
      BY <2>1 DEF AddArtifact, AddArtifactCrash, StoreArtifact, TypeOK, ArtifactFiles
    <2>3. ArtifactFp(owner, lease, k, digest) \in Fingerprints
      BY DEF Fingerprints, ArtifactFp
    <2>4. tasks[t] \in Tasks /\ op \in Nat
      BY <2>1, InputTypes DEF TypeOK
    <2>5. Logged(ArtifactEffect(tasks[t], k, digest), op, ArtifactFp(owner, lease, k, digest)) \in Tasks
      BY <2>3, <2>4, EffectTypes, LoggedType
    <2>6. tasks' \in [TaskIds -> Tasks]
      BY <2>1, <2>5 DEF AddArtifact, AddArtifactCrash, TypeOK
    <2> QED BY <2>2, <2>6 DEF TypeOK
  <1>7. ASSUME NEW t \in TaskIds, SubmitStep(t) PROVE TypeOK'
    <2>1. PICK owner \in Actors, lease \in LeaseIds, exp \in Revisions(t) :
             \E handoff \in Handoffs(t, owner) :
                 Submit(t, FreshOp(t), owner, lease, handoff, exp)
      BY <1>7 DEF SubmitStep
    <2>2. PICK handoff \in Handoffs(t, owner) : Submit(t, FreshOp(t), owner, lease, handoff, exp)
      BY <2>1
    <2>3. handoff \in HandoffRecords
      BY <2>2, InputTypes
    <2>4. SubmitFp(owner, lease, handoff) \in Fingerprints
      BY <2>3 DEF Fingerprints, SubmitFp
    <2>5. SubmitEffect(tasks[t], handoff) \in Tasks
      BY <2>3, SubmitType DEF TypeOK
    <2> QED BY <2>2, <2>4, <2>5, MutateType, InputTypes DEF Submit
  <1>8. ASSUME NEW t \in TaskIds, ReviewStep(t) PROVE TypeOK'
    <2>1. PICK reviewer \in Actors, exp \in Revisions(t) :
             \E result \in Results(t, reviewer) : Review(t, FreshOp(t), result, exp)
      BY <1>8 DEF ReviewStep
    <2>2. PICK result \in Results(t, reviewer) : Review(t, FreshOp(t), result, exp)
      BY <2>1
    <2>3. result \in ResultRecords /\ exp \in Nat
      BY <2>2, InputTypes
    <2>4. ReviewFp(result) \in Fingerprints
      BY <2>3 DEF Fingerprints, ReviewFp
    <2>5. ReviewEffect(tasks[t], result, exp) \in Tasks
      BY <2>3, ReviewType DEF TypeOK
    <2> QED BY <2>2, <2>4, <2>5, MutateType, InputTypes DEF Review
  <1>9. ASSUME NEW t \in TaskIds, CloseStep(t) PROVE TypeOK'
    <2>1. PICK actor \in Actors, exp \in Revisions(t) : Close(t, FreshOp(t), actor, exp)
      BY <1>9 DEF CloseStep
    <2>2. <<"close", actor>> \in Fingerprints
      BY DEF Fingerprints
    <2>3. tasks[t] \in Tasks
      BY DEF TypeOK
    <2> QED BY <2>1, <2>2, <2>3, MutateType, EffectTypes, InputTypes DEF Close
  <1>10. ASSUME NEW t \in TaskIds, AgeClaim(t) PROVE TypeOK'
    <2>1. tasks[t] \in Tasks
      BY DEF TypeOK
    <2>2. Aged(tasks[t].claim) \in Claims
      BY <2>1 DEF Aged, Tasks, Claims
    <2>3. [tasks[t] EXCEPT !.claim = Aged(@)] \in Tasks
      BY <2>1, <2>2 DEF Tasks
    <2> QED BY <1>10, <2>3 DEF AgeClaim, TypeOK
  <1> QED BY <1>1, <1>2, <1>3, <1>4, <1>5, <1>6, <1>7, <1>8, <1>9, <1>10 DEF Next

(* The store only ever holds records of its declared types.                *)
THEOREM TypeCorrect == Spec => []TypeOK
  BY InitType, StepType, PTL DEF Spec

-----------------------------------------------------------------------------
(* The safety of one task.  The four invariants speak of each task on its  *)
(* own, so the inductive invariant does too; it adds that a handoff was    *)
(* accepted at a revision the task has reached, which is what lets the     *)
(* compare-and-swap of Review date the verdict after the handoff.          *)

TaskInv(task) ==
    /\ task.claim # NoClaim => task.state = "in_progress"
    /\ task.subs # <<>> => LatestSub(task).at <= task.rev
    /\ task.state \in {"in_review", "done"} =>
          /\ task.subs # <<>>
          /\ LatestSub(task).contract = task.contract
          /\ LatestSub(task).refs \subseteq task.refs
    /\ task.state = "done" =>
          /\ task.reviews # <<>>
          /\ LatestReview(task).decision = "pass"
          /\ LatestReview(task).reviewer = task.reviewer
          /\ LatestReview(task).refs = LatestSub(task).refs
          /\ LatestReview(task).basis >= LatestSub(task).at

SafetyInv == \A t \in TaskIds : TaskInv(tasks[t])

(* The last element of an extended sequence is the one appended.           *)
LEMMA AppendLast ==
  ASSUME NEW S, NEW seq \in Seq(S), NEW e \in S
  PROVE  /\ Append(seq, e) # <<>>
         /\ Append(seq, e)[Len(Append(seq, e))] = e
  BY AppendProperties, LenProperties

(* Logging an operation changes nothing the invariant reads but the        *)
(* revision, which grows.                                                  *)
LEMMA LoggedFields ==
  ASSUME NEW task \in Tasks, NEW op, NEW fp
  PROVE  /\ Logged(task, op, fp).state = task.state
         /\ Logged(task, op, fp).claim = task.claim
         /\ Logged(task, op, fp).contract = task.contract
         /\ Logged(task, op, fp).reviewer = task.reviewer
         /\ Logged(task, op, fp).refs = task.refs
         /\ Logged(task, op, fp).subs = task.subs
         /\ Logged(task, op, fp).reviews = task.reviews
         /\ Logged(task, op, fp).rev = task.rev + 1
  BY DEF Logged, Tasks

(* The effects of the operations that leave the histories alone.           *)
LEMMA SimpleEffectsInv ==
  ASSUME NEW task \in Tasks, TaskInv(task), NEW op, NEW fp, NEW actor \in Actors
  PROVE  /\ \A lease \in LeaseIds : ClaimVerdict(task, actor) = "ok"
               => TaskInv(Logged(ClaimEffect(task, actor, lease), op, fp))
         /\ \A lease \in LeaseIds : RenewVerdict(task, actor, lease) = "ok"
               => TaskInv(Logged(RenewEffect(task), op, fp))
         /\ \A next \in Actors : ReviseVerdict(task, actor) = "ok"
               => TaskInv(Logged(ReviseEffect(task, next), op, fp))
         /\ \A lease \in LeaseIds, k \in ArtifactKeys, digest \in Digests :
               ArtifactVerdict(task, actor, lease, k) = "ok"
               => TaskInv(Logged(ArtifactEffect(task, k, digest), op, fp))
         /\ CloseVerdict(task, actor) = "ok"
               => TaskInv(Logged(CloseEffect(task), op, fp))
  <1>0. task.subs # <<>> => LatestSub(task).at \in Nat
    <2>1. task.subs \in Seq(Submissions) /\ (task.subs # <<>> => Len(task.subs) \in 1..Len(task.subs))
      BY LenProperties, EmptySeq DEF Tasks
    <2>2. task.subs # <<>> => LatestSub(task) \in Submissions
      BY <2>1, ElementOfSeq DEF LatestSub
    <2> QED BY <2>2 DEF Submissions
  <1>1. task.rev \in Nat /\ (task.subs # <<>> => LatestSub(task).at <= task.rev + 1)
    BY <1>0 DEF TaskInv, Tasks
  <1>2. ASSUME NEW lease \in LeaseIds, ClaimVerdict(task, actor) = "ok"
        PROVE  TaskInv(Logged(ClaimEffect(task, actor, lease), op, fp))
    <2> DEFINE new == ClaimEffect(task, actor, lease)
    <2>1. new \in Tasks
      BY EffectTypes
    <2>2. new.state = "in_progress" /\ new.subs = task.subs /\ new.rev = task.rev
      BY DEF ClaimEffect, Tasks
    <2> HIDE DEF new
    <2>3. TaskInv(Logged(new, op, fp))
      BY <1>1, <2>1, <2>2, LoggedFields DEF TaskInv, LatestSub
    <2> QED BY <2>3 DEF new
  <1>3. ASSUME NEW lease \in LeaseIds, RenewVerdict(task, actor, lease) = "ok"
        PROVE  TaskInv(Logged(RenewEffect(task), op, fp))
    <2> DEFINE new == RenewEffect(task)
    <2>1. new \in Tasks
      BY EffectTypes
    <2>2. task.state = "in_progress"
      BY <1>3 DEF RenewVerdict
    <2>3. new.state = task.state /\ new.subs = task.subs /\ new.rev = task.rev
      BY DEF RenewEffect, Tasks
    <2> HIDE DEF new
    <2>4. TaskInv(Logged(new, op, fp))
      BY <1>1, <2>1, <2>2, <2>3, LoggedFields DEF TaskInv, LatestSub
    <2> QED BY <2>4 DEF new
  <1>4. ASSUME NEW next \in Actors, ReviseVerdict(task, actor) = "ok"
        PROVE  TaskInv(Logged(ReviseEffect(task, next), op, fp))
    <2> DEFINE new == ReviseEffect(task, next)
    <2>1. new \in Tasks
      BY EffectTypes
    <2>2. task.state \in {"todo", "in_progress"}
      BY <1>4 DEF ReviseVerdict
    <2>3. new.state = task.state /\ new.subs = task.subs /\ new.rev = task.rev /\ new.claim = task.claim
      BY DEF ReviseEffect, Tasks
    <2> HIDE DEF new
    <2>4. TaskInv(Logged(new, op, fp))
      BY <1>1, <2>1, <2>2, <2>3, LoggedFields DEF TaskInv, LatestSub
    <2> QED BY <2>4 DEF new
  <1>5. ASSUME NEW lease \in LeaseIds, NEW k \in ArtifactKeys, NEW digest \in Digests,
               ArtifactVerdict(task, actor, lease, k) = "ok"
        PROVE  TaskInv(Logged(ArtifactEffect(task, k, digest), op, fp))
    <2> DEFINE new == ArtifactEffect(task, k, digest)
    <2>1. new \in Tasks
      BY EffectTypes
    <2>2. task.state = "in_progress"
      BY <1>5 DEF ArtifactVerdict
    <2>3. new.state = task.state /\ new.subs = task.subs /\ new.rev = task.rev
      BY DEF ArtifactEffect, Tasks
    <2> HIDE DEF new
    <2>4. TaskInv(Logged(new, op, fp))
      BY <1>1, <2>1, <2>2, <2>3, LoggedFields DEF TaskInv, LatestSub
    <2> QED BY <2>4 DEF new
  <1>6. ASSUME CloseVerdict(task, actor) = "ok"
        PROVE  TaskInv(Logged(CloseEffect(task), op, fp))
    <2> DEFINE new == CloseEffect(task)
    <2>1. new \in Tasks
      BY EffectTypes
    <2>2. new.state = "closed" /\ new.claim = NoClaim /\ new.subs = task.subs /\ new.rev = task.rev
      BY DEF CloseEffect, Tasks
    <2> HIDE DEF new
    <2>3. TaskInv(Logged(new, op, fp))
      BY <1>1, <2>1, <2>2, LoggedFields DEF TaskInv, LatestSub
    <2> QED BY <2>3 DEF new
  <1> QED BY <1>2, <1>3, <1>4, <1>5, <1>6
(* A submission binds the current contract and artifacts of the task, at   *)
(* the revision it creates.                                                *)
LEMMA SubmitInv ==
  ASSUME TypeOK, NEW t \in TaskIds, NEW op, NEW fp, NEW owner \in Actors,
         NEW lease \in LeaseIds, NEW handoff \in HandoffRecords,
         SubmitVerdict(t, owner, lease, handoff) = "ok"
  PROVE  TaskInv(Logged(SubmitEffect(tasks[t], handoff), op, fp))
  <1> DEFINE task == tasks[t]
             new == SubmitEffect(task, handoff)
             sub == [contract |-> handoff.contract, author |-> handoff.author,
                     refs |-> handoff.refs, at |-> task.rev + 1]
  <1>1. task \in Tasks /\ new \in Tasks
    BY SubmitType DEF TypeOK
  <1>2. sub \in Submissions /\ task.subs \in Seq(Submissions) /\ task.rev \in Nat
    BY <1>1 DEF HandoffRecords, Submissions, Tasks
  <1>3. /\ new.state = "in_review" /\ new.claim = NoClaim
        /\ new.subs = Append(task.subs, sub)
        /\ new.contract = task.contract /\ new.refs = task.refs /\ new.rev = task.rev
    BY <1>1 DEF SubmitEffect, Tasks
  <1>4. new.subs # <<>> /\ LatestSub(new) = sub
    BY <1>2, <1>3, AppendLast DEF LatestSub
  <1>5. HandoffFits(task, owner, handoff)
    BY DEF SubmitVerdict
  <1> DEFINE logged == Logged(new, op, fp)
  <1>6. /\ logged.state = "in_review" /\ logged.claim = NoClaim /\ logged.subs = new.subs
        /\ logged.contract = task.contract /\ logged.refs = task.refs
        /\ logged.rev = task.rev + 1
    BY <1>1, <1>3, LoggedFields
  <1>7. LatestSub(logged) = sub
    BY <1>4, <1>6 DEF LatestSub
  <1>8. logged.subs # <<>> /\ LatestSub(logged).at <= logged.rev
        /\ LatestSub(logged).contract = logged.contract
        /\ LatestSub(logged).refs \subseteq logged.refs
    BY <1>2, <1>4, <1>5, <1>6, <1>7 DEF HandoffFits
  <1> HIDE DEF logged, sub, new
  <1>9. TaskInv(logged)
    BY <1>6, <1>8 DEF TaskInv
  <1> QED BY <1>9 DEF logged, new

(* A gate result made on the current revision is dated after the handoff.  *)
LEMMA ReviewInv ==
  ASSUME NEW task \in Tasks, TaskInv(task), NEW op, NEW fp,
         NEW result \in ResultRecords, NEW basis \in Nat, task.rev = basis,
         ReviewVerdict(task, result) = "ok"
  PROVE  TaskInv(Logged(ReviewEffect(task, result, basis), op, fp))
  <1> DEFINE new == ReviewEffect(task, result, basis)
             review == [decision |-> result.decision, reviewer |-> result.reviewer,
                        refs |-> result.refs, basis |-> basis]
             logged == Logged(new, op, fp)
  <1>1. new \in Tasks
    BY ReviewType
  <1>2. review \in Reviews /\ task.reviews \in Seq(Reviews) /\ task.rev \in Nat
    BY DEF ResultRecords, Reviews, Tasks
  <1>3. /\ task.state = "in_review" /\ task.subs # <<>>
        /\ result.reviewer = task.reviewer /\ result.refs = LatestSub(task).refs
    BY DEF ReviewVerdict
  <1>4. /\ new.state = AfterReview(result.decision)
        /\ new.claim \in {NoClaim, task.claim}
        /\ new.subs = task.subs /\ new.reviews = Append(task.reviews, review)
        /\ new.contract = task.contract /\ new.refs = task.refs
        /\ new.reviewer = task.reviewer /\ new.rev = task.rev
    BY DEF ReviewEffect, Tasks
  <1>5. new.reviews # <<>> /\ LatestReview(new) = review
    BY <1>2, <1>4, AppendLast DEF LatestReview
  <1>6. task.claim = NoClaim
    BY <1>3 DEF TaskInv
  <1>7. LatestSub(task) \in Submissions
    <2>1. task.subs \in Seq(Submissions) /\ Len(task.subs) \in 1..Len(task.subs)
      BY <1>3, LenProperties, EmptySeq DEF Tasks
    <2> QED BY <2>1, ElementOfSeq DEF LatestSub
  <1>8. /\ logged.state = AfterReview(result.decision) /\ logged.claim = NoClaim
        /\ logged.subs = task.subs /\ logged.contract = task.contract
        /\ logged.refs = task.refs /\ logged.reviews = new.reviews
        /\ logged.reviewer = task.reviewer /\ logged.rev = task.rev + 1
    BY <1>1, <1>4, <1>6, LoggedFields
  <1>9. LatestSub(logged) = LatestSub(task) /\ LatestReview(logged) = review
    BY <1>5, <1>8 DEF LatestSub, LatestReview
  <1>10. logged.state = "done" => result.decision = "pass"
    BY <1>8 DEF AfterReview, ResultRecords, Decisions
  <1>11. /\ LatestSub(task).at \in Nat /\ LatestSub(task).at <= task.rev
         /\ LatestSub(task).contract = task.contract
         /\ LatestSub(task).refs \subseteq task.refs
    BY <1>3, <1>7 DEF TaskInv, Submissions
  <1>12. review.decision = result.decision /\ review.reviewer = task.reviewer
         /\ review.refs = LatestSub(task).refs /\ review.basis = task.rev
    BY <1>3
  <1> HIDE DEF logged, new, review
  <1>13. TaskInv(logged)
    BY <1>2, <1>3, <1>5, <1>8, <1>9, <1>10, <1>11, <1>12 DEF TaskInv
  <1> QED BY <1>13 DEF logged, new

(* A mutation is safe when what it logs is, given its verdict and the      *)
(* compare-and-swap.                                                       *)
LEMMA MutateInv ==
  ASSUME TypeOK, SafetyInv, NEW t \in TaskIds, NEW op, NEW fp,
         NEW exp, NEW verdict, NEW effect,
         Mutate(t, op, fp, exp, verdict, effect),
         verdict = "ok" /\ tasks[t].rev = exp => TaskInv(Logged(effect, op, fp))
  PROVE  SafetyInv'
  <1>1. verdict = "ok" /\ tasks[t].rev = exp
    BY DEF Mutate, Outcome
  <1>2. tasks' = [tasks EXCEPT ![t] = Logged(effect, op, fp)]
    BY DEF Mutate
  <1> QED BY <1>1, <1>2 DEF SafetyInv, TypeOK

(* Absent tasks are safe.                                                 *)
LEMMA InitSafe == Init => SafetyInv
  BY DEF Init, SafetyInv, TaskInv, NoTask

(* Every operation keeps every task safe, one step per action.             *)
LEMMA StepSafe == TypeOK /\ SafetyInv /\ [Next]_vars => SafetyInv'
  <1> SUFFICES ASSUME TypeOK, SafetyInv, [Next]_vars PROVE SafetyInv'
    OBVIOUS
  <1>0. \A t \in TaskIds : tasks[t] \in Tasks /\ TaskInv(tasks[t])
    BY DEF TypeOK, SafetyInv
  <1>1. CASE UNCHANGED vars
    BY <1>1 DEF vars, SafetyInv
  <1>2. ASSUME NEW t \in TaskIds, CreateStep(t) PROVE SafetyInv'
    <2>1. PICK creator \in Actors, reviewer \in Actors, assignee \in Actors \cup {None},
               parent \in (TaskIds \ {t}) \cup {None} :
                 Create(t, FreshOp(t), creator, assignee, reviewer, parent)
      BY <1>2 DEF CreateStep
    <2> DEFINE new == [NoTask EXCEPT !.state = "todo", !.rev = 1, !.contract = 1,
                         !.creator = creator, !.assignee = assignee,
                         !.reviewer = reviewer, !.parent = parent,
                         !.ledger = {Entry(FreshOp(t), <<"create", creator, assignee, reviewer, parent>>)}]
    <2>2. new.state = "todo" /\ new.claim = NoClaim /\ new.subs = <<>>
      BY DEF NoTask
    <2>3. TaskInv(new)
      <3> HIDE DEF new
      <3> QED BY <2>2 DEF TaskInv
    <2>4. tasks' = [tasks EXCEPT ![t] = new]
      BY <2>1 DEF Create
    <2> HIDE DEF new
    <2> QED BY <2>3, <2>4, <1>0 DEF SafetyInv, TypeOK
  <1>3. ASSUME NEW t \in TaskIds, ClaimStep(t) PROVE SafetyInv'
    <2>1. PICK owner \in Actors, lease \in LeaseIds, exp \in Revisions(t) :
             Claim(t, FreshOp(t), owner, lease, exp)
      BY <1>3 DEF ClaimStep
    <2> QED BY <1>0, <2>1, SimpleEffectsInv, MutateInv DEF Claim
  <1>4. ASSUME NEW t \in TaskIds, RenewStep(t) PROVE SafetyInv'
    <2>1. PICK owner \in Actors, lease \in LeaseIds, exp \in Revisions(t) :
             Renew(t, FreshOp(t), owner, lease, exp)
      BY <1>4 DEF RenewStep
    <2> QED BY <1>0, <2>1, SimpleEffectsInv, MutateInv DEF Renew
  <1>5. ASSUME NEW t \in TaskIds, ReviseStep(t) PROVE SafetyInv'
    <2>1. PICK actor \in Actors, reviewer \in Actors, exp \in Revisions(t) :
             ReviseContract(t, FreshOp(t), actor, reviewer, exp)
      BY <1>5 DEF ReviseStep
    <2> QED BY <1>0, <2>1, SimpleEffectsInv, MutateInv DEF ReviseContract
  <1>6. ASSUME NEW t \in TaskIds, ArtifactStep(t) PROVE SafetyInv'
    <2>1. PICK op \in AnyOp(t), owner \in Actors, lease \in LeaseIds,
               k \in ArtifactKeys, digest \in Digests, exp \in Revisions(t) :
             \/ AddArtifact(t, op, owner, lease, k, digest, exp)
             \/ AddArtifactCrash(t, op, owner, lease, k, digest, exp)
      BY <1>6 DEF ArtifactStep
    <2>2. CASE AddArtifactCrash(t, op, owner, lease, k, digest, exp)
      BY <2>2, <1>0 DEF AddArtifactCrash, SafetyInv
    <2>3. CASE AddArtifact(t, op, owner, lease, k, digest, exp)
      <3>1. ArtifactVerdict(tasks[t], owner, lease, k) = "ok"
        BY <2>3 DEF AddArtifact, ArtifactOutcome, Outcome
      <3>2. TaskInv(Logged(ArtifactEffect(tasks[t], k, digest), op,
                           ArtifactFp(owner, lease, k, digest)))
        BY <3>1, <1>0, SimpleEffectsInv
      <3> QED BY <2>3, <3>2, <1>0 DEF AddArtifact, SafetyInv, TypeOK
    <2> QED BY <2>1, <2>2, <2>3
  <1>7. ASSUME NEW t \in TaskIds, SubmitStep(t) PROVE SafetyInv'
    <2>1. PICK owner \in Actors, lease \in LeaseIds, exp \in Revisions(t) :
             \E handoff \in Handoffs(t, owner) :
                 Submit(t, FreshOp(t), owner, lease, handoff, exp)
      BY <1>7 DEF SubmitStep
    <2>2. PICK handoff \in Handoffs(t, owner) : Submit(t, FreshOp(t), owner, lease, handoff, exp)
      BY <2>1
    <2>3. handoff \in HandoffRecords
      BY <2>2, InputTypes
    <2> QED BY <2>2, <2>3, SubmitInv, MutateInv DEF Submit
  <1>8. ASSUME NEW t \in TaskIds, ReviewStep(t) PROVE SafetyInv'
    <2>1. PICK reviewer \in Actors, exp \in Revisions(t) :
             \E result \in Results(t, reviewer) : Review(t, FreshOp(t), result, exp)
      BY <1>8 DEF ReviewStep
    <2>2. PICK result \in Results(t, reviewer) : Review(t, FreshOp(t), result, exp)
      BY <2>1
    <2>3. result \in ResultRecords /\ exp \in Nat
      BY <2>2, InputTypes
    <2> QED BY <1>0, <2>2, <2>3, ReviewInv, MutateInv DEF Review
  <1>9. ASSUME NEW t \in TaskIds, CloseStep(t) PROVE SafetyInv'
    <2>1. PICK actor \in Actors, exp \in Revisions(t) : Close(t, FreshOp(t), actor, exp)
      BY <1>9 DEF CloseStep
    <2> QED BY <1>0, <2>1, SimpleEffectsInv, MutateInv DEF Close
  <1>10. ASSUME NEW t \in TaskIds, AgeClaim(t) PROVE SafetyInv'
    <2> DEFINE new == [tasks[t] EXCEPT !.claim = Aged(@)]
    <2>1. tasks' = [tasks EXCEPT ![t] = new] /\ Live(tasks[t].claim)
      BY <1>10 DEF AgeClaim
    <2>2. tasks[t].claim # NoClaim
      BY <2>1 DEF Live, NoClaim
    <2>3. /\ new.state = tasks[t].state /\ new.rev = tasks[t].rev
          /\ new.subs = tasks[t].subs
      BY <1>0 DEF Tasks
    <2>4. tasks[t].state = "in_progress"
      BY <1>0, <2>2 DEF TaskInv
    <2> HIDE DEF new
    <2>5. TaskInv(new)
      BY <1>0, <2>3, <2>4 DEF TaskInv, LatestSub
    <2> QED BY <1>0, <2>1, <2>5 DEF SafetyInv, TypeOK
  <1> QED BY <1>1, <1>2, <1>3, <1>4, <1>5, <1>6, <1>7, <1>8, <1>9, <1>10 DEF Next

(* Types and task safety are invariant together.                           *)
THEOREM TasksSafe == Spec => [](TypeOK /\ SafetyInv)
  <1>1. Init => TypeOK /\ SafetyInv
    BY InitType, InitSafe
  <1>2. TypeOK /\ SafetyInv /\ [Next]_vars => (TypeOK /\ SafetyInv)'
    BY StepType, StepSafe
  <1> QED BY <1>1, <1>2, PTL DEF Spec

(* Submitting, rejecting and closing give the claim up (Submit, Review,    *)
(* Close in store.go): nobody holds a claim outside in_progress.           *)
THEOREM ClaimsEndWithProgress == Spec => []ClaimOnlyInProgress
  <1>1. SafetyInv => ClaimOnlyInProgress
    BY DEF SafetyInv, TaskInv, ClaimOnlyInProgress
  <1> QED BY <1>1, TasksSafe, PTL

(* The handoff under review binds the task's contract revision and its     *)
(* artifacts (validateHandoff, ReviseContract).                            *)
THEOREM ReviewsBindTheContract == Spec => []ReviewBindsContract
  <1>1. SafetyInv => ReviewBindsContract
    BY DEF SafetyInv, TaskInv, ReviewBindsContract
  <1> QED BY <1>1, TasksSafe, PTL

(* A done task was passed by its reviewer on its latest handoff, by a      *)
(* verdict formed no earlier than that handoff (Review's compare-and-swap).*)
THEOREM DoneIsReviewed == Spec => []DoneWasReviewed
  <1>1. SafetyInv => DoneWasReviewed
    BY DEF SafetyInv, TaskInv, DoneWasReviewed
  <1> QED BY <1>1, TasksSafe, PTL
-----------------------------------------------------------------------------
(* Files.  What a task refers to is on disk, because the artifact file is  *)
(* written before the task and never overwritten.                          *)

(* Every step keeps references whole.                                      *)
LEMMA StepRefs == TypeOK /\ RefsResolve /\ [Next]_vars => RefsResolve'
  <1> SUFFICES ASSUME TypeOK, RefsResolve, [Next]_vars PROVE RefsResolve'
    OBVIOUS
  <1>0. \A t \in TaskIds : tasks[t] \in Tasks
    BY DEF TypeOK
  <1>1. CASE UNCHANGED vars
    BY <1>1 DEF vars, RefsResolve
  <1>2. ASSUME NEW t \in TaskIds, NEW op, NEW fp, NEW exp, NEW verdict, NEW effect \in Tasks,
               Mutate(t, op, fp, exp, verdict, effect), effect.refs = tasks[t].refs
        PROVE  RefsResolve'
    <2>1. Logged(effect, op, fp).refs = tasks[t].refs
      BY <1>2, LoggedFields
    <2> QED BY <1>2, <2>1 DEF Mutate, RefsResolve, TypeOK
  <1>3. ASSUME NEW t \in TaskIds, CreateStep(t) PROVE RefsResolve'
    <2>1. PICK creator, reviewer, assignee, parent :
                 Create(t, FreshOp(t), creator, assignee, reviewer, parent)
      BY <1>3 DEF CreateStep
    <2>2. tasks' \in [TaskIds -> Tasks] /\ tasks'[t].refs = {}
          /\ \A u \in TaskIds \ {t} : tasks'[u] = tasks[u]
      BY <2>1, <1>0, StepType, <1>3 DEF Create, NoTask, TypeOK, Next
    <2>3. artifacts' = artifacts
      BY <2>1 DEF Create
    <2> QED BY <2>2, <2>3 DEF RefsResolve
  <1>4. ASSUME NEW t \in TaskIds, NEW actor \in Actors
        PROVE  /\ \A lease : ClaimEffect(tasks[t], actor, lease).refs = tasks[t].refs
               /\ RenewEffect(tasks[t]).refs = tasks[t].refs
               /\ ReviseEffect(tasks[t], actor).refs = tasks[t].refs
               /\ CloseEffect(tasks[t]).refs = tasks[t].refs
               /\ \A handoff : SubmitEffect(tasks[t], handoff).refs = tasks[t].refs
               /\ \A result, basis : ReviewEffect(tasks[t], result, basis).refs = tasks[t].refs
    BY <1>0 DEF Tasks, ClaimEffect, RenewEffect, ReviseEffect, CloseEffect, SubmitEffect, ReviewEffect
  <1>5. ASSUME NEW t \in TaskIds, ClaimStep(t) PROVE RefsResolve'
    <2>1. PICK owner \in Actors, lease \in LeaseIds, exp \in Revisions(t) :
             Claim(t, FreshOp(t), owner, lease, exp)
      BY <1>5 DEF ClaimStep
    <2>2. ClaimEffect(tasks[t], owner, lease) \in Tasks
      BY <1>0, EffectTypes
    <2>3. ClaimEffect(tasks[t], owner, lease).refs = tasks[t].refs
      BY <1>4
    <2> QED BY <1>2, <2>1, <2>2, <2>3 DEF Claim
  <1>6. ASSUME NEW t \in TaskIds, RenewStep(t) PROVE RefsResolve'
    BY <1>6, <1>0, <1>2, <1>4, EffectTypes DEF RenewStep, Renew
  <1>7. ASSUME NEW t \in TaskIds, ReviseStep(t) PROVE RefsResolve'
    BY <1>7, <1>0, <1>2, <1>4, EffectTypes DEF ReviseStep, ReviseContract
  <1>8. ASSUME NEW t \in TaskIds, CloseStep(t) PROVE RefsResolve'
    BY <1>8, <1>0, <1>2, <1>4, EffectTypes DEF CloseStep, Close
  <1>9. ASSUME NEW t \in TaskIds, SubmitStep(t) PROVE RefsResolve'
    BY <1>9, <1>0, <1>2, <1>4, SubmitType, InputTypes DEF SubmitStep, Submit
  <1>10. ASSUME NEW t \in TaskIds, ReviewStep(t) PROVE RefsResolve'
    <2>1. Revisions(t) \subseteq Nat
      BY <1>0 DEF Revisions, Tasks
    <2>2. PICK reviewer \in Actors, exp \in Revisions(t) :
             \E result \in Results(t, reviewer) : Review(t, FreshOp(t), result, exp)
      BY <1>10 DEF ReviewStep
    <2>3. PICK result \in Results(t, reviewer) : Review(t, FreshOp(t), result, exp)
      BY <2>2
    <2>4. ReviewEffect(tasks[t], result, exp) \in Tasks
      BY <1>0, <2>1, <2>3, InputTypes, ReviewType
    <2> QED BY <1>2, <1>4, <2>3, <2>4 DEF Review
  <1>11. ASSUME NEW t \in TaskIds, AgeClaim(t) PROVE RefsResolve'
    <2>1. [tasks[t] EXCEPT !.claim = Aged(@)].refs = tasks[t].refs
      BY <1>0 DEF Tasks
    <2> QED BY <1>11, <2>1 DEF AgeClaim, RefsResolve, TypeOK
  <1>12. ASSUME NEW t \in TaskIds, ArtifactStep(t) PROVE RefsResolve'
    <2>1. PICK op \in AnyOp(t), owner \in Actors, lease \in LeaseIds,
               k \in ArtifactKeys, digest \in Digests, exp \in Revisions(t) :
             \/ AddArtifact(t, op, owner, lease, k, digest, exp)
             \/ AddArtifactCrash(t, op, owner, lease, k, digest, exp)
      BY <1>12 DEF ArtifactStep
    <2> DEFINE file == [task |-> t, digest |-> digest, producer |-> owner]
               fp == ArtifactFp(owner, lease, k, digest)
               new == Logged(ArtifactEffect(tasks[t], k, digest), op, fp)
    <2>2. ~Stored(k) /\ artifacts' = [artifacts EXCEPT ![k] = file]
      BY <2>1 DEF AddArtifact, AddArtifactCrash, ArtifactOutcome, Outcome, ArtifactVerdict, StoreArtifact
    <2>3. ASSUME NEW u \in TaskIds, NEW ref \in tasks[u].refs
          PROVE  artifacts'[ref.key] = artifacts[ref.key] /\ artifacts[ref.key].task = u
      <3>1. artifacts[ref.key].task = u
        BY DEF RefsResolve
      <3>2. ref.key # k
        BY <2>2, <3>1, NoneAssumption DEF Stored, NoArtifact
      <3> QED BY <2>2, <3>1, <3>2 DEF TypeOK
    <2>4. CASE AddArtifactCrash(t, op, owner, lease, k, digest, exp)
      BY <2>3, <2>4 DEF AddArtifactCrash, RefsResolve
    <2>5. CASE AddArtifact(t, op, owner, lease, k, digest, exp)
      <3>1. tasks' = [tasks EXCEPT ![t] = new]
        BY <2>5 DEF AddArtifact
      <3>2. new.refs = tasks[t].refs \cup {[key |-> k, digest |-> digest]}
        <4>1. ArtifactEffect(tasks[t], k, digest).refs = tasks[t].refs \cup {[key |-> k, digest |-> digest]}
          BY <1>0 DEF ArtifactEffect, Tasks
        <4> QED BY <4>1, <1>0, EffectTypes, LoggedFields
      <3>3. artifacts'[k] = file
        BY <2>2 DEF TypeOK
      <3> HIDE DEF new
      <3>4. ASSUME NEW u \in TaskIds, NEW ref \in tasks'[u].refs
            PROVE  artifacts'[ref.key].task = u /\ artifacts'[ref.key].digest = ref.digest
        <4>1. CASE ref \in tasks[u].refs
          BY <4>1, <2>3 DEF RefsResolve
        <4>2. CASE ref \notin tasks[u].refs
          <5>1. u = t /\ ref = [key |-> k, digest |-> digest]
            BY <4>2, <3>1, <3>2 DEF TypeOK
          <5> QED BY <5>1, <3>3
        <4> QED BY <4>1, <4>2
      <3> QED BY <3>4 DEF RefsResolve
    <2> QED BY <2>1, <2>4, <2>5
  <1> QED BY <1>1, <1>3, <1>5, <1>6, <1>7, <1>8, <1>9, <1>10, <1>11, <1>12 DEF Next

(* No crash between the two writes of AddArtifact leaves a task referring  *)
(* to an artifact that is not there, and no later write breaks a reference.*)
THEOREM ReferencesResolve == Spec => []RefsResolve
  <1>1. Init => TypeOK /\ RefsResolve
    BY InitType DEF Init, RefsResolve, NoTask
  <1>2. TypeOK /\ RefsResolve /\ [Next]_vars => (TypeOK /\ RefsResolve)'
    BY StepType, StepRefs
  <1> QED BY <1>1, <1>2, PTL DEF Spec
-----------------------------------------------------------------------------
(* What a step may never do.                                               *)

(* A mutation writes the task it names and no other.                       *)
LEMMA MutateFrame ==
  ASSUME TypeOK, NEW t \in TaskIds, NEW op, NEW fp, NEW exp, NEW verdict,
         NEW effect \in Tasks, Mutate(t, op, fp, exp, verdict, effect)
  PROVE  /\ verdict = "ok"
         /\ artifacts' = artifacts
         /\ tasks'[t].state = effect.state
         /\ tasks'[t].claim = effect.claim
         /\ \A u \in TaskIds \ {t} : tasks'[u] = tasks[u]
  <1>1. tasks' = [tasks EXCEPT ![t] = Logged(effect, op, fp)]
    BY DEF Mutate
  <1>2. Logged(effect, op, fp).state = effect.state /\ Logged(effect, op, fp).claim = effect.claim
    BY LoggedFields
  <1> QED BY <1>1, <1>2 DEF TypeOK, Mutate, Outcome

(* How one step may change the state and the claim of the task it names,   *)
(* by operation.                                                           *)
LEMMA StepEffect ==
  ASSUME TypeOK, SafetyInv, NEW t \in TaskIds, Next,
         \/ CreateStep(t) \/ ClaimStep(t) \/ RenewStep(t) \/ ReviseStep(t)
         \/ ArtifactStep(t) \/ SubmitStep(t) \/ ReviewStep(t) \/ CloseStep(t)
         \/ AgeClaim(t)
  PROVE  /\ \A u \in TaskIds \ {t} : tasks'[u] = tasks[u]
         /\ ~Terminal(tasks[t].state)
         /\ tasks'[t].state = "in_review" /\ tasks[t].state # "in_review"
               => \A c \in Children(t) : Terminal(tasks[c].state)
         /\ Live(tasks[t].claim) /\ Live(tasks'[t].claim)
               => /\ tasks'[t].claim.owner = tasks[t].claim.owner
                  /\ tasks'[t].claim.lease = tasks[t].claim.lease
         /\ \A k \in ArtifactKeys : Stored(k) => artifacts'[k] = artifacts[k]
  <1>0. /\ tasks[t] \in Tasks /\ tasks[t].claim \in Claims
        /\ tasks[t].claim # NoClaim => tasks[t].state = "in_progress"
        /\ ~Live(NoClaim)
    BY DEF TypeOK, Tasks, SafetyInv, TaskInv, NoClaim, Live
  <1>1. CASE CreateStep(t)
    <2>1. PICK creator, reviewer, assignee, parent :
                 Create(t, FreshOp(t), creator, assignee, reviewer, parent)
      BY <1>1 DEF CreateStep
    <2>2. tasks[t].state = "absent"
      BY <2>1 DEF Create, CreateAllowed
    <2>3. tasks'[t].state = "todo" /\ \A u \in TaskIds \ {t} : tasks'[u] = tasks[u]
      BY <2>1 DEF Create, TypeOK, NoTask
    <2>4. artifacts' = artifacts /\ ~Live(tasks[t].claim)
      BY <2>1, <2>2, <1>0 DEF Create
    <2> QED BY <2>2, <2>3, <2>4 DEF Terminal
  <1>2. CASE ClaimStep(t)
    <2>1. PICK owner \in Actors, lease \in LeaseIds, exp \in Revisions(t) :
             Claim(t, FreshOp(t), owner, lease, exp)
      BY <1>2 DEF ClaimStep
    <2>2. ClaimEffect(tasks[t], owner, lease).state = "in_progress"
      BY <1>0 DEF ClaimEffect, Tasks
    <2> QED BY <1>0, <2>1, <2>2, MutateFrame, EffectTypes DEF Claim, ClaimVerdict, Terminal
  <1>3. CASE RenewStep(t)
    <2>1. PICK owner \in Actors, lease \in LeaseIds, exp \in Revisions(t) :
             Renew(t, FreshOp(t), owner, lease, exp)
      BY <1>3 DEF RenewStep
    <2>2. /\ RenewEffect(tasks[t]).state = tasks[t].state
          /\ RenewEffect(tasks[t]).claim.owner = tasks[t].claim.owner
          /\ RenewEffect(tasks[t]).claim.lease = tasks[t].claim.lease
      BY <1>0 DEF RenewEffect, Tasks, Claims
    <2> QED BY <1>0, <2>1, <2>2, MutateFrame, EffectTypes DEF Renew, RenewVerdict, Terminal
  <1>4. CASE ReviseStep(t)
    <2>1. PICK actor \in Actors, reviewer \in Actors, exp \in Revisions(t) :
             ReviseContract(t, FreshOp(t), actor, reviewer, exp)
      BY <1>4 DEF ReviseStep
    <2>2. /\ ReviseEffect(tasks[t], reviewer).state = tasks[t].state
          /\ ReviseEffect(tasks[t], reviewer).claim = tasks[t].claim
      BY <1>0 DEF ReviseEffect, Tasks
    <2> QED BY <1>0, <2>1, <2>2, MutateFrame, EffectTypes DEF ReviseContract, ReviseVerdict, Terminal
  <1>5. CASE ArtifactStep(t)
    <2>1. PICK op \in AnyOp(t), owner \in Actors, lease \in LeaseIds,
               k \in ArtifactKeys, digest \in Digests, exp \in Revisions(t) :
             \/ AddArtifact(t, op, owner, lease, k, digest, exp)
             \/ AddArtifactCrash(t, op, owner, lease, k, digest, exp)
      BY <1>5 DEF ArtifactStep
    <2> DEFINE effect == ArtifactEffect(tasks[t], k, digest)
               new == Logged(effect, op, ArtifactFp(owner, lease, k, digest))
    <2>2. effect \in Tasks /\ effect.state = tasks[t].state /\ effect.claim = tasks[t].claim
      BY <1>0, EffectTypes DEF ArtifactEffect, Tasks
    <2>3. new.state = tasks[t].state /\ new.claim = tasks[t].claim
      <3> HIDE DEF effect
      <3> QED BY <2>2, LoggedFields
    <2> HIDE DEF new
    <2>4. /\ \A u \in TaskIds \ {t} : tasks'[u] = tasks[u]
          /\ tasks'[t].state = tasks[t].state /\ tasks'[t].claim = tasks[t].claim
      BY <2>1, <2>3 DEF AddArtifact, AddArtifactCrash, TypeOK, new
    <2>5. tasks[t].state = "in_progress" /\ ~Stored(k)
          /\ artifacts' = [artifacts EXCEPT ![k] = [task |-> t, digest |-> digest, producer |-> owner]]
      BY <2>1 DEF AddArtifact, AddArtifactCrash, ArtifactOutcome, Outcome, ArtifactVerdict, StoreArtifact
    <2> QED BY <2>4, <2>5 DEF TypeOK, Terminal
  <1>6. CASE SubmitStep(t)
    <2>1. PICK owner \in Actors, lease \in LeaseIds, exp \in Revisions(t) :
             \E handoff \in Handoffs(t, owner) :
                 Submit(t, FreshOp(t), owner, lease, handoff, exp)
      BY <1>6 DEF SubmitStep
    <2>2. PICK handoff \in Handoffs(t, owner) : Submit(t, FreshOp(t), owner, lease, handoff, exp)
      BY <2>1
    <2>3. SubmitEffect(tasks[t], handoff) \in Tasks /\ SubmitEffect(tasks[t], handoff).claim = NoClaim
      BY <1>0, <2>2, InputTypes, SubmitType DEF SubmitEffect, Tasks
    <2>4. SubmitVerdict(t, owner, lease, handoff) = "ok"
      BY <2>2, <2>3, MutateFrame DEF Submit
    <2>5. tasks[t].state = "in_progress" /\ \A c \in Children(t) : Terminal(tasks[c].state)
      BY <2>4 DEF SubmitVerdict
    <2> QED BY <1>0, <2>2, <2>3, <2>5, MutateFrame DEF Submit, Terminal
  <1>7. CASE ReviewStep(t)
    <2>1. PICK reviewer \in Actors, exp \in Revisions(t) :
             \E result \in Results(t, reviewer) : Review(t, FreshOp(t), result, exp)
      BY <1>7 DEF ReviewStep
    <2>2. PICK result \in Results(t, reviewer) : Review(t, FreshOp(t), result, exp)
      BY <2>1
    <2>3. ReviewEffect(tasks[t], result, exp) \in Tasks
      BY <1>0, <2>2, InputTypes, ReviewType
    <2>4. ReviewVerdict(tasks[t], result) = "ok"
      BY <2>2, <2>3, MutateFrame DEF Review
    <2>5. tasks[t].state = "in_review"
      BY <2>4 DEF ReviewVerdict
    <2> QED BY <1>0, <2>2, <2>3, <2>5, MutateFrame DEF Review, Terminal
  <1>8. CASE CloseStep(t)
    <2>1. PICK actor \in Actors, exp \in Revisions(t) : Close(t, FreshOp(t), actor, exp)
      BY <1>8 DEF CloseStep
    <2>2. CloseEffect(tasks[t]).state = "closed" /\ CloseEffect(tasks[t]).claim = NoClaim
      BY <1>0 DEF CloseEffect, Tasks
    <2> QED BY <1>0, <2>1, <2>2, MutateFrame, EffectTypes DEF Close, CloseVerdict
  <1>9. CASE AgeClaim(t)
    <2>1. /\ tasks' = [tasks EXCEPT ![t].claim = Aged(@)] /\ artifacts' = artifacts
          /\ Live(tasks[t].claim)
      BY <1>9 DEF AgeClaim
    <2>2. /\ tasks'[t].state = tasks[t].state /\ tasks'[t].claim = Aged(tasks[t].claim)
          /\ \A u \in TaskIds \ {t} : tasks'[u] = tasks[u]
      BY <1>0, <2>1 DEF TypeOK, Tasks
    <2>3. /\ Aged(tasks[t].claim).owner = tasks[t].claim.owner
          /\ Aged(tasks[t].claim).lease = tasks[t].claim.lease
      BY <1>0 DEF Aged, Claims
    <2>4. tasks[t].state = "in_progress"
      BY <1>0, <2>1
    <2> QED BY <2>1, <2>2, <2>3, <2>4 DEF Terminal
  <1> QED BY <1>1, <1>2, <1>3, <1>4, <1>5, <1>6, <1>7, <1>8, <1>9

(* A parent enters review only behind its children (childrenUnlocked in    *)
(* Submit).                                                                *)
THEOREM ParentsWait == Spec => ParentWaits
  <1>1. TypeOK /\ SafetyInv /\ [Next]_vars =>
          [\A t \in TaskIds :
              tasks[t].state # "in_review" /\ tasks'[t].state = "in_review"
                 => \A c \in Children(t) : Terminal(tasks[c].state)]_vars
    <2> SUFFICES ASSUME TypeOK, SafetyInv, Next, NEW u \in TaskIds,
                        tasks[u].state # "in_review", tasks'[u].state = "in_review"
                 PROVE  \A c \in Children(u) : Terminal(tasks[c].state)
      OBVIOUS
    <2> QED BY StepEffect DEF Next
  <1> QED BY <1>1, TasksSafe, PTL DEF Spec, ParentWaits

(* Nobody takes a live claim over (the Live test in Claim).                *)
THEOREM LiveClaimsAreExclusive == Spec => LiveClaimIsExclusive
  <1>1. TypeOK /\ SafetyInv /\ [Next]_vars =>
          [\A t \in TaskIds :
              Live(tasks[t].claim) /\ Live(tasks'[t].claim)
                 => tasks'[t].claim.owner = tasks[t].claim.owner
                    /\ tasks'[t].claim.lease = tasks[t].claim.lease]_vars
    <2> SUFFICES ASSUME TypeOK, SafetyInv, Next, NEW u \in TaskIds,
                        Live(tasks[u].claim), Live(tasks'[u].claim)
                 PROVE  tasks'[u].claim.owner = tasks[u].claim.owner
                        /\ tasks'[u].claim.lease = tasks[u].claim.lease
      OBVIOUS
    <2> QED BY StepEffect DEF Next
  <1> QED BY <1>1, TasksSafe, PTL DEF Spec, LiveClaimIsExclusive

(* Finished tasks and written artifacts never change.                      *)
THEOREM RecordsAreKept == Spec => RecordsStay
  <1>1. TypeOK /\ SafetyInv /\ [Next]_vars =>
          [/\ \A t \in TaskIds : Terminal(tasks[t].state) => tasks'[t] = tasks[t]
           /\ \A k \in ArtifactKeys : Stored(k) => artifacts'[k] = artifacts[k]]_vars
    <2> SUFFICES ASSUME TypeOK, SafetyInv, Next
                 PROVE  /\ \A t \in TaskIds : Terminal(tasks[t].state) => tasks'[t] = tasks[t]
                        /\ \A k \in ArtifactKeys : Stored(k) => artifacts'[k] = artifacts[k]
      OBVIOUS
    <2> QED BY StepEffect DEF Next
  <1> QED BY <1>1, TasksSafe, PTL DEF Spec, RecordsStay
=============================================================================
