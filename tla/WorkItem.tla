------------------------------ MODULE WorkItem ------------------------------
(***************************************************************************)
(* The product delivery control plane, internal/workitem/store.go: Task v2 *)
(* records with a claim lease, immutable artifacts in files of their own,  *)
(* handoffs, gate results and a parent/child barrier.  Every operation is  *)
(* one action: the store's mutex is held from the read of the task file to *)
(* the write that replaces it.  Only a crash can fall between the two      *)
(* files that AddArtifact writes.                                          *)
(*                                                                         *)
(* Time is abstract: a claim has "long", "short" (under a minute) or no    *)
(* time left ("gone"), and it ages at any moment.  A semantic fingerprint  *)
(* is the tuple of what the code hashes.                                   *)
(***************************************************************************)
EXTENDS Integers, Sequences, FiniteSets

CONSTANTS
    TaskIds,        \* identities of product tasks
    Actors,         \* people and agents: creators, owners, reviewers
    LeaseIds,       \* claim lease identities
    ArtifactKeys,   \* (artifact id, version) pairs
    Digests,        \* content digests
    None,           \* the empty string / nil pointer of the code
    MaxRevision     \* TaskIds -> bound on the task's revision

ASSUME NoneAssumption ==
    None \notin TaskIds \cup Actors \cup LeaseIds \cup ArtifactKeys \cup Digests
ASSUME MaxRevisionAssumption == MaxRevision \in [TaskIds -> Nat]

VARIABLES
    tasks,          \* TaskIds -> task record; state "absent" before Create
    artifacts       \* ArtifactKeys -> artifact file, NoArtifact when there is none

vars == <<tasks, artifacts>>

-----------------------------------------------------------------------------
(* Records.                                                                *)

OpenStates == {"todo", "in_progress", "in_review"}
Terminal(state) == state \in {"done", "closed"}
TaskStates == {"absent"} \cup OpenStates \cup {"done", "closed"}
Decisions == {"pass", "reject", "needs_human"}

NoClaim == [owner |-> None, lease |-> None, left |-> "gone"]
NewClaim(owner, lease) == [owner |-> owner, lease |-> lease, left |-> "long"]
Live(claim) == claim.left # "gone"
Aged(claim) == [claim EXCEPT !.left = IF @ = "long" THEN "short" ELSE "gone"]

NoArtifact == [task |-> None, digest |-> None, producer |-> None]

NoTask ==
    [state |-> "absent", rev |-> 0, contract |-> 0, creator |-> None,
     assignee |-> None, reviewer |-> None, parent |-> None, claim |-> NoClaim,
     refs |-> {}, subs |-> <<>>, reviews |-> <<>>, ledger |-> {}]

Stored(k) == artifacts[k] # NoArtifact
LatestSub(task) == task.subs[Len(task.subs)]
LatestReview(task) == task.reviews[Len(task.reviews)]
Children(t) == {c \in TaskIds : tasks[c].state # "absent" /\ tasks[c].parent = t}

(* validClaim: the same owner and lease, and time left.                    *)
ValidClaim(task, owner, lease) ==
    task.claim.owner = owner /\ task.claim.lease = lease /\ Live(task.claim)

UsedIds(task) == {entry.id : entry \in task.ledger}

(* validateTask refuses a ledger with a repeated operation id, so a task   *)
(* written with one can never be read again.                               *)
Readable(task) ==
    /\ task.state # "absent"
    /\ Cardinality(UsedIds(task)) = Cardinality(task.ledger)

Entry(op, fp) == [id |-> op, fp |-> fp]

(* The common tail of a mutation: bump the revision, append the operation. *)
Logged(task, op, fp) ==
    [task EXCEPT !.rev = @ + 1, !.ledger = @ \cup {Entry(op, fp)}]

(* Mutant: the expected revision is not compared.                          *)
OutcomeAnyRevision(t, op, fp, exp, taken, verdict) ==
    IF ~Readable(tasks[t]) THEN "unreadable"
    ELSE IF Entry(op, fp) \in tasks[t].ledger THEN "replayed"
    ELSE IF op \in taken THEN "conflict"
    ELSE verdict

(* What the store answers to operation op with fingerprint fp against      *)
(* revision exp, in the order of the code's early returns: taken are the   *)
(* ids it refuses to see again, verdict is what the operation's own checks *)
(* say.  Only "ok" writes; "replayed" returns the task as it is.           *)
Outcome(t, op, fp, exp, taken, verdict) ==
    IF ~Readable(tasks[t]) THEN "unreadable"
    ELSE IF Entry(op, fp) \in tasks[t].ledger THEN "replayed"
    ELSE IF op \in taken \/ tasks[t].rev # exp THEN "conflict"
    ELSE verdict

(* mutate, the path of every operation but Create and AddArtifact.         *)
Mutate(t, op, fp, exp, verdict, effect) ==
    /\ tasks[t].rev < MaxRevision[t]
    /\ Outcome(t, op, fp, exp, UsedIds(tasks[t]), verdict) = "ok"
    /\ tasks' = [tasks EXCEPT ![t] = Logged(effect, op, fp)]
    /\ UNCHANGED artifacts

-----------------------------------------------------------------------------
(* Operations.  A Verdict operator gives the early returns of the update   *)
(* closure in their order, an Effect operator the task it leaves.          *)

CreateAllowed(t, parent) ==
    /\ tasks[t].state = "absent"
    /\ parent # None => Readable(tasks[parent]) /\ ~Terminal(tasks[parent].state)

Create(t, op, creator, assignee, reviewer, parent) ==
    /\ CreateAllowed(t, parent)
    /\ tasks' = [tasks EXCEPT ![t] =
          [NoTask EXCEPT !.state = "todo", !.rev = 1, !.contract = 1,
                         !.creator = creator, !.assignee = assignee,
                         !.reviewer = reviewer, !.parent = parent,
                         !.ledger = {Entry(op, <<"create", creator, assignee, reviewer, parent>>)}]]
    /\ UNCHANGED artifacts

(* Mutant: a live claim does not refuse the next one.                      *)
ClaimVerdictTakesOver(task, owner) ==
    IF task.state \notin {"todo", "in_progress"} THEN "transition"
    ELSE IF task.assignee \notin {None, owner} THEN "refused"
    ELSE "ok"

ClaimVerdict(task, owner) ==
    IF task.state \notin {"todo", "in_progress"} THEN "transition"
    ELSE IF task.assignee \notin {None, owner} THEN "refused"
    ELSE IF Live(task.claim) THEN "lease"
    ELSE "ok"

ClaimEffect(task, owner, lease) ==
    [task EXCEPT !.state = "in_progress", !.assignee = owner,
                 !.claim = NewClaim(owner, lease)]

Claim(t, op, owner, lease, exp) ==
    Mutate(t, op, <<"claim", owner, lease>>, exp,
           ClaimVerdict(tasks[t], owner), ClaimEffect(tasks[t], owner, lease))

RenewVerdict(task, owner, lease) ==
    IF task.state = "in_progress" /\ ValidClaim(task, owner, lease) THEN "ok" ELSE "lease"

RenewEffect(task) == [task EXCEPT !.claim.left = "long"]

Renew(t, op, owner, lease, exp) ==
    Mutate(t, op, <<"renew", owner, lease>>, exp,
           RenewVerdict(tasks[t], owner, lease), RenewEffect(tasks[t]))

(* Mutant: the contract may be revised during review.                      *)
ReviseVerdictInReview(task, actor) ==
    IF Terminal(task.state) THEN "transition"
    ELSE IF actor # task.creator THEN "refused"
    ELSE "ok"

ReviseVerdict(task, actor) ==
    IF task.state \notin {"todo", "in_progress"} THEN "transition"
    ELSE IF actor # task.creator THEN "refused"
    ELSE "ok"

ReviseEffect(task, reviewer) ==
    [task EXCEPT !.reviewer = reviewer, !.contract = @ + 1]

ReviseContract(t, op, actor, reviewer, exp) ==
    Mutate(t, op, <<"revise_contract", actor, reviewer>>, exp,
           ReviseVerdict(tasks[t], actor), ReviseEffect(tasks[t], reviewer))

(* Mutant: an existing artifact file is overwritten.                       *)
ArtifactVerdictOverwrites(task, owner, lease, k) ==
    IF task.state = "in_progress" /\ ValidClaim(task, owner, lease) THEN "ok" ELSE "lease"

(* AddArtifact does not go through mutate: it never asks whether op was    *)
(* already used with other semantics (no id is taken).  An existing file   *)
(* always differs from the new record, whose CreatedAt is this moment.     *)
ArtifactVerdict(task, owner, lease, k) ==
    IF ~(task.state = "in_progress" /\ ValidClaim(task, owner, lease)) THEN "lease"
    ELSE IF Stored(k) THEN "refused"
    ELSE "ok"

ArtifactFp(owner, lease, k, digest) == <<"add_artifact", owner, lease, k, digest>>

ArtifactOutcome(t, op, owner, lease, k, digest, exp) ==
    Outcome(t, op, ArtifactFp(owner, lease, k, digest), exp, {},
            ArtifactVerdict(tasks[t], owner, lease, k))

ArtifactEffect(task, k, digest) ==
    [task EXCEPT !.refs = @ \cup {[key |-> k, digest |-> digest]}]

(* The artifact file is written first, then the task that refers to it.    *)
StoreArtifact(t, owner, k, digest) ==
    artifacts' = [artifacts EXCEPT ![k] = [task |-> t, digest |-> digest, producer |-> owner]]

AddArtifact(t, op, owner, lease, k, digest, exp) ==
    /\ tasks[t].rev < MaxRevision[t]
    /\ ArtifactOutcome(t, op, owner, lease, k, digest, exp) = "ok"
    /\ StoreArtifact(t, owner, k, digest)
    /\ tasks' = [tasks EXCEPT ![t] =
          Logged(ArtifactEffect(tasks[t], k, digest), op, ArtifactFp(owner, lease, k, digest))]

(* The process dies between the two writes.                                *)
AddArtifactCrash(t, op, owner, lease, k, digest, exp) ==
    /\ ArtifactOutcome(t, op, owner, lease, k, digest, exp) = "ok"
    /\ StoreArtifact(t, owner, k, digest)
    /\ UNCHANGED tasks

(* A handoff [contract, author, refs]; the store adds the revision at      *)
(* which it was accepted (the revision of its ledger entry).               *)
HandoffFits(task, owner, handoff) ==
    /\ handoff.contract = task.contract
    /\ handoff.author = owner
    /\ handoff.refs # {}
    /\ handoff.refs \subseteq task.refs

(* Mutant: children nobody has claimed yet do not hold the parent back.    *)
SubmitVerdictIgnoresTodo(t, owner, lease, handoff) ==
    IF tasks[t].state # "in_progress" THEN "transition"
    ELSE IF ~ValidClaim(tasks[t], owner, lease) THEN "lease"
    ELSE IF ~HandoffFits(tasks[t], owner, handoff) THEN "refused"
    ELSE IF \E c \in Children(t) : tasks[c].state \in {"in_progress", "in_review"} THEN "transition"
    ELSE "ok"

(* childrenUnlocked reads every task file, so one unreadable task refuses  *)
(* every submission.                                                       *)
SubmitVerdict(t, owner, lease, handoff) ==
    IF tasks[t].state # "in_progress" THEN "transition"
    ELSE IF ~ValidClaim(tasks[t], owner, lease) THEN "lease"
    ELSE IF ~HandoffFits(tasks[t], owner, handoff) THEN "refused"
    ELSE IF \E u \in TaskIds : tasks[u].state # "absent" /\ ~Readable(tasks[u]) THEN "unreadable"
    ELSE IF \E c \in Children(t) : ~Terminal(tasks[c].state) THEN "transition"
    ELSE "ok"

SubmitEffect(task, handoff) ==
    [task EXCEPT !.state = "in_review", !.claim = NoClaim,
                 !.subs = Append(@, [contract |-> handoff.contract, author |-> handoff.author,
                                     refs |-> handoff.refs, at |-> task.rev + 1])]

SubmitFp(owner, lease, handoff) == <<"submit", owner, lease, handoff>>

Submit(t, op, owner, lease, handoff, exp) ==
    Mutate(t, op, SubmitFp(owner, lease, handoff), exp,
           SubmitVerdict(t, owner, lease, handoff), SubmitEffect(tasks[t], handoff))

(* A gate result [decision, reviewer, refs]; basis is the task revision    *)
(* the reviewer had read, which the caller sends as ExpectedRevision.      *)
ReviewVerdict(task, result) ==
    IF task.state # "in_review" \/ task.subs = <<>> THEN "transition"
    ELSE IF result.reviewer # task.reviewer THEN "refused"
    ELSE IF result.refs # LatestSub(task).refs THEN "refused"
    ELSE "ok"

(* Mutant: escalation is made a state of its own.                          *)
AfterReviewEscalates(decision) ==
    CASE decision = "pass" -> "done"
      [] decision = "reject" -> "in_progress"
      [] decision = "needs_human" -> "needs_human"

AfterReview(decision) ==
    CASE decision = "pass" -> "done"
      [] decision = "reject" -> "in_progress"
      [] decision = "needs_human" -> "in_review"

ReviewEffect(task, result, basis) ==
    [task EXCEPT !.state = AfterReview(result.decision),
                 !.claim = IF result.decision = "reject" THEN NoClaim ELSE @,
                 !.reviews = Append(@, [decision |-> result.decision, reviewer |-> result.reviewer,
                                        refs |-> result.refs, basis |-> basis])]

ReviewFp(result) == <<"review", result>>

Review(t, op, result, exp) ==
    Mutate(t, op, ReviewFp(result), exp,
           ReviewVerdict(tasks[t], result), ReviewEffect(tasks[t], result, exp))

(* Mutant: a finished task can be closed.                                  *)
CloseVerdictAnyState(task, actor) == IF actor # task.creator THEN "refused" ELSE "ok"

CloseVerdict(task, actor) ==
    IF Terminal(task.state) THEN "transition"
    ELSE IF actor # task.creator THEN "refused"
    ELSE "ok"

CloseEffect(task) == [task EXCEPT !.state = "closed", !.claim = NoClaim]

Close(t, op, actor, exp) ==
    Mutate(t, op, <<"close", actor>>, exp,
           CloseVerdict(tasks[t], actor), CloseEffect(tasks[t]))

(* Time passes over a claim.                                               *)
AgeClaim(t) ==
    /\ Live(tasks[t].claim)
    /\ tasks' = [tasks EXCEPT ![t].claim = Aged(@)]
    /\ UNCHANGED artifacts

-----------------------------------------------------------------------------
(* The store and its callers.  Operation ids are numbered per task in the  *)
(* order of first use: a fresh one is rev + 1, names carry no meaning, and *)
(* the id of the creation stands for any that has been used before.  A     *)
(* caller expects a revision that the task has had.                        *)

FreshOp(t) == tasks[t].rev + 1
AnyOp(t) == {1, FreshOp(t)}
Revisions(t) == 1..tasks[t].rev
Refs == [key : ArtifactKeys, digest : Digests]
Handoffs(t, owner) ==
    [contract : 1..tasks[t].contract, author : {owner}, refs : SUBSET tasks[t].refs]
Results(t, reviewer) ==
    [decision : Decisions, reviewer : {reviewer}, refs : SUBSET tasks[t].refs]

Init ==
    /\ tasks = [t \in TaskIds |-> NoTask]
    /\ artifacts = [k \in ArtifactKeys |-> NoArtifact]

CreateStep(t) == \E creator, reviewer \in Actors, assignee \in Actors \cup {None},
                     parent \in (TaskIds \ {t}) \cup {None} :
                    Create(t, FreshOp(t), creator, assignee, reviewer, parent)
ClaimStep(t) == \E owner \in Actors, lease \in LeaseIds, exp \in Revisions(t) :
                    Claim(t, FreshOp(t), owner, lease, exp)
RenewStep(t) == \E owner \in Actors, lease \in LeaseIds, exp \in Revisions(t) :
                    Renew(t, FreshOp(t), owner, lease, exp)
ReviseStep(t) == \E actor, reviewer \in Actors, exp \in Revisions(t) :
                    ReviseContract(t, FreshOp(t), actor, reviewer, exp)
ArtifactStep(t) == \E op \in AnyOp(t), owner \in Actors, lease \in LeaseIds,
                      k \in ArtifactKeys, digest \in Digests, exp \in Revisions(t) :
                    \/ AddArtifact(t, op, owner, lease, k, digest, exp)
                    \/ AddArtifactCrash(t, op, owner, lease, k, digest, exp)
SubmitStep(t) == \E owner \in Actors, lease \in LeaseIds, exp \in Revisions(t) :
                    \E handoff \in Handoffs(t, owner) :
                        Submit(t, FreshOp(t), owner, lease, handoff, exp)
ReviewStep(t) == \E reviewer \in Actors, exp \in Revisions(t) :
                    \E result \in Results(t, reviewer) :
                        Review(t, FreshOp(t), result, exp)
CloseStep(t) == \E actor \in Actors, exp \in Revisions(t) : Close(t, FreshOp(t), actor, exp)

Next == \E t \in TaskIds :
    \/ CreateStep(t) \/ ClaimStep(t) \/ RenewStep(t) \/ ReviseStep(t)
    \/ ArtifactStep(t) \/ SubmitStep(t) \/ ReviewStep(t) \/ CloseStep(t)
    \/ AgeClaim(t)

Spec == Init /\ [][Next]_vars

-----------------------------------------------------------------------------
(* Properties.                                                             *)

Claims == [owner : Actors \cup {None}, lease : LeaseIds \cup {None},
           left : {"long", "short", "gone"}]
Submissions == [contract : Nat, author : Actors, refs : SUBSET Refs, at : Nat]
Reviews == [decision : Decisions, reviewer : Actors, refs : SUBSET Refs, basis : Nat]

HandoffRecords == [contract : Nat, author : Actors, refs : SUBSET Refs]
ResultRecords == [decision : Decisions, reviewer : Actors, refs : SUBSET Refs]
Fingerprints ==
    ({"create"} \X Actors \X (Actors \cup {None}) \X Actors \X (TaskIds \cup {None}))
    \cup ({"claim", "renew"} \X Actors \X LeaseIds)
    \cup ({"revise_contract"} \X Actors \X Actors)
    \cup ({"add_artifact"} \X Actors \X LeaseIds \X ArtifactKeys \X Digests)
    \cup ({"submit"} \X Actors \X LeaseIds \X HandoffRecords)
    \cup ({"review"} \X ResultRecords)
    \cup ({"close"} \X Actors)

Tasks ==
    [state : TaskStates, rev : Nat, contract : Nat, creator : Actors \cup {None},
     assignee : Actors \cup {None}, reviewer : Actors \cup {None},
     parent : TaskIds \cup {None}, claim : Claims, refs : SUBSET Refs,
     subs : Seq(Submissions), reviews : Seq(Reviews),
     ledger : SUBSET [id : Nat, fp : Fingerprints]]

ArtifactFiles ==
    [task : TaskIds \cup {None}, digest : Digests \cup {None}, producer : Actors \cup {None}]

(* Every task and artifact file holds values of the types of types.go.     *)
TypeOK ==
    /\ tasks \in [TaskIds -> Tasks]
    /\ artifacts \in [ArtifactKeys -> ArtifactFiles]

(* A claim is held only while the task is in progress: submitting,         *)
(* rejecting and closing all give it up, so a worker that lost the task    *)
(* to review or closure has no lease left to attach or submit with.        *)
ClaimOnlyInProgress ==
    \A t \in TaskIds : tasks[t].claim # NoClaim => tasks[t].state = "in_progress"

(* A task in review or done carries a handoff that binds its current       *)
(* contract revision and only artifacts attached to it: revising the       *)
(* contract can never slip under a pending or finished review.             *)
ReviewBindsContract ==
    \A t \in TaskIds : tasks[t].state \in {"in_review", "done"} =>
        /\ tasks[t].subs # <<>>
        /\ LatestSub(tasks[t]).contract = tasks[t].contract
        /\ LatestSub(tasks[t]).refs \subseteq tasks[t].refs

(* Done means the gate's current reviewer passed the latest handoff, with  *)
(* exactly its artifacts, having read the task at or after the revision    *)
(* that handoff created: a verdict formed on an earlier round of review    *)
(* never finishes a later one, even with the same artifacts.               *)
DoneWasReviewed ==
    \A t \in TaskIds : tasks[t].state = "done" =>
        /\ tasks[t].reviews # <<>>
        /\ LatestReview(tasks[t]).decision = "pass"
        /\ LatestReview(tasks[t]).reviewer = tasks[t].reviewer
        /\ LatestReview(tasks[t]).refs = LatestSub(tasks[t]).refs
        /\ LatestReview(tasks[t]).basis >= LatestSub(tasks[t]).at

(* No task refers to an artifact file that is missing, belongs to another  *)
(* task or has another digest, whatever crash falls between the two        *)
(* writes of AddArtifact.                                                  *)
RefsResolve ==
    \A t \in TaskIds : \A ref \in tasks[t].refs :
        artifacts[ref.key].task = t /\ artifacts[ref.key].digest = ref.digest

(* The operation ledger reaches the revision and repeats no operation id:  *)
(* each task file can be read again.                                       *)
TasksReadable ==
    \A t \in TaskIds : tasks[t].state # "absent" => Readable(tasks[t])

(* A parent enters review only when all its children are done or closed.   *)
ParentWaits ==
    [][\A t \in TaskIds :
          tasks[t].state # "in_review" /\ tasks'[t].state = "in_review"
             => \A c \in Children(t) : Terminal(tasks[c].state)]_vars

(* A live claim is never taken over: it ends by its holder's submission,   *)
(* by closing the task, or by running out of time.                         *)
LiveClaimIsExclusive ==
    [][\A t \in TaskIds :
          Live(tasks[t].claim) /\ Live(tasks'[t].claim)
             => tasks'[t].claim.owner = tasks[t].claim.owner
                /\ tasks'[t].claim.lease = tasks[t].claim.lease]_vars

(* A done or closed task is never written again, and an artifact file,     *)
(* once written, never changes: evidence a review rested on stays.         *)
RecordsStay ==
    [][/\ \A t \in TaskIds : Terminal(tasks[t].state) => tasks'[t] = tasks[t]
       /\ \A k \in ArtifactKeys : Stored(k) => artifacts'[k] = artifacts[k]]_vars
=============================================================================
