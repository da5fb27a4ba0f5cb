--------------------------- MODULE DispatcherProofs ---------------------------
(* Theorems about the dispatcher over the two stores, for any number of    *)
(* tasks, executions, attempts, devices and any disturbance.               *)
EXTENDS Dispatcher, SequenceTheorems, FiniteSetTheorems, TLAPS

-----------------------------------------------------------------------------
(* Shapes.  The proofs need the fields of a record and not their types.    *)

Elems(s) == {s[i] : i \in DOMAIN s}

TaskShape(r) ==
    r \in [state : {r.state}, rev : {r.rev}, contract : {r.contract}, creator : {r.creator},
           assignee : {r.assignee}, reviewer : {r.reviewer}, parent : {r.parent},
           claim : {r.claim}, refs : {r.refs}, subs : {r.subs}, reviews : {r.reviews},
           ledger : {r.ledger}]

IsTask(r) ==
    /\ TaskShape(r)
    /\ r.reviewer \in Reviewers
    /\ r.subs \in Seq(Elems(r.subs))

IsCommand(r) ==
    r \in [op : {r.op}, kind : {r.kind}, computer : {r.computer}, agent : {r.agent},
           run : {r.run}, request : {r.request}, state : {r.state},
           delivery : {r.delivery}, result : {r.result}]

IsLease(r) ==
    r \in [agent : {r.agent}, computer : {r.computer}, lease : {r.lease}, live : BOOLEAN]

Whole(files) == files = [k \in ArtifactKeys |-> files[k]]

Stores ==
    /\ tasks = [t \in TaskIds |-> tasks[t]]
    /\ \A t \in TaskIds : IsTask(tasks[t])
    /\ Whole(artifacts)

Registry ==
    /\ runLeases = [run \in Runs |-> runLeases[run]]
    /\ \A run \in Runs : IsLease(runLeases[run])
    /\ bindings = [a \in Agents |-> bindings[a]]
    /\ commands \in Seq(Elems(commands))
    /\ \A i \in DOMAIN commands : IsCommand(commands[i])

(* What an operation on a task leaves of it: the history of handoffs only  *)
(* grows, and the ledger by the operation.                                 *)
Follows(task, next, op, fp) ==
    /\ IsTask(next)
    /\ \A i \in DOMAIN task.subs : i \in DOMAIN next.subs /\ next.subs[i] = task.subs[i]
    /\ next.ledger = task.ledger \cup {W!Entry(op, fp)}
    /\ fp[1] = "submit" => \E i \in DOMAIN next.subs : next.subs[i].refs = fp[4].refs
    /\ fp[1] = "close" => W!Terminal(next.state)

(* A sequence is one of its own elements.                                  *)
LEMMA ElemsOfSeq ==
    ASSUME NEW S, NEW s \in Seq(S)
    PROVE  s \in Seq(Elems(s))
  <1>1. \A i \in 1..Len(s) : s[i] \in Elems(s)
    BY DEF Elems
  <1> QED BY <1>1

(* An append keeps what a sequence has (Append of Go).                     *)
LEMMA Appended ==
    ASSUME NEW s, s \in Seq(Elems(s)), NEW e
    PROVE  /\ Append(s, e) \in Seq(Elems(Append(s, e)))
           /\ \A i \in DOMAIN s : i \in DOMAIN Append(s, e) /\ Append(s, e)[i] = s[i]
           /\ \E i \in DOMAIN Append(s, e) : Append(s, e)[i] = e
           /\ \A i \in DOMAIN Append(s, e) : i \in DOMAIN s \/ Append(s, e)[i] = e
  <1> DEFINE S == Elems(s) \cup {e}
             t == Append(s, e)
  <1>1. s \in Seq(S)
    BY DEF Elems
  <1>2. t \in Seq(S)
    BY <1>1
  <1>3. \A i \in DOMAIN s : i \in DOMAIN t /\ t[i] = s[i]
    BY <1>1
  <1>4. Len(s) + 1 \in DOMAIN t /\ t[Len(s) + 1] = e
    BY <1>1
  <1>5. \A i \in DOMAIN t : i \in DOMAIN s \/ t[i] = e
    BY <1>1
  <1>6. \A i \in 1..Len(t) : t[i] \in Elems(t)
    BY <1>2 DEF Elems
  <1>7. t \in Seq(Elems(t))
    BY <1>2, <1>6
  <1> QED BY <1>3, <1>4, <1>5, <1>7

(* Logging an operation adds its entry and touches no handoff.             *)
LEMMA LoggedTask ==
    ASSUME NEW task, IsTask(task), NEW op, NEW fp
    PROVE  /\ IsTask(W!Logged(task, op, fp))
           /\ W!Logged(task, op, fp).state = task.state
           /\ W!Logged(task, op, fp).subs = task.subs
           /\ W!Logged(task, op, fp).ledger = task.ledger \cup {W!Entry(op, fp)}
  <1> DEFINE q == [task EXCEPT !.rev = @ + 1, !.ledger = @ \cup {W!Entry(op, fp)}]
  <1>1. /\ TaskShape(q) /\ q.reviewer = task.reviewer /\ q.subs = task.subs
        /\ q.state = task.state /\ q.ledger = task.ledger \cup {W!Entry(op, fp)}
    BY DEF IsTask, TaskShape
  <1> QED BY <1>1 DEF W!Logged, IsTask

(* What the effects of the operations leave alone, one by one.             *)
LEMMA ClaimKeeps ==
    ASSUME NEW task, IsTask(task), NEW owner, NEW lease
    PROVE  LET next == W!ClaimEffect(task, owner, lease)
           IN  /\ IsTask(next) /\ next.subs = task.subs /\ next.ledger = task.ledger
               /\ next.state = "in_progress"
  BY DEF IsTask, TaskShape, W!ClaimEffect

(* Renew extends the claim of a task and nothing else.                     *)
LEMMA RenewKeeps ==
    ASSUME NEW task, IsTask(task)
    PROVE  LET next == W!RenewEffect(task)
           IN  /\ IsTask(next) /\ next.subs = task.subs /\ next.ledger = task.ledger
               /\ next.state = task.state
  BY DEF IsTask, TaskShape, W!RenewEffect

(* ReviseContract gives a task new terms and perhaps a reviewer.           *)
LEMMA ReviseKeeps ==
    ASSUME NEW task, IsTask(task), NEW reviewer \in Reviewers
    PROVE  LET next == W!ReviseEffect(task, reviewer)
           IN  /\ IsTask(next) /\ next.subs = task.subs /\ next.ledger = task.ledger
               /\ next.state = task.state
  BY DEF IsTask, TaskShape, W!ReviseEffect

(* AddArtifact adds a reference to the task.                               *)
LEMMA ArtifactKeeps ==
    ASSUME NEW task, IsTask(task), NEW k, NEW digest
    PROVE  LET next == W!ArtifactEffect(task, k, digest)
           IN  /\ IsTask(next) /\ next.subs = task.subs /\ next.ledger = task.ledger
               /\ next.state = task.state
  BY DEF IsTask, TaskShape, W!ArtifactEffect

(* Review moves a task where the decision says.                            *)
LEMMA ReviewKeeps ==
    ASSUME NEW task, IsTask(task), NEW result, NEW basis
    PROVE  LET next == W!ReviewEffect(task, result, basis)
           IN  /\ IsTask(next) /\ next.subs = task.subs /\ next.ledger = task.ledger
               /\ next.state = W!AfterReview(result.decision)
  BY DEF IsTask, TaskShape, W!ReviewEffect

(* Close ends a task and drops its claim.                                  *)
LEMMA CloseKeeps ==
    ASSUME NEW task, IsTask(task)
    PROVE  LET next == W!CloseEffect(task)
           IN  /\ IsTask(next) /\ next.subs = task.subs /\ next.ledger = task.ledger
               /\ next.state = "closed"
  BY DEF IsTask, TaskShape, W!CloseEffect

(* Handing over adds a handoff.                                            *)
HandsOver(task, next, handoff) ==
    /\ IsTask(next) /\ next.ledger = task.ledger /\ next.state = "in_review"
    /\ \A i \in DOMAIN task.subs : i \in DOMAIN next.subs /\ next.subs[i] = task.subs[i]
    /\ \E i \in DOMAIN next.subs : next.subs[i].refs = handoff.refs

(* Submit appends the handoff to those the task has had.                   *)
LEMMA SubmitKeeps ==
    ASSUME NEW task, IsTask(task), NEW handoff
    PROVE  HandsOver(task, W!SubmitEffect(task, handoff), handoff)
  <1> DEFINE e == [contract |-> handoff.contract, author |-> handoff.author,
                   refs |-> handoff.refs, at |-> task.rev + 1]
             next == W!SubmitEffect(task, handoff)
  <1>1. /\ TaskShape(next) /\ next.reviewer = task.reviewer /\ next.ledger = task.ledger
        /\ next.state = "in_review" /\ next.subs = Append(task.subs, e)
    BY DEF IsTask, TaskShape, W!SubmitEffect
  <1>2. e.refs = handoff.refs
    OBVIOUS
  <1> HIDE DEF e, next
  <1>3. task.subs \in Seq(Elems(task.subs)) /\ task.reviewer \in Reviewers
    BY DEF IsTask
  <1>4. /\ next.subs \in Seq(Elems(next.subs))
        /\ \A i \in DOMAIN task.subs : i \in DOMAIN next.subs /\ next.subs[i] = task.subs[i]
        /\ \E i \in DOMAIN next.subs : next.subs[i] = e
    BY <1>1, <1>3, Appended
  <1> QED BY <1>1, <1>2, <1>3, <1>4 DEF IsTask, HandsOver, next

(* One operation wrote task t.                                             *)
Wrote(t, op, fp) ==
    /\ ~W!Terminal(tasks[t].state)
    /\ tasks' = [u \in TaskIds |-> IF u = t THEN tasks'[t] ELSE tasks[u]]
    /\ Follows(tasks[t], tasks'[t], op, fp)

(* The tail of mutate: one write, of a task that was not over if the       *)
(* operation's checks refuse one that is.                                  *)
LEMMA Mutated ==
    ASSUME Stores, NEW t \in TaskIds, NEW op, NEW fp, NEW exp, NEW verdict, NEW effect,
           W!Mutate(t, op, fp, exp, verdict, effect),
           IsTask(effect), effect.ledger = tasks[t].ledger,
           \A i \in DOMAIN tasks[t].subs :
               i \in DOMAIN effect.subs /\ effect.subs[i] = tasks[t].subs[i],
           fp[1] = "submit" => \E i \in DOMAIN effect.subs : effect.subs[i].refs = fp[4].refs,
           fp[1] = "close" => W!Terminal(effect.state),
           verdict = "ok" => ~W!Terminal(tasks[t].state)
    PROVE  Wrote(t, op, fp) /\ artifacts' = artifacts
  <1> DEFINE next == W!Logged(effect, op, fp)
  <1>1. tasks' = [tasks EXCEPT ![t] = next] /\ artifacts' = artifacts
    BY DEF W!Mutate
  <1>2. verdict = "ok"
    BY DEF W!Mutate, W!Outcome
  <1>3. IsTask(next) /\ next.state = effect.state /\ next.subs = effect.subs
        /\ next.ledger = effect.ledger \cup {W!Entry(op, fp)}
    BY LoggedTask
  <1> HIDE DEF next
  <1>4. tasks'[t] = next /\ tasks' = [u \in TaskIds |-> IF u = t THEN next ELSE tasks[u]]
    BY <1>1 DEF Stores
  <1>5. Follows(tasks[t], next, op, fp)
    BY <1>3 DEF Follows
  <1> QED BY <1>1, <1>2, <1>4, <1>5 DEF Wrote

(* Operation by operation, as the dispatcher and the API call them.        *)
LEMMA ClaimWrites ==
    ASSUME Stores, NEW t \in TaskIds, NEW op, NEW owner, NEW lease, NEW exp,
           W!Claim(t, op, owner, lease, exp)
    PROVE  Wrote(t, op, <<"claim", owner, lease>>) /\ artifacts' = artifacts
  <1>1. IsTask(tasks[t])
    BY DEF Stores
  <1> DEFINE effect == W!ClaimEffect(tasks[t], owner, lease)
             verdict == W!ClaimVerdict(tasks[t], owner)
             fp == <<"claim", owner, lease>>
  <1>2. verdict = "ok" => ~W!Terminal(tasks[t].state)
    BY DEF W!ClaimVerdict, W!Terminal
  <1>3. W!Mutate(t, op, fp, exp, verdict, effect)
    BY DEF W!Claim
  <1>4. IsTask(effect) /\ effect.subs = tasks[t].subs /\ effect.ledger = tasks[t].ledger
    BY <1>1, ClaimKeeps
  <1>5. fp[1] = "claim"
    OBVIOUS
  <1> HIDE DEF effect, verdict, fp
  <1> QED BY <1>2, <1>3, <1>4, <1>5, Mutated DEF fp

(* A renewal is one write of a task that is not over.                      *)
LEMMA RenewWrites ==
    ASSUME Stores, NEW t \in TaskIds, NEW op, NEW owner, NEW lease, NEW exp,
           W!Renew(t, op, owner, lease, exp)
    PROVE  Wrote(t, op, <<"renew", owner, lease>>) /\ artifacts' = artifacts
  <1>1. IsTask(tasks[t])
    BY DEF Stores
  <1> DEFINE effect == W!RenewEffect(tasks[t])
             verdict == W!RenewVerdict(tasks[t], owner, lease)
             fp == <<"renew", owner, lease>>
  <1>2. verdict = "ok" => ~W!Terminal(tasks[t].state)
    BY DEF W!RenewVerdict, W!Terminal
  <1>3. W!Mutate(t, op, fp, exp, verdict, effect)
    BY DEF W!Renew
  <1>4. IsTask(effect) /\ effect.subs = tasks[t].subs /\ effect.ledger = tasks[t].ledger
    BY <1>1, RenewKeeps
  <1>5. fp[1] = "renew"
    OBVIOUS
  <1> HIDE DEF effect, verdict, fp
  <1> QED BY <1>2, <1>3, <1>4, <1>5, Mutated DEF fp

(* A revised contract is one write of a task that is not over.             *)
LEMMA ReviseWrites ==
    ASSUME Stores, NEW t \in TaskIds, NEW op, NEW actor, NEW reviewer \in Reviewers, NEW exp,
           W!ReviseContract(t, op, actor, reviewer, exp)
    PROVE  Wrote(t, op, <<"revise_contract", actor, reviewer>>) /\ artifacts' = artifacts
  <1>1. IsTask(tasks[t])
    BY DEF Stores
  <1> DEFINE effect == W!ReviseEffect(tasks[t], reviewer)
             verdict == W!ReviseVerdict(tasks[t], actor)
             fp == <<"revise_contract", actor, reviewer>>
  <1>2. verdict = "ok" => ~W!Terminal(tasks[t].state)
    BY DEF W!ReviseVerdict, W!Terminal
  <1>3. W!Mutate(t, op, fp, exp, verdict, effect)
    BY DEF W!ReviseContract
  <1>4. IsTask(effect) /\ effect.subs = tasks[t].subs /\ effect.ledger = tasks[t].ledger
    BY <1>1, ReviseKeeps
  <1>5. fp[1] = "revise_contract"
    OBVIOUS
  <1> HIDE DEF effect, verdict, fp
  <1> QED BY <1>2, <1>3, <1>4, <1>5, Mutated DEF fp

(* A handoff is one write of a task that is not over.                      *)
LEMMA SubmitWrites ==
    ASSUME Stores, NEW t \in TaskIds, NEW op, NEW owner, NEW lease, NEW handoff, NEW exp,
           W!Submit(t, op, owner, lease, handoff, exp)
    PROVE  Wrote(t, op, W!SubmitFp(owner, lease, handoff)) /\ artifacts' = artifacts
  <1>1. IsTask(tasks[t])
    BY DEF Stores
  <1> DEFINE effect == W!SubmitEffect(tasks[t], handoff)
             verdict == W!SubmitVerdict(t, owner, lease, handoff)
             fp == W!SubmitFp(owner, lease, handoff)
  <1>2. verdict = "ok" => ~W!Terminal(tasks[t].state)
    BY DEF W!SubmitVerdict, W!Terminal
  <1>3. W!Mutate(t, op, fp, exp, verdict, effect)
    BY DEF W!Submit
  <1>4. /\ IsTask(effect) /\ effect.ledger = tasks[t].ledger
        /\ \A i \in DOMAIN tasks[t].subs :
               i \in DOMAIN effect.subs /\ effect.subs[i] = tasks[t].subs[i]
        /\ \E i \in DOMAIN effect.subs : effect.subs[i].refs = handoff.refs
    <2>1. HandsOver(tasks[t], effect, handoff)
      BY <1>1, SubmitKeeps
    <2> HIDE DEF effect
    <2> QED BY <2>1 DEF HandsOver
  <1>5. fp[1] = "submit" /\ fp[4] = handoff
    BY DEF W!SubmitFp
  <1> HIDE DEF effect, verdict, fp
  <1>6. /\ fp[1] = "submit" => \E i \in DOMAIN effect.subs : effect.subs[i].refs = fp[4].refs
        /\ fp[1] = "close" => W!Terminal(effect.state)
    BY <1>4, <1>5
  <1> QED BY <1>2, <1>3, <1>4, <1>6, Mutated DEF fp

(* A gate result is one write of a task that is not over.                  *)
LEMMA ReviewWrites ==
    ASSUME Stores, NEW t \in TaskIds, NEW op, NEW result, NEW exp,
           W!Review(t, op, result, exp)
    PROVE  Wrote(t, op, W!ReviewFp(result)) /\ artifacts' = artifacts
  <1>1. IsTask(tasks[t])
    BY DEF Stores
  <1> DEFINE effect == W!ReviewEffect(tasks[t], result, exp)
             verdict == W!ReviewVerdict(tasks[t], result)
             fp == W!ReviewFp(result)
  <1>2. verdict = "ok" => ~W!Terminal(tasks[t].state)
    BY DEF W!ReviewVerdict, W!Terminal
  <1>3. W!Mutate(t, op, fp, exp, verdict, effect)
    BY DEF W!Review
  <1>4. IsTask(effect) /\ effect.subs = tasks[t].subs /\ effect.ledger = tasks[t].ledger
    BY <1>1, ReviewKeeps
  <1>5. fp[1] = "review"
    BY DEF W!ReviewFp
  <1> HIDE DEF effect, verdict, fp
  <1> QED BY <1>2, <1>3, <1>4, <1>5, Mutated DEF fp

(* Closing is the last write of a task: the task is over then.             *)
LEMMA CloseWrites ==
    ASSUME Stores, NEW t \in TaskIds, NEW op, NEW actor, NEW exp,
           W!Close(t, op, actor, exp)
    PROVE  /\ Wrote(t, op, <<"close", actor>>) /\ artifacts' = artifacts
           /\ W!Terminal(tasks'[t].state)
  <1>1. IsTask(tasks[t])
    BY DEF Stores
  <1> DEFINE effect == W!CloseEffect(tasks[t])
             verdict == W!CloseVerdict(tasks[t], actor)
             fp == <<"close", actor>>
  <1>2. verdict = "ok" => ~W!Terminal(tasks[t].state)
    BY DEF W!CloseVerdict
  <1>3. W!Mutate(t, op, fp, exp, verdict, effect)
    BY DEF W!Close
  <1>4. /\ IsTask(effect) /\ effect.subs = tasks[t].subs /\ effect.ledger = tasks[t].ledger
        /\ effect.state = "closed"
    BY <1>1, CloseKeeps
  <1>5. fp[1] = "close"
    OBVIOUS
  <1>6. W!Terminal(effect.state)
    BY <1>4 DEF W!Terminal
  <1> HIDE DEF effect, verdict, fp
  <1>7. Wrote(t, op, fp) /\ artifacts' = artifacts
    BY <1>2, <1>3, <1>4, <1>5, <1>6, Mutated
  <1>8. W!Terminal(tasks'[t].state)
    BY <1>5, <1>7 DEF Wrote, Follows
  <1> QED BY <1>7, <1>8 DEF fp

(* AddArtifact writes a file that was not there, then the task; a crash    *)
(* between the two leaves the file.                                        *)
Filed(t, k) ==
    /\ ~W!Stored(k)
    /\ W!Stored(k)'
    /\ \A other \in ArtifactKeys \ {k} : artifacts'[other] = artifacts[other]
    /\ Whole(artifacts')

(* AddArtifact writes a file that was not there, and leaves the others.    *)
LEMMA ArtifactFiled ==
    ASSUME Stores, NEW t \in TaskIds, NEW owner, NEW k \in ArtifactKeys, NEW digest,
           ~W!Stored(k), W!StoreArtifact(t, owner, k, digest)
    PROVE  Filed(t, k)
  <1> DEFINE a == [task |-> t, digest |-> digest, producer |-> owner]
  <1>1. a # W!NoArtifact
    <2>1. a.task = t /\ W!NoArtifact.task = None
      BY DEF W!NoArtifact
    <2>2. t # None
      BY NamesAssumption
    <2> QED BY <2>1, <2>2
  <1>2. artifacts' = [artifacts EXCEPT ![k] = a]
    BY DEF W!StoreArtifact
  <1> HIDE DEF a
  <1>3. artifacts' = [other \in ArtifactKeys |-> IF other = k THEN a ELSE artifacts[other]]
    BY <1>2 DEF Stores, Whole
  <1>4. Whole(artifacts')
    BY <1>3 DEF Whole
  <1> QED BY <1>1, <1>3, <1>4 DEF Filed, W!Stored

(* AddArtifact writes the file, and the task that refers to it.            *)
LEMMA ArtifactWrites ==
    ASSUME Stores, NEW t \in TaskIds, NEW op, NEW owner, NEW lease, NEW k \in ArtifactKeys,
           NEW digest, NEW exp, W!AddArtifact(t, op, owner, lease, k, digest, exp)
    PROVE  Wrote(t, op, W!ArtifactFp(owner, lease, k, digest)) /\ Filed(t, k)
  <1>1. IsTask(tasks[t])
    BY DEF Stores
  <1> DEFINE effect == W!ArtifactEffect(tasks[t], k, digest)
             fp == W!ArtifactFp(owner, lease, k, digest)
             next == W!Logged(effect, op, fp)
  <1>2. /\ W!ArtifactVerdict(tasks[t], owner, lease, k) = "ok"
        /\ W!StoreArtifact(t, owner, k, digest)
        /\ tasks' = [tasks EXCEPT ![t] = next]
    BY DEF W!AddArtifact, W!ArtifactOutcome, W!Outcome
  <1>3. ~W!Terminal(tasks[t].state) /\ ~W!Stored(k)
    BY <1>2 DEF W!ArtifactVerdict, W!Terminal
  <1>4. IsTask(effect) /\ effect.subs = tasks[t].subs /\ effect.ledger = tasks[t].ledger
    BY <1>1, ArtifactKeeps
  <1>5. fp[1] = "add_artifact"
    BY DEF W!ArtifactFp
  <1> HIDE DEF effect, fp
  <1>6. /\ IsTask(next) /\ next.subs = tasks[t].subs
        /\ next.ledger = tasks[t].ledger \cup {W!Entry(op, fp)}
    BY <1>4, LoggedTask
  <1> HIDE DEF next
  <1>7. tasks'[t] = next /\ tasks' = [u \in TaskIds |-> IF u = t THEN next ELSE tasks[u]]
    BY <1>2 DEF Stores
  <1>8. Follows(tasks[t], next, op, fp)
    BY <1>5, <1>6 DEF Follows
  <1>9. Filed(t, k)
    BY <1>2, <1>3, ArtifactFiled
  <1> QED BY <1>3, <1>7, <1>8, <1>9 DEF Wrote, fp

(* AddArtifact cut short leaves the file, and the task as it was.          *)
LEMMA ArtifactLeft ==
    ASSUME Stores, NEW t \in TaskIds, NEW op, NEW owner, NEW lease, NEW k \in ArtifactKeys,
           NEW digest, NEW exp, W!AddArtifactCrash(t, op, owner, lease, k, digest, exp)
    PROVE  tasks' = tasks /\ Filed(t, k)
  <1>1. /\ W!ArtifactVerdict(tasks[t], owner, lease, k) = "ok"
        /\ W!StoreArtifact(t, owner, k, digest)
        /\ tasks' = tasks
    BY DEF W!AddArtifactCrash, W!ArtifactOutcome, W!Outcome
  <1>2. ~W!Stored(k)
    BY <1>1 DEF W!ArtifactVerdict
  <1> QED BY <1>1, <1>2, ArtifactFiled

(* Time passes over a claim and over nothing else.                         *)
Aged(t) ==
    /\ tasks' = [u \in TaskIds |-> IF u = t THEN tasks'[t] ELSE tasks[u]]
    /\ IsTask(tasks'[t])
    /\ tasks'[t].state = tasks[t].state
    /\ tasks'[t].subs = tasks[t].subs
    /\ tasks'[t].ledger = tasks[t].ledger

(* A claim that runs out changes nothing that is recorded.                 *)
LEMMA ClaimAged ==
    ASSUME Stores, NEW t \in TaskIds, W!AgeClaim(t)
    PROVE  Aged(t) /\ artifacts' = artifacts
  <1> DEFINE task == tasks[t]
             next == [task EXCEPT !.claim = W!Aged(task.claim)]
  <1>1. tasks' = [tasks EXCEPT ![t] = next] /\ artifacts' = artifacts
    BY DEF W!AgeClaim
  <1>2. IsTask(task)
    BY DEF Stores
  <1> HIDE DEF task
  <1>3. IsTask(next) /\ next.state = task.state /\ next.subs = task.subs
        /\ next.ledger = task.ledger
    BY <1>2 DEF IsTask, TaskShape
  <1> HIDE DEF next
  <1>4. tasks'[t] = next /\ tasks' = [u \in TaskIds |-> IF u = t THEN next ELSE tasks[u]]
    BY <1>1 DEF Stores
  <1> QED BY <1>1, <1>3, <1>4 DEF Aged, task

-----------------------------------------------------------------------------
(* The registry of devices, as far as the dispatcher relies on it: a run   *)
(* has one command, which says what it was queued for and reports only     *)
(* itself; and while its lease lives, its agent stays where the command    *)
(* is.  An operation id is used once, so a run acquires one lease ever.    *)

Verdicts(run) == IF run[2] = "exec" THEN {"pass", "bare", "failure"} ELSE Outcomes \ {"bare"}

Fit(c) ==
    /\ c.state \in {"queued", "sent", "acked", "failed"}
    /\ c.kind = "run_agent" => c.run \in Runs /\ c.op = <<"queue", c.run>>
    /\ c.op[1] = "queue" => c.kind = "run_agent"
    /\ c.kind = "run_agent" /\ c.state = "acked" =>
          c.result.run = c.run /\ c.result.outcome \in Verdicts(c.run)

AtHome(lease, run) ==
    /\ C!Used(<<"acquire", run>>)
    /\ lease.agent \in Agents
    /\ bindings[lease.agent].computer = lease.computer
    /\ \A i \in RunCommands(run) :
          commands[i].agent = lease.agent /\ commands[i].computer = lease.computer

RegistryInv ==
    /\ \A i \in DOMAIN commands : Fit(commands[i])
    /\ \A run \in Runs : \A i, j \in RunCommands(run) : i = j
    /\ \A run \in Runs : RunCommands(run) # {} <=> C!Used(<<"queue", run>>)
    /\ \A run \in Runs : RunCommands(run) # {} => C!Used(<<"acquire", run>>)
    /\ \A run \in Runs : runLeases[run].live => AtHome(runLeases[run], run)

(* What a step makes of the commands there are: they keep what they are    *)
(* for, and a finished one keeps what it reported.                         *)
Keeps(old, new) ==
    /\ IsCommand(new)
    /\ new.op = old.op /\ new.kind = old.kind /\ new.computer = old.computer
    /\ new.agent = old.agent /\ new.run = old.run
    /\ old.state = "acked" => new = old

Grown ==
    /\ commands' \in Seq(Elems(commands'))
    /\ \A i \in DOMAIN commands : i \in DOMAIN commands' /\ Keeps(commands[i], commands'[i])
    /\ \A i \in DOMAIN commands' : IsCommand(commands'[i]) /\ Fit(commands'[i])

NoRun == \A i \in DOMAIN commands' : i \in DOMAIN commands \/ commands'[i].kind # "run_agent"

(* A step that acquires no lease, queues no run and moves nobody at work.  *)
Quieter ==
    /\ Grown /\ NoRun
    /\ \A run \in Runs : runLeases'[run].live =>
          /\ runLeases[run].live
          /\ runLeases'[run] = runLeases[run]
          /\ bindings'[runLeases[run].agent] = bindings[runLeases[run].agent]
    /\ ledger \subseteq ledger'
    /\ \A entry \in ledger' : entry \in ledger \/ entry.id[1] \notin {"queue", "acquire"}

(* Reports stay, whatever becomes of the queue afterwards.                 *)
LEMMA ReportsStay ==
    ASSUME Grown
    PROVE  \A run, outcome : Reported(run, outcome) => Reported(run, outcome)'
  BY DEF Grown, Keeps, Reported, RunCommands

(* The runs of the queue are the same when none is queued.                 *)
LEMMA RunsStay ==
    ASSUME Grown, NoRun
    PROVE  \A run : RunCommands(run)' = RunCommands(run)
  <1> SUFFICES ASSUME NEW run PROVE RunCommands(run)' = RunCommands(run)
    OBVIOUS
  <1>1. \A i \in RunCommands(run) : i \in RunCommands(run)'
    BY DEF Grown, Keeps, RunCommands
  <1>2. \A i \in RunCommands(run)' : i \in RunCommands(run)
    BY DEF Grown, NoRun, Keeps, RunCommands
  <1> QED BY <1>1, <1>2

(* Such steps keep the registry consistent.                                *)
LEMMA QuietRegistry ==
    ASSUME RegistryInv, Quieter
    PROVE  RegistryInv'
  <1>1. \A run : RunCommands(run)' = RunCommands(run)
    BY RunsStay DEF Quieter
  <1>2. \A i \in DOMAIN commands' : Fit(commands'[i])
    BY DEF Quieter, Grown
  <1>3. \A run : C!Used(<<"queue", run>>)' <=> C!Used(<<"queue", run>>)
    BY DEF Quieter, C!Used
  <1>4. \A run : C!Used(<<"acquire", run>>)' <=> C!Used(<<"acquire", run>>)
    BY DEF Quieter, C!Used
  <1>5. ASSUME NEW run \in Runs, runLeases'[run].live
        PROVE  AtHome(runLeases[run], run)'
    <2>1. /\ AtHome(runLeases[run], run) /\ runLeases'[run] = runLeases[run]
          /\ bindings'[runLeases[run].agent] = bindings[runLeases[run].agent]
      BY <1>5 DEF Quieter, RegistryInv
    <2>2. \A i \in RunCommands(run) :
              commands'[i].agent = commands[i].agent /\ commands'[i].computer = commands[i].computer
      BY DEF Quieter, Grown, Keeps, RunCommands
    <2> QED BY <1>1, <1>4, <2>1, <2>2 DEF AtHome
  <1>6. \A run \in Runs : \A i, j \in RunCommands(run)' : i = j
    BY <1>1 DEF RegistryInv
  <1>7. ASSUME NEW run \in Runs
        PROVE  RunCommands(run)' # {} <=> C!Used(<<"queue", run>>)'
    <2>1. RunCommands(run) # {} <=> C!Used(<<"queue", run>>)
      BY DEF RegistryInv
    <2>2. RunCommands(run)' = RunCommands(run)
      BY <1>1
    <2>3. C!Used(<<"queue", run>>)' <=> C!Used(<<"queue", run>>)
      BY <1>3
    <2> QED BY <2>1, <2>2, <2>3
  <1>8. \A run \in Runs : RunCommands(run)' # {} => C!Used(<<"acquire", run>>)'
    BY <1>1, <1>4 DEF RegistryInv
  <1> QED BY <1>2, <1>5, <1>6, <1>7, <1>8 DEF RegistryInv

(* A command that is appended leaves the others as they are.               *)
LEMMA CommandAppended ==
    ASSUME Registry, RegistryInv, NEW c, IsCommand(c), Fit(c), commands' = Append(commands, c)
    PROVE  /\ Grown
           /\ \A i \in DOMAIN commands' : i \in DOMAIN commands \/ commands'[i] = c
           /\ \E i \in DOMAIN commands' : commands'[i] = c
           /\ \A i \in DOMAIN commands : commands'[i] = commands[i]
  <1>1. /\ commands' \in Seq(Elems(commands'))
        /\ \A i \in DOMAIN commands : i \in DOMAIN commands' /\ commands'[i] = commands[i]
        /\ \E i \in DOMAIN commands' : commands'[i] = c
        /\ \A i \in DOMAIN commands' : i \in DOMAIN commands \/ commands'[i] = c
    BY Appended DEF Registry
  <1>2. \A i \in DOMAIN commands : IsCommand(commands[i]) /\ Fit(commands[i])
    BY DEF Registry, RegistryInv
  <1>3. \A i \in DOMAIN commands : Keeps(commands[i], commands'[i])
    BY <1>1, <1>2 DEF Keeps
  <1>4. \A i \in DOMAIN commands' : IsCommand(commands'[i]) /\ Fit(commands'[i])
    BY <1>1, <1>2
  <1> QED BY <1>1, <1>3, <1>4 DEF Grown

(* A command that is replaced by one it may become.                        *)
LEMMA CommandChanged ==
    ASSUME Registry, RegistryInv, NEW i \in DOMAIN commands, NEW c,
           Keeps(commands[i], c), Fit(c), commands' = [commands EXCEPT ![i] = c]
    PROVE  Grown /\ NoRun
  <1> DEFINE S == Elems(commands) \cup {c}
  <1>1. commands \in Seq(S) /\ c \in S
    BY DEF Registry, Elems
  <1>2. commands' \in Seq(S) /\ DOMAIN commands' = DOMAIN commands
    BY <1>1
  <1>3. \A j \in DOMAIN commands : commands'[j] = IF j = i THEN c ELSE commands[j]
    BY <1>1
  <1>4. commands' \in Seq(Elems(commands'))
    <2> HIDE DEF S
    <2> QED BY <1>2, ElemsOfSeq
  <1>5. \A j \in DOMAIN commands : IsCommand(commands[j]) /\ Fit(commands[j])
    BY DEF Registry, RegistryInv
  <1>6. \A j \in DOMAIN commands : Keeps(commands[j], commands'[j])
    BY <1>3, <1>5 DEF Keeps
  <1>7. \A j \in DOMAIN commands' : IsCommand(commands'[j]) /\ Fit(commands'[j])
    BY <1>2, <1>3, <1>5 DEF Keeps
  <1> QED BY <1>2, <1>4, <1>6, <1>7 DEF Grown, NoRun

(* Operation by operation.  The ones of a connection touch neither leases  *)
(* nor bindings nor commands.                                              *)
ConnectionOnly == UNCHANGED <<bindings, runLeases, commands, ledger>>

(* A queue that is left alone has kept what it had.                        *)
LEMMA CommandsUnchanged ==
    ASSUME Registry, RegistryInv, commands' = commands
    PROVE  Grown /\ NoRun
  BY DEF Registry, RegistryInv, Grown, NoRun, Keeps, Elems

(* A change of connections moves no lease, no agent and no command.        *)
LEMMA StillRegistered ==
    ASSUME Registry, RegistryInv, ConnectionOnly
    PROVE  Registry' /\ Quieter
  <1>1. Grown /\ NoRun
    BY CommandsUnchanged DEF ConnectionOnly
  <1>2. Registry'
    BY DEF Registry, ConnectionOnly, Elems
  <1> QED BY <1>1, <1>2 DEF Quieter, ConnectionOnly

(* QueueCancel adds a command that is no run (the cancel of Cancel).       *)
LEMMA CancelQueues ==
    ASSUME Registry, RegistryInv, NEW op, op[1] = "cancel", NEW run, C!QueueCancel(op, run)
    PROVE  Registry' /\ Quieter
  <1> DEFINE c == C!Command(op, "cancel_run", runLeases[run].computer, runLeases[run].agent,
                            run, C!NoRequest)
             e == C!Entry(op, <<"queue_cancel", run>>)
  <1>1. /\ commands' = Append(commands, c)
        /\ ledger' = ledger \cup {e}
        /\ UNCHANGED <<computers, bindings, runLeases>>
    BY DEF C!QueueCancel, C!Log
  <1>2. IsCommand(c) /\ c.op = op /\ c.kind = "cancel_run" /\ c.state = "queued"
    BY DEF IsCommand, C!Command
  <1>3. e.id = op
    BY DEF C!Entry
  <1> HIDE DEF c, e
  <1>4. Fit(c)
    BY <1>2 DEF Fit
  <1>5. Grown /\ \A i \in DOMAIN commands' : i \in DOMAIN commands \/ commands'[i] = c
    BY <1>1, <1>2, <1>4, CommandAppended
  <1>6. NoRun
    BY <1>2, <1>5 DEF NoRun
  <1>7. Registry'
    BY <1>1, <1>5 DEF Registry, Grown
  <1>8. ledger \subseteq ledger' /\ \A entry \in ledger' : entry \in ledger \/ entry.id[1] = "cancel"
    BY <1>1, <1>3
  <1> QED BY <1>1, <1>5, <1>6, <1>7, <1>8 DEF Quieter

(* ReleaseRun ends a lease and starts nothing.                             *)
LEMMA ReleaseQuiet ==
    ASSUME Registry, RegistryInv, NEW op, op[1] = "release", NEW run, NEW lease,
           C!ReleaseRun(op, run, lease)
    PROVE  Registry' /\ Quieter
  <1> DEFINE e == C!Entry(op, <<"release_run", run, lease>>)
             gone == C!NoLease
  <1>1. /\ runLeases' = [runLeases EXCEPT ![run] = gone]
        /\ ledger' = ledger \cup {e}
        /\ UNCHANGED <<computers, bindings, commands>>
    BY DEF C!ReleaseRun, C!Log
  <1>2. e.id = op
    BY DEF C!Entry
  <1>3. IsLease(gone) /\ ~gone.live
    BY DEF IsLease, C!NoLease
  <1> HIDE DEF e, gone
  <1>4. /\ runLeases' = [r \in Runs |-> runLeases'[r]]
        /\ \A r \in Runs : runLeases'[r] = gone \/ runLeases'[r] = runLeases[r]
    BY <1>1 DEF Registry
  <1>5. Grown /\ NoRun
    BY <1>1, CommandsUnchanged
  <1>6. Registry'
    BY <1>1, <1>3, <1>4 DEF Registry, Elems
  <1>7. ledger \subseteq ledger' /\ \A entry \in ledger' : entry \in ledger \/ entry.id[1] = "release"
    BY <1>1, <1>2
  <1> QED BY <1>1, <1>3, <1>4, <1>5, <1>6, <1>7 DEF Quieter

(* A lease that runs out starts nothing.                                   *)
LEMMA ExpireQuiet ==
    ASSUME Registry, RegistryInv, NEW run \in Runs, C!ExpireRun(run)
    PROVE  Registry' /\ Quieter
  <1> DEFINE l == [runLeases[run] EXCEPT !.live = FALSE]
  <1>1. /\ runLeases' = [runLeases EXCEPT ![run] = l]
        /\ UNCHANGED <<computers, bindings, commands, ledger>>
    BY DEF C!ExpireRun
  <1>2. IsLease(runLeases[run])
    BY DEF Registry
  <1>3. IsLease(l) /\ ~l.live
    BY <1>2 DEF IsLease
  <1> HIDE DEF l
  <1>4. /\ runLeases' = [r \in Runs |-> runLeases'[r]]
        /\ \A r \in Runs : runLeases'[r] = l \/ runLeases'[r] = runLeases[r]
    BY <1>1 DEF Registry
  <1>5. Grown /\ NoRun
    BY <1>1, CommandsUnchanged
  <1>6. Registry'
    BY <1>1, <1>3, <1>4 DEF Registry, Elems
  <1> QED BY <1>1, <1>3, <1>4, <1>5, <1>6 DEF Quieter

(* A rebind purges leases that ran out, and no live one is of the agent.   *)
LEMMA PurgedLeases ==
    ASSUME Registry
    PROVE  /\ C!Purged = [r \in Runs |-> C!Purged[r]]
           /\ \A r \in Runs : IsLease(C!Purged[r])
           /\ \A r \in Runs : C!Purged[r].live => runLeases[r].live /\ C!Purged[r] = runLeases[r]
  <1>1. IsLease(C!NoLease) /\ ~C!NoLease.live
    BY DEF IsLease, C!NoLease
  <1> QED BY <1>1 DEF Registry, C!Purged

(* Bind moves no agent that has a live lease.                              *)
LEMMA RebindQuiet ==
    ASSUME Registry, RegistryInv, NEW op, op[1] = "move", NEW agent \in Agents, NEW target, NEW exp,
           C!Rebind(op, agent, target, exp)
    PROVE  Registry' /\ Quieter
  <1> DEFINE old == bindings[agent].computer
             c == C!Command(op, "cleanup_agent", old, agent, None, C!NoRequest)
             e == C!Entry(op, <<"rebind", agent, target, exp>>)
             b == [computer |-> target, rev |-> exp + 1]
  <1>1. /\ ~C!HasLiveRun(agent)
        /\ bindings' = [bindings EXCEPT ![agent] = b]
        /\ runLeases' = C!Purged
        /\ commands' = commands \/ commands' = Append(commands, c)
        /\ ledger' = ledger \cup {e}
    BY DEF C!Rebind, C!Log, C!Outcome, C!RebindVerdict
  <1>2. IsCommand(c) /\ c.op = op /\ c.kind = "cleanup_agent" /\ c.state = "queued"
    BY DEF IsCommand, C!Command
  <1>3. e.id = op
    BY DEF C!Entry
  <1> HIDE DEF c, e, b, old
  <1>4. Fit(c)
    BY <1>2 DEF Fit
  <1>5. Grown /\ \A i \in DOMAIN commands' : i \in DOMAIN commands \/ commands'[i] = c
    <2>1. CASE commands' = commands
      BY <2>1, CommandsUnchanged
    <2>2. CASE commands' = Append(commands, c)
      BY <2>2, <1>2, <1>4, CommandAppended
    <2> QED BY <1>1, <2>1, <2>2
  <1>6. NoRun
    BY <1>2, <1>5 DEF NoRun
  <1>7. bindings' = [a \in Agents |-> bindings'[a]]
        /\ \A a : a # agent => bindings'[a] = bindings[a]
    BY <1>1 DEF Registry
  <1>8. Registry'
    BY <1>1, <1>5, <1>7, PurgedLeases DEF Registry, Grown
  <1>9. \A run \in Runs : runLeases'[run].live =>
            /\ runLeases[run].live /\ runLeases'[run] = runLeases[run]
            /\ runLeases[run].agent # agent
    BY <1>1, PurgedLeases DEF C!HasLiveRun
  <1>10. ledger \subseteq ledger' /\ \A entry \in ledger' : entry \in ledger \/ entry.id[1] = "move"
    BY <1>1, <1>3
  <1> QED BY <1>5, <1>6, <1>7, <1>8, <1>9, <1>10 DEF Quieter

(* PollCommand hands out a command that is due.                            *)
LEMMA PollQuiet ==
    ASSUME Registry, RegistryInv, NEW c, NEW lease, C!PollCommand(c, lease)
    PROVE  Registry' /\ Quieter
  <1>1. PICK i \in DOMAIN commands :
            /\ commands[i].state \in {"queued", "sent"}
            /\ commands' = [commands EXCEPT ![i] = C!Handed(c, lease, i)]
    BY DEF C!PollCommand, C!Oldest, C!Deliverable
  <1>2. UNCHANGED <<computers, bindings, runLeases, ledger>>
    BY DEF C!PollCommand
  <1> DEFINE new == C!Handed(c, lease, i)
  <1>3. IsCommand(commands[i]) /\ Fit(commands[i])
    BY DEF Registry, RegistryInv
  <1>4. /\ IsCommand(new) /\ new.op = commands[i].op /\ new.kind = commands[i].kind
        /\ new.computer = commands[i].computer /\ new.agent = commands[i].agent
        /\ new.run = commands[i].run /\ new.state \in {"sent", "failed"}
    BY <1>3 DEF IsCommand, C!Handed
  <1> HIDE DEF new
  <1>5. Keeps(commands[i], new) /\ Fit(new)
    BY <1>1, <1>3, <1>4 DEF Keeps, Fit
  <1>6. Grown /\ NoRun
    BY <1>1, <1>5, CommandChanged DEF new
  <1>7. Registry'
    BY <1>2, <1>6 DEF Registry, Grown
  <1> QED BY <1>2, <1>6, <1>7 DEF Quieter

(* AckCommand records a report once: a finished command keeps its own.     *)
LEMMA AckQuiet ==
    ASSUME Registry, RegistryInv, NEW c, NEW lease, NEW i \in DOMAIN commands, Report(c, lease, i)
    PROVE  Registry' /\ Quieter
  <1>1. \E success \in BOOLEAN : \E result :
            /\ C!AckCommand(c, lease, i, success, result)
            /\ commands[i].kind = "run_agent" /\ success =>
                  result.run = commands[i].run /\ result.outcome \in ReportsOf(commands[i].run)
    <2>1. CASE commands[i].kind = "run_agent"
      <3>1. CASE \E outcome \in ReportsOf(commands[i].run) :
               C!AckCommand(c, lease, i, TRUE, [run |-> commands[i].run, outcome |-> outcome])
        <4>1. PICK outcome \in ReportsOf(commands[i].run) :
                  C!AckCommand(c, lease, i, TRUE, [run |-> commands[i].run, outcome |-> outcome])
          BY <3>1
        <4> DEFINE result == [run |-> commands[i].run, outcome |-> outcome]
        <4>2. result.run = commands[i].run /\ result.outcome = outcome
          OBVIOUS
        <4> HIDE DEF result
        <4>3. C!AckCommand(c, lease, i, TRUE, result)
          BY <4>1 DEF result
        <4> QED BY <4>2, <4>3
      <3>2. CASE C!AckCommand(c, lease, i, FALSE, C!NoResult)
        BY <3>2
      <3> QED BY <2>1, <3>1, <3>2 DEF Report
    <2>2. CASE commands[i].kind # "run_agent"
      BY <2>2 DEF Report
    <2> QED BY <2>1, <2>2
  <1>2. PICK success \in BOOLEAN : \E result :
            /\ C!AckCommand(c, lease, i, success, result)
            /\ commands[i].kind = "run_agent" /\ success =>
                  result.run = commands[i].run /\ result.outcome \in ReportsOf(commands[i].run)
    BY <1>1
  <1>3. PICK result :
            /\ C!AckCommand(c, lease, i, success, result)
            /\ commands[i].kind = "run_agent" /\ success =>
                  result.run = commands[i].run /\ result.outcome \in ReportsOf(commands[i].run)
    BY <1>2
  <1> DEFINE new == C!Acknowledged(i, success, result)
  <1>4. /\ commands[i].state = "sent"
        /\ commands' = [commands EXCEPT ![i] = new]
        /\ UNCHANGED <<computers, bindings, runLeases, ledger>>
    BY <1>3 DEF C!AckCommand, C!AckVerdict
  <1>5. IsCommand(commands[i]) /\ Fit(commands[i])
    BY DEF Registry, RegistryInv
  <1>6. /\ IsCommand(new) /\ new.op = commands[i].op /\ new.kind = commands[i].kind
        /\ new.computer = commands[i].computer /\ new.agent = commands[i].agent
        /\ new.run = commands[i].run
        /\ new.state \in {"acked", "failed"}
        /\ new.state = "acked" /\ new.kind = "run_agent" => success /\ new.result = result
    BY <1>5 DEF IsCommand, C!Acknowledged
  <1>7. ReportsOf(commands[i].run) \subseteq Verdicts(commands[i].run)
    BY DEF ReportsOf, Verdicts
  <1> HIDE DEF new
  <1>8. Keeps(commands[i], new)
    BY <1>4, <1>6 DEF Keeps
  <1>9. Fit(new)
    BY <1>3, <1>5, <1>6, <1>7 DEF Fit
  <1>10. Grown /\ NoRun
    BY <1>4, <1>8, <1>9, CommandChanged
  <1>11. Registry'
    BY <1>4, <1>10 DEF Registry, Grown
  <1> QED BY <1>4, <1>10, <1>11 DEF Quieter

(* A run acquires a lease once: before it has a command, and only for an   *)
(* agent that is bound to the device and works nowhere.                    *)
LEMMA AcquireRegistered ==
    ASSUME Registry, RegistryInv, NEW run \in Runs, NEW agent \in Agents, NEW c, NEW lease,
           C!AcquireRun(<<"acquire", run>>, run, agent, c, lease)
    PROVE  Registry' /\ RegistryInv' /\ Grown /\ NoRun
  <1> DEFINE l == [agent |-> agent, computer |-> c, lease |-> lease, live |-> TRUE]
             fp == C!AcquireFp(run, agent, c, lease)
             e == C!Entry(<<"acquire", run>>, fp)
  <1>1. /\ C!Outcome(<<"acquire", run>>, fp, C!AcquireVerdict(run, agent, c)) = "ok"
        /\ runLeases' = [C!Purged EXCEPT ![run] = l]
        /\ ledger' = ledger \cup {e}
        /\ UNCHANGED <<computers, bindings, commands>>
    BY DEF C!AcquireRun, C!AcquireOutcome, C!Log
  <1>2. ~C!Used(<<"acquire", run>>) /\ C!AcquireVerdict(run, agent, c) = "ok"
    BY <1>1 DEF C!Outcome
  <1>3. bindings[agent].computer = c
    BY <1>2 DEF C!AcquireVerdict
  <1>4. IsLease(l) /\ l.agent = agent /\ l.computer = c
    BY DEF IsLease
  <1>5. e.id = <<"acquire", run>>
    BY DEF C!Entry
  <1> HIDE DEF l, e, fp
  <1>6. /\ runLeases' = [r \in Runs |-> IF r = run THEN l ELSE C!Purged[r]]
    BY <1>1, PurgedLeases
  <1>7. Grown /\ NoRun
    BY <1>1, CommandsUnchanged
  <1>8. Registry'
    BY <1>1, <1>4, <1>6, <1>7, PurgedLeases DEF Registry, Grown
  <1>9. \A r : RunCommands(r)' = RunCommands(r)
    BY <1>7, RunsStay
  <1>10. \A r : C!Used(<<"queue", r>>)' <=> C!Used(<<"queue", r>>)
    BY <1>1, <1>5 DEF C!Used
  <1>11. /\ \A r : C!Used(<<"acquire", r>>) => C!Used(<<"acquire", r>>)'
         /\ C!Used(<<"acquire", run>>)'
    BY <1>1, <1>5 DEF C!Used
  <1>12. RunCommands(run) = {}
    BY <1>2 DEF RegistryInv
  <1>13. ASSUME NEW r \in Runs, runLeases'[r].live
         PROVE  AtHome(runLeases[r], r)'
    <2>1. CASE r = run
      <3>1. runLeases'[r] = l
        BY <2>1, <1>6
      <3> QED BY <2>1, <3>1, <1>1, <1>3, <1>4, <1>9, <1>11, <1>12 DEF AtHome
    <2>2. CASE r # run
      <3>1. runLeases'[r] = runLeases[r] /\ runLeases[r].live
        BY <2>2, <1>6, <1>13, PurgedLeases
      <3>2. AtHome(runLeases[r], r)
        BY <3>1 DEF RegistryInv
      <3> QED BY <3>1, <3>2, <1>1, <1>9, <1>11 DEF AtHome
    <2> QED BY <2>1, <2>2
  <1>14. ASSUME NEW r \in Runs
         PROVE  /\ \A i, j \in RunCommands(r)' : i = j
                /\ RunCommands(r)' # {} <=> C!Used(<<"queue", r>>)'
                /\ RunCommands(r)' # {} => C!Used(<<"acquire", r>>)'
    <2>1. RunCommands(r)' = RunCommands(r)
      BY <1>9
    <2>2. /\ \A i, j \in RunCommands(r) : i = j
          /\ RunCommands(r) # {} <=> C!Used(<<"queue", r>>)
          /\ RunCommands(r) # {} => C!Used(<<"acquire", r>>)
      BY DEF RegistryInv
    <2>3. C!Used(<<"queue", r>>)' <=> C!Used(<<"queue", r>>)
      BY <1>10
    <2>4. C!Used(<<"acquire", r>>) => C!Used(<<"acquire", r>>)'
      BY <1>11
    <2> QED BY <2>1, <2>2, <2>3, <2>4
  <1>15. \A i \in DOMAIN commands' : Fit(commands'[i])
    BY <1>7 DEF Grown
  <1>16. RegistryInv'
    BY <1>13, <1>14, <1>15 DEF RegistryInv
  <1> QED BY <1>7, <1>8, <1>16

(* Queuing gives a run its one command, on the device of its lease.        *)
LEMMA QueueRegistered ==
    ASSUME Registry, RegistryInv, NEW run \in Runs, NEW request, request.run = run,
           C!QueueRun(<<"queue", run>>, request)
    PROVE  /\ Registry' /\ RegistryInv' /\ Grown
           /\ RunCommands(run)' # {}
           /\ \A other : other # run => RunCommands(other)' = RunCommands(other)
  <1> DEFINE lease == runLeases[run]
             c == C!Command(<<"queue", run>>, "run_agent", lease.computer, request.agent, run, request)
             e == C!Entry(<<"queue", run>>, <<"queue_run", request>>)
  <1>1. /\ C!Outcome(<<"queue", run>>, <<"queue_run", request>>, C!QueueRunVerdict(request)) = "ok"
        /\ commands' = Append(commands, c)
        /\ ledger' = ledger \cup {e}
        /\ UNCHANGED <<computers, bindings, runLeases>>
    BY DEF C!QueueRun, C!QueueRunOutcome, C!Log
  <1>2. ~C!Used(<<"queue", run>>) /\ C!QueueRunVerdict(request) = "ok"
    BY <1>1 DEF C!Outcome
  <1>3. lease.live /\ lease.agent = request.agent
    BY <1>2 DEF C!QueueRunVerdict
  <1>4. /\ IsCommand(c) /\ c.op = <<"queue", run>> /\ c.kind = "run_agent" /\ c.run = run
        /\ c.state = "queued" /\ c.agent = request.agent /\ c.computer = lease.computer
    BY DEF IsCommand, C!Command
  <1>5. e.id = <<"queue", run>>
    BY DEF C!Entry
  <1>6. AtHome(lease, run) /\ RunCommands(run) = {}
    BY <1>2, <1>3 DEF RegistryInv
  <1> HIDE DEF c, e, lease
  <1>7. Fit(c)
    BY <1>4 DEF Fit
  <1>8. /\ Grown
        /\ \A i \in DOMAIN commands' : i \in DOMAIN commands \/ commands'[i] = c
        /\ \E i \in DOMAIN commands' : commands'[i] = c
        /\ \A i \in DOMAIN commands : commands'[i] = commands[i]
    BY <1>1, <1>4, <1>7, CommandAppended
  <1>9. Registry'
    BY <1>1, <1>8 DEF Registry, Grown
  <1>10. RunCommands(run)' # {}
    BY <1>4, <1>8 DEF RunCommands
  <1>11. ASSUME NEW other, other # run
         PROVE  RunCommands(other)' = RunCommands(other)
    <2>1. \A i \in RunCommands(other) : i \in RunCommands(other)'
      BY <1>8 DEF Grown, Keeps, RunCommands
    <2>2. \A i \in RunCommands(other)' : i \in RunCommands(other)
      BY <1>4, <1>8, <1>11 DEF RunCommands
    <2> QED BY <2>1, <2>2
  <1>12. \A i \in RunCommands(run)' : i \in DOMAIN commands' /\ i \notin DOMAIN commands
    BY <1>6, <1>8 DEF RunCommands
  <1>13. \A i, j \in RunCommands(run)' : i = j
    <2>1. DOMAIN commands' = 1..(Len(commands) + 1) /\ DOMAIN commands = 1..Len(commands)
          /\ Len(commands) \in Nat
      <3>1. commands \in Seq(Elems(commands) \cup {c})
        BY DEF Registry, Elems
      <3> HIDE DEF Registry
      <3> QED BY <1>1, <3>1
    <2> QED BY <1>12, <2>1
  <1>14. /\ \A r : C!Used(<<"acquire", r>>)' <=> C!Used(<<"acquire", r>>)
         /\ \A r : r # run => (C!Used(<<"queue", r>>)' <=> C!Used(<<"queue", r>>))
         /\ C!Used(<<"queue", run>>)'
    BY <1>1, <1>5 DEF C!Used
  <1>15. C!Used(<<"acquire", run>>)
    BY <1>6 DEF AtHome
  <1>16. ASSUME NEW r \in Runs
         PROVE  /\ \A i, j \in RunCommands(r)' : i = j
                /\ RunCommands(r)' # {} <=> C!Used(<<"queue", r>>)'
                /\ RunCommands(r)' # {} => C!Used(<<"acquire", r>>)'
    <2>1. CASE r = run
      BY <2>1, <1>10, <1>13, <1>14, <1>15
    <2>2. CASE r # run
      <3>1. RunCommands(r)' = RunCommands(r)
        BY <2>2, <1>11
      <3>2. /\ \A i, j \in RunCommands(r) : i = j
            /\ RunCommands(r) # {} <=> C!Used(<<"queue", r>>)
            /\ RunCommands(r) # {} => C!Used(<<"acquire", r>>)
        BY DEF RegistryInv
      <3>3. C!Used(<<"queue", r>>)' <=> C!Used(<<"queue", r>>)
        BY <2>2, <1>14
      <3>4. C!Used(<<"acquire", r>>)' <=> C!Used(<<"acquire", r>>)
        BY <1>14
      <3> QED BY <3>1, <3>2, <3>3, <3>4
    <2> QED BY <2>1, <2>2
  <1>17. ASSUME NEW r \in Runs, runLeases'[r].live
         PROVE  AtHome(runLeases[r], r)'
    <2>1. AtHome(runLeases[r], r) /\ runLeases'[r] = runLeases[r]
      BY <1>1, <1>17 DEF RegistryInv
    <2>2. CASE r = run
      <3>1. \A i \in RunCommands(r)' : commands'[i] = c
        BY <2>2, <1>8, <1>12
      <3> QED BY <2>1, <2>2, <3>1, <1>1, <1>3, <1>4, <1>14 DEF AtHome, lease
    <2>3. CASE r # run
      <3>1. RunCommands(r)' = RunCommands(r)
        BY <2>3, <1>11
      <3>2. \A i \in RunCommands(r) : commands'[i] = commands[i]
        BY <1>8 DEF RunCommands
      <3> QED BY <2>1, <3>1, <3>2, <1>1, <1>14 DEF AtHome
    <2> QED BY <2>2, <2>3
  <1>18. \A i \in DOMAIN commands' : Fit(commands'[i])
    BY <1>8 DEF Grown
  <1>19. RegistryInv'
    BY <1>16, <1>17, <1>18 DEF RegistryInv
  <1> QED BY <1>8, <1>9, <1>10, <1>11, <1>19

-----------------------------------------------------------------------------
(* The tasks, as far as executions rest on them.  What the ledger of a     *)
(* task says is so: an attached artifact is stored, a handoff is there, a  *)
(* closed task is closed, a verdict was reported by its run.  And a stored *)
(* artifact of a run stems from the run's report.                          *)

Backed(run, decision) ==
    \E outcome \in Outcomes \ {"failure", "bare"} : Reported(run, outcome) /\ decision = outcome

Vouched(t, e) ==
    /\ e.fp[1] = "add_artifact" => e.fp[4] \in ArtifactKeys /\ W!Stored(e.fp[4])
    /\ e.fp[1] = "submit" =>
          \E i \in DOMAIN tasks[t].subs : tasks[t].subs[i].refs = e.fp[4].refs
    /\ e.fp[1] = "close" => W!Terminal(tasks[t].state)
    /\ e.id[1] = "review" => Backed(e.id[2], e.fp[2].decision)

LedgersVouch == \A t \in TaskIds : \A e \in tasks[t].ledger : Vouched(t, e)

ArtifactsStem ==
    \A run \in Runs : W!Stored(run) => run[2] = "exec" /\ Reported(run, "pass")

TasksInv == Stores /\ LedgersVouch /\ ArtifactsStem

(* What no step takes back.                                                *)
TasksLast ==
    /\ \A t \in TaskIds : W!Terminal(tasks[t].state) => tasks'[t].state = tasks[t].state
    /\ \A t \in TaskIds : \A i \in DOMAIN tasks[t].subs :
          i \in DOMAIN tasks'[t].subs /\ tasks'[t].subs[i] = tasks[t].subs[i]
    /\ \A k \in ArtifactKeys : W!Stored(k) => W!Stored(k)'

(* A step in which nothing is started, attached, handed over or judged on  *)
(* behalf of execution id.                                                 *)
Untouched(id) ==
    /\ \A run \in Runs : run[1] = id =>
          RunCommands(run)' = RunCommands(run) /\ artifacts'[run] = artifacts[run]
    /\ \A t \in TaskIds : \A e \in tasks'[t].ledger \ tasks[t].ledger :
          e.id[1] \in {"submit", "review"} => e.id[2][1] # id

(* Vouching and reports outlast a step.                                    *)
LEMMA VouchedStays ==
    ASSUME TasksLast, Grown, NEW t \in TaskIds, NEW e, Vouched(t, e)
    PROVE  Vouched(t, e)'
  <1>1. e.fp[1] = "add_artifact" => e.fp[4] \in ArtifactKeys /\ W!Stored(e.fp[4])'
    BY DEF TasksLast, Vouched
  <1>2. e.fp[1] = "submit" =>
            \E i \in DOMAIN tasks'[t].subs : tasks'[t].subs[i].refs = e.fp[4].refs
    BY DEF TasksLast, Vouched
  <1>3. e.fp[1] = "close" => W!Terminal(tasks'[t].state)
    BY DEF TasksLast, Vouched
  <1>4. e.id[1] = "review" => Backed(e.id[2], e.fp[2].decision)'
    BY ReportsStay DEF Vouched, Backed
  <1> QED BY <1>1, <1>2, <1>3, <1>4 DEF Vouched

(* Files left alone still stem from reports.                               *)
LEMMA StemStays ==
    ASSUME ArtifactsStem, Grown, artifacts' = artifacts
    PROVE  ArtifactsStem'
  BY ReportsStay DEF ArtifactsStem, W!Stored

(* Steps that leave the tasks alone.                                       *)
LEMMA TasksUnchanged ==
    ASSUME TasksInv, Grown, UNCHANGED taskVars
    PROVE  /\ TasksInv' /\ TasksLast
           /\ NoRun => \A id : Untouched(id)
  <1>1. tasks' = tasks /\ artifacts' = artifacts
    BY DEF taskVars
  <1>2. TasksLast
    BY <1>1 DEF TasksLast, W!Stored
  <1>3. Stores'
    BY <1>1 DEF TasksInv, Stores
  <1>4. LedgersVouch'
    BY <1>1, <1>2, VouchedStays DEF TasksInv, LedgersVouch
  <1>5. ArtifactsStem'
    BY <1>1, StemStays DEF TasksInv
  <1>6. ASSUME NoRun, NEW id PROVE Untouched(id)
    BY <1>1, <1>6, RunsStay DEF Untouched
  <1> QED BY <1>2, <1>3, <1>4, <1>5, <1>6 DEF TasksInv

(* What stands in the artifact files after a step that files k, or none:   *)
(* every file that was there, and of runs only those that reported.        *)
Kept(k) ==
    /\ \A other \in ArtifactKeys : W!Stored(other) => W!Stored(other)'
    /\ Whole(artifacts')
    /\ \A run \in Runs : W!Stored(run)' => W!Stored(run) \/ (run[2] = "exec" /\ Reported(run, "pass"))
    /\ \A other \in ArtifactKeys : other # k => artifacts'[other] = artifacts[other]

(* The result of a run is an artifact named after the run.                 *)
LEMMA RunsAreKeys == \A run \in Runs : run \in ArtifactKeys
  BY DEF ArtifactKeys

(* Files left alone are kept.                                              *)
LEMMA NothingFiled ==
    ASSUME Stores, artifacts' = artifacts, NEW k
    PROVE  Kept(k)
  <1>1. Whole(artifacts')
    BY DEF Stores
  <1>2. \A other : W!Stored(other)' <=> W!Stored(other)
    BY DEF W!Stored
  <1> QED BY <1>1, <1>2 DEF Kept

(* A file added for a run that reported success leaves the rest true.      *)
LEMMA FiledKept ==
    ASSUME NEW t, NEW k \in ArtifactKeys, Filed(t, k),
           k \in Runs => k[2] = "exec" /\ Reported(k, "pass")
    PROVE  Kept(k)
  <1>1. \A other \in ArtifactKeys : other # k => artifacts'[other] = artifacts[other]
    BY DEF Filed
  <1>2. Whole(artifacts')
    BY DEF Filed
  <1>3. \A other \in ArtifactKeys : other # k => (W!Stored(other)' <=> W!Stored(other))
    BY <1>1 DEF W!Stored
  <1>4. ~W!Stored(k) /\ W!Stored(k)'
    BY DEF Filed
  <1>5. \A other \in ArtifactKeys : W!Stored(other) => W!Stored(other)'
    BY <1>3, <1>4
  <1>6. \A run \in Runs : W!Stored(run)' => W!Stored(run) \/ (run[2] = "exec" /\ Reported(run, "pass"))
    BY <1>3, RunsAreKeys
  <1> QED BY <1>1, <1>2, <1>5, <1>6 DEF Kept

(* One task is written, and perhaps an artifact filed before.              *)
LEMMA TaskWritten ==
    ASSUME TasksInv, Grown, NoRun, NEW t \in TaskIds, NEW op, NEW fp, Wrote(t, op, fp),
           NEW k, Kept(k), (fp[1] = "add_artifact" /\ fp[4] = k) \/ artifacts' = artifacts,
           fp[1] = "add_artifact" => fp[4] \in ArtifactKeys /\ W!Stored(fp[4])',
           op[1] = "review" => Backed(op[2], fp[2].decision)
    PROVE  /\ TasksInv' /\ TasksLast
           /\ \A id : (op[1] \in {"submit", "review"} => op[2][1] # id)
                      /\ (fp[1] = "add_artifact" /\ fp[4] \in Runs => fp[4][1] # id)
                      => Untouched(id)
  <1>1. /\ ~W!Terminal(tasks[t].state)
        /\ IsTask(tasks'[t])
        /\ \A i \in DOMAIN tasks[t].subs :
               i \in DOMAIN tasks'[t].subs /\ tasks'[t].subs[i] = tasks[t].subs[i]
        /\ tasks'[t].ledger = tasks[t].ledger \cup {W!Entry(op, fp)}
        /\ fp[1] = "submit" => \E i \in DOMAIN tasks'[t].subs : tasks'[t].subs[i].refs = fp[4].refs
        /\ fp[1] = "close" => W!Terminal(tasks'[t].state)
    BY DEF Wrote, Follows
  <1>2. /\ tasks' = [u \in TaskIds |-> tasks'[u]]
        /\ \A u \in TaskIds : u # t => tasks'[u] = tasks[u]
    BY DEF Wrote
  <1>3. /\ \A other \in ArtifactKeys : W!Stored(other) => W!Stored(other)'
        /\ Whole(artifacts')
        /\ \A run \in Runs : W!Stored(run)' => W!Stored(run) \/ (run[2] = "exec" /\ Reported(run, "pass"))
        /\ \A other \in ArtifactKeys :
               artifacts'[other] = artifacts[other] \/ (fp[1] = "add_artifact" /\ fp[4] = other)
    BY DEF Kept
  <1>4. TasksLast
    BY <1>1, <1>2, <1>3 DEF TasksLast
  <1>5. Stores'
    BY <1>1, <1>2, <1>3 DEF TasksInv, Stores
  <1>6. W!Entry(op, fp).id = op /\ W!Entry(op, fp).fp = fp
    BY DEF W!Entry
  <1>7. Backed(op[2], fp[2].decision) => Backed(op[2], fp[2].decision)'
    BY ReportsStay DEF Backed
  <1>8. Vouched(t, W!Entry(op, fp))'
    BY <1>1, <1>6, <1>7 DEF Vouched
  <1>9. LedgersVouch'
    <2>1. ASSUME NEW u \in TaskIds, NEW e \in tasks'[u].ledger
          PROVE  Vouched(u, e)'
      <3>1. e \in tasks[u].ledger \/ (u = t /\ e = W!Entry(op, fp))
        BY <1>1, <1>2, <2>1
      <3>2. CASE e \in tasks[u].ledger
        <4>1. Vouched(u, e)
          BY <3>2 DEF TasksInv, LedgersVouch
        <4> QED BY <4>1, <1>4, VouchedStays
      <3> QED BY <3>1, <3>2, <1>8
    <2> QED BY <2>1 DEF LedgersVouch
  <1>10. ArtifactsStem'
    BY <1>3, ReportsStay DEF TasksInv, ArtifactsStem
  <1>11. ASSUME NEW id, op[1] \in {"submit", "review"} => op[2][1] # id,
                fp[1] = "add_artifact" /\ fp[4] \in Runs => fp[4][1] # id
         PROVE  Untouched(id)
    <2>1. \A run \in Runs : run[1] = id => artifacts'[run] = artifacts[run]
      BY <1>3, <1>11, RunsAreKeys
    <2>2. \A u \in TaskIds : \A e \in tasks'[u].ledger \ tasks[u].ledger : e.id = op
      BY <1>1, <1>2, <1>6
    <2> QED BY <1>11, <2>1, <2>2, RunsStay DEF Untouched
  <1> QED BY <1>4, <1>5, <1>9, <1>10, <1>11 DEF TasksInv

(* A file that is left without its task.                                   *)
LEMMA FileLeft ==
    ASSUME TasksInv, Grown, NoRun, NEW t \in TaskIds, NEW k \in ArtifactKeys, Filed(t, k),
           tasks' = tasks, k \in Runs => k[2] = "exec" /\ Reported(k, "pass")
    PROVE  /\ TasksInv' /\ TasksLast
           /\ \A id : (k \in Runs => k[1] # id) => Untouched(id)
  <1>1. /\ \A other \in ArtifactKeys : W!Stored(other) => W!Stored(other)'
        /\ Whole(artifacts')
        /\ \A run \in Runs : W!Stored(run)' => W!Stored(run) \/ (run[2] = "exec" /\ Reported(run, "pass"))
        /\ \A other \in ArtifactKeys : other # k => artifacts'[other] = artifacts[other]
    BY FiledKept DEF Kept
  <1>2. TasksLast
    BY <1>1 DEF TasksLast
  <1>3. Stores'
    BY <1>1 DEF TasksInv, Stores
  <1>4. LedgersVouch'
    BY <1>2, VouchedStays DEF TasksInv, LedgersVouch
  <1>5. ArtifactsStem'
    BY <1>1, ReportsStay DEF TasksInv, ArtifactsStem
  <1>6. ASSUME NEW id, k \in Runs => k[1] # id PROVE Untouched(id)
    <2>1. \A run \in Runs : run[1] = id => artifacts'[run] = artifacts[run]
      BY <1>1, <1>6, RunsAreKeys
    <2> QED BY <2>1, RunsStay DEF Untouched
  <1> QED BY <1>2, <1>3, <1>4, <1>5, <1>6 DEF TasksInv

(* A claim grows older.                                                    *)
LEMMA TaskAged ==
    ASSUME TasksInv, Grown, NoRun, NEW t \in TaskIds, Aged(t), artifacts' = artifacts
    PROVE  TasksInv' /\ TasksLast /\ \A id : Untouched(id)
  <1>1. /\ IsTask(tasks'[t]) /\ tasks'[t].state = tasks[t].state
        /\ tasks'[t].subs = tasks[t].subs /\ tasks'[t].ledger = tasks[t].ledger
        /\ tasks' = [u \in TaskIds |-> tasks'[u]]
        /\ \A u \in TaskIds : u # t => tasks'[u] = tasks[u]
    BY DEF Aged
  <1>2. TasksLast
    BY <1>1 DEF TasksLast, W!Stored
  <1>3. Stores'
    BY <1>1 DEF TasksInv, Stores
  <1>4. \A u \in TaskIds : tasks'[u].ledger = tasks[u].ledger
    BY <1>1
  <1>5. LedgersVouch'
    BY <1>2, <1>4, VouchedStays DEF TasksInv, LedgersVouch
  <1>6. ArtifactsStem'
    BY StemStays DEF TasksInv
  <1>7. ASSUME NEW id PROVE Untouched(id)
    BY <1>4, RunsStay DEF Untouched
  <1> QED BY <1>2, <1>3, <1>5, <1>6, <1>7 DEF TasksInv

-----------------------------------------------------------------------------
(* Executions.  What the record of one may say at any time, in the file,   *)
(* in the copy of a pass or while a pass works on it.                      *)

HandedOver(y) ==
    /\ y.result # None /\ W!Stored(y.result)
    /\ \E i \in DOMAIN tasks[y.task].subs : \E ref \in tasks[y.task].subs[i].refs : ref.key = y.result

OwnRuns(id, y) ==
    /\ y.active # None =>
          /\ y.active[1] = id
          /\ y.phase = "running" => y.active[2] = "exec"
          /\ y.phase = "reviewing" => y.active[2] = "review"
    /\ y.result # None => y.result[1] = id /\ y.result[2] = "exec"

Grounded(y) ==
    /\ y.phase = "absent" => y.attempt = 0 /\ y.reviewAttempt = 0
    /\ y.phase # "absent" => y.task \in TaskIds /\ y.reviewer \in Reviewers
    /\ y.phase = "succeeded" => tasks[y.task].state = "done"
    /\ y.phase = "canceled" => W!Terminal(tasks[y.task].state)
    /\ y.phase = "awaiting_children" => y.result # None /\ Reported(y.result, "pass")
    /\ y.phase \in {"pending_review", "reviewing"} => HandedOver(y)

Sound(id, y) == y \in ExecutionRecords /\ OwnRuns(id, y) /\ Grounded(y)

(* Nothing that a record rests on is taken back.                           *)
LEMMA GroundedStays ==
    ASSUME TasksLast, Grown, NEW y \in ExecutionRecords, Grounded(y)
    PROVE  Grounded(y)'
  <1>1. y.result # None => y.result \in Runs
    BY DEF ExecutionRecords
  <1>2. y.phase # "absent" => y.task \in TaskIds /\ y.reviewer \in Reviewers
    BY DEF Grounded
  <1>3. y.phase = "succeeded" => tasks'[y.task].state = "done"
    BY <1>2 DEF Grounded, TasksLast, W!Terminal
  <1>4. y.phase = "canceled" => W!Terminal(tasks'[y.task].state)
    BY <1>2 DEF Grounded, TasksLast
  <1>5. y.phase = "awaiting_children" => y.result # None /\ Reported(y.result, "pass")'
    BY ReportsStay DEF Grounded
  <1>6. ASSUME y.phase \in {"pending_review", "reviewing"}
        PROVE  HandedOver(y)'
    <2>1. HandedOver(y) /\ y.task \in TaskIds
      BY <1>2, <1>6 DEF Grounded
    <2>2. y.result # None /\ W!Stored(y.result)'
      BY <1>1, <2>1, RunsAreKeys DEF HandedOver, TasksLast
    <2>3. \E i \in DOMAIN tasks'[y.task].subs :
              \E ref \in tasks'[y.task].subs[i].refs : ref.key = y.result
      BY <2>1 DEF HandedOver, TasksLast
    <2> QED BY <2>2, <2>3 DEF HandedOver
  <1>7. y.phase = "absent" => y.attempt = 0 /\ y.reviewAttempt = 0
    BY DEF Grounded
  <1> QED BY <1>2, <1>3, <1>4, <1>5, <1>6, <1>7 DEF Grounded

(* What a record says stays true while the stores only grow.               *)
LEMMA SoundStays ==
    ASSUME TasksLast, Grown
    PROVE  \A id : \A y : Sound(id, y) => Sound(id, y)'
  BY GroundedStays DEF Sound

(* Counting.  The runs of an execution that have been queued are the first *)
(* ones, up to the number it has counted or one more.                      *)
Queued(id, mode) == {n \in 1..MaxAttempts : RunCommands(<<id, mode, n>>) # {}}
Counted(id, mode, n) == Queued(id, mode) = 1..n \/ Queued(id, mode) = 1..(n + 1)
CountsFit(id, y) == Counted(id, "exec", y.attempt) /\ Counted(id, "review", y.reviewAttempt)

(* The count of queued runs rests on the queue alone.                      *)
LEMMA CountsStay ==
    ASSUME \A run : RunCommands(run)' = RunCommands(run)
    PROVE  \A id, mode : Queued(id, mode)' = Queued(id, mode)
  BY DEF Queued

-----------------------------------------------------------------------------
(* The memory of a pass.                                                   *)

IsPass(p) ==
    p \in [step : {p.step}, queue : {p.queue}, copy : {p.copy}, x : {p.x}, snap : {p.snap},
           at : {p.at}, cap : {p.cap}, verdict : {p.verdict}, then : {p.then}, gone : BOOLEAN]

(* What has been started at all says what task it is for.                  *)
StartsFit ==
    /\ cancels \subseteq CancelOps \X Executions
    /\ starting \in [Executions -> [task : TaskIds \cup {None}, reviewer : Reviewers \cup {None}]]
    /\ \A id \in Executions : starting[id] # NoStart =>
          starting[id].task \in TaskIds /\ starting[id].reviewer \in Reviewers

FileInv ==
    /\ executions \in [Executions -> ExecutionRecords]
    /\ \A id \in Executions : Sound(id, executions[id]) /\ CountsFit(id, executions[id])

(* The copy agrees with the file on what has not been visited yet, and on  *)
(* what is over.                                                           *)
CopyInv ==
    /\ pass.copy \in [Executions -> ExecutionRecords]
    /\ \A id \in Executions : Sound(id, pass.copy[id]) /\ CountsFit(id, pass.copy[id])
    /\ \A id \in Executions : FinalPhase(executions[id].phase) => pass.copy[id] = executions[id]
    /\ pass.queue \in Seq(Executions)
    /\ \A i, j \in DOMAIN pass.queue : pass.queue[i] = pass.queue[j] => i = j
    /\ \A i \in DOMAIN pass.queue : pass.copy[pass.queue[i]] = executions[pass.queue[i]]

(* The execution at hand has changed in nothing that decides.              *)
Same(y, c) ==
    /\ y.phase = c.phase /\ y.task = c.task /\ y.reviewer = c.reviewer
    /\ y.attempt = c.attempt /\ y.reviewAttempt = c.reviewAttempt

Worked == x.result # None /\ Reported(x.result, "pass")
Judged ==
    /\ pass.copy[cur].active # None /\ pass.copy[cur].active[2] = "review"
    /\ Reported(pass.copy[cur].active, pass.verdict) /\ pass.verdict \in W!Decisions

ToWork == x.phase = "pending_claim" /\ x.attempt < MaxAttempts
ToReview == x.phase = "pending_review" /\ x.reviewAttempt < MaxAttempts

(* What each call of the pass may rely on.                                 *)
Fits ==
    /\ pass.step \in {"claimGet", "claim"} =>
          \/ pass.then = "place" /\ ToWork
          \/ pass.then = "artifact" /\ x.phase \in {"running", "awaiting_children"} /\ Worked
    /\ pass.step = "reviewGet" => ToReview
    /\ pass.step \in {"place", "acquire", "queue"} => ToWork \/ ToReview
    /\ pass.step = "observe" => x.phase \in {"running", "reviewing"} /\ x = pass.copy[cur]
    /\ pass.step = "release" =>
          \/ pass.then = "canceled" /\ x.phase = "canceling"
          \/ pass.then \in {"failed", "ended"} /\ x.phase \in {"running", "reviewing"}
          \/ pass.then = "done" /\ x.phase = "running" /\ Worked
          \/ pass.then = "done" /\ x.phase = "reviewing" /\ Judged
    /\ pass.step \in {"artifact", "addArtifact", "submit"} =>
          x.phase \in {"running", "awaiting_children"} /\ Worked
    /\ pass.step = "submit" => W!Stored(x.result)
    /\ pass.step \in {"verdictGet", "review"} => x.phase = "reviewing" /\ Judged
    /\ pass.step = "humanGet" => x.phase = "awaiting_human"
    /\ pass.step \in {"cancelGet", "cancelClose"} => x.phase = "canceling"
    /\ pass.step \in {"failGet", "failClose"} => x.phase \in {"pending_claim", "running"}

Steps ==
    {"claimGet", "claim", "reviewGet", "place", "acquire", "queue", "observe", "release",
     "artifact", "addArtifact", "submit", "verdictGet", "review", "humanGet",
     "cancelGet", "cancelClose", "failGet", "failClose"}

WorkInv ==
    /\ pass.queue # <<>>
    /\ x.phase # "absent" /\ ~FinalPhase(x.phase)
    /\ Sound(cur, x) /\ Same(x, pass.copy[cur])
    /\ Fits

PassInv ==
    /\ IsPass(pass)
    /\ pass.step \in {"idle", "advance"} \cup Steps
    /\ pass.step # "idle" => CopyInv
    /\ pass.step \in Steps => WorkInv

Inv == TasksInv /\ Registry /\ RegistryInv /\ StartsFit /\ FileInv /\ PassInv

-----------------------------------------------------------------------------
(* What a step may do to the two stores, as the dispatcher sees it.        *)

World == TasksInv /\ Registry /\ RegistryInv
Moves == World' /\ TasksLast /\ Grown
Calm == Moves /\ \A run : RunCommands(run)' = RunCommands(run)

(* Once an execution is being canceled or has ended.                       *)
Late(id) == executions[id].phase \in {"canceling", "canceled", "failed", "succeeded"}
Respects ==
    \A id \in Executions :
        /\ Late(id) => Untouched(id)
        /\ FinalPhase(executions[id].phase) => executions'[id] = executions[id]

(* The invariant covers both stores.                                       *)
LEMMA InvIsWorld == ASSUME Inv PROVE World
  BY DEF Inv, World

(* A quiet step of the registry.                                           *)
LEMMA RegistryMoves ==
    ASSUME World, Registry', Quieter, UNCHANGED taskVars
    PROVE  Calm /\ \A id : Untouched(id)
  <1>1. RegistryInv'
    BY QuietRegistry DEF World
  <1>2. Grown /\ NoRun
    BY DEF Quieter
  <1>3. TasksInv' /\ TasksLast /\ \A id : Untouched(id)
    BY <1>2, TasksUnchanged DEF World
  <1>4. \A run : RunCommands(run)' = RunCommands(run)
    BY <1>2, RunsStay
  <1> QED BY <1>1, <1>2, <1>3, <1>4 DEF Calm, Moves, World

(* A step of the tasks alone leaves the registry as it is.                 *)
LEMMA RegistryRests ==
    ASSUME World, UNCHANGED computerVars
    PROVE  /\ Registry' /\ RegistryInv' /\ Grown /\ NoRun
           /\ \A run : RunCommands(run)' = RunCommands(run)
  <1>1. ConnectionOnly
    BY DEF ConnectionOnly, computerVars
  <1>2. Registry' /\ Quieter
    BY <1>1, StillRegistered DEF World
  <1>3. RegistryInv'
    BY <1>2, QuietRegistry DEF World
  <1> QED BY <1>2, <1>3, RunsStay DEF Quieter

(* A step that only reads.                                                 *)
LEMMA NothingMoves ==
    ASSUME World, UNCHANGED taskVars, UNCHANGED computerVars
    PROVE  Calm /\ \A id : Untouched(id)
  <1>1. ConnectionOnly
    BY DEF ConnectionOnly, computerVars
  <1>2. Registry' /\ Quieter
    BY <1>1, StillRegistered DEF World
  <1> QED BY <1>2, RegistryMoves

(* A step that only reads the stores changes nothing in them.              *)
LEMMA ReadMoves ==
    ASSUME World, ReadStep
    PROVE  Calm /\ (\A id : Untouched(id)) /\ UNCHANGED fileVars
  BY NothingMoves DEF ReadStep

(* Counts and records outlast calm steps.                                  *)
LEMMA CalmCounts ==
    ASSUME Calm
    PROVE  \A id, y : CountsFit(id, y) => CountsFit(id, y)'
  <1>1. \A id, mode : Queued(id, mode)' = Queued(id, mode)
    BY CountsStay DEF Calm
  <1> QED BY <1>1 DEF CountsFit, Counted

(* Records stay sound over every step of the two stores.                   *)
LEMMA CalmSound ==
    ASSUME Moves
    PROVE  \A id, y : Sound(id, y) => Sound(id, y)'
  BY SoundStays DEF Moves

(* The file stays right over steps that do not write it.                   *)
LEMMA FileStays ==
    ASSUME Inv, Calm, UNCHANGED executions
    PROVE  FileInv'
  <1>1. \A id \in Executions : Sound(id, executions[id]) /\ CountsFit(id, executions[id])
    BY DEF Inv, FileInv
  <1>2. \A id \in Executions : Sound(id, executions[id])'
    BY <1>1, CalmSound DEF Calm
  <1>3. \A id \in Executions : CountsFit(id, executions[id])'
    BY <1>1, CalmCounts
  <1>4. executions' \in [Executions -> ExecutionRecords]
    BY DEF Inv, FileInv
  <1> QED BY <1>2, <1>3, <1>4 DEF FileInv

(* Calls to the stores leave the file and the requests alone.              *)
LEMMA FileKept ==
    ASSUME Inv, UNCHANGED fileVars
    PROVE  UNCHANGED executions /\ StartsFit'
  <1>1. UNCHANGED <<executions, cancels, starting>>
    BY DEF fileVars
  <1> QED BY <1>1 DEF Inv, StartsFit

(* The copy of a pass stays right while only the stores move.              *)
LEMMA CopyStays ==
    ASSUME Inv, Calm, UNCHANGED executions, pass.step # "idle",
           pass'.copy = pass.copy, pass'.queue = pass.queue
    PROVE  CopyInv'
  <1>1. CopyInv
    BY DEF Inv, PassInv
  <1>2. \A id \in Executions : Sound(id, pass.copy[id])'
    <2>1. \A id \in Executions : Sound(id, pass.copy[id])
      BY <1>1 DEF CopyInv
    <2> QED BY <2>1, CalmSound DEF Calm
  <1>3. \A id \in Executions : CountsFit(id, pass.copy[id])'
    <2>1. \A id \in Executions : CountsFit(id, pass.copy[id])
      BY <1>1 DEF CopyInv
    <2> QED BY <2>1, CalmCounts
  <1> QED BY <1>1, <1>2, <1>3 DEF CopyInv

-----------------------------------------------------------------------------
(* How a pass goes on.                                                     *)

(* What a call finds: the execution at hand is the first of the queue.     *)
LEMMA AtWork ==
    ASSUME Inv, pass.step \in Steps
    PROVE  /\ cur \in Executions /\ pass.queue # <<>> /\ pass.step # "idle"
           /\ IsPass(pass) /\ CopyInv /\ WorkInv
           /\ pass.copy[cur] = executions[cur]
           /\ x \in ExecutionRecords /\ Sound(cur, x) /\ CountsFit(cur, x)
           /\ Same(x, executions[cur]) /\ CountsFit(cur, executions[cur])
           /\ x.phase # "absent" /\ ~FinalPhase(x.phase)
           /\ x.task \in TaskIds /\ x.reviewer \in Reviewers
           /\ executions[cur].phase = x.phase
           /\ ~FinalPhase(executions[cur].phase)
  <1>1. pass.step \notin {"idle", "advance"} /\ IsPass(pass) /\ CopyInv /\ WorkInv
    BY DEF Inv, PassInv, Steps
  <1>2. pass.queue \in Seq(Executions) /\ pass.queue # <<>>
    BY <1>1 DEF CopyInv, WorkInv
  <1>3. cur \in Executions /\ 1 \in DOMAIN pass.queue /\ cur = pass.queue[1]
    BY <1>2 DEF cur
  <1>4. pass.copy[cur] = executions[cur]
    BY <1>1, <1>3 DEF CopyInv
  <1>5. Sound(cur, x) /\ Same(x, pass.copy[cur]) /\ x.phase # "absent" /\ ~FinalPhase(x.phase)
    BY <1>1 DEF WorkInv
  <1>6. CountsFit(cur, executions[cur])
    BY <1>3 DEF Inv, FileInv
  <1>7. CountsFit(cur, x)
    BY <1>4, <1>5, <1>6 DEF Same, CountsFit
  <1>8. x \in ExecutionRecords /\ Grounded(x)
    BY <1>5 DEF Sound
  <1>9. x.task \in TaskIds /\ x.reviewer \in Reviewers
    BY <1>5, <1>8 DEF Grounded
  <1>10. executions[cur].phase = x.phase
    BY <1>4, <1>5 DEF Same
  <1> QED BY <1>1, <1>2, <1>3, <1>4, <1>5, <1>6, <1>7, <1>8, <1>9, <1>10

(* The first of the queue has been visited: the rest of it stands.         *)
LEMMA Visited ==
    ASSUME NEW q \in Seq(Executions), q # <<>>,
           \A i, j \in DOMAIN q : q[i] = q[j] => i = j
    PROVE  /\ Tail(q) \in Seq(Executions)
           /\ \A i, j \in DOMAIN Tail(q) : Tail(q)[i] = Tail(q)[j] => i = j
           /\ \A i \in DOMAIN Tail(q) :
                 Tail(q)[i] # Head(q) /\ \E j \in DOMAIN q : q[j] = Tail(q)[i]
  <1>1. Len(q) \in Nat \ {0} /\ DOMAIN q = 1..Len(q)
    BY EmptySeq
  <1>2. Tail(q) \in Seq(Executions) /\ Len(Tail(q)) = Len(q) - 1
        /\ DOMAIN Tail(q) = 1..(Len(q) - 1)
    BY HeadTailProperties
  <1>3. \A i \in 1..(Len(q) - 1) : Tail(q)[i] = q[i + 1]
    BY HeadTailProperties
  <1>4. Head(q) = q[1]
    OBVIOUS
  <1>5. \A i \in 1..(Len(q) - 1) : i + 1 \in DOMAIN q /\ i + 1 # 1
    BY <1>1
  <1>6. \A i \in DOMAIN Tail(q) : Tail(q)[i] # Head(q)
    BY <1>1, <1>2, <1>3, <1>4, <1>5
  <1>7. \A i, j \in DOMAIN Tail(q) : Tail(q)[i] = Tail(q)[j] => i = j
    BY <1>1, <1>2, <1>3, <1>5
  <1> QED BY <1>2, <1>3, <1>5, <1>6, <1>7

(* The execution at hand is put into the copy as it is now.                *)
LEMMA Puts ==
    ASSUME Inv, Moves, UNCHANGED fileVars, pass.step # "idle", pass.queue # <<>>,
           NEW c, c = cur, NEW y, pass' = Keep(y),
           Sound(c, y)', CountsFit(c, y)', CountsFit(c, executions[c])',
           FinalPhase(executions[c].phase) => y = executions[c],
           \A id \in Executions : id # c => \A z : CountsFit(id, z) => CountsFit(id, z)'
    PROVE  Inv'
  <1>1. UNCHANGED <<executions, cancels, starting>> /\ CopyInv
    BY DEF fileVars, Inv, PassInv
  <1>2. pass.queue \in Seq(Executions) /\ c = Head(pass.queue) /\ c \in Executions
    BY <1>1 DEF CopyInv, cur
  <1>3. /\ pass'.step = "advance" /\ pass'.queue = Tail(pass.queue)
        /\ pass'.copy = [pass.copy EXCEPT ![c] = y] /\ pass'.gone = pass.gone
        /\ IsPass(pass')
    <2>1. IsPass(pass) /\ pass.gone \in BOOLEAN
      BY DEF Inv, PassInv, IsPass
    <2> QED BY <2>1 DEF Keep, Idle, IsPass
  <1>4. y \in ExecutionRecords
    BY DEF Sound
  <1>5. /\ pass'.copy \in [Executions -> ExecutionRecords] /\ pass'.copy[c] = y
        /\ \A id \in Executions : id # c => pass'.copy[id] = pass.copy[id]
    BY <1>1, <1>2, <1>3, <1>4 DEF CopyInv
  <1>6. \A id, z : Sound(id, z) => Sound(id, z)'
    BY CalmSound
  <1>7. \A id \in Executions : Sound(id, executions[id]) /\ CountsFit(id, executions[id])
    BY DEF Inv, FileInv
  <1>8. \A id \in Executions : Sound(id, pass.copy[id]) /\ CountsFit(id, pass.copy[id])
    BY <1>1 DEF CopyInv
  <1>9. ASSUME NEW id \in Executions
        PROVE  /\ Sound(id, executions[id])' /\ CountsFit(id, executions[id])'
               /\ Sound(id, pass.copy[id])' /\ CountsFit(id, pass.copy[id])'
               /\ FinalPhase(executions'[id].phase) => pass'.copy[id] = executions'[id]
    <2>1. Sound(id, executions[id])'
      BY <1>1, <1>6, <1>7
    <2>2. CountsFit(id, executions[id])'
      BY <1>1, <1>7
    <2>3. CASE id = c
      BY <2>1, <2>2, <2>3, <1>1, <1>5
    <2>4. CASE id # c
      <3>1. Sound(id, pass.copy[id])'
        BY <2>4, <1>5, <1>6, <1>8
      <3>2. CountsFit(id, pass.copy[id])'
        BY <2>4, <1>5, <1>8
      <3>3. FinalPhase(executions[id].phase) => pass.copy[id] = executions[id]
        BY <1>1 DEF CopyInv
      <3> QED BY <2>1, <2>2, <2>4, <3>1, <3>2, <3>3, <1>1, <1>5
    <2> QED BY <2>3, <2>4
  <1>10. /\ pass'.queue \in Seq(Executions)
         /\ \A i, j \in DOMAIN pass'.queue : pass'.queue[i] = pass'.queue[j] => i = j
         /\ \A i \in DOMAIN pass'.queue :
               pass'.queue[i] # c /\ \E j \in DOMAIN pass.queue : pass.queue[j] = pass'.queue[i]
    BY <1>1, <1>2, <1>3, Visited DEF CopyInv
  <1>11. ASSUME NEW i \in DOMAIN pass'.queue
         PROVE  pass'.copy[pass'.queue[i]] = executions'[pass'.queue[i]]
    <2>1. pass'.queue[i] \in Executions
      BY <1>10
    <2> QED BY <2>1, <1>1, <1>5, <1>10 DEF CopyInv
  <1>12. CopyInv'
    BY <1>5, <1>9, <1>10, <1>11 DEF CopyInv
  <1>13. PassInv'
    BY <1>3, <1>12 DEF PassInv, Steps
  <1>14. FileInv'
    BY <1>1, <1>9 DEF Inv, FileInv
  <1>15. StartsFit'
    BY <1>1 DEF Inv, StartsFit
  <1>16. World'
    BY DEF Moves
  <1> QED BY <1>13, <1>14, <1>15, <1>16 DEF Inv, World

(* The same when no run was queued.                                        *)
LEMMA Finishes ==
    ASSUME Inv, Calm, UNCHANGED fileVars, pass.step \in Steps,
           NEW y \in ExecutionRecords, Finish(y), OwnRuns(cur, y), Grounded(y)',
           y.attempt = x.attempt, y.reviewAttempt = x.reviewAttempt
    PROVE  Inv'
  <1>1. PICK c : c = cur
    OBVIOUS
  <1>2. CountsFit(c, x) /\ CountsFit(c, executions[c]) /\ ~FinalPhase(executions[c].phase)
        /\ pass.step # "idle" /\ pass.queue # <<>>
    BY <1>1, AtWork
  <1>3. CountsFit(c, y)
    BY <1>2 DEF CountsFit
  <1>4. UNCHANGED executions
    BY DEF fileVars
  <1>5. CountsFit(c, y)'
    BY <1>3, CalmCounts
  <1>6. CountsFit(c, executions[c])'
    BY <1>2, <1>4, CalmCounts
  <1>7. \A id \in Executions : \A z : CountsFit(id, z) => CountsFit(id, z)'
    BY CalmCounts
  <1>8. Sound(c, y)'
    BY <1>1 DEF Sound, OwnRuns
  <1>9. pass' = Keep(y) /\ Moves
    BY DEF Finish, Calm
  <1> QED BY <1>1, <1>2, <1>5, <1>6, <1>7, <1>8, <1>9, Puts

(* Nothing comes of it.                                                    *)
LEMMA Waits ==
    ASSUME Inv, Calm, UNCHANGED fileVars, pass.step \in Steps, pass' = Keep(pass.copy[cur])
    PROVE  Inv'
  <1>1. PICK y : y = executions[cur]
    OBVIOUS
  <1>2. /\ cur \in Executions /\ pass.copy[cur] = y /\ Same(x, y)
    BY <1>1, AtWork
  <1>3. Sound(cur, y)
    BY <1>1, <1>2 DEF Inv, FileInv
  <1>4. y \in ExecutionRecords /\ OwnRuns(cur, y) /\ Grounded(y)
    BY <1>3 DEF Sound
  <1>5. Grounded(y)'
    BY <1>4, GroundedStays DEF Calm, Moves
  <1>6. Finish(y)
    BY <1>2 DEF Finish
  <1> QED BY <1>2, <1>4, <1>5, <1>6, Finishes DEF Same

(* An error is kept with the execution.                                    *)
LEMMA Fails ==
    ASSUME Inv, Calm, UNCHANGED fileVars, pass.step \in Steps, NEW err \in Errors, Fail(err)
    PROVE  Inv'
  <1>1. CASE x.err = err
    BY <1>1, Waits DEF Fail
  <1>2. CASE x.err # err
    <2>1. PICK y : y = [x EXCEPT !.err = err]
      OBVIOUS
    <2>2. x \in ExecutionRecords /\ Sound(cur, x)
      BY AtWork
    <2>3. /\ y \in ExecutionRecords /\ y.phase = x.phase /\ y.task = x.task
          /\ y.reviewer = x.reviewer /\ y.active = x.active /\ y.result = x.result
          /\ y.attempt = x.attempt /\ y.reviewAttempt = x.reviewAttempt
      BY <2>1, <2>2 DEF ExecutionRecords
    <2>4. OwnRuns(cur, y)
      BY <2>2, <2>3 DEF Sound, OwnRuns
    <2>5. Grounded(y)
      BY <2>2, <2>3 DEF Sound, Grounded, HandedOver
    <2>6. Grounded(y)'
      BY <2>3, <2>5, GroundedStays DEF Calm, Moves
    <2>7. Finish(y)
      BY <1>2, <2>1 DEF Fail, Finish
    <2> QED BY <2>3, <2>4, <2>6, <2>7, Finishes
  <1> QED BY <1>1, <1>2

(* The work goes on with the same execution.                               *)
LEMMA GoesOn ==
    ASSUME Inv, Calm, UNCHANGED executions, StartsFit', pass.step # "idle", pass.queue # <<>>,
           pass'.queue = pass.queue, pass'.copy = pass.copy, IsPass(pass'), pass'.step \in Steps,
           Sound(cur, pass'.x), Same(pass'.x, pass.copy[cur]),
           pass'.x.phase # "absent", ~FinalPhase(pass'.x.phase), Fits'
    PROVE  Inv'
  <1>1. FileInv' /\ CopyInv'
    BY FileStays, CopyStays
  <1>2. PICK y, c : y = pass'.x /\ c = cur
    OBVIOUS
  <1>3. Sound(c, y)'
    BY <1>2, CalmSound DEF Calm
  <1>4. cur' = c /\ x' = y
    BY <1>2 DEF cur, x
  <1>5. Sound(cur, x)'
    BY <1>3, <1>4
  <1>6. Same(x, pass.copy[cur])'
    BY <1>2, <1>4 DEF Same
  <1>7. WorkInv'
    BY <1>2, <1>4, <1>5, <1>6 DEF WorkInv
  <1>8. PassInv'
    BY <1>1, <1>7 DEF PassInv
  <1> QED BY <1>1, <1>8 DEF Inv, Calm, Moves, World

(* What a call relies on outlasts what others do.                          *)
LEMMA FitsStay ==
    ASSUME Inv, Calm, pass.step \in Steps,
           pass'.step = pass.step, pass'.queue = pass.queue, pass'.copy = pass.copy,
           pass'.x = pass.x, pass'.then = pass.then, pass'.verdict = pass.verdict
    PROVE  Fits'
  <1>1. Fits /\ x \in ExecutionRecords /\ pass.copy[cur] \in ExecutionRecords
    <2>1. CopyInv /\ WorkInv /\ cur \in Executions /\ x \in ExecutionRecords
      BY AtWork
    <2> QED BY <2>1 DEF CopyInv, WorkInv
  <1>2. cur' = cur /\ x' = x /\ pass'.copy[cur'] = pass.copy[cur]
    BY DEF cur, x
  <1>3. \A run, outcome : Reported(run, outcome) => Reported(run, outcome)'
    BY ReportsStay DEF Calm, Moves
  <1>4. Worked => Worked'
    BY <1>2, <1>3 DEF Worked
  <1>5. Judged => Judged'
    BY <1>2, <1>3 DEF Judged
  <1>6. (x.result # None /\ W!Stored(x.result)) => W!Stored(x.result)'
    <2>1. x.result # None => x.result \in Runs
      BY <1>1 DEF ExecutionRecords
    <2>2. \A k \in ArtifactKeys : W!Stored(k) => W!Stored(k)'
      BY DEF Calm, Moves, TasksLast
    <2>3. \A k : (k = x.result /\ W!Stored(k)') => W!Stored(x.result)'
      BY <1>2
    <2> QED BY <2>1, <2>2, <2>3, RunsAreKeys
  <1>7. (ToWork <=> ToWork') /\ (ToReview <=> ToReview')
    BY <1>2 DEF ToWork, ToReview
  <1> QED BY <1>1, <1>2, <1>4, <1>5, <1>6, <1>7 DEF Fits, Worked

(* What holds of the execution at hand outlasts calm steps.                *)
LEMMA FactsStay ==
    ASSUME Inv, Calm, pass.step \in Steps,
           pass'.queue = pass.queue, pass'.copy = pass.copy, pass'.x = pass.x
    PROVE  /\ cur' = cur /\ x' = x
           /\ Worked => Worked'
           /\ pass'.verdict = pass.verdict /\ Judged => Judged'
           /\ (ToWork <=> ToWork') /\ (ToReview <=> ToReview')
           /\ Worked /\ W!Stored(x.result) => W!Stored(x.result)'
  <1>1. x \in ExecutionRecords
    BY AtWork
  <1>2. cur' = cur /\ x' = x /\ pass'.copy[cur'] = pass.copy[cur]
    BY DEF cur, x
  <1>3. \A run, outcome : Reported(run, outcome) => Reported(run, outcome)'
    BY ReportsStay DEF Calm, Moves
  <1>4. Worked => Worked'
    BY <1>2, <1>3 DEF Worked
  <1>5. pass'.verdict = pass.verdict /\ Judged => Judged'
    BY <1>2, <1>3 DEF Judged
  <1>6. (x.result # None /\ W!Stored(x.result)) => W!Stored(x.result)'
    <2>1. x.result # None => x.result \in Runs
      BY <1>1 DEF ExecutionRecords
    <2>2. \A k \in ArtifactKeys : W!Stored(k) => W!Stored(k)'
      BY DEF Calm, Moves, TasksLast
    <2>3. \A k : (k = x.result /\ W!Stored(k)') => W!Stored(x.result)'
      BY <1>2
    <2> QED BY <2>1, <2>2, <2>3, RunsAreKeys
  <1>7. (ToWork <=> ToWork') /\ (ToReview <=> ToReview')
    BY <1>2 DEF ToWork, ToReview
  <1> QED BY <1>2, <1>4, <1>5, <1>6, <1>7 DEF Worked

(* The next call is about the same execution as it is.                     *)
LEMMA CallsNext ==
    ASSUME Inv, Calm, UNCHANGED fileVars, pass.step \in Steps,
           pass'.queue = pass.queue, pass'.copy = pass.copy, pass'.x = pass.x,
           IsPass(pass'), pass'.step \in Steps, Fits'
    PROVE  Inv'
  <1>1. /\ pass.step # "idle" /\ pass.queue # <<>> /\ WorkInv
    BY AtWork
  <1>2. pass'.x = x
    BY DEF x
  <1>3. Sound(cur, pass'.x) /\ Same(pass'.x, pass.copy[cur])
        /\ pass'.x.phase # "absent" /\ ~FinalPhase(pass'.x.phase)
    BY <1>1, <1>2 DEF WorkInv
  <1> QED BY <1>1, <1>3, FileKept, GoesOn

(* Whatever the pass is at, it stays there.                                *)
LEMMA StaysAt ==
    ASSUME Inv, Calm, UNCHANGED executions, StartsFit', IsPass(pass'),
           pass'.step = pass.step, pass'.queue = pass.queue, pass'.copy = pass.copy,
           pass'.x = pass.x, pass'.then = pass.then, pass'.verdict = pass.verdict
    PROVE  Inv'
  <1>1. CASE pass.step \in Steps
    <2>1. /\ pass.step # "idle" /\ pass.queue # <<>> /\ WorkInv
      BY <1>1, AtWork
    <2>2. pass'.x = x
      BY DEF x
    <2>3. Sound(cur, pass'.x) /\ Same(pass'.x, pass.copy[cur])
          /\ pass'.x.phase # "absent" /\ ~FinalPhase(pass'.x.phase)
      BY <2>1, <2>2 DEF WorkInv
    <2>4. Fits'
      BY <1>1, FitsStay
    <2> QED BY <1>1, <2>1, <2>3, <2>4, GoesOn
  <1>2. CASE pass.step \notin Steps
    <2>1. FileInv'
      BY FileStays
    <2>2. pass.step # "idle" => CopyInv'
      BY CopyStays
    <2>3. PassInv'
      BY <1>2, <2>2 DEF Inv, PassInv, Steps
    <2> QED BY <2>1, <2>3 DEF Inv, Calm, Moves, World
  <1> QED BY <1>1, <1>2

(* A pass is not disturbed by what it does not take part in.               *)
LEMMA Undisturbed ==
    ASSUME Inv, Calm, UNCHANGED executions, StartsFit', UNCHANGED pass
    PROVE  Inv'
  <1>1. IsPass(pass')
    BY DEF Inv, PassInv
  <1> QED BY <1>1, StaysAt

(* The process dies.                                                       *)
LEMMA Forgets ==
    ASSUME Inv, Calm, UNCHANGED <<executions, cancels>>, pass' = Idle,
           starting' = [id \in Executions |-> NoStart]
    PROVE  Inv'
  <1>1. FileInv'
    BY FileStays
  <1>2. StartsFit'
    <2>1. NoStart \in [task : TaskIds \cup {None}, reviewer : Reviewers \cup {None}]
      BY DEF NoStart
    <2> QED BY <2>1 DEF Inv, StartsFit
  <1>3. IsPass(Idle) /\ Idle.step = "idle"
    BY DEF IsPass, Idle
  <1>4. PassInv'
    BY <1>3 DEF PassInv, Steps
  <1> QED BY <1>1, <1>2, <1>4 DEF Inv, Calm, Moves, World

(* A request changes one execution of the file, between two passes.        *)
LEMMA FileChanges ==
    ASSUME Inv, Calm, pass.step = "idle", UNCHANGED pass, StartsFit',
           NEW id \in Executions, NEW y, executions' = [executions EXCEPT ![id] = y],
           Sound(id, y)', CountsFit(id, y)
    PROVE  Inv'
  <1>1. PassInv'
    BY DEF Inv, PassInv, Steps
  <1>2. /\ executions \in [Executions -> ExecutionRecords]
        /\ \A e \in Executions : Sound(e, executions[e]) /\ CountsFit(e, executions[e])
    BY DEF Inv, FileInv
  <1>3. y \in ExecutionRecords
    BY DEF Sound
  <1>4. /\ executions' \in [Executions -> ExecutionRecords] /\ executions'[id] = y
        /\ \A e \in Executions : e # id => executions'[e] = executions[e]
    BY <1>2, <1>3
  <1>5. CountsFit(id, y)'
    BY CalmCounts
  <1>6. ASSUME NEW e \in Executions
        PROVE  Sound(e, executions[e])' /\ CountsFit(e, executions[e])'
    <2>1. CASE e = id
      BY <2>1, <1>4, <1>5
    <2>2. CASE e # id
      <3>1. Sound(e, executions[e])'
        BY <2>2, <1>2, <1>4, CalmSound DEF Calm
      <3>2. CountsFit(e, executions[e])'
        BY <2>2, <1>2, <1>4, CalmCounts
      <3> QED BY <3>1, <3>2
    <2> QED BY <2>1, <2>2
  <1>7. FileInv'
    BY <1>4, <1>6 DEF FileInv
  <1> QED BY <1>1, <1>7 DEF Inv, Calm, Moves, World

-----------------------------------------------------------------------------
(* Step by step: what is true stays true, and nothing is done for an       *)
(* execution that is being canceled or has ended.                          *)

(* Nothing was done for any execution, and none was written.               *)
LEMMA FileRespected ==
    ASSUME UNCHANGED executions, \A id : Untouched(id)
    PROVE  Respects
  BY DEF Respects

(* Outside of the dispatcher: the registry, the tasks.                     *)
LEMMA RegistryStep ==
    ASSUME Inv, Registry', Quieter, UNCHANGED taskVars, UNCHANGED fileVars, UNCHANGED pass
    PROVE  Inv' /\ Respects
  <1>1. Calm /\ \A id : Untouched(id)
    BY InvIsWorld, RegistryMoves
  <1>2. UNCHANGED executions /\ StartsFit'
    BY FileKept
  <1> QED BY <1>1, <1>2, Undisturbed, FileRespected

(* A daemon polls.                                                         *)
LEMMA PollStep == ASSUME Inv, Poll PROVE Inv' /\ Respects
  <1>1. Registry /\ RegistryInv
    BY DEF Inv
  <1>2. Registry' /\ Quieter
    BY <1>1, PollQuiet DEF Poll
  <1> QED BY <1>2, RegistryStep DEF Poll

(* A daemon reports, in time or late.                                      *)
LEMMA AckStep == ASSUME Inv, Ack PROVE Inv' /\ Respects
  <1>1. Registry /\ RegistryInv
    BY DEF Inv
  <1>2. Registry' /\ Quieter
    BY <1>1, AckQuiet DEF Ack
  <1> QED BY <1>2, RegistryStep DEF Ack

(* A daemon comes back.                                                    *)
LEMMA ReconnectStep == ASSUME Inv, Reconnect PROVE Inv' /\ Respects
  <1>1. Registry /\ RegistryInv
    BY DEF Inv
  <1>2. ConnectionOnly
    BY DEF Reconnect, C!Connect, ConnectionOnly
  <1>3. Registry' /\ Quieter
    BY <1>1, <1>2, StillRegistered
  <1> QED BY <1>3, RegistryStep DEF Reconnect

(* Connections and leases run out, and agents are moved.                   *)
LEMMA DevicesStep == ASSUME Inv, Devices PROVE Inv' /\ Respects
  <1>1. Registry /\ RegistryInv
    BY DEF Inv
  <1>2. CASE Lapse
    BY <1>1, <1>2, ExpireQuiet, RegistryStep DEF Devices, Lapse
  <1>3. CASE Move
    <2>1. PICK agent \in {Worker} \cup {tasks[tid].reviewer : tid \in TaskIds}, c \in Computers :
              C!Rebind(<<"move", <<agent, bindings[agent].rev>>>>, agent, c, bindings[agent].rev)
      BY <1>3 DEF Move
    <2>2. agent \in Agents
      <3>1. \A tid \in TaskIds : tasks[tid].reviewer \in Reviewers
        BY DEF Inv, TasksInv, Stores, IsTask
      <3> QED BY <3>1 DEF Agents
    <2>3. PICK op, rev : op = <<"move", <<agent, bindings[agent].rev>>>> /\ rev = bindings[agent].rev
      OBVIOUS
    <2>4. C!Rebind(op, agent, c, rev) /\ op[1] = "move"
      BY <2>1, <2>3
    <2>5. Registry' /\ Quieter
      BY <1>1, <2>2, <2>4, RebindQuiet
    <2> QED BY <2>5, RegistryStep DEF Devices
  <1>4. CASE \E c \in Computers : Offline(c)
    <2>1. ConnectionOnly
      BY <1>4 DEF Offline, C!ExpireConnection, C!Disconnect, ConnectionOnly
    <2>2. Registry' /\ Quieter
      BY <1>1, <2>1, StillRegistered
    <2> QED BY <2>2, RegistryStep DEF Devices
  <1> QED BY <1>2, <1>3, <1>4 DEF Devices

(* The API, which works on one task.                                       *)
LEMMA TaskStep ==
    ASSUME Inv, UNCHANGED computerVars, UNCHANGED executions, StartsFit', UNCHANGED pass,
           TasksInv', TasksLast, \A id : Untouched(id)
    PROVE  Inv' /\ Respects
  <1>1. Calm
    BY InvIsWorld, RegistryRests DEF Calm, Moves, World
  <1> QED BY <1>1, Undisturbed, FileRespected

(* People work on the tasks through the API (the server's task routes).    *)
LEMMA ApiStep == ASSUME Inv, Api PROVE Inv' /\ Respects
  <1>1. PICK t \in TaskIds : ApiCall(t)
    BY DEF Api
  <1>2. UNCHANGED computerVars /\ UNCHANGED fileVars /\ UNCHANGED pass
    BY DEF Api
  <1>3. Grown /\ NoRun
    BY <1>2, InvIsWorld, RegistryRests
  <1>4. TasksInv /\ Stores
    BY DEF Inv, TasksInv
  <1>5. \A k : artifacts' = artifacts => Kept(k)
    BY <1>4, NothingFiled
  <1>6. PICK rev, op : rev = tasks[t].rev /\ op = <<"api", rev>>
    OBVIOUS
  <1>7. op[1] = "api"
    BY <1>6
  <1>8. \A fp : Wrote(t, op, fp) /\ artifacts' = artifacts /\ fp[1] # "add_artifact"
            => TasksInv' /\ TasksLast /\ \A id : Untouched(id)
    BY <1>3, <1>4, <1>5, <1>7, TaskWritten
  <1>9. TasksInv' /\ TasksLast /\ \A id : Untouched(id)
    <2>1. CASE W!Close(t, op, Creator, rev)
      <3>1. Wrote(t, op, <<"close", Creator>>) /\ artifacts' = artifacts
        BY <1>4, <2>1, CloseWrites
      <3> QED BY <1>8, <3>1
    <2>2. CASE \E reviewer \in Reviewers : W!ReviseContract(t, op, Creator, reviewer, rev)
      <3>1. PICK reviewer \in Reviewers : W!ReviseContract(t, op, Creator, reviewer, rev)
        BY <2>2
      <3>2. Wrote(t, op, <<"revise_contract", Creator, reviewer>>) /\ artifacts' = artifacts
        BY <1>4, <3>1, ReviseWrites
      <3> QED BY <1>8, <3>2
    <2>3. CASE \E result : W!Review(t, op, result, rev)
      <3>1. PICK result : W!Review(t, op, result, rev)
        BY <2>3
      <3>2. Wrote(t, op, W!ReviewFp(result)) /\ artifacts' = artifacts
        BY <1>4, <3>1, ReviewWrites
      <3>3. W!ReviewFp(result)[1] # "add_artifact"
        BY DEF W!ReviewFp
      <3> QED BY <1>8, <3>2, <3>3
    <2>4. CASE W!Claim(t, op, Worker, Manual, rev)
      <3>1. Wrote(t, op, <<"claim", Worker, Manual>>) /\ artifacts' = artifacts
        BY <1>4, <2>4, ClaimWrites
      <3> QED BY <1>8, <3>1
    <2>5. CASE W!AddArtifact(t, op, Worker, Manual, Manual, "sha256", rev)
      <3>1. Manual \in ArtifactKeys /\ Manual \notin Runs
        BY NamesAssumption DEF ArtifactKeys
      <3>2. PICK fp : fp = W!ArtifactFp(Worker, Manual, Manual, "sha256")
        OBVIOUS
      <3>3. fp[1] = "add_artifact" /\ fp[4] = Manual
        BY <3>2 DEF W!ArtifactFp
      <3>4. Wrote(t, op, fp) /\ Filed(t, Manual)
        BY <1>4, <2>5, <3>1, <3>2, ArtifactWrites
      <3>5. Kept(Manual) /\ W!Stored(Manual)'
        BY <3>1, <3>4, FiledKept DEF Filed
      <3>6. \A k : k = fp[4] => W!Stored(k)'
        BY <3>3, <3>5
      <3> QED BY <1>3, <1>4, <1>7, <3>1, <3>3, <3>4, <3>5, <3>6, TaskWritten
    <2>6. CASE \E handoff : W!Submit(t, op, Worker, Manual, handoff, rev)
      <3>1. PICK handoff : W!Submit(t, op, Worker, Manual, handoff, rev)
        BY <2>6
      <3>2. Wrote(t, op, W!SubmitFp(Worker, Manual, handoff)) /\ artifacts' = artifacts
        BY <1>4, <3>1, SubmitWrites
      <3>3. W!SubmitFp(Worker, Manual, handoff)[1] # "add_artifact"
        BY DEF W!SubmitFp
      <3> QED BY <1>8, <3>2, <3>3
    <2>7. CASE W!AgeClaim(t)
      <3>1. Aged(t) /\ artifacts' = artifacts
        BY <1>4, <2>7, ClaimAged
      <3> QED BY <1>3, <1>4, <3>1, TaskAged
    <2> QED BY <1>1, <1>6, <2>1, <2>2, <2>3, <2>4, <2>5, <2>6, <2>7 DEF ApiCall
  <1>10. UNCHANGED executions /\ StartsFit'
    BY <1>2, FileKept
  <1> QED BY <1>2, <1>9, <1>10, TaskStep

(* Start reads the task before it takes the lock.                          *)
LEMMA StartReadStep ==
    ASSUME Inv, NEW id \in Executions, NEW tid \in TaskIds, StartRead(id, tid)
    PROVE  Inv' /\ Respects
  <1>1. UNCHANGED taskVars /\ UNCHANGED computerVars /\ UNCHANGED executions /\ UNCHANGED pass
    BY DEF StartRead
  <1>2. Calm /\ \A e : Untouched(e)
    BY <1>1, InvIsWorld, NothingMoves
  <1> DEFINE s == [task |-> tid, reviewer |-> tasks[tid].reviewer]
  <1>3. tasks[tid].reviewer \in Reviewers
    BY DEF Inv, TasksInv, Stores, IsTask
  <1>4. /\ s \in [task : TaskIds \cup {None}, reviewer : Reviewers \cup {None}]
        /\ s.task \in TaskIds /\ s.reviewer \in Reviewers
    BY <1>3
  <1>5. starting' = [starting EXCEPT ![id] = s] /\ UNCHANGED cancels
    BY DEF StartRead
  <1> HIDE DEF s
  <1>6. StartsFit
    BY DEF Inv
  <1>7. \A e \in Executions : starting'[e] = IF e = id THEN s ELSE starting[e]
    BY <1>5, <1>6 DEF StartsFit
  <1>8. StartsFit'
    BY <1>4, <1>5, <1>6, <1>7 DEF StartsFit
  <1> QED BY <1>1, <1>2, <1>8, Undisturbed, FileRespected

(* Start enters an execution in the file.                                  *)
LEMMA StartStep ==
    ASSUME Inv, NEW id \in Executions, Start(id)
    PROVE  Inv' /\ Respects
  <1>1. UNCHANGED taskVars /\ UNCHANGED computerVars /\ UNCHANGED pass /\ UNCHANGED <<cancels, starting>>
        /\ pass.step = "idle" /\ starting[id] # NoStart /\ executions[id].phase = "absent"
    BY DEF Start, At
  <1>2. Calm /\ \A e : Untouched(e)
    BY <1>1, InvIsWorld, NothingMoves
  <1>3. StartsFit'
    BY <1>1 DEF Inv, StartsFit
  <1>4. starting[id].task \in TaskIds /\ starting[id].reviewer \in Reviewers
    BY <1>1 DEF Inv, StartsFit
  <1>5. PICK y : y = [NoExecution EXCEPT !.phase = "pending_claim", !.task = starting[id].task,
                                         !.reviewer = starting[id].reviewer]
    OBVIOUS
  <1>6. y = [phase |-> "pending_claim", task |-> starting[id].task,
              reviewer |-> starting[id].reviewer, attempt |-> 0, reviewAttempt |-> 0,
              active |-> None, result |-> None, err |-> None]
    BY <1>5 DEF NoExecution
  <1>7. 0 \in 0..MaxAttempts
    BY MaxAttemptsAssumption
  <1>8. /\ y.phase = "pending_claim" /\ y.task \in TaskIds /\ y.reviewer \in Reviewers
        /\ y.attempt = 0 /\ y.reviewAttempt = 0 /\ y.active = None /\ y.result = None
        /\ y \in ExecutionRecords
    BY <1>4, <1>6, <1>7 DEF ExecutionRecords, Phases
  <1>9. Sound(id, y)
    BY <1>8 DEF Sound, OwnRuns, Grounded
  <1>10. Sound(id, y)'
    BY <1>2, <1>9, CalmSound DEF Calm
  <1>11. Sound(id, executions[id]) /\ CountsFit(id, executions[id])
    BY DEF Inv, FileInv
  <1>12. executions[id].attempt = 0 /\ executions[id].reviewAttempt = 0
    BY <1>1, <1>11 DEF Sound, Grounded
  <1>13. CountsFit(id, y)
    BY <1>8, <1>11, <1>12 DEF CountsFit
  <1>14. executions' = [executions EXCEPT ![id] = y]
    BY <1>5 DEF Start
  <1>15. Inv'
    BY <1>1, <1>2, <1>3, <1>10, <1>13, <1>14, FileChanges
  <1>16. \A e \in Executions : FinalPhase(executions[e].phase) => executions'[e] = executions[e]
    <2>1. executions \in [Executions -> ExecutionRecords] /\ ~FinalPhase("absent")
      BY DEF Inv, FileInv, FinalPhase
    <2> QED BY <1>1, <1>14, <2>1
  <1> QED BY <1>2, <1>15, <1>16 DEF Respects

(* The command that Cancel sends starts nothing.                           *)
LEMMA CancelRunCalm ==
    ASSUME Inv, NEW op, NEW id, CancelRun(op, id), UNCHANGED taskVars
    PROVE  Calm /\ \A e : Untouched(e)
  <1>1. Registry /\ RegistryInv
    BY DEF Inv
  <1>2. CASE C!QueueCancel(<<"cancel", op>>, executions[id].active)
    <2>1. PICK o, run : o = <<"cancel", op>> /\ run = executions[id].active
      OBVIOUS
    <2>2. o[1] = "cancel" /\ C!QueueCancel(o, run)
      BY <1>2, <2>1
    <2>3. Registry' /\ Quieter
      BY <1>1, <2>2, CancelQueues
    <2> QED BY <2>3, InvIsWorld, RegistryMoves
  <1>3. CASE UNCHANGED computerVars
    BY <1>3, InvIsWorld, NothingMoves
  <1> QED BY <1>2, <1>3 DEF CancelRun

(* Cancel dies after its command and before the file.                      *)
LEMMA CancelCrashStep ==
    ASSUME Inv, NEW op \in CancelOps, NEW id \in Executions, CancelCrash(op, id)
    PROVE  Inv' /\ Respects
  <1>1. CancelRun(op, id) /\ UNCHANGED taskVars /\ UNCHANGED fileVars /\ UNCHANGED pass
    BY DEF CancelCrash
  <1>2. Calm /\ \A e : Untouched(e)
    BY <1>1, CancelRunCalm
  <1> QED BY <1>1, <1>2, FileKept, Undisturbed, FileRespected

(* Cancel writes that the execution is being canceled.                     *)
LEMMA CancelStep ==
    ASSUME Inv, NEW op \in CancelOps, NEW id \in Executions, Cancel(op, id)
    PROVE  Inv' /\ Respects
  <1>1. /\ CancelRun(op, id) /\ UNCHANGED taskVars /\ UNCHANGED pass /\ UNCHANGED starting
        /\ cancels' = cancels \cup {<<op, id>>} /\ pass.step = "idle"
        /\ CancelVerdict(op, id) = "ok"
    BY DEF Cancel, At
  <1>2. Calm /\ \A e : Untouched(e)
    BY <1>1, CancelRunCalm
  <1>3. StartsFit'
    <2>1. cancels' \subseteq CancelOps \X Executions
      BY <1>1 DEF Inv, StartsFit
    <2> QED BY <1>1, <2>1 DEF Inv, StartsFit
  <1>4. executions[id].phase # "absent" /\ ~FinalPhase(executions[id].phase)
    BY <1>1 DEF CancelVerdict
  <1>5. PICK y : y = [executions[id] EXCEPT !.phase = "canceling", !.err = None]
    OBVIOUS
  <1>6. /\ executions[id] \in ExecutionRecords
        /\ Sound(id, executions[id]) /\ CountsFit(id, executions[id])
    BY DEF Inv, FileInv
  <1>7. /\ y \in ExecutionRecords /\ y.phase = "canceling"
        /\ y.task = executions[id].task /\ y.reviewer = executions[id].reviewer
        /\ y.active = executions[id].active /\ y.result = executions[id].result
        /\ y.attempt = executions[id].attempt /\ y.reviewAttempt = executions[id].reviewAttempt
    BY <1>5, <1>6 DEF ExecutionRecords, Phases
  <1>8. Sound(id, y)
    <2>1. OwnRuns(id, y)
      BY <1>6, <1>7 DEF Sound, OwnRuns
    <2>2. Grounded(y)
      BY <1>4, <1>6, <1>7 DEF Sound, Grounded
    <2> QED BY <1>7, <2>1, <2>2 DEF Sound
  <1>9. Sound(id, y)'
    BY <1>2, <1>8, CalmSound DEF Calm
  <1>10. CountsFit(id, y)
    BY <1>6, <1>7 DEF CountsFit
  <1>11. executions' = [executions EXCEPT ![id] = y]
    BY <1>5 DEF Cancel
  <1>12. Inv'
    BY <1>1, <1>2, <1>3, <1>9, <1>10, <1>11, FileChanges
  <1>13. \A e \in Executions : FinalPhase(executions[e].phase) => executions'[e] = executions[e]
    <2>1. executions \in [Executions -> ExecutionRecords]
      BY DEF Inv, FileInv
    <2> QED BY <1>4, <1>11, <2>1
  <1> QED BY <1>2, <1>12, <1>13 DEF Respects

(* The process dies: the memory of the pass and of requests is gone.       *)
LEMMA CrashStep == ASSUME Inv, Crash PROVE Inv' /\ Respects
  <1>1. /\ UNCHANGED taskVars /\ UNCHANGED computerVars /\ UNCHANGED <<executions, cancels>>
        /\ pass' = Idle /\ starting' = [id \in Executions |-> NoStart]
    BY DEF Crash
  <1>2. Calm /\ \A e : Untouched(e)
    BY <1>1, InvIsWorld, NothingMoves
  <1> QED BY <1>1, <1>2, Forgets, FileRespected

(* The request a pass works for is given up.                               *)
LEMMA GiveUpStep == ASSUME Inv, GiveUp PROVE Inv' /\ Respects
  <1>1. Calm /\ (\A e : Untouched(e)) /\ UNCHANGED fileVars
    BY InvIsWorld, ReadMoves DEF GiveUp
  <1>2. IsPass(pass)
    BY DEF Inv, PassInv
  <1>3. /\ pass'.step = pass.step /\ pass'.queue = pass.queue /\ pass'.copy = pass.copy
        /\ pass'.x = pass.x /\ pass'.then = pass.then /\ pass'.verdict = pass.verdict
        /\ IsPass(pass')
    BY <1>2 DEF GiveUp, IsPass
  <1> QED BY <1>1, <1>3, FileKept, StaysAt, FileRespected

(* What the stores answer, and what of it is an error.                     *)
Answers == Errors \cup {"ok", "replayed"}

(* An answer that is not good is an error an execution may carry.          *)
LEMMA Answered ==
    ASSUME NEW outcome \in Answers
    PROVE  /\ Answer(outcome) \in Answers
           /\ ~Good(outcome) => Answer(outcome) \in Errors
  BY DEF Answer, Good, Answers, Errors

(* So is the answer to a read.                                             *)
LEMMA GetAnswered == ~Good(GetOutcome) => Answer(GetOutcome) \in Errors
  <1>1. GetOutcome \in Answers
    BY DEF GetOutcome, Answers, Errors
  <1> QED BY <1>1, Answered

(* So is what the task store answers.                                      *)
LEMMA TaskAnswered ==
    ASSUME NEW t, NEW op, NEW fp, NEW exp, NEW taken, NEW verdict \in Answers
    PROVE  W!Outcome(t, op, fp, exp, taken, verdict) \in Answers
  BY DEF W!Outcome, Answers, Errors

(* So is what the computer store answers.                                  *)
LEMMA DeviceAnswered ==
    ASSUME NEW op, NEW fp, NEW verdict \in Answers
    PROVE  C!Outcome(op, fp, verdict) \in Answers
  BY DEF C!Outcome, Answers, Errors

(* A pass begins with a copy of the file (Reconcile).                      *)
LEMMA BeginStep == ASSUME Inv, Begin PROVE Inv' /\ Respects
  <1>1. Calm /\ (\A e : Untouched(e)) /\ UNCHANGED fileVars
    BY InvIsWorld, ReadMoves DEF Begin
  <1>2. UNCHANGED executions /\ StartsFit'
    BY <1>1, FileKept
  <1>3. FileInv'
    BY <1>1, <1>2, FileStays
  <1>4. /\ pass'.step = "advance" /\ pass'.copy = executions /\ pass'.queue = Order
        /\ IsPass(pass')
    BY DEF Begin, Idle, IsPass
  <1>5. CopyInv'
    <2>1. /\ pass'.copy \in [Executions -> ExecutionRecords]
          /\ \A id \in Executions : pass'.copy[id] = executions'[id]
      BY <1>2, <1>3, <1>4 DEF FileInv
    <2>2. \A id \in Executions : Sound(id, pass.copy[id])' /\ CountsFit(id, pass.copy[id])'
      <3>1. pass'.copy = executions'
        BY <1>2, <1>4
      <3> QED BY <1>3, <3>1 DEF FileInv
    <2>3. /\ pass'.queue \in Seq(Executions)
          /\ \A i, j \in DOMAIN pass'.queue : pass'.queue[i] = pass'.queue[j] => i = j
          /\ \A i \in DOMAIN pass'.queue : pass'.queue[i] \in Executions
      BY <1>4, OrderAssumption
    <2> QED BY <2>1, <2>2, <2>3 DEF CopyInv
  <1>6. PassInv'
    BY <1>4, <1>5 DEF PassInv, Steps
  <1>7. Inv'
    BY <1>1, <1>2, <1>3, <1>6 DEF Inv, Calm, Moves, World
  <1> QED BY <1>1, <1>2, <1>7, FileRespected

(* Between two executions a pass has its copy and no call pending.         *)
LEMMA AtAdvance ==
    ASSUME Inv, pass.step = "advance", pass.queue # <<>>
    PROVE  /\ cur \in Executions /\ CopyInv /\ IsPass(pass)
           /\ pass.copy[cur] = executions[cur]
           /\ executions[cur] \in ExecutionRecords
           /\ Sound(cur, executions[cur]) /\ CountsFit(cur, executions[cur])
  <1>1. CopyInv /\ IsPass(pass)
    BY DEF Inv, PassInv
  <1>2. cur \in Executions /\ 1 \in DOMAIN pass.queue /\ cur = pass.queue[1]
    BY <1>1 DEF CopyInv, cur
  <1> QED BY <1>1, <1>2 DEF Inv, FileInv, CopyInv

(* An execution is put back, or goes to a person, without a call.          *)
LEMMA PutsBack ==
    ASSUME Inv, Calm, UNCHANGED fileVars, pass.step = "advance", pass.queue # <<>>,
           NEW y, pass' = Keep(y), Sound(cur, y), CountsFit(cur, y),
           FinalPhase(executions[cur].phase) => y = executions[cur]
    PROVE  Inv'
  <1>1. PICK c : c = cur
    OBVIOUS
  <1>2. CountsFit(c, executions[c])
    BY <1>1, AtAdvance
  <1>3. Sound(c, y)'
    BY <1>1, CalmSound DEF Calm
  <1>4. CountsFit(c, y)'
    BY <1>1, CalmCounts
  <1>5. UNCHANGED executions
    BY FileKept
  <1>6. CountsFit(c, executions[c])'
    BY <1>2, <1>5, CalmCounts
  <1>7. \A id \in Executions : \A z : CountsFit(id, z) => CountsFit(id, z)'
    BY CalmCounts
  <1> QED BY <1>1, <1>3, <1>4, <1>6, <1>7, Puts DEF Calm

(* The next execution is taken up, or passed over (advance).               *)
LEMMA AdvanceStep == ASSUME Inv, Advance PROVE Inv' /\ Respects
  <1>1. Calm /\ (\A e : Untouched(e)) /\ UNCHANGED fileVars
    BY InvIsWorld, ReadMoves DEF Advance
  <1>2. UNCHANGED executions /\ StartsFit'
    BY <1>1, FileKept
  <1>3. pass.step = "advance" /\ pass.queue # <<>>
    BY DEF Advance, At
  <1>4. PICK y : y = pass.copy[cur]
    OBVIOUS
  <1>5. /\ y = executions[cur] /\ y \in ExecutionRecords /\ IsPass(pass)
        /\ Sound(cur, y) /\ CountsFit(cur, y) /\ cur \in Executions
    BY <1>3, <1>4, AtAdvance
  <1>6. pass' = IF y.phase = "absent" \/ FinalPhase(y.phase) THEN Keep(y)
                ELSE IF y.phase = "pending_review" /\ y.reviewAttempt >= MaxAttempts
                THEN Keep([y EXCEPT !.phase = "awaiting_human", !.err = "exhausted"])
                ELSE [pass EXCEPT !.x = y, !.step = FirstStep(y), !.then = FirstThen(y)]
    BY <1>4 DEF Advance
  <1>7. Inv'
    <2>1. CASE y.phase = "absent" \/ FinalPhase(y.phase)
      BY <2>1, <1>1, <1>3, <1>5, <1>6, PutsBack
    <2>2. CASE /\ ~(y.phase = "absent" \/ FinalPhase(y.phase))
               /\ y.phase = "pending_review" /\ y.reviewAttempt >= MaxAttempts
      <3>1. PICK z : z = [y EXCEPT !.phase = "awaiting_human", !.err = "exhausted"]
        OBVIOUS
      <3>2. z = [phase |-> "awaiting_human", task |-> y.task, reviewer |-> y.reviewer,
                 attempt |-> y.attempt, reviewAttempt |-> y.reviewAttempt,
                 active |-> y.active, result |-> y.result, err |-> "exhausted"]
        BY <1>5, <3>1 DEF ExecutionRecords
      <3>3. /\ z \in ExecutionRecords /\ z.phase = "awaiting_human"
            /\ z.task = y.task /\ z.reviewer = y.reviewer
            /\ z.active = y.active /\ z.result = y.result
            /\ z.attempt = y.attempt /\ z.reviewAttempt = y.reviewAttempt
        BY <1>5, <3>2 DEF ExecutionRecords, Phases, Errors
      <3>4. OwnRuns(cur, z)
        BY <1>5, <3>3 DEF Sound, OwnRuns
      <3>5. Grounded(z)
        BY <2>2, <1>5, <3>3 DEF Sound, Grounded
      <3>6. Sound(cur, z) /\ CountsFit(cur, z)
        BY <1>5, <3>3, <3>4, <3>5 DEF Sound, CountsFit
      <3>7. pass' = Keep(z) /\ ~FinalPhase(executions[cur].phase)
        BY <2>2, <1>5, <1>6, <3>1
      <3> QED BY <1>1, <1>3, <3>6, <3>7, PutsBack
    <2>3. CASE /\ y.phase # "absent" /\ ~FinalPhase(y.phase)
               /\ y.phase = "pending_review" => y.reviewAttempt < MaxAttempts
      <3>1. pass' = [pass EXCEPT !.x = y, !.step = FirstStep(y), !.then = FirstThen(y)]
        <4>1. y.reviewAttempt \in Int /\ MaxAttempts \in Int
          BY <1>5, MaxAttemptsAssumption DEF ExecutionRecords
        <4> QED BY <2>3, <1>6, <4>1
      <3>2. /\ pass'.x = y /\ pass'.step = FirstStep(y) /\ pass'.then = FirstThen(y)
            /\ pass'.queue = pass.queue /\ pass'.copy = pass.copy /\ IsPass(pass')
        BY <1>5, <3>1 DEF IsPass
      <3>3. pass'.copy[cur'] = y /\ x' = y
        BY <1>4, <3>2 DEF cur, x
      <3>4. pass'.step \in Steps /\ Fits'
        <4>1. CASE y.phase = "pending_claim"
          <5>1. y.attempt \in Int /\ MaxAttempts \in Int
            BY <1>5, MaxAttemptsAssumption DEF ExecutionRecords
          <5>2. \/ pass'.step = "failGet"
                \/ pass'.step = "claimGet" /\ pass'.then = "place" /\ y.attempt < MaxAttempts
            BY <4>1, <3>2, <5>1 DEF FirstStep, FirstThen
          <5> QED BY <4>1, <5>2, <3>3 DEF Fits, ToWork, Steps
        <4>2. CASE y.phase \in {"running", "reviewing"}
          <5>1. pass'.step = "observe"
            BY <4>2, <3>2 DEF FirstStep
          <5> QED BY <4>2, <5>1, <3>3 DEF Fits, Steps
        <4>3. CASE y.phase = "awaiting_children"
          <5>1. pass'.step = "claimGet" /\ pass'.then = "artifact"
            BY <4>3, <3>2 DEF FirstStep, FirstThen
          <5>2. y.result # None /\ Reported(y.result, "pass")
            BY <4>3, <1>5 DEF Sound, Grounded
          <5>3. Reported(y.result, "pass")'
            BY <1>1, <5>2, ReportsStay DEF Calm, Moves
          <5>4. Worked'
            BY <3>3, <5>2, <5>3 DEF Worked
          <5> QED BY <4>3, <5>1, <5>4, <3>3 DEF Fits, Steps
        <4>4. CASE y.phase = "pending_review"
          <5>1. pass'.step = "reviewGet"
            BY <4>4, <3>2 DEF FirstStep
          <5> QED BY <2>3, <4>4, <5>1, <3>3 DEF Fits, ToReview, Steps
        <4>5. CASE y.phase = "awaiting_human"
          <5>1. pass'.step = "humanGet"
            BY <4>5, <3>2 DEF FirstStep
          <5> QED BY <4>5, <5>1, <3>3 DEF Fits, Steps
        <4>6. CASE y.phase = "canceling"
          <5>1. pass'.step \in {"cancelGet", "release"} /\ pass'.then = "canceled"
            BY <4>6, <3>2 DEF FirstStep, FirstThen
          <5> QED BY <4>6, <5>1, <3>3 DEF Fits, Steps
        <4> QED BY <2>3, <1>5, <4>1, <4>2, <4>3, <4>4, <4>5, <4>6
               DEF ExecutionRecords, Phases, FinalPhase
      <3>5. Sound(cur, pass'.x) /\ Same(pass'.x, pass.copy[cur])
            /\ pass'.x.phase # "absent" /\ ~FinalPhase(pass'.x.phase)
        BY <2>3, <1>4, <1>5, <3>2 DEF Same
      <3> QED BY <1>1, <1>2, <1>3, <3>2, <3>4, <3>5, GoesOn
    <2>4. y.reviewAttempt \in Int /\ MaxAttempts \in Int
      BY <1>5, MaxAttemptsAssumption DEF ExecutionRecords
    <2> QED BY <2>1, <2>2, <2>3, <2>4
  <1> QED BY <1>1, <1>2, <1>7, FileRespected

(* The pass writes its copy over the file (writeUnlocked).                 *)
LEMMA WriteFileStep == ASSUME Inv, WriteFile PROVE Inv' /\ Respects
  <1>1. /\ UNCHANGED taskVars /\ UNCHANGED computerVars /\ UNCHANGED <<cancels, starting>>
        /\ executions' = pass.copy /\ pass' = Idle /\ pass.step = "advance"
    BY DEF WriteFile, At
  <1>2. Calm /\ \A e : Untouched(e)
    BY <1>1, InvIsWorld, NothingMoves
  <1>3. CopyInv
    BY <1>1 DEF Inv, PassInv
  <1>4. FileInv'
    <2>1. \A id \in Executions : Sound(id, pass.copy[id]) /\ CountsFit(id, pass.copy[id])
      BY <1>3 DEF CopyInv
    <2>2. \A id \in Executions : Sound(id, executions[id])'
      BY <1>1, <1>2, <2>1, CalmSound DEF Calm
    <2>3. \A id \in Executions : CountsFit(id, executions[id])'
      BY <1>1, <1>2, <2>1, CalmCounts
    <2>4. executions' \in [Executions -> ExecutionRecords]
      BY <1>1, <1>3 DEF CopyInv
    <2> QED BY <2>2, <2>3, <2>4 DEF FileInv
  <1>5. StartsFit'
    BY <1>1 DEF Inv, StartsFit
  <1>6. IsPass(Idle) /\ Idle.step = "idle"
    BY DEF IsPass, Idle
  <1>7. PassInv'
    BY <1>1, <1>6 DEF PassInv, Steps
  <1>8. Inv'
    BY <1>2, <1>4, <1>5, <1>7 DEF Inv, Calm, Moves, World
  <1>9. \A id \in Executions : FinalPhase(executions[id].phase) => executions'[id] = executions[id]
    BY <1>1, <1>3 DEF CopyInv
  <1> QED BY <1>2, <1>8, <1>9 DEF Respects

-----------------------------------------------------------------------------
(* The calls of a pass, one after the other.                               *)

(* An operation of the task store that attaches nothing, as a step.        *)
LEMMA TaskWrites ==
    ASSUME Inv, UNCHANGED computerVars, NEW t \in TaskIds, NEW op, NEW fp, Wrote(t, op, fp),
           artifacts' = artifacts, fp[1] # "add_artifact",
           op[1] = "review" => Backed(op[2], fp[2].decision)
    PROVE  /\ Calm
           /\ \A id : (op[1] \in {"submit", "review"} => op[2][1] # id) => Untouched(id)
  <1>1. World /\ TasksInv /\ Stores
    BY InvIsWorld DEF World, TasksInv
  <1>2. /\ Registry' /\ RegistryInv' /\ Grown /\ NoRun
        /\ \A run : RunCommands(run)' = RunCommands(run)
    BY <1>1, RegistryRests
  <1>3. \A k : Kept(k)
    BY <1>1, NothingFiled
  <1>4. /\ TasksInv' /\ TasksLast
        /\ \A id : (op[1] \in {"submit", "review"} => op[2][1] # id) => Untouched(id)
    BY <1>1, <1>2, <1>3, TaskWritten
  <1> QED BY <1>2, <1>4 DEF Calm, Moves, World

(* A call works for one execution, which is neither canceled nor over.     *)
LEMMA OthersRespected ==
    ASSUME UNCHANGED executions, NEW c, ~Late(c), \A id : id # c => Untouched(id),
           FinalPhase(executions[c].phase) => Late(c)
    PROVE  Respects
  BY DEF Respects

(* The claim is settled, or taken or renewed first (ensureClaim).          *)
LEMMA ClaimGetStep == ASSUME Inv, ClaimGet PROVE Inv' /\ Respects
  <1>1. Calm /\ (\A e : Untouched(e)) /\ UNCHANGED fileVars
    BY InvIsWorld, ReadMoves DEF ClaimGet
  <1>2. pass.step = "claimGet" /\ pass.step \in Steps
    BY DEF ClaimGet, At, Steps
  <1>3. IsPass(pass) /\ Fits
    BY <1>2, AtWork DEF WorkInv
  <1>4. Inv'
    <2>1. CASE ~Good(GetOutcome)
      <3>1. Answer(GetOutcome) \in Errors
        BY <2>1, GetAnswered
      <3>2. Fail(Answer(GetOutcome))
        BY <2>1 DEF ClaimGet
      <3> QED BY <3>1, <3>2, <1>1, <1>2, Fails
    <2>2. CASE Good(GetOutcome)
      <3>1. PICK task, call :
                /\ task = tasks[x.task]
                /\ call = IF W!ValidClaim(task, Worker, cur) /\ task.claim.left = "long"
                          THEN pass.then ELSE "claim"
        OBVIOUS
      <3>2. pass' = [pass EXCEPT !.snap = task, !.step = call]
        BY <2>2, <3>1 DEF ClaimGet
      <3>3. /\ pass'.step = pass.then \/ pass'.step = "claim"
            /\ pass'.queue = pass.queue /\ pass'.copy = pass.copy /\ pass'.x = pass.x
            /\ pass'.then = pass.then /\ IsPass(pass')
        BY <1>3, <3>1, <3>2 DEF IsPass
      <3>4. x' = x /\ (Worked => Worked') /\ (ToWork <=> ToWork')
        BY <1>1, <1>2, <3>3, FactsStay
      <3>5. \/ pass.then = "place" /\ ToWork
            \/ pass.then = "artifact" /\ x.phase \in {"running", "awaiting_children"} /\ Worked
        BY <1>2, <1>3 DEF Fits
      <3>6. pass'.step \in Steps /\ Fits'
        <4>1. CASE pass.then = "place" /\ ToWork
          BY <4>1, <3>3, <3>4 DEF Fits, Steps
        <4>2. CASE pass.then = "artifact" /\ x.phase \in {"running", "awaiting_children"} /\ Worked
          BY <4>2, <3>3, <3>4 DEF Fits, Steps
        <4> QED BY <3>5, <4>1, <4>2
      <3> QED BY <1>1, <1>2, <3>3, <3>6, CallsNext
    <2> QED BY <2>1, <2>2
  <1> QED BY <1>1, <1>4, FileKept, FileRespected

(* The claim is taken or renewed, in the name of the execution.            *)
LEMMA ClaimCallStep == ASSUME Inv, ClaimCall PROVE Inv' /\ Respects
  <1>1. pass.step = "claim" /\ pass.step \in Steps
    BY DEF ClaimCall, At, Steps
  <1>2. UNCHANGED computerVars /\ UNCHANGED fileVars
    BY DEF ClaimCall, TaskCall
  <1>3. IsPass(pass) /\ Fits /\ x.task \in TaskIds
    BY <1>1, AtWork DEF WorkInv
  <1>4. Calm /\ \A e : Untouched(e)
    <2>1. PICK t, op, owner, c, rev :
              t = x.task /\ op = ClaimOp /\ owner = Worker /\ c = cur /\ rev = snap.rev
      OBVIOUS
    <2>2. op[1] \notin {"submit", "review"}
      BY <2>1 DEF ClaimOp
    <2>3. Stores
      BY DEF Inv, TasksInv
    <2>4. CASE W!Renew(t, op, owner, c, rev)
      <3>1. Wrote(t, op, <<"renew", owner, c>>) /\ artifacts' = artifacts
        BY <1>3, <2>1, <2>3, <2>4, RenewWrites
      <3> QED BY <1>2, <1>3, <2>1, <2>2, <3>1, TaskWrites
    <2>5. CASE W!Claim(t, op, owner, c, rev)
      <3>1. Wrote(t, op, <<"claim", owner, c>>) /\ artifacts' = artifacts
        BY <1>3, <2>1, <2>3, <2>5, ClaimWrites
      <3> QED BY <1>2, <1>3, <2>1, <2>2, <3>1, TaskWrites
    <2>6. CASE UNCHANGED taskVars
      BY <1>2, <2>6, InvIsWorld, NothingMoves
    <2> QED BY <2>1, <2>4, <2>5, <2>6 DEF ClaimCall, TaskCall
  <1>5. Inv'
    <2>1. CASE ~Good(ClaimOutcome)
      <3>1. PICK verdict : verdict = IF Owned THEN W!RenewVerdict(tasks[x.task], Worker, cur)
                                              ELSE W!ClaimVerdict(tasks[x.task], Worker)
        OBVIOUS
      <3>2. verdict \in Answers
        BY <3>1 DEF W!RenewVerdict, W!ClaimVerdict, Answers, Errors
      <3>3. ClaimOutcome \in Answers
        BY <3>1, <3>2, TaskAnswered DEF ClaimOutcome
      <3>4. Answer(ClaimOutcome) \in Errors
        BY <2>1, <3>3, Answered
      <3>5. Fail(Answer(ClaimOutcome))
        BY <2>1 DEF ClaimCall
      <3> QED BY <1>1, <1>2, <1>4, <3>4, <3>5, Fails
    <2>2. CASE Good(ClaimOutcome)
      <3>1. pass' = [pass EXCEPT !.snap = tasks'[x.task], !.step = pass.then]
        BY <2>2 DEF ClaimCall
      <3>2. /\ pass'.step = pass.then
            /\ pass'.queue = pass.queue /\ pass'.copy = pass.copy /\ pass'.x = pass.x
            /\ pass'.then = pass.then /\ IsPass(pass')
        BY <1>3, <3>1 DEF IsPass
      <3>3. x' = x /\ (Worked => Worked') /\ (ToWork <=> ToWork')
        BY <1>1, <1>4, <3>2, FactsStay
      <3>4. \/ pass.then = "place" /\ ToWork
            \/ pass.then = "artifact" /\ x.phase \in {"running", "awaiting_children"} /\ Worked
        BY <1>1, <1>3 DEF Fits
      <3>5. pass'.step \in Steps /\ Fits'
        <4>1. CASE pass.then = "place" /\ ToWork
          BY <4>1, <3>2, <3>3 DEF Fits, Steps
        <4>2. CASE pass.then = "artifact" /\ x.phase \in {"running", "awaiting_children"} /\ Worked
          BY <4>2, <3>2, <3>3 DEF Fits, Steps
        <4> QED BY <3>4, <4>1, <4>2
      <3> QED BY <1>1, <1>2, <1>4, <3>2, <3>5, CallsNext
    <2> QED BY <2>1, <2>2
  <1> QED BY <1>2, <1>4, <1>5, FileKept, FileRespected

(* The run that is dispatched next is one there may be.                    *)
LEMMA NextRunFits ==
    ASSUME Inv, pass.step \in {"place", "acquire", "queue"}
    PROVE  /\ ToWork \/ ToReview
           /\ NextRun \in Runs /\ RunAgent \in Agents /\ NextRun[1] = cur
           /\ ToWork => ~ReviewStage /\ NextRun = <<cur, "exec", x.attempt + 1>>
           /\ ToReview => ReviewStage /\ NextRun = <<cur, "review", x.reviewAttempt + 1>>
  <1>1. pass.step \in Steps
    BY DEF Steps
  <1>2. cur \in Executions /\ x \in ExecutionRecords /\ x.reviewer \in Reviewers /\ Fits
    BY <1>1, AtWork DEF WorkInv
  <1>3. x.attempt \in 0..MaxAttempts /\ x.reviewAttempt \in 0..MaxAttempts /\ MaxAttempts \in Nat
    BY <1>2, MaxAttemptsAssumption DEF ExecutionRecords
  <1>4. ToWork \/ ToReview
    BY <1>2 DEF Fits
  <1>5. RunAgent \in Agents
    BY <1>2 DEF RunAgent, Agents
  <1>6. CASE ToWork
    <2>1. ~ReviewStage /\ ~ToReview /\ NextRun = <<cur, "exec", x.attempt + 1>>
      BY <1>6 DEF ToWork, ToReview, ReviewStage, NextRun
    <2>2. x.attempt + 1 \in 1..MaxAttempts
      BY <1>3, <1>6 DEF ToWork
    <2> QED BY <1>2, <1>4, <1>5, <2>1, <2>2 DEF Runs, Modes
  <1>7. CASE ToReview
    <2>1. ReviewStage /\ ~ToWork /\ NextRun = <<cur, "review", x.reviewAttempt + 1>>
      BY <1>7 DEF ToWork, ToReview, ReviewStage, NextRun
    <2>2. x.reviewAttempt + 1 \in 1..MaxAttempts
      BY <1>3, <1>7 DEF ToReview
    <2> QED BY <1>2, <1>4, <1>5, <2>1, <2>2 DEF Runs, Modes
  <1> QED BY <1>4, <1>6, <1>7

(* The device is looked up (queueRun).                                     *)
LEMMA PlaceStep == ASSUME Inv, Place PROVE Inv' /\ Respects
  <1>1. Calm /\ (\A e : Untouched(e)) /\ UNCHANGED fileVars
    BY InvIsWorld, ReadMoves DEF Place
  <1>2. pass.step = "place" /\ pass.step \in Steps
    BY DEF Place, At, Steps
  <1>3. IsPass(pass) /\ Fits
    BY <1>2, AtWork DEF WorkInv
  <1>4. PICK c, cap : c = bindings[RunAgent].computer /\ cap = computers[c].cap
    OBVIOUS
  <1>5. \/ Fail("canceled") \/ Fail("unbound") \/ Fail("offline")
        \/ pass' = [pass EXCEPT !.at = c, !.cap = cap, !.step = "acquire"]
    BY <1>4 DEF Place
  <1>6. ASSUME Fail("canceled") \/ Fail("unbound") \/ Fail("offline") PROVE Inv'
    <2>1. "canceled" \in Errors /\ "unbound" \in Errors /\ "offline" \in Errors
      BY DEF Errors
    <2>2. PICK err \in Errors : Fail(err)
      BY <1>6, <2>1
    <2>3. Calm /\ UNCHANGED fileVars
      BY <1>1
    <2> QED BY <1>2, <2>2, <2>3, Fails
  <1>7. ASSUME pass' = [pass EXCEPT !.at = c, !.cap = cap, !.step = "acquire"] PROVE Inv'
    <2>1. /\ pass'.step = "acquire"
          /\ pass'.queue = pass.queue /\ pass'.copy = pass.copy /\ pass'.x = pass.x
          /\ pass'.then = pass.then /\ IsPass(pass')
      BY <1>3, <1>7 DEF IsPass
    <2>2. (ToWork <=> ToWork') /\ (ToReview <=> ToReview')
      BY <1>1, <1>2, <2>1, FactsStay
    <2>3. pass'.step \in Steps /\ Fits'
      BY <1>2, <1>3, <2>1, <2>2 DEF Fits, Steps
    <2> QED BY <1>1, <1>2, <2>1, <2>3, CallsNext
  <1>8. Inv'
    BY <1>5, <1>6, <1>7
  <1> QED BY <1>1, <1>8, FileKept, FileRespected

(* The run's lease is acquired (AcquireRun).                               *)
LEMMA AcquireStep == ASSUME Inv, Acquire PROVE Inv' /\ Respects
  <1>1. pass.step = "acquire" /\ pass.step \in Steps
    BY DEF Acquire, At, Steps
  <1>2. PICK run, agent, c, outcome :
            /\ run = NextRun /\ agent = RunAgent /\ c = pass.at
            /\ outcome = C!AcquireOutcome(<<"acquire", run>>, run, agent, c, run)
    OBVIOUS
  <1>3. /\ ComputerCall(outcome, C!AcquireRun(<<"acquire", run>>, run, agent, c, run))
        /\ Good(outcome) => Goto("queue")
        /\ ~Good(outcome) => Fail(Answer(outcome))
    BY <1>2 DEF Acquire
  <1>4. UNCHANGED taskVars /\ UNCHANGED fileVars
    BY <1>3 DEF ComputerCall
  <1>5. run \in Runs /\ agent \in Agents /\ (ToWork \/ ToReview)
    BY <1>1, <1>2, NextRunFits
  <1>6. World /\ Registry /\ RegistryInv /\ TasksInv
    BY InvIsWorld DEF World
  <1>7. Calm /\ \A e : Untouched(e)
    <2>1. CASE C!AcquireRun(<<"acquire", run>>, run, agent, c, run)
      <3>1. Registry' /\ RegistryInv' /\ Grown /\ NoRun
        BY <1>5, <1>6, <2>1, AcquireRegistered
      <3>2. TasksInv' /\ TasksLast /\ \A e : Untouched(e)
        BY <1>4, <1>6, <3>1, TasksUnchanged
      <3>3. \A r : RunCommands(r)' = RunCommands(r)
        BY <3>1, RunsStay
      <3> QED BY <3>1, <3>2, <3>3 DEF Calm, Moves, World
    <2>2. CASE UNCHANGED computerVars
      BY <1>4, <1>6, <2>2, NothingMoves
    <2> QED BY <1>3, <2>1, <2>2 DEF ComputerCall
  <1>8. Inv'
    <2>1. CASE Good(outcome)
      <3>1. pass' = [pass EXCEPT !.step = "queue"]
        BY <1>3, <2>1 DEF Goto
      <3>2. IsPass(pass)
        BY <1>1, AtWork
      <3>3. /\ pass'.step = "queue"
            /\ pass'.queue = pass.queue /\ pass'.copy = pass.copy /\ pass'.x = pass.x
            /\ pass'.then = pass.then /\ IsPass(pass')
        BY <3>1, <3>2 DEF IsPass
      <3>4. (ToWork <=> ToWork') /\ (ToReview <=> ToReview')
        BY <1>1, <1>7, <3>3, FactsStay
      <3>5. pass'.step \in Steps /\ Fits'
        BY <1>5, <3>3, <3>4 DEF Fits, Steps
      <3> QED BY <1>1, <1>4, <1>7, <3>3, <3>5, CallsNext
    <2>2. CASE ~Good(outcome)
      <3>1. PICK verdict : verdict = C!AcquireVerdict(run, agent, c)
        OBVIOUS
      <3>2. verdict \in Answers /\ "lease" \in Answers
        BY <3>1 DEF C!AcquireVerdict, Answers, Errors
      <3>3. C!Outcome(<<"acquire", run>>, C!AcquireFp(run, agent, c, run), verdict) \in Answers
        BY <3>2, DeviceAnswered
      <3>4. outcome \in Answers
        BY <1>2, <3>1, <3>2, <3>3 DEF C!AcquireOutcome
      <3>5. Answer(outcome) \in Errors
        BY <2>2, <3>4, Answered
      <3> QED BY <1>1, <1>3, <1>4, <1>7, <2>2, <3>5, Fails
    <2> QED BY <2>1, <2>2
  <1> QED BY <1>4, <1>7, <1>8, FileKept, FileRespected

(* A run that has its command is counted, at most one ahead of the file.   *)
LEMMA QueuedOne ==
    ASSUME NEW id, NEW mode, NEW n \in Nat, n + 1 \in 1..MaxAttempts, Counted(id, mode, n),
           RunCommands(<<id, mode, n + 1>>)' # {},
           \A other : other # <<id, mode, n + 1>> => RunCommands(other)' = RunCommands(other)
    PROVE  /\ Queued(id, mode)' = 1..(n + 1)
           /\ \A m : m # mode => Queued(id, m)' = Queued(id, m)
           /\ \A e, m : e # id => Queued(e, m)' = Queued(e, m)
  <1>1. MaxAttempts \in Nat
    BY MaxAttemptsAssumption
  <1>2. ASSUME NEW k \in 1..MaxAttempts
        PROVE  k \in Queued(id, mode)' <=> k \in Queued(id, mode) \/ k = n + 1
    <2>1. CASE k = n + 1
      BY <2>1 DEF Queued
    <2>2. CASE k # n + 1
      <3>1. RunCommands(<<id, mode, k>>)' = RunCommands(<<id, mode, k>>)
        BY <2>2
      <3> QED BY <2>2, <3>1 DEF Queued
    <2> QED BY <2>1, <2>2
  <1>3. Queued(id, mode) \subseteq 1..MaxAttempts /\ Queued(id, mode)' \subseteq 1..MaxAttempts
    BY DEF Queued
  <1>4. Queued(id, mode)' = Queued(id, mode) \cup {n + 1}
    BY <1>2, <1>3
  <1>5. Queued(id, mode)' = 1..(n + 1)
    <2>1. CASE Queued(id, mode) = 1..n
      BY <1>4, <2>1
    <2>2. CASE Queued(id, mode) = 1..(n + 1)
      BY <1>4, <2>2
    <2> QED BY <2>1, <2>2 DEF Counted
  <1>6. ASSUME NEW m, m # mode PROVE Queued(id, m)' = Queued(id, m)
    <2>1. \A k : RunCommands(<<id, m, k>>)' = RunCommands(<<id, m, k>>)
      BY <1>6
    <2> QED BY <2>1 DEF Queued
  <1>7. ASSUME NEW e, NEW m, e # id PROVE Queued(e, m)' = Queued(e, m)
    <2>1. \A k : RunCommands(<<e, m, k>>)' = RunCommands(<<e, m, k>>)
      BY <1>7
    <2> QED BY <2>1 DEF Queued
  <1> QED BY <1>5, <1>6, <1>7

(* What an execution becomes when its next run is under way.               *)
LEMMA DispatchedFits ==
    ASSUME Inv, pass.step = "queue"
    PROVE  /\ Dispatched \in ExecutionRecords
           /\ OwnRuns(cur, Dispatched) /\ Grounded(Dispatched)
           /\ ToWork => /\ Dispatched.attempt = x.attempt + 1
                        /\ Dispatched.reviewAttempt = x.reviewAttempt
           /\ ToReview => /\ Dispatched.attempt = x.attempt
                          /\ Dispatched.reviewAttempt = x.reviewAttempt + 1
  <1>1. pass.step \in {"place", "acquire", "queue"} /\ pass.step \in Steps
    BY DEF Steps
  <1>2. x \in ExecutionRecords /\ Sound(cur, x) /\ x.task \in TaskIds /\ x.reviewer \in Reviewers
    BY <1>1, AtWork
  <1>3. PICK y, run : y = Dispatched /\ run = NextRun
    OBVIOUS
  <1>4. run \in Runs /\ run[1] = cur
    BY <1>1, <1>3, NextRunFits
  <1>5. x.attempt \in 0..MaxAttempts /\ x.reviewAttempt \in 0..MaxAttempts /\ MaxAttempts \in Nat
    BY <1>2, MaxAttemptsAssumption DEF ExecutionRecords
  <1>6. CASE ToWork
    <2>1. ~ReviewStage /\ ~ToReview /\ run[2] = "exec"
      BY <1>1, <1>3, <1>6, NextRunFits DEF ToWork, ToReview
    <2>2. y = [x EXCEPT !.attempt = x.attempt + 1, !.active = run, !.phase = "running", !.err = None]
      BY <1>3, <2>1 DEF Dispatched
    <2>3. y = [phase |-> "running", task |-> x.task, reviewer |-> x.reviewer,
               attempt |-> x.attempt + 1, reviewAttempt |-> x.reviewAttempt,
               active |-> run, result |-> x.result, err |-> None]
      BY <1>2, <2>2 DEF ExecutionRecords
    <2>4. x.attempt + 1 \in 0..MaxAttempts
      BY <1>5, <1>6 DEF ToWork
    <2>5. y \in ExecutionRecords
      BY <1>2, <1>4, <2>3, <2>4 DEF ExecutionRecords, Phases
    <2>6. OwnRuns(cur, y)
      BY <1>2, <1>4, <2>1, <2>3 DEF Sound, OwnRuns
    <2>7. Grounded(y)
      BY <1>2, <2>3 DEF Grounded
    <2> QED BY <1>3, <2>1, <2>3, <2>5, <2>6, <2>7
  <1>7. CASE ToReview
    <2>1. ReviewStage /\ ~ToWork /\ run[2] = "review"
      BY <1>1, <1>3, <1>7, NextRunFits DEF ToWork, ToReview
    <2>2. y = [x EXCEPT !.reviewAttempt = x.reviewAttempt + 1, !.active = run,
                        !.phase = "reviewing", !.err = None]
      BY <1>3, <2>1 DEF Dispatched
    <2>3. y = [phase |-> "reviewing", task |-> x.task, reviewer |-> x.reviewer,
               attempt |-> x.attempt, reviewAttempt |-> x.reviewAttempt + 1,
               active |-> run, result |-> x.result, err |-> None]
      BY <1>2, <2>2 DEF ExecutionRecords
    <2>4. x.reviewAttempt + 1 \in 0..MaxAttempts
      BY <1>5, <1>7 DEF ToReview
    <2>5. y \in ExecutionRecords
      BY <1>2, <1>4, <2>3, <2>4 DEF ExecutionRecords, Phases
    <2>6. OwnRuns(cur, y)
      BY <1>2, <1>4, <2>1, <2>3 DEF Sound, OwnRuns
    <2>7. HandedOver(x)
      BY <1>2, <1>7 DEF Sound, Grounded, ToReview
    <2>8. HandedOver(y)
      BY <2>3, <2>7 DEF HandedOver
    <2>9. Grounded(y)
      BY <1>2, <2>3, <2>8 DEF Grounded
    <2> QED BY <1>3, <2>1, <2>3, <2>5, <2>6, <2>9
  <1> QED BY <1>1, <1>6, <1>7, NextRunFits

(* A queued run is counted, and is the active run from then on.            *)
LEMMA Dispatches ==
    ASSUME Inv, Moves, UNCHANGED fileVars, pass.step = "queue", Finish(Dispatched),
           NEW run, run = NextRun, RunCommands(run)' # {},
           \A other : other # run => RunCommands(other)' = RunCommands(other)
    PROVE  Inv'
  <1>1. pass.step \in {"place", "acquire", "queue"} /\ pass.step \in Steps
    BY DEF Steps
  <1>2. PICK c, y, e : c = cur /\ y = Dispatched /\ e = executions[c]
    OBVIOUS
  <1>3. /\ c \in Executions /\ x \in ExecutionRecords /\ CountsFit(c, x) /\ CountsFit(c, e)
        /\ Same(x, e) /\ ~FinalPhase(e.phase)
        /\ pass.step # "idle" /\ pass.queue # <<>>
    BY <1>1, <1>2, AtWork
  <1>4. /\ y \in ExecutionRecords /\ OwnRuns(c, y) /\ Grounded(y)
    BY <1>2, DispatchedFits
  <1>5. Sound(c, y)'
    <2>1. Grounded(y)'
      BY <1>4, GroundedStays DEF Moves
    <2> QED BY <1>4, <2>1 DEF Sound, OwnRuns
  <1>6. x.attempt \in 0..MaxAttempts /\ x.reviewAttempt \in 0..MaxAttempts /\ MaxAttempts \in Nat
    BY <1>3, MaxAttemptsAssumption DEF ExecutionRecords
  <1>7. /\ \A mode : Queued(c, mode)' \in {Queued(c, mode)}
              \/ (mode = "exec" /\ ToWork) \/ (mode = "review" /\ ToReview)
        /\ ToWork => Queued(c, "exec")' = 1..(x.attempt + 1)
                     /\ Queued(c, "review")' = Queued(c, "review")
        /\ ToReview => Queued(c, "review")' = 1..(x.reviewAttempt + 1)
                       /\ Queued(c, "exec")' = Queued(c, "exec")
        /\ \A id, mode : id # c => Queued(id, mode)' = Queued(id, mode)
    <2>1. CASE ToWork
      <3>1. PICK n : n = x.attempt
        OBVIOUS
      <3>2. NextRun = <<cur, "exec", x.attempt + 1>>
        BY <1>1, <2>1, NextRunFits
      <3>3. ~ToReview
        BY <2>1 DEF ToWork, ToReview
      <3>4. run = <<c, "exec", n + 1>> /\ ~ToReview
        BY <1>2, <3>1, <3>2, <3>3
      <3>5. n \in Nat /\ n + 1 \in 1..MaxAttempts /\ Counted(c, "exec", n)
        BY <1>3, <1>6, <2>1, <3>1 DEF ToWork, CountsFit
      <3>6. /\ RunCommands(<<c, "exec", n + 1>>)' # {}
            /\ \A other : other # <<c, "exec", n + 1>> => RunCommands(other)' = RunCommands(other)
        BY <3>4
      <3>7. /\ Queued(c, "exec")' = 1..(n + 1)
            /\ \A m : m # "exec" => Queued(c, m)' = Queued(c, m)
            /\ \A id, m : id # c => Queued(id, m)' = Queued(id, m)
        BY <3>5, <3>6, QueuedOne
      <3> QED BY <2>1, <3>1, <3>4, <3>7
    <2>2. CASE ToReview
      <3>1. PICK n : n = x.reviewAttempt
        OBVIOUS
      <3>2. NextRun = <<cur, "review", x.reviewAttempt + 1>>
        BY <1>1, <2>2, NextRunFits
      <3>3. ~ToWork
        BY <2>2 DEF ToWork, ToReview
      <3>4. run = <<c, "review", n + 1>> /\ ~ToWork
        BY <1>2, <3>1, <3>2, <3>3
      <3>5. n \in Nat /\ n + 1 \in 1..MaxAttempts /\ Counted(c, "review", n)
        BY <1>3, <1>6, <2>2, <3>1 DEF ToReview, CountsFit
      <3>6. /\ RunCommands(<<c, "review", n + 1>>)' # {}
            /\ \A other : other # <<c, "review", n + 1>> => RunCommands(other)' = RunCommands(other)
        BY <3>4
      <3>7. /\ Queued(c, "review")' = 1..(n + 1)
            /\ \A m : m # "review" => Queued(c, m)' = Queued(c, m)
            /\ \A id, m : id # c => Queued(id, m)' = Queued(id, m)
        BY <3>5, <3>6, QueuedOne
      <3> QED BY <2>2, <3>1, <3>4, <3>7
    <2> QED BY <1>1, <2>1, <2>2, NextRunFits
  <1>8. CountsFit(c, y)' /\ CountsFit(c, e)'
    <2>1. /\ ToWork => y.attempt = x.attempt + 1 /\ y.reviewAttempt = x.reviewAttempt
          /\ ToReview => y.attempt = x.attempt /\ y.reviewAttempt = x.reviewAttempt + 1
      BY <1>2, DispatchedFits
    <2>2. e.attempt = x.attempt /\ e.reviewAttempt = x.reviewAttempt
      BY <1>3 DEF Same
    <2>3. CASE ToWork
      BY <2>1, <2>2, <2>3, <1>3, <1>7 DEF CountsFit, Counted
    <2>4. CASE ToReview
      BY <2>1, <2>2, <2>4, <1>3, <1>7 DEF CountsFit, Counted
    <2> QED BY <1>1, <2>3, <2>4, NextRunFits
  <1>9. CountsFit(c, executions[c])'
    BY <1>2, <1>8 DEF fileVars
  <1>10. \A id \in Executions : id # c => \A z : CountsFit(id, z) => CountsFit(id, z)'
    BY <1>7 DEF CountsFit, Counted
  <1>11. pass' = Keep(y)
    BY <1>2 DEF Finish
  <1> QED BY <1>2, <1>3, <1>5, <1>8, <1>9, <1>10, <1>11, Puts

(* The run is queued and counted (QueueRun).                               *)
LEMMA QueueStep == ASSUME Inv, Queue PROVE Inv' /\ Respects
  <1>1. pass.step = "queue" /\ pass.step \in Steps /\ pass.step \in {"place", "acquire", "queue"}
    BY DEF Queue, At, Steps
  <1>2. PICK run, request, c, outcome :
            /\ run = NextRun /\ request = Request /\ c = cur
            /\ outcome = C!QueueRunOutcome(<<"queue", run>>, request)
    OBVIOUS
  <1>3. /\ ComputerCall(outcome, C!QueueRun(<<"queue", run>>, request))
        /\ Good(outcome) => Finish(Dispatched)
        /\ ~Good(outcome) => Fail(Answer(outcome))
    BY <1>2 DEF Queue
  <1>4. UNCHANGED taskVars /\ UNCHANGED fileVars
    BY <1>3 DEF ComputerCall
  <1>5. run \in Runs /\ run[1] = c /\ request.run = run
    BY <1>1, <1>2, NextRunFits DEF Request
  <1>6. World /\ Registry /\ RegistryInv /\ TasksInv
    BY InvIsWorld DEF World
  <1>7. ~Late(c) /\ ~FinalPhase(executions[c].phase)
    <2>1. executions[c].phase = x.phase /\ ~FinalPhase(executions[c].phase)
      BY <1>1, <1>2, AtWork
    <2>2. x.phase \in {"pending_claim", "pending_review"}
      BY <1>1, NextRunFits DEF ToWork, ToReview
    <2> QED BY <2>1, <2>2 DEF Late
  <1>8. UNCHANGED executions /\ StartsFit'
    BY <1>4, FileKept
  <1>9. CASE C!QueueRun(<<"queue", run>>, request) /\ Answer(outcome) = "ok"
    <2>1. /\ Registry' /\ RegistryInv' /\ Grown
          /\ RunCommands(run)' # {}
          /\ \A other : other # run => RunCommands(other)' = RunCommands(other)
      BY <1>5, <1>6, <1>9, QueueRegistered
    <2>2. TasksInv' /\ TasksLast
      BY <1>4, <1>6, <2>1, TasksUnchanged
    <2>3. Moves
      BY <2>1, <2>2 DEF Moves, World
    <2>4. Good(outcome)
      BY <1>9 DEF Good
    <2>5. Inv'
      BY <1>1, <1>2, <1>3, <1>4, <2>1, <2>3, <2>4, Dispatches
    <2>6. ASSUME NEW id, id # c PROVE Untouched(id)
      <3>1. tasks' = tasks /\ artifacts' = artifacts
        BY <1>4 DEF taskVars
      <3>2. \A r \in Runs : r[1] = id => RunCommands(r)' = RunCommands(r)
        BY <1>5, <2>1, <2>6
      <3> QED BY <3>1, <3>2 DEF Untouched
    <2>7. Respects
      BY <1>7, <1>8, <2>6, OthersRespected
    <2> QED BY <2>5, <2>7
  <1>10. CASE UNCHANGED computerVars /\ Answer(outcome) # "ok"
    <2>1. Calm /\ \A e : Untouched(e)
      BY <1>4, <1>6, <1>10, NothingMoves
    <2>2. PICK verdict : verdict = C!QueueRunVerdict(request)
      OBVIOUS
    <2>3. verdict \in {"ok", "lease", "offline", "conflict"}
      BY <2>2 DEF C!QueueRunVerdict
    <2>4. outcome = C!Outcome(<<"queue", run>>, <<"queue_run", request>>, verdict)
      BY <1>2, <2>2 DEF C!QueueRunOutcome
    <2>5. Inv'
      <3>1. CASE Good(outcome)
        <4>1. outcome = "replayed"
          BY <1>10, <3>1 DEF Good, Answer
        <4>2. C!Entry(<<"queue", run>>, <<"queue_run", request>>) \in ledger
          BY <2>3, <2>4, <4>1 DEF C!Outcome
        <4>3. C!Used(<<"queue", run>>)
          BY <4>2 DEF C!Used, C!Entry
        <4>4. RunCommands(run) # {}
          BY <1>5, <1>6, <4>3 DEF RegistryInv
        <4>5. \A r : RunCommands(r)' = RunCommands(r)
          BY <2>1 DEF Calm
        <4>6. RunCommands(run)' # {}
          BY <4>4, <4>5
        <4>7. Moves
          BY <2>1 DEF Calm
        <4> QED BY <1>1, <1>2, <1>3, <1>4, <3>1, <4>5, <4>6, <4>7, Dispatches
      <3>2. CASE ~Good(outcome)
        <4>1. verdict \in Answers
          BY <2>3 DEF Answers, Errors
        <4>2. outcome \in Answers
          BY <2>4, <4>1, DeviceAnswered
        <4>3. Answer(outcome) \in Errors
          BY <3>2, <4>2, Answered
        <4> QED BY <1>1, <1>3, <1>4, <2>1, <3>2, <4>3, Fails
      <3> QED BY <3>1, <3>2
    <2> QED BY <1>8, <2>1, <2>5, FileRespected
  <1> QED BY <1>3, <1>9, <1>10 DEF ComputerCall

(* The task is read before a review is dispatched (dispatchReview).        *)
LEMMA ReviewGetStep == ASSUME Inv, ReviewGet PROVE Inv' /\ Respects
  <1>1. Calm /\ (\A e : Untouched(e)) /\ UNCHANGED fileVars
    BY InvIsWorld, ReadMoves DEF ReviewGet
  <1>2. pass.step = "reviewGet" /\ pass.step \in Steps
    BY DEF ReviewGet, At, Steps
  <1>3. IsPass(pass) /\ Fits
    BY <1>2, AtWork DEF WorkInv
  <1>4. PICK task : task = tasks[x.task]
    OBVIOUS
  <1>5. \/ ~Good(GetOutcome) /\ Fail(Answer(GetOutcome))
        \/ Fail("not_ready")
        \/ pass' = [pass EXCEPT !.snap = task, !.step = "place"]
    BY <1>4 DEF ReviewGet
  <1>6. ASSUME ~Good(GetOutcome) /\ Fail(Answer(GetOutcome)) PROVE Inv'
    <2>1. Answer(GetOutcome) \in Errors
      BY <1>6, GetAnswered
    <2> QED BY <1>1, <1>2, <1>6, <2>1, Fails
  <1>7. ASSUME Fail("not_ready") PROVE Inv'
    <2>1. "not_ready" \in Errors
      BY DEF Errors
    <2> QED BY <1>1, <1>2, <1>7, <2>1, Fails
  <1>8. ASSUME pass' = [pass EXCEPT !.snap = task, !.step = "place"] PROVE Inv'
    <2>1. /\ pass'.step = "place"
          /\ pass'.queue = pass.queue /\ pass'.copy = pass.copy /\ pass'.x = pass.x
          /\ pass'.then = pass.then /\ IsPass(pass')
      BY <1>3, <1>8 DEF IsPass
    <2>2. ToReview <=> ToReview'
      BY <1>1, <1>2, <2>1, FactsStay
    <2>3. pass'.step \in Steps /\ Fits'
      BY <1>2, <1>3, <2>1, <2>2 DEF Fits, Steps
    <2> QED BY <1>1, <1>2, <2>1, <2>3, CallsNext
  <1>9. Inv'
    BY <1>5, <1>6, <1>7, <1>8
  <1> QED BY <1>1, <1>9, FileKept, FileRespected

(* What a command tells of its run.                                        *)
LEMMA CommandTells ==
    ASSUME Inv, NEW i \in ActiveCommands
    PROVE  /\ x.active \in Runs /\ x.active # None /\ commands[i].run = x.active /\ IsCommand(commands[i])
           /\ commands[i].state \in {"queued", "sent", "acked", "failed"}
           /\ commands[i].state = "acked" =>
                 /\ commands[i].result.run = x.active
                 /\ commands[i].result.outcome \in Verdicts(x.active)
                 /\ Reported(x.active, commands[i].result.outcome)
  <1>1. i \in DOMAIN commands /\ commands[i].op = <<"queue", x.active>>
    BY DEF ActiveCommands
  <1>2. Fit(commands[i]) /\ IsCommand(commands[i])
    BY <1>1 DEF Inv, RegistryInv, Registry
  <1>3. commands[i].kind = "run_agent" /\ commands[i].op = <<"queue", commands[i].run>>
        /\ commands[i].run \in Runs
    BY <1>1, <1>2 DEF Fit
  <1>4. commands[i].run = x.active
    BY <1>1, <1>3
  <1>5. commands[i].state = "acked" =>
            /\ commands[i].result.run = x.active
            /\ commands[i].result.outcome \in Verdicts(x.active)
    BY <1>2, <1>3, <1>4 DEF Fit
  <1>6. commands[i].state = "acked" => Reported(x.active, commands[i].result.outcome)
    BY <1>1, <1>3, <1>4 DEF Reported, RunCommands
  <1>7. commands[i].state \in {"queued", "sent", "acked", "failed"}
    BY <1>2 DEF Fit
  <1>8. x.active # None
    BY <1>3, <1>4, NamesAssumption
  <1> QED BY <1>2, <1>3, <1>4, <1>5, <1>6, <1>7, <1>8

(* The command of the active run is looked at (observeExecute and          *)
(* observeReview): its report is what the run comes to.                    *)
LEMMA ObservedFits ==
    ASSUME Inv, Calm, UNCHANGED fileVars, pass.step = "observe",
           NEW command, \E i \in ActiveCommands : command = commands[i],
           pass' = Observed(command)
    PROVE  Inv'
  <1>1. pass.step \in Steps /\ pass.step # "idle"
    BY DEF Steps
  <1>2. /\ x.phase \in {"running", "reviewing"} /\ x = pass.copy[cur]
        /\ x \in ExecutionRecords /\ Sound(cur, x) /\ IsPass(pass) /\ pass.queue # <<>>
        /\ x.task \in TaskIds /\ x.reviewer \in Reviewers
    BY <1>1, AtWork DEF WorkInv, Fits
  <1>3. PICK run, c : run = x.active /\ c = cur
    OBVIOUS
  <1>4. /\ run \in Runs /\ run # None
        /\ command.state \in {"queued", "sent", "acked", "failed"}
        /\ command.state = "acked" =>
              /\ command.result.run = run
              /\ command.result.outcome \in Verdicts(run)
              /\ Reported(run, command.result.outcome)
    BY <1>3, CommandTells
  <1>5. /\ run[1] = c
        /\ x.phase = "running" => run[2] = "exec"
        /\ x.phase = "reviewing" => run[2] = "review"
    BY <1>2, <1>3, <1>4 DEF Sound, OwnRuns
  <1>6. \A r, outcome : Reported(r, outcome) => Reported(r, outcome)'
    BY ReportsStay DEF Calm, Moves
  <1>7. CASE command.state \in {"queued", "sent"}
    <2>1. pass' = Keep(pass.copy[cur])
      BY <1>7 DEF Observed
    <2> QED BY <1>1, <2>1, Waits
  <1>8. CASE command.state = "failed"
    <2>1. pass' = [pass EXCEPT !.step = "release", !.then = "failed"]
      BY <1>8 DEF Observed
    <2>2. /\ pass'.step = "release" /\ pass'.then = "failed"
          /\ pass'.queue = pass.queue /\ pass'.copy = pass.copy /\ pass'.x = pass.x
          /\ IsPass(pass')
      BY <1>2, <2>1 DEF IsPass
    <2>3. x' = x
      BY <2>2 DEF x
    <2>4. pass'.step \in Steps /\ Fits'
      BY <1>2, <2>2, <2>3 DEF Fits, Steps
    <2> QED BY <1>1, <2>2, <2>4, CallsNext
  <1>9. CASE command.state = "acked" /\ x.phase = "running" /\ command.result.outcome = "bare"
    <2>1. pass' = IF x.err = "bare" THEN Keep(pass.copy[cur]) ELSE Keep([x EXCEPT !.err = "bare"])
      BY <1>9 DEF Observed
    <2>2. Fail("bare") /\ "bare" \in Errors
      BY <2>1 DEF Fail, Errors
    <2> QED BY <1>1, <2>2, Fails
  <1>10. CASE /\ command.state = "acked"
              /\ ~(x.phase = "running" /\ command.result.outcome = "bare")
    <2>1. PICK verdict, then, y :
              /\ verdict = command.result.outcome
              /\ then = IF verdict = "failure" THEN "ended" ELSE "done"
              /\ y = [x EXCEPT !.result = IF x.phase = "running" THEN run ELSE x.result]
      OBVIOUS
    <2>2. /\ pass'.step = "release" /\ pass'.then = then /\ pass'.verdict = verdict
          /\ pass'.queue = pass.queue /\ pass'.copy = pass.copy /\ pass'.x = y
          /\ IsPass(pass')
      <3>1. pass' = [pass EXCEPT !.step = "release",
                        !.then = IF command.result.outcome = "failure" THEN "ended" ELSE "done",
                        !.verdict = command.result.outcome,
                        !.x.result = IF x.phase = "running" THEN command.result.run ELSE @]
        BY <1>4, <1>10 DEF Observed
      <3>2. command.result.run = run
        BY <1>4, <1>10
      <3>3. PICK p : p = [pass EXCEPT !.step = "release", !.then = then, !.verdict = verdict]
        OBVIOUS
      <3>4. pass' = [p EXCEPT !.x.result = IF x.phase = "running" THEN run ELSE @]
        BY <2>1, <3>1, <3>2, <3>3
      <3>5. /\ p.step = "release" /\ p.then = then /\ p.verdict = verdict
            /\ p.queue = pass.queue /\ p.copy = pass.copy /\ p.x = x /\ IsPass(p)
        BY <1>2, <3>3 DEF IsPass, x
      <3>6. pass' = [p EXCEPT !.x = y]
        BY <2>1, <3>4, <3>5
      <3> QED BY <3>5, <3>6 DEF IsPass
    <2>3. /\ y.phase = x.phase /\ y.task = x.task /\ y.reviewer = x.reviewer
          /\ y.attempt = x.attempt /\ y.reviewAttempt = x.reviewAttempt
          /\ y.active = run /\ y \in ExecutionRecords
          /\ y.result = IF x.phase = "running" THEN run ELSE x.result
      BY <1>2, <1>3, <1>4, <2>1 DEF ExecutionRecords
    <2>4. Sound(c, y)
      <3>1. OwnRuns(c, y)
        BY <1>2, <1>3, <1>5, <2>3 DEF Sound, OwnRuns
      <3>2. x.phase = "reviewing" => HandedOver(x)
        BY <1>2 DEF Sound, Grounded
      <3>3. x.phase = "reviewing" => HandedOver(y)
        BY <2>3, <3>2 DEF HandedOver
      <3>4. Grounded(y)
        BY <1>2, <2>3, <3>3 DEF Grounded
      <3> QED BY <2>3, <3>1, <3>4 DEF Sound
    <2>5. x' = y /\ cur' = c /\ pass'.copy[cur'].active = run
      BY <1>2, <1>3, <2>2 DEF x, cur
    <2>6. pass'.step \in Steps /\ Fits'
      <3>1. CASE x.phase = "running"
        <4>1. verdict \in {"pass", "failure"}
          BY <1>4, <1>5, <1>10, <2>1, <3>1 DEF Verdicts
        <4>2. verdict = "pass" => Worked'
          <5>1. verdict = "pass" => Reported(run, "pass")'
            BY <1>4, <1>6, <1>10, <2>1
          <5>2. x'.result = run
            BY <2>3, <2>5, <3>1
          <5> QED BY <1>4, <5>1, <5>2 DEF Worked
        <4> QED BY <2>1, <2>2, <2>3, <2>5, <3>1, <4>1, <4>2 DEF Fits, Steps
      <3>2. CASE x.phase = "reviewing"
        <4>1. verdict \in W!Decisions \cup {"failure"}
          BY <1>4, <1>5, <1>10, <2>1, <3>2 DEF Verdicts, Outcomes, W!Decisions
        <4>2. Reported(run, verdict)'
          BY <1>4, <1>6, <1>10, <2>1
        <4>3. verdict # "failure" => Judged'
          BY <1>4, <1>5, <2>2, <2>5, <3>2, <4>1, <4>2 DEF Judged
        <4> QED BY <2>1, <2>2, <2>3, <2>5, <3>2, <4>3 DEF Fits, Steps
      <3> QED BY <1>2, <3>1, <3>2
    <2>7. Same(pass'.x, pass.copy[cur]) /\ Sound(cur, pass'.x)
          /\ pass'.x.phase # "absent" /\ ~FinalPhase(pass'.x.phase)
      BY <1>2, <1>3, <2>2, <2>3, <2>4 DEF Same, FinalPhase
    <2> QED BY <1>1, <1>2, <2>2, <2>6, <2>7, FileKept, GoesOn
  <1> QED BY <1>4, <1>7, <1>8, <1>9, <1>10

(* The command of the active run is looked at (observeExecute,             *)
(* observeReview).                                                         *)
LEMMA ObserveStep == ASSUME Inv, Observe PROVE Inv' /\ Respects
  <1>1. Calm /\ (\A e : Untouched(e)) /\ UNCHANGED fileVars
    BY InvIsWorld, ReadMoves DEF Observe
  <1>2. pass.step = "observe" /\ pass.step \in Steps
    BY DEF Observe, At, Steps
  <1>3. \/ Fail("canceled") \/ Fail("notexist")
        \/ \E i \in ActiveCommands : pass' = Observed(commands[i])
    BY DEF Observe
  <1>4. "canceled" \in Errors /\ "notexist" \in Errors
    BY DEF Errors
  <1>5. ASSUME Fail("canceled") PROVE Inv'
    BY <1>1, <1>2, <1>4, <1>5, Fails
  <1>6. ASSUME Fail("notexist") PROVE Inv'
    BY <1>1, <1>2, <1>4, <1>6, Fails
  <1>7. ASSUME \E i \in ActiveCommands : pass' = Observed(commands[i]) PROVE Inv'
    <2>1. PICK i \in ActiveCommands : pass' = Observed(commands[i])
      BY <1>7
    <2>2. PICK command : command = commands[i]
      OBVIOUS
    <2> QED BY <1>1, <1>2, <2>1, <2>2, ObservedFits
  <1>8. Inv'
    BY <1>3, <1>5, <1>6, <1>7
  <1> QED BY <1>1, <1>8, FileKept, FileRespected

(* An execution whose run has been let go.                                 *)
LEMMA Cleared ==
    ASSUME Inv, pass.step \in Steps
    PROVE  /\ Clear(x) = [phase |-> x.phase, task |-> x.task, reviewer |-> x.reviewer,
                          attempt |-> x.attempt, reviewAttempt |-> x.reviewAttempt,
                          active |-> None, result |-> x.result, err |-> x.err]
           /\ Clear(x) \in ExecutionRecords /\ Sound(cur, Clear(x))
  <1>1. x \in ExecutionRecords /\ Sound(cur, x)
    BY AtWork
  <1>2. PICK y : y = Clear(x)
    OBVIOUS
  <1>3. y = [phase |-> x.phase, task |-> x.task, reviewer |-> x.reviewer,
             attempt |-> x.attempt, reviewAttempt |-> x.reviewAttempt,
             active |-> None, result |-> x.result, err |-> x.err]
    BY <1>1, <1>2 DEF Clear, ExecutionRecords
  <1>4. y \in ExecutionRecords
    BY <1>1, <1>3 DEF ExecutionRecords
  <1>5. OwnRuns(cur, y)
    BY <1>1, <1>3 DEF Sound, OwnRuns
  <1>6. Grounded(y)
    BY <1>1, <1>3 DEF Sound, Grounded, HandedOver
  <1> QED BY <1>2, <1>3, <1>4, <1>5, <1>6 DEF Sound

(* The run failed or had been ended (observeExecute, observeReview).       *)
LEMMA Retries ==
    ASSUME Inv, Calm, UNCHANGED fileVars, pass.step = "release",
           x.phase \in {"running", "reviewing"}, NEW y, y = x \/ y = Clear(x),
           NEW err \in {"command", "terminal"}, Retry(y, err)
    PROVE  Inv'
  <1>1. pass.step \in Steps /\ pass.step # "idle"
    BY DEF Steps
  <1>2. /\ x \in ExecutionRecords /\ Sound(cur, x) /\ IsPass(pass) /\ pass.queue # <<>>
        /\ x.task \in TaskIds /\ x.reviewer \in Reviewers /\ Same(x, pass.copy[cur])
    BY <1>1, AtWork DEF WorkInv
  <1>3. PICK z : z = Clear(x)
    OBVIOUS
  <1>4. /\ z = [phase |-> x.phase, task |-> x.task, reviewer |-> x.reviewer,
                attempt |-> x.attempt, reviewAttempt |-> x.reviewAttempt,
                active |-> None, result |-> x.result, err |-> x.err]
        /\ Sound(cur, z)
    BY <1>1, <1>3, Cleared
  <1>5. err \in Errors
    BY DEF Errors
  <1>6. CASE x.phase = "running" /\ x.attempt >= MaxAttempts
    <2>1. pass' = [pass EXCEPT !.x = y, !.step = "failGet"]
      BY <1>6 DEF Retry
    <2>2. /\ pass'.step = "failGet" /\ pass'.x = y
          /\ pass'.queue = pass.queue /\ pass'.copy = pass.copy /\ IsPass(pass')
      BY <1>2, <2>1 DEF IsPass
    <2>3. /\ Sound(cur, y) /\ y.phase = "running" /\ y.task = x.task /\ y.reviewer = x.reviewer
          /\ y.attempt = x.attempt /\ y.reviewAttempt = x.reviewAttempt
      BY <1>2, <1>3, <1>4, <1>6
    <2>4. x' = y
      BY <2>2 DEF x
    <2>5. pass'.step \in Steps /\ Fits'
      BY <2>2, <2>3, <2>4 DEF Fits, Steps
    <2>6. Same(pass'.x, pass.copy[cur]) /\ Sound(cur, pass'.x)
          /\ pass'.x.phase # "absent" /\ ~FinalPhase(pass'.x.phase)
      BY <1>2, <1>6, <2>2, <2>3 DEF Same, FinalPhase
    <2> QED BY <1>1, <1>2, <2>2, <2>5, <2>6, FileKept, GoesOn
  <1>7. CASE x.phase = "running" /\ ~(x.attempt >= MaxAttempts)
    <2>1. PICK w : w = [z EXCEPT !.phase = "pending_claim", !.err = err]
      OBVIOUS
    <2>2. Finish(w)
      BY <1>3, <1>7, <2>1 DEF Retry
    <2>3. w = [phase |-> "pending_claim", task |-> x.task, reviewer |-> x.reviewer,
               attempt |-> x.attempt, reviewAttempt |-> x.reviewAttempt,
               active |-> None, result |-> x.result, err |-> err]
      BY <1>4, <2>1
    <2>4. w \in ExecutionRecords
      BY <1>2, <1>5, <2>3 DEF ExecutionRecords, Phases
    <2>5. OwnRuns(cur, w)
      BY <1>2, <2>3 DEF Sound, OwnRuns
    <2>6. Grounded(w)'
      BY <1>2, <2>3 DEF Grounded
    <2>7. w.attempt = x.attempt /\ w.reviewAttempt = x.reviewAttempt
      BY <2>3
    <2> QED BY <1>1, <2>2, <2>4, <2>5, <2>6, <2>7, Finishes
  <1>8. CASE x.phase = "reviewing"
    <2>1. PICK phase :
        phase = IF x.reviewAttempt >= MaxAttempts THEN "awaiting_human" ELSE "pending_review"
      OBVIOUS
    <2>2. PICK w : w = [z EXCEPT !.err = err, !.phase = phase]
      OBVIOUS
    <2>3. Finish(w)
      BY <1>3, <1>8, <2>1, <2>2 DEF Retry
    <2>4. w = [phase |-> phase, task |-> x.task, reviewer |-> x.reviewer,
               attempt |-> x.attempt, reviewAttempt |-> x.reviewAttempt,
               active |-> None, result |-> x.result, err |-> err]
      BY <1>4, <2>2
    <2>5. phase \in {"awaiting_human", "pending_review"}
      BY <2>1
    <2>6. w \in ExecutionRecords
      BY <1>2, <1>5, <2>4, <2>5 DEF ExecutionRecords, Phases
    <2>7. OwnRuns(cur, w)
      BY <1>2, <2>4, <2>5 DEF Sound, OwnRuns
    <2>8. Grounded(w)
      <3>1. HandedOver(x)
        BY <1>2, <1>8 DEF Sound, Grounded
      <3>2. HandedOver(w)
        BY <2>4, <3>1 DEF HandedOver
      <3> QED BY <1>2, <2>4, <2>5, <3>2 DEF Grounded
    <2>9. Grounded(w)'
      BY <2>6, <2>8, GroundedStays DEF Calm, Moves
    <2>10. w.attempt = x.attempt /\ w.reviewAttempt = x.reviewAttempt
      BY <2>4
    <2> QED BY <1>1, <2>3, <2>6, <2>7, <2>9, <2>10, Finishes
  <1> QED BY <1>6, <1>7, <1>8

(* The run is let go, and the pass goes on with what it had come to.       *)
LEMMA LetsGo ==
    ASSUME Inv, Calm, UNCHANGED fileVars, pass.step = "release",
           NEW y, y = Clear(x), IsPass(pass'),
           pass'.x = y, pass'.queue = pass.queue, pass'.copy = pass.copy,
           pass'.verdict = pass.verdict,
           \/ /\ pass.then = "done" /\ pass'.then = "artifact"
              /\ pass'.step = IF x.phase = "running" THEN "claimGet" ELSE "verdictGet"
           \/ pass.then = "canceled" /\ pass'.step = "cancelGet"
    PROVE  Inv'
  <1>1. pass.step \in Steps /\ pass.step # "idle"
    BY DEF Steps
  <1>2. /\ x \in ExecutionRecords /\ pass.queue # <<>> /\ Fits
        /\ Same(x, pass.copy[cur]) /\ x.phase # "absent" /\ ~FinalPhase(x.phase)
    BY <1>1, AtWork DEF WorkInv
  <1>3. /\ y = [phase |-> x.phase, task |-> x.task, reviewer |-> x.reviewer,
                attempt |-> x.attempt, reviewAttempt |-> x.reviewAttempt,
                active |-> None, result |-> x.result, err |-> x.err]
        /\ Sound(cur, y)
    BY <1>1, Cleared
  <1>4. /\ y.phase = x.phase /\ y.task = x.task /\ y.reviewer = x.reviewer
        /\ y.attempt = x.attempt /\ y.reviewAttempt = x.reviewAttempt /\ y.result = x.result
    BY <1>3
  <1>5. x' = y /\ cur' = cur /\ pass'.copy[cur'] = pass.copy[cur]
    BY DEF x, cur
  <1>6. \A run, outcome : Reported(run, outcome) => Reported(run, outcome)'
    BY ReportsStay DEF Calm, Moves
  <1>7. Worked => Worked'
    BY <1>4, <1>5, <1>6 DEF Worked
  <1>8. Judged => Judged'
    BY <1>5, <1>6 DEF Judged
  <1>9. pass'.step \in Steps /\ Fits'
    <2>1. CASE pass.then = "done" /\ x.phase = "running" /\ Worked
      BY <2>1, <1>4, <1>5, <1>7 DEF Fits, Steps
    <2>2. CASE pass.then = "done" /\ x.phase = "reviewing" /\ Judged
      BY <2>2, <1>4, <1>5, <1>8 DEF Fits, Steps
    <2>3. CASE pass.then = "canceled" /\ x.phase = "canceling"
      BY <2>3, <1>4, <1>5 DEF Fits, Steps
    <2>4. \/ pass.then = "canceled" /\ x.phase = "canceling"
          \/ pass.then \in {"failed", "ended"} /\ x.phase \in {"running", "reviewing"}
          \/ pass.then = "done" /\ x.phase = "running" /\ Worked
          \/ pass.then = "done" /\ x.phase = "reviewing" /\ Judged
      BY <1>2 DEF Fits
    <2> QED BY <2>1, <2>2, <2>3, <2>4
  <1>10. Same(pass'.x, pass.copy[cur]) /\ Sound(cur, pass'.x)
         /\ pass'.x.phase # "absent" /\ ~FinalPhase(pass'.x.phase)
    BY <1>2, <1>3, <1>4 DEF Same
  <1> QED BY <1>1, <1>2, <1>9, <1>10, FileKept, GoesOn

(* The lease of a finished run is released; what the run had come to       *)
(* decides.                                                                *)
LEMMA ReleaseStep == ASSUME Inv, Release PROVE Inv' /\ Respects
  <1>1. pass.step = "release" /\ pass.step \in Steps
    BY DEF Release, At, Steps
  <1>2. PICK run, op, outcome :
            /\ run = x.active /\ op = <<"release", run>>
            /\ outcome = C!ReleaseOutcome(op, run, run)
    OBVIOUS
  <1>3. ComputerCall(outcome, C!ReleaseRun(op, run, run)) /\ AfterRelease
    BY <1>2 DEF Release
  <1>4. UNCHANGED taskVars /\ UNCHANGED fileVars
    BY <1>3 DEF ComputerCall
  <1>5. World /\ Registry /\ RegistryInv
    BY InvIsWorld DEF World
  <1>6. Calm /\ \A e : Untouched(e)
    <2>1. CASE C!ReleaseRun(op, run, run)
      <3>1. op[1] = "release"
        BY <1>2
      <3>2. Registry' /\ Quieter
        BY <1>5, <2>1, <3>1, ReleaseQuiet
      <3> QED BY <1>4, <1>5, <3>2, RegistryMoves
    <2>2. CASE UNCHANGED computerVars
      BY <1>4, <1>5, <2>2, NothingMoves
    <2> QED BY <1>3, <2>1, <2>2 DEF ComputerCall
  <1>7. IsPass(pass) /\ Fits
    BY <1>1, AtWork DEF WorkInv
  <1>8. PICK y : y = Clear(x)
    OBVIOUS
  <1>9. \/ pass.then = "failed" /\ x.phase \in {"running", "reviewing"} /\ Retry(x, "command")
        \/ pass.then = "ended" /\ x.phase \in {"running", "reviewing"} /\ Retry(y, "terminal")
        \/ /\ pass.then = "done"
           /\ pass' = [pass EXCEPT !.x = y, !.then = "artifact",
                                   !.step = IF x.phase = "running" THEN "claimGet" ELSE "verdictGet"]
        \/ pass.then = "canceled" /\ pass' = [pass EXCEPT !.x = y, !.step = "cancelGet"]
    <2>1. \/ pass.then = "canceled"
          \/ pass.then \in {"failed", "ended"} /\ x.phase \in {"running", "reviewing"}
          \/ pass.then = "done"
      BY <1>1, <1>7 DEF Fits
    <2> QED BY <1>3, <1>8, <2>1 DEF AfterRelease
  <1>10. ASSUME x.phase \in {"running", "reviewing"}, Retry(x, "command") PROVE Inv'
    BY <1>1, <1>4, <1>6, <1>10, Retries
  <1>11. ASSUME x.phase \in {"running", "reviewing"}, Retry(y, "terminal") PROVE Inv'
    BY <1>1, <1>4, <1>6, <1>8, <1>11, Retries
  <1>12. ASSUME pass.then = "done",
                pass' = [pass EXCEPT !.x = y, !.then = "artifact",
                                     !.step = IF x.phase = "running" THEN "claimGet" ELSE "verdictGet"]
         PROVE  Inv'
    <2>1. /\ pass'.x = y /\ pass'.queue = pass.queue /\ pass'.copy = pass.copy
          /\ pass'.verdict = pass.verdict /\ pass'.then = "artifact" /\ IsPass(pass')
          /\ pass'.step = IF x.phase = "running" THEN "claimGet" ELSE "verdictGet"
      BY <1>7, <1>12 DEF IsPass
    <2> QED BY <1>1, <1>4, <1>6, <1>8, <1>12, <2>1, LetsGo
  <1>13. ASSUME pass.then = "canceled", pass' = [pass EXCEPT !.x = y, !.step = "cancelGet"]
         PROVE  Inv'
    <2>1. /\ pass'.x = y /\ pass'.queue = pass.queue /\ pass'.copy = pass.copy
          /\ pass'.verdict = pass.verdict /\ pass'.step = "cancelGet" /\ IsPass(pass')
      BY <1>7, <1>13 DEF IsPass
    <2> QED BY <1>1, <1>4, <1>6, <1>8, <1>13, <2>1, LetsGo
  <1>14. Inv'
    BY <1>9, <1>10, <1>11, <1>12, <1>13
  <1> QED BY <1>4, <1>6, <1>14, FileKept, FileRespected

(* Handing over the result (submitResult).  The result of the execution at *)
(* hand is a run of its own, which reported success.                       *)
LEMMA ResultFits ==
    ASSUME Inv, pass.step \in {"artifact", "addArtifact", "submit"}
    PROVE  /\ x.result \in Runs /\ x.result \in ArtifactKeys /\ x.result # None
           /\ x.result[1] = cur /\ x.result[2] = "exec" /\ Reported(x.result, "pass")
           /\ x.phase \in {"running", "awaiting_children"} /\ Worked
           /\ pass.step = "submit" => W!Stored(x.result)
           /\ ~Late(cur) /\ ~FinalPhase(executions[cur].phase)
  <1>1. pass.step \in Steps
    BY DEF Steps
  <1>2. /\ x \in ExecutionRecords /\ Sound(cur, x) /\ Fits
        /\ executions[cur].phase = x.phase /\ ~FinalPhase(executions[cur].phase)
    BY <1>1, AtWork DEF WorkInv
  <1>3. /\ x.phase \in {"running", "awaiting_children"} /\ Worked
        /\ pass.step = "submit" => W!Stored(x.result)
    BY <1>2 DEF Fits
  <1>4. x.result # None /\ Reported(x.result, "pass")
    BY <1>3 DEF Worked
  <1>5. x.result \in Runs
    BY <1>2, <1>4 DEF ExecutionRecords
  <1>6. x.result[1] = cur /\ x.result[2] = "exec"
    BY <1>2, <1>4 DEF Sound, OwnRuns
  <1>7. ~Late(cur)
    BY <1>2, <1>3 DEF Late
  <1> QED BY <1>2, <1>3, <1>4, <1>5, <1>6, <1>7, RunsAreKeys

(* The result is looked up among the artifacts.                            *)
LEMMA ArtifactGetStep == ASSUME Inv, ArtifactGet PROVE Inv' /\ Respects
  <1>1. Calm /\ (\A e : Untouched(e)) /\ UNCHANGED fileVars
    BY InvIsWorld, ReadMoves DEF ArtifactGet
  <1>2. /\ pass.step = "artifact" /\ pass.step \in Steps
        /\ pass.step \in {"artifact", "addArtifact", "submit"}
    BY DEF ArtifactGet, At, Steps
  <1>3. IsPass(pass)
    BY <1>2, AtWork
  <1>4. \/ Fail("canceled")
        \/ W!Stored(x.result) /\ pass' = [pass EXCEPT !.step = "submit"]
        \/ pass' = [pass EXCEPT !.step = "addArtifact"]
    BY DEF ArtifactGet, Goto, Result
  <1>5. ASSUME Fail("canceled") PROVE Inv'
    <2>1. "canceled" \in Errors
      BY DEF Errors
    <2> QED BY <1>1, <1>2, <1>5, <2>1, Fails
  <1>6. ASSUME NEW call \in {"submit", "addArtifact"}, pass' = [pass EXCEPT !.step = call],
               call = "submit" => W!Stored(x.result)
        PROVE  Inv'
    <2>1. /\ pass'.step = call
          /\ pass'.queue = pass.queue /\ pass'.copy = pass.copy /\ pass'.x = pass.x
          /\ IsPass(pass')
      BY <1>3, <1>6 DEF IsPass
    <2>2. /\ x' = x /\ (Worked => Worked')
          /\ (Worked /\ W!Stored(x.result)) => W!Stored(x.result)'
      BY <1>1, <1>2, <2>1, FactsStay
    <2>3. x.phase \in {"running", "awaiting_children"} /\ Worked
      BY <1>2, ResultFits
    <2>4. pass'.step \in Steps /\ Fits'
      BY <1>6, <2>1, <2>2, <2>3 DEF Fits, Steps
    <2> QED BY <1>1, <1>2, <2>1, <2>4, CallsNext
  <1>7. Inv'
    BY <1>4, <1>5, <1>6
  <1> QED BY <1>1, <1>7, FileKept, FileRespected

(* The result is attached: its run has reported success.                   *)
LEMMA AddArtifactStep == ASSUME Inv, AddArtifact PROVE Inv' /\ Respects
  <1>1. /\ pass.step = "addArtifact" /\ pass.step \in Steps
        /\ pass.step \in {"artifact", "addArtifact", "submit"}
    BY DEF AddArtifact, At, Steps
  <1>2. PICK k, t, c, rev, op, fp, outcome :
            /\ k = x.result /\ t = x.task /\ c = cur /\ rev = snap.rev
            /\ op = <<"artifact", k>> /\ fp = W!ArtifactFp(Worker, c, k, "sha256")
            /\ outcome = W!ArtifactOutcome(t, op, Worker, c, k, "sha256", rev)
    OBVIOUS
  <1>3. /\ TaskCall(outcome, W!AddArtifact(t, op, Worker, c, k, "sha256", rev))
        /\ Good(outcome) => pass' = [pass EXCEPT !.snap = tasks'[t], !.step = "submit"]
        /\ ~Good(outcome) => Fail(Answer(outcome))
    BY <1>2 DEF AddArtifact, Result
  <1>4. UNCHANGED computerVars /\ UNCHANGED fileVars
    BY <1>3 DEF TaskCall
  <1>5. /\ k \in Runs /\ k \in ArtifactKeys /\ k[1] = c /\ k[2] = "exec" /\ Reported(k, "pass")
        /\ x.phase \in {"running", "awaiting_children"} /\ Worked
        /\ ~Late(c) /\ ~FinalPhase(executions[c].phase)
    BY <1>1, <1>2, ResultFits
  <1>6. t \in TaskIds /\ IsPass(pass)
    BY <1>1, <1>2, AtWork
  <1>7. World /\ TasksInv /\ Stores
    BY InvIsWorld DEF World, TasksInv
  <1>8. op[1] = "artifact" /\ fp[1] = "add_artifact" /\ fp[4] = k
    BY <1>2 DEF W!ArtifactFp
  <1>9. /\ Calm /\ \A e : e # c => Untouched(e)
        /\ Good(outcome) => W!Stored(k)'
    <2>1. CASE W!AddArtifact(t, op, Worker, c, k, "sha256", rev)
      <3>1. Wrote(t, op, fp) /\ Filed(t, k)
        BY <1>2, <1>5, <1>6, <1>7, <2>1, ArtifactWrites
      <3>2. Kept(k) /\ W!Stored(k)'
        BY <1>5, <3>1, FiledKept DEF Filed
      <3>3. /\ Registry' /\ RegistryInv' /\ Grown /\ NoRun
            /\ \A run : RunCommands(run)' = RunCommands(run)
        BY <1>4, <1>7, RegistryRests
      <3>4. \A key : key = fp[4] => key \in ArtifactKeys /\ W!Stored(key)'
        BY <1>5, <1>8, <3>2
      <3>5. /\ TasksInv' /\ TasksLast
            /\ \A id : (op[1] \in {"submit", "review"} => op[2][1] # id)
                       /\ (fp[1] = "add_artifact" /\ fp[4] \in Runs => fp[4][1] # id)
                       => Untouched(id)
        BY <1>6, <1>7, <1>8, <3>1, <3>2, <3>3, <3>4, TaskWritten
      <3>6. Calm
        BY <3>3, <3>5 DEF Calm, Moves, World
      <3>7. \A id : id # c => Untouched(id)
        BY <1>5, <1>8, <3>5
      <3> QED BY <3>2, <3>6, <3>7
    <2>2. CASE UNCHANGED taskVars /\ Answer(outcome) # "ok"
      <3>1. Calm /\ \A e : Untouched(e)
        BY <1>4, <1>7, <2>2, NothingMoves
      <3>2. ASSUME Good(outcome) PROVE W!Stored(k)'
        <4>1. outcome = "replayed"
          BY <2>2, <3>2 DEF Good, Answer
        <4>2. W!Entry(op, fp) \in tasks[t].ledger
          BY <1>2, <4>1 DEF W!ArtifactOutcome, W!Outcome, W!ArtifactVerdict
        <4>3. Vouched(t, W!Entry(op, fp)) /\ W!Entry(op, fp).fp = fp
          BY <1>6, <1>7, <4>2 DEF TasksInv, LedgersVouch, W!Entry
        <4>4. W!Stored(k)
          BY <1>8, <4>3 DEF Vouched
        <4> QED BY <1>5, <3>1, <4>4 DEF Calm, Moves, TasksLast
      <3> QED BY <3>1, <3>2
    <2> QED BY <1>3, <2>1, <2>2 DEF TaskCall
  <1>10. Inv'
    <2>1. CASE Good(outcome)
      <3>1. pass' = [pass EXCEPT !.snap = tasks'[t], !.step = "submit"]
        BY <1>3, <2>1
      <3>2. /\ pass'.step = "submit"
            /\ pass'.queue = pass.queue /\ pass'.copy = pass.copy /\ pass'.x = pass.x
            /\ IsPass(pass')
        BY <1>6, <3>1 DEF IsPass
      <3>3. x' = x /\ (Worked => Worked')
        BY <1>1, <1>9, <3>2, FactsStay
      <3>4. W!Stored(x.result)'
        <4>1. W!Stored(k)' /\ x'.result = k
          BY <1>2, <1>9, <2>1, <3>3
        <4> QED BY <4>1 DEF W!Stored
      <3>5. pass'.step \in Steps /\ Fits'
        BY <1>5, <3>2, <3>3, <3>4 DEF Fits, Steps
      <3> QED BY <1>1, <1>4, <1>9, <3>2, <3>5, CallsNext
    <2>2. CASE ~Good(outcome)
      <3>1. PICK verdict : verdict = W!ArtifactVerdict(tasks[t], Worker, c, k)
        OBVIOUS
      <3>2. verdict \in Answers
        BY <3>1 DEF W!ArtifactVerdict, Answers, Errors
      <3>3. outcome \in Answers
        BY <1>2, <3>1, <3>2, TaskAnswered DEF W!ArtifactOutcome
      <3>4. Answer(outcome) \in Errors
        BY <2>2, <3>3, Answered
      <3> QED BY <1>1, <1>3, <1>4, <1>9, <2>2, <3>4, Fails
    <2> QED BY <2>1, <2>2
  <1> QED BY <1>4, <1>5, <1>9, <1>10, FileKept, OthersRespected

(* The file is written and the process dies before the task is.            *)
LEMMA AddArtifactCrashStep == ASSUME Inv, AddArtifactCrash PROVE Inv' /\ Respects
  <1>1. /\ pass.step = "addArtifact" /\ pass.step \in Steps
        /\ pass.step \in {"artifact", "addArtifact", "submit"}
    BY DEF AddArtifactCrash, At, Steps
  <1>2. PICK k, t, c, rev, op :
            k = x.result /\ t = x.task /\ c = cur /\ rev = snap.rev /\ op = <<"artifact", k>>
    OBVIOUS
  <1>3. /\ W!AddArtifactCrash(t, op, Worker, c, k, "sha256", rev)
        /\ pass' = Idle /\ starting' = [id \in Executions |-> NoStart]
        /\ UNCHANGED computerVars /\ UNCHANGED <<executions, cancels>>
    BY <1>2 DEF AddArtifactCrash, Result
  <1>4. /\ k \in Runs /\ k \in ArtifactKeys /\ k[1] = c /\ k[2] = "exec" /\ Reported(k, "pass")
        /\ ~Late(c) /\ ~FinalPhase(executions[c].phase)
    BY <1>1, <1>2, ResultFits
  <1>5. t \in TaskIds
    BY <1>1, <1>2, AtWork
  <1>6. World /\ TasksInv /\ Stores
    BY InvIsWorld DEF World, TasksInv
  <1>7. tasks' = tasks /\ Filed(t, k)
    BY <1>3, <1>4, <1>5, <1>6, ArtifactLeft
  <1>8. /\ Registry' /\ RegistryInv' /\ Grown /\ NoRun
        /\ \A run : RunCommands(run)' = RunCommands(run)
    BY <1>3, <1>6, RegistryRests
  <1>9. TasksInv' /\ TasksLast /\ \A id : id # c => Untouched(id)
    BY <1>4, <1>5, <1>6, <1>7, <1>8, FileLeft
  <1>10. Calm
    BY <1>8, <1>9 DEF Calm, Moves, World
  <1>11. Inv'
    BY <1>3, <1>10, Forgets
  <1> QED BY <1>3, <1>4, <1>9, <1>11, OthersRespected

(* An execution is put back in a phase in which it has no run of its own   *)
(* to watch (failExecution, finishCancel, the ends of submitResult and     *)
(* observeReview): what the new phase rests on is all there is to show.    *)
LEMMA Concludes ==
    ASSUME Inv, Calm, UNCHANGED fileVars, pass.step \in Steps,
           NEW z, z = x, NEW y \in ExecutionRecords, Finish(y),
           y.task = z.task, y.reviewer = z.reviewer,
           y.attempt = z.attempt, y.reviewAttempt = z.reviewAttempt,
           y.active \in {z.active, None}, y.result \in {z.result, None},
           y.phase \notin {"absent", "running", "reviewing"},
           y.phase = "succeeded" => tasks'[z.task].state = "done",
           y.phase = "canceled" => W!Terminal(tasks'[z.task].state),
           y.phase = "awaiting_children" => y.result # None /\ Reported(y.result, "pass")',
           y.phase = "pending_review" => HandedOver(y)'
    PROVE  Inv'
  <1>1. PICK c : c = cur
    OBVIOUS
  <1>2. /\ z \in ExecutionRecords /\ Sound(c, z) /\ z.task \in TaskIds /\ z.reviewer \in Reviewers
    BY <1>1, AtWork
  <1>3. OwnRuns(c, y)
    <2>1. OwnRuns(c, z)
      BY <1>2 DEF Sound
    <2>2. y.active # None => y.active[1] = c
      BY <2>1 DEF OwnRuns
    <2>3. y.result # None => y.result[1] = c /\ y.result[2] = "exec"
      BY <2>1 DEF OwnRuns
    <2> QED BY <2>2, <2>3 DEF OwnRuns
  <1>4. Grounded(y)'
    BY <1>2 DEF Grounded
  <1> QED BY <1>1, <1>3, <1>4, Finishes

(* The execution at hand after the handoff (the end of submitResult): its  *)
(* phase says what was answered.                                           *)
LEMMA AfterSubmitFits ==
    ASSUME Inv, Calm, UNCHANGED fileVars, pass.step = "submit",
           NEW answer \in Answers, AfterSubmit(answer),
           NEW z, z = x, answer \in {"ok", "replayed"} => HandedOver(z)'
    PROVE  Inv'
  <1>1. /\ pass.step \in Steps /\ pass.step \in {"artifact", "addArtifact", "submit"}
    BY DEF Steps
  <1>2. z \in ExecutionRecords
    BY <1>1, AtWork
  <1>3. z.result \in Runs /\ z.result # None /\ Reported(z.result, "pass")'
    <2>1. z.result \in Runs /\ Worked
      BY <1>1, ResultFits
    <2>2. z.result # None /\ Reported(z.result, "pass")
      BY <2>1 DEF Worked
    <2> QED BY <2>1, <2>2, ReportsStay DEF Calm, Moves
  <1>4. CASE answer \in {"ok", "replayed"}
    <2>1. PICK y : y = [z EXCEPT !.phase = "pending_review", !.err = None]
      OBVIOUS
    <2>2. Finish(y)
      BY <1>4, <2>1 DEF AfterSubmit
    <2>3. /\ y \in ExecutionRecords /\ y.phase = "pending_review" /\ y.task = z.task
          /\ y.reviewer = z.reviewer /\ y.active = z.active /\ y.result = z.result
          /\ y.attempt = z.attempt /\ y.reviewAttempt = z.reviewAttempt
      BY <1>2, <2>1 DEF ExecutionRecords, Phases
    <2>4. HandedOver(y)'
      BY <1>4, <2>3 DEF HandedOver
    <2> QED BY <1>1, <2>2, <2>3, <2>4, Concludes
  <1>5. CASE answer = "transition"
    <2>1. PICK y : y = [z EXCEPT !.phase = "awaiting_children", !.err = "transition"]
      OBVIOUS
    <2>2. Finish(y)
      BY <1>5, <2>1 DEF AfterSubmit
    <2>3. /\ y \in ExecutionRecords /\ y.phase = "awaiting_children" /\ y.task = z.task
          /\ y.reviewer = z.reviewer /\ y.active = z.active /\ y.result = z.result
          /\ y.attempt = z.attempt /\ y.reviewAttempt = z.reviewAttempt
      BY <1>2, <2>1 DEF ExecutionRecords, Phases, Errors
    <2>4. y.result # None /\ Reported(y.result, "pass")'
      BY <1>3, <2>3 DEF Reported, RunCommands
    <2> QED BY <1>1, <2>2, <2>3, <2>4, Concludes
  <1>6. CASE answer \notin {"ok", "replayed", "transition"}
    <2>1. Fail(answer) /\ answer \in Errors
      BY <1>6 DEF AfterSubmit, Answers
    <2> QED BY <1>1, <2>1, Fails
  <1> QED BY <1>4, <1>5, <1>6

(* The handoff itself: when the task store takes it, or has taken it, the  *)
(* task has a handoff that names the stored result.                        *)
LEMMA SubmitStep == ASSUME Inv, Submit PROVE Inv' /\ Respects
  <1>1. /\ pass.step = "submit" /\ pass.step \in Steps
        /\ pass.step \in {"artifact", "addArtifact", "submit"}
    BY DEF Submit, At, Steps
  <1>2. PICK z, t, c, rev, ref, handoff, op, fp, verdict, outcome :
            /\ z = x /\ t = x.task /\ c = cur /\ rev = snap.rev /\ ref = Ref /\ handoff = Handoff
            /\ op = <<"submit", Result>> /\ fp = W!SubmitFp(Worker, cur, Handoff)
            /\ verdict = W!SubmitVerdict(t, Worker, c, handoff)
            /\ outcome = W!Outcome(t, op, fp, rev, W!UsedIds(tasks[t]), verdict)
    OBVIOUS
  <1>3. /\ TaskCall(outcome, W!Submit(t, op, Worker, c, handoff, rev))
        /\ AfterSubmit(Answer(outcome))
    BY <1>2 DEF Submit
  <1>4. UNCHANGED computerVars /\ UNCHANGED fileVars
    BY <1>3 DEF TaskCall
  <1>5. /\ z.result \in Runs /\ z.result \in ArtifactKeys /\ z.result # None /\ z.result[1] = c
        /\ W!Stored(z.result) /\ ~Late(c) /\ ~FinalPhase(executions[c].phase)
    BY <1>1, <1>2, ResultFits
  <1>6. t \in TaskIds /\ t = z.task
    BY <1>1, <1>2, AtWork
  <1>7. World /\ TasksInv /\ Stores
    BY InvIsWorld DEF World, TasksInv
  <1>8. op[1] = "submit" /\ op[2] = z.result /\ fp[1] = "submit" /\ fp[4] = handoff
    BY <1>2 DEF W!SubmitFp, Result
  <1>9. ref \in handoff.refs /\ ref.key = z.result
    BY <1>2 DEF Handoff, Ref, Result
  <1>10. ASSUME W!Submit(t, op, Worker, c, handoff, rev)
         PROVE  Calm /\ (\A e : e # c => Untouched(e)) /\ HandedOver(z)'
    <2>1. Wrote(t, op, fp) /\ artifacts' = artifacts
      BY <1>2, <1>6, <1>7, <1>10, SubmitWrites
    <2>2. Calm /\ \A e : e # c => Untouched(e)
      BY <1>4, <1>5, <1>6, <1>8, <2>1, TaskWrites
    <2>3. \E i \in DOMAIN tasks'[t].subs : tasks'[t].subs[i].refs = handoff.refs
      BY <1>8, <2>1 DEF Wrote, Follows
    <2>4. W!Stored(z.result)'
      BY <1>5, <2>2 DEF Calm, Moves, TasksLast
    <2>5. \E i \in DOMAIN tasks'[z.task].subs :
              \E r \in tasks'[z.task].subs[i].refs : r.key = z.result
      BY <1>6, <1>9, <2>3
    <2>6. HandedOver(z)'
      BY <1>5, <2>4, <2>5 DEF HandedOver
    <2> QED BY <2>2, <2>6
  <1>11. ASSUME UNCHANGED taskVars, Answer(outcome) # "ok"
         PROVE  Calm /\ (\A e : e # c => Untouched(e))
                /\ (Answer(outcome) \in {"ok", "replayed"} => HandedOver(z)')
    <2>1. Calm /\ \A e : Untouched(e)
      BY <1>4, <1>7, <1>11, NothingMoves
    <2>2. ASSUME Answer(outcome) = "replayed" PROVE HandedOver(z)'
      <3>1. outcome = "replayed"
        BY <2>2 DEF Answer
      <3>2. verdict \in {"transition", "lease", "refused", "unreadable", "ok"}
        BY <1>2 DEF W!SubmitVerdict
      <3>3. W!Entry(op, fp) \in tasks[t].ledger
        BY <1>2, <3>1, <3>2 DEF W!Outcome
      <3>4. Vouched(t, W!Entry(op, fp)) /\ W!Entry(op, fp).fp = fp
        BY <1>6, <1>7, <3>3 DEF TasksInv, LedgersVouch, W!Entry
      <3>5. PICK i \in DOMAIN tasks[t].subs : tasks[t].subs[i].refs = handoff.refs
        BY <1>8, <3>4 DEF Vouched
      <3>6. i \in DOMAIN tasks'[t].subs /\ tasks'[t].subs[i].refs = handoff.refs
        BY <1>6, <2>1, <3>5 DEF Calm, Moves, TasksLast
      <3>7. W!Stored(z.result)'
        BY <1>5, <2>1 DEF Calm, Moves, TasksLast
      <3>8. \E j \in DOMAIN tasks'[z.task].subs :
                \E r \in tasks'[z.task].subs[j].refs : r.key = z.result
        BY <1>6, <1>9, <3>6
      <3> QED BY <1>5, <3>7, <3>8 DEF HandedOver
    <2> QED BY <1>11, <2>1, <2>2
  <1>12. Calm /\ (\A e : e # c => Untouched(e))
         /\ (Answer(outcome) \in {"ok", "replayed"} => HandedOver(z)')
    BY <1>3, <1>10, <1>11 DEF TaskCall
  <1>13. Answer(outcome) \in Answers
    <2>1. verdict \in Answers
      BY <1>2 DEF W!SubmitVerdict, Answers, Errors
    <2>2. outcome \in Answers
      BY <1>2, <2>1, TaskAnswered
    <2> QED BY <2>2, Answered
  <1>14. Inv'
    BY <1>1, <1>2, <1>3, <1>4, <1>12, <1>13, AfterSubmitFits
  <1> QED BY <1>4, <1>5, <1>12, <1>14, FileKept, OthersRespected

-----------------------------------------------------------------------------
(* The task is read to deliver the verdict of a review run (observeReview).*)
LEMMA VerdictGetStep == ASSUME Inv, VerdictGet PROVE Inv' /\ Respects
  <1>1. Calm /\ (\A e : Untouched(e)) /\ UNCHANGED fileVars
    BY InvIsWorld, ReadMoves DEF VerdictGet
  <1>2. pass.step = "verdictGet" /\ pass.step \in Steps
    BY DEF VerdictGet, At, Steps
  <1>3. IsPass(pass) /\ Fits
    BY <1>2, AtWork DEF WorkInv
  <1>4. Inv'
    <2>1. CASE ~Good(GetOutcome)
      <3>1. Answer(GetOutcome) \in Errors
        BY <2>1, GetAnswered
      <3>2. Fail(Answer(GetOutcome))
        BY <2>1 DEF VerdictGet
      <3> QED BY <1>1, <1>2, <3>1, <3>2, Fails
    <2>2. CASE Good(GetOutcome)
      <3>1. pass' = [pass EXCEPT !.snap = tasks[x.task], !.step = "review"]
        BY <2>2 DEF VerdictGet
      <3>2. /\ pass'.step = "review"
            /\ pass'.queue = pass.queue /\ pass'.copy = pass.copy /\ pass'.x = pass.x
            /\ pass'.verdict = pass.verdict /\ IsPass(pass')
        BY <1>3, <3>1 DEF IsPass
      <3>3. x' = x /\ (Judged => Judged')
        BY <1>1, <1>2, <3>2, FactsStay
      <3>4. x.phase = "reviewing" /\ Judged
        BY <1>2, <1>3 DEF Fits
      <3>5. pass'.step \in Steps /\ Fits'
        BY <3>2, <3>3, <3>4 DEF Fits, Steps
      <3> QED BY <1>1, <1>2, <3>2, <3>5, CallsNext
    <2> QED BY <2>1, <2>2
  <1> QED BY <1>1, <1>4, FileKept, FileRespected

(* The execution follows what has become of its task (observeReview, the   *)
(* branch of advance for a human gate).                                    *)
LEMMA AfterVerdictFits ==
    ASSUME Inv, Calm, UNCHANGED fileVars, pass.step \in {"review", "humanGet"},
           NEW state, Finish(AfterVerdict(state)),
           NEW z, z = x, state = "done" => tasks'[z.task].state = "done"
    PROVE  Inv'
  <1>1. pass.step \in Steps
    BY DEF Steps
  <1>2. /\ z \in ExecutionRecords /\ z.task \in TaskIds /\ Fits /\ Sound(cur, z)
    BY <1>1, AtWork DEF WorkInv
  <1>3. z.phase \in {"reviewing", "awaiting_human"}
    BY <1>2 DEF Fits
  <1>4. PICK y : y = AfterVerdict(state)
    OBVIOUS
  <1>5. ASSUME NEW phase \in {"succeeded", "pending_claim", "awaiting_human"},
               NEW result \in {z.result, None},
               y.phase = phase, y.result = result, y \in ExecutionRecords,
               y.task = z.task, y.reviewer = z.reviewer, y.active = z.active,
               y.attempt = z.attempt, y.reviewAttempt = z.reviewAttempt,
               phase = "succeeded" => state = "done"
        PROVE  Inv'
    BY <1>1, <1>4, <1>5, Concludes
  <1>6. CASE state = "done"
    <2>1. y = [z EXCEPT !.phase = "succeeded", !.err = None]
      BY <1>4, <1>6 DEF AfterVerdict
    <2>2. /\ y \in ExecutionRecords /\ y.phase = "succeeded" /\ y.task = z.task
          /\ y.reviewer = z.reviewer /\ y.active = z.active /\ y.result = z.result
          /\ y.attempt = z.attempt /\ y.reviewAttempt = z.reviewAttempt
      BY <1>2, <2>1 DEF ExecutionRecords, Phases
    <2> QED BY <1>5, <1>6, <2>2
  <1>7. CASE state = "in_progress"
    <2>1. y = [z EXCEPT !.phase = "pending_claim", !.result = None, !.err = None]
      BY <1>4, <1>7 DEF AfterVerdict
    <2>2. /\ y \in ExecutionRecords /\ y.phase = "pending_claim" /\ y.task = z.task
          /\ y.reviewer = z.reviewer /\ y.active = z.active /\ y.result = None
          /\ y.attempt = z.attempt /\ y.reviewAttempt = z.reviewAttempt
      BY <1>2, <2>1 DEF ExecutionRecords, Phases
    <2> QED BY <1>5, <2>2
  <1>8. CASE state = "in_review"
    <2>1. y = [z EXCEPT !.phase = "awaiting_human", !.err = None]
      BY <1>4, <1>8 DEF AfterVerdict
    <2>2. /\ y \in ExecutionRecords /\ y.phase = "awaiting_human" /\ y.task = z.task
          /\ y.reviewer = z.reviewer /\ y.active = z.active /\ y.result = z.result
          /\ y.attempt = z.attempt /\ y.reviewAttempt = z.reviewAttempt
      BY <1>2, <2>1 DEF ExecutionRecords, Phases
    <2> QED BY <1>5, <2>2
  <1>9. CASE state \notin {"done", "in_progress", "in_review"}
    <2>1. y = [z EXCEPT !.err = None]
      BY <1>4, <1>9 DEF AfterVerdict
    <2>2. /\ y \in ExecutionRecords /\ y.phase = z.phase /\ y.task = z.task
          /\ y.reviewer = z.reviewer /\ y.active = z.active /\ y.result = z.result
          /\ y.attempt = z.attempt /\ y.reviewAttempt = z.reviewAttempt
      BY <1>2, <2>1 DEF ExecutionRecords
    <2>3. OwnRuns(cur, y)
      BY <1>2, <2>2 DEF Sound, OwnRuns
    <2>4. Grounded(y)
      BY <1>2, <2>2 DEF Sound, Grounded, HandedOver
    <2>5. Grounded(y)'
      BY <2>2, <2>4, GroundedStays DEF Calm, Moves
    <2>6. Finish(y)
      BY <1>4
    <2> QED BY <1>1, <2>2, <2>3, <2>5, <2>6, Finishes
  <1> QED BY <1>6, <1>7, <1>8, <1>9

(* A person decides (the human gate): the execution reads the task only.   *)
LEMMA HumanGetStep == ASSUME Inv, HumanGet PROVE Inv' /\ Respects
  <1>1. Calm /\ (\A e : Untouched(e)) /\ UNCHANGED fileVars
    BY InvIsWorld, ReadMoves DEF HumanGet
  <1>2. pass.step = "humanGet" /\ pass.step \in Steps
    BY DEF HumanGet, At, Steps
  <1>3. PICK z, state : z = x /\ state = tasks[x.task].state
    OBVIOUS
  <1>4. z.task \in TaskIds
    BY <1>2, <1>3, AtWork
  <1>5. CASE ~Good(GetOutcome)
    <2>1. Answer(GetOutcome) \in Errors
      BY <1>5, GetAnswered
    <2>2. Fail(Answer(GetOutcome))
      BY <1>5 DEF HumanGet
    <2>3. Inv'
      BY <1>1, <1>2, <2>1, <2>2, Fails
    <2> QED BY <1>1, <2>3, FileKept, FileRespected
  <1>6. CASE Good(GetOutcome) /\ state \in {"done", "in_progress"}
    <2>1. Finish(AfterVerdict(state))
      BY <1>3, <1>6 DEF HumanGet
    <2>2. state = "done" => tasks'[z.task].state = "done"
      BY <1>1, <1>3, <1>4 DEF Calm, Moves, TasksLast, W!Terminal
    <2>3. Inv'
      BY <1>1, <1>2, <1>3, <2>1, <2>2, AfterVerdictFits
    <2> QED BY <1>1, <2>3, FileKept, FileRespected
  <1>7. CASE Good(GetOutcome) /\ state \notin {"done", "in_progress"}
    <2>1. pass' = Keep(pass.copy[cur])
      BY <1>3, <1>7 DEF HumanGet, Wait, Finish
    <2>2. Inv'
      BY <1>1, <1>2, <2>1, Waits
    <2> QED BY <1>1, <2>2, FileKept, FileRespected
  <1> QED BY <1>5, <1>6, <1>7

(* The verdict is delivered (observeReview): it is what the review run of  *)
(* this execution has reported.                                            *)
LEMMA ReviewCallStep == ASSUME Inv, ReviewCall PROVE Inv' /\ Respects
  <1>1. pass.step = "review" /\ pass.step \in Steps
    BY DEF ReviewCall, At, Steps
  <1>2. PICK z, t, c, rev, run, result, op, fp, verdict, outcome :
            /\ z = x /\ t = x.task /\ c = cur /\ rev = snap.rev /\ run = pass.copy[cur].active
            /\ result = Verdict /\ op = <<"review", run>> /\ fp = W!ReviewFp(result)
            /\ verdict = W!ReviewVerdict(tasks[t], result)
            /\ outcome = W!Outcome(t, op, fp, rev, W!UsedIds(tasks[t]), verdict)
    OBVIOUS
  <1>3. /\ TaskCall(outcome, W!Review(t, op, result, rev))
        /\ Good(outcome) => Finish(AfterVerdict(tasks'[t].state))
        /\ ~Good(outcome) => Fail(Answer(outcome))
    BY <1>2 DEF ReviewCall
  <1>4. UNCHANGED computerVars /\ UNCHANGED fileVars
    BY <1>3 DEF TaskCall
  <1>5. /\ t \in TaskIds /\ t = z.task /\ Fits /\ CopyInv /\ c \in Executions
        /\ executions[c].phase = z.phase
    BY <1>1, <1>2, AtWork DEF WorkInv
  <1>6. z.phase = "reviewing" /\ Judged
    BY <1>1, <1>2, <1>5 DEF Fits
  <1>7. ~Late(c) /\ ~FinalPhase(executions[c].phase)
    BY <1>5, <1>6 DEF Late, FinalPhase
  <1>8. run # None /\ Reported(run, pass.verdict) /\ pass.verdict \in W!Decisions
    BY <1>2, <1>6 DEF Judged
  <1>9. run[1] = c
    <2>1. OwnRuns(c, pass.copy[c])
      BY <1>5 DEF CopyInv, Sound
    <2> QED BY <1>2, <1>8, <2>1 DEF OwnRuns
  <1>10. Backed(op[2], fp[2].decision)
    <2>1. fp[2].decision = pass.verdict
      BY <1>2, <1>8 DEF Verdict, W!ReviewFp
    <2>2. pass.verdict \in Outcomes \ {"failure", "bare"}
      BY <1>8 DEF W!Decisions, Outcomes
    <2> QED BY <1>2, <1>8, <2>1, <2>2 DEF Backed
  <1>11. Stores /\ World
    BY InvIsWorld DEF World, TasksInv
  <1>12. Calm /\ \A e : e # c => Untouched(e)
    <2>1. CASE W!Review(t, op, result, rev)
      <3>1. Wrote(t, op, fp) /\ artifacts' = artifacts
        BY <1>2, <1>5, <1>11, <2>1, ReviewWrites
      <3>2. fp[1] # "add_artifact" /\ op[2] = run
        BY <1>2 DEF W!ReviewFp
      <3> QED BY <1>4, <1>5, <1>9, <1>10, <3>1, <3>2, TaskWrites
    <2>2. CASE UNCHANGED taskVars
      BY <1>4, <1>11, <2>2, NothingMoves
    <2> QED BY <1>3, <2>1, <2>2 DEF TaskCall
  <1>13. Inv'
    <2>1. CASE Good(outcome)
      <3>1. PICK state : state = tasks'[t].state
        OBVIOUS
      <3>2. Finish(AfterVerdict(state))
        BY <1>3, <2>1, <3>1
      <3> QED BY <1>1, <1>2, <1>4, <1>5, <1>12, <3>1, <3>2, AfterVerdictFits
    <2>2. CASE ~Good(outcome)
      <3>1. verdict \in Answers
        BY <1>2 DEF W!ReviewVerdict, Answers, Errors
      <3>2. outcome \in Answers
        BY <1>2, <3>1, TaskAnswered
      <3>3. Answer(outcome) \in Errors
        BY <2>2, <3>2, Answered
      <3> QED BY <1>1, <1>3, <1>4, <1>12, <2>2, <3>3, Fails
    <2> QED BY <2>1, <2>2
  <1> QED BY <1>4, <1>7, <1>12, <1>13, FileKept, OthersRespected

-----------------------------------------------------------------------------
(* A canceled execution ends when its task is over (finishCancel).         *)
LEMMA CancelEnds ==
    ASSUME Inv, Calm, UNCHANGED fileVars, pass.step \in {"cancelGet", "cancelClose"},
           Finish(Canceled), NEW z, z = x, W!Terminal(tasks'[z.task].state)
    PROVE  Inv'
  <1>1. pass.step \in Steps
    BY DEF Steps
  <1>2. z \in ExecutionRecords
    BY <1>1, AtWork
  <1>3. PICK y : y = [z EXCEPT !.phase = "canceled", !.err = None]
    OBVIOUS
  <1>4. Finish(y)
    BY <1>3 DEF Canceled
  <1>5. /\ y \in ExecutionRecords /\ y.phase = "canceled" /\ y.task = z.task
        /\ y.reviewer = z.reviewer /\ y.active = z.active /\ y.result = z.result
        /\ y.attempt = z.attempt /\ y.reviewAttempt = z.reviewAttempt
    BY <1>2, <1>3 DEF ExecutionRecords, Phases
  <1> QED BY <1>1, <1>4, <1>5, Concludes

(* An execution that has failed is kept as failed whatever its task is     *)
(* (failExecution).                                                        *)
LEMMA FailEnds ==
    ASSUME Inv, Calm, UNCHANGED fileVars, pass.step \in Steps, Finish(Failed)
    PROVE  Inv'
  <1>1. PICK z : z = x
    OBVIOUS
  <1>2. z \in ExecutionRecords
    BY <1>1, AtWork
  <1>3. PICK w : w = [z EXCEPT !.active = None]
    OBVIOUS
  <1>4. /\ w \in ExecutionRecords /\ w.task = z.task /\ w.active = None
        /\ w.reviewer = z.reviewer /\ w.result = z.result
        /\ w.attempt = z.attempt /\ w.reviewAttempt = z.reviewAttempt
    BY <1>2, <1>3 DEF ExecutionRecords
  <1>5. PICK y : y = [w EXCEPT !.phase = "failed", !.err = "exhausted"]
    OBVIOUS
  <1>6. Finish(y)
    BY <1>1, <1>3, <1>5 DEF Failed, Clear
  <1>7. "failed" \in Phases /\ "exhausted" \in Errors \cup {None}
    BY DEF Phases, Errors
  <1>8. y \in ExecutionRecords
    BY <1>4, <1>5, <1>7 DEF ExecutionRecords
  <1>9. /\ y.phase = "failed" /\ y.task = w.task
        /\ y.reviewer = w.reviewer /\ y.active = w.active /\ y.result = w.result
        /\ y.attempt = w.attempt /\ y.reviewAttempt = w.reviewAttempt
    BY <1>4, <1>5 DEF ExecutionRecords
  <1> QED BY <1>1, <1>4, <1>6, <1>8, <1>9, Concludes

(* Closing a task touches no execution; when the store closes it, has      *)
(* closed it or finds it over, it is over.                                 *)
LEMMA Closes ==
    ASSUME Inv, pass.step \in Steps, NEW op, op[1] \notin {"submit", "review"}, CloseCall(op),
           NEW t, t = x.task
    PROVE  /\ Calm /\ (\A e : Untouched(e)) /\ UNCHANGED fileVars
           /\ Answer(CloseOutcome(op)) \in Answers
           /\ Answer(CloseOutcome(op)) \in {"ok", "replayed", "transition"}
                 => W!Terminal(tasks'[t].state)
  <1>1. PICK actor, rev, fp, verdict, outcome :
            /\ actor = snap.creator /\ rev = snap.rev /\ fp = <<"close", actor>>
            /\ verdict = W!CloseVerdict(tasks[t], actor) /\ outcome = CloseOutcome(op)
    OBVIOUS
  <1>2. outcome = W!Outcome(t, op, fp, rev, W!UsedIds(tasks[t]), verdict)
    BY <1>1 DEF CloseOutcome
  <1>3. TaskCall(outcome, W!Close(t, op, actor, rev))
    BY <1>1 DEF CloseCall
  <1>4. UNCHANGED computerVars /\ UNCHANGED fileVars
    BY <1>3 DEF TaskCall
  <1>5. t \in TaskIds
    BY AtWork
  <1>6. Stores /\ World /\ TasksInv
    BY InvIsWorld DEF World, TasksInv
  <1>7. verdict \in {"transition", "refused", "ok"}
        /\ (verdict = "transition" => W!Terminal(tasks[t].state))
    BY <1>1 DEF W!CloseVerdict
  <1>8. Answer(outcome) \in Answers
    <2>1. verdict \in Answers
      BY <1>7 DEF Answers, Errors
    <2>2. outcome \in Answers
      BY <1>2, <2>1, TaskAnswered
    <2> QED BY <2>2, Answered
  <1>9. CASE W!Close(t, op, actor, rev)
    <2>1. Wrote(t, op, fp) /\ artifacts' = artifacts /\ W!Terminal(tasks'[t].state)
      BY <1>1, <1>5, <1>6, <1>9, CloseWrites
    <2>2. fp[1] = "close"
      BY <1>1
    <2>3. Calm /\ \A e : Untouched(e)
      BY <1>4, <1>5, <2>1, <2>2, TaskWrites
    <2> QED BY <1>1, <1>4, <1>8, <2>1, <2>3
  <1>10. CASE UNCHANGED taskVars /\ Answer(outcome) # "ok"
    <2>1. Calm /\ \A e : Untouched(e)
      BY <1>4, <1>6, <1>10, NothingMoves
    <2>2. ASSUME Answer(outcome) \in {"replayed", "transition"} PROVE W!Terminal(tasks[t].state)
      <3>1. outcome \in {"replayed", "transition"}
        BY <2>2 DEF Answer
      <3>2. CASE outcome = "replayed"
        <4>1. W!Entry(op, fp) \in tasks[t].ledger
          BY <1>2, <1>7, <3>2 DEF W!Outcome
        <4>2. Vouched(t, W!Entry(op, fp)) /\ W!Entry(op, fp).fp = fp
          BY <1>5, <1>6, <4>1 DEF TasksInv, LedgersVouch, W!Entry
        <4>3. fp[1] = "close"
          BY <1>1
        <4> QED BY <4>2, <4>3 DEF Vouched
      <3>3. CASE outcome = "transition"
        <4>1. verdict = "transition"
          BY <1>2, <3>3 DEF W!Outcome
        <4> QED BY <1>7, <4>1
      <3> QED BY <3>1, <3>2, <3>3
    <2>3. W!Terminal(tasks[t].state) => W!Terminal(tasks'[t].state)
      BY <1>5, <2>1 DEF Calm, Moves, TasksLast
    <2> QED BY <1>1, <1>4, <1>8, <1>10, <2>1, <2>2, <2>3
  <1> QED BY <1>3, <1>9, <1>10 DEF TaskCall

(* The task is read before it is closed for a cancellation.                *)
LEMMA CancelGetStep == ASSUME Inv, CancelGet PROVE Inv' /\ Respects
  <1>1. Calm /\ (\A e : Untouched(e)) /\ UNCHANGED fileVars
    BY InvIsWorld, ReadMoves DEF CancelGet
  <1>2. pass.step = "cancelGet" /\ pass.step \in Steps
    BY DEF CancelGet, At, Steps
  <1>3. IsPass(pass) /\ Fits /\ x.task \in TaskIds
    BY <1>2, AtWork DEF WorkInv
  <1>4. Inv'
    <2>1. CASE ~Good(GetOutcome)
      <3>1. Answer(GetOutcome) \in Errors
        BY <2>1, GetAnswered
      <3>2. Fail(Answer(GetOutcome))
        BY <2>1 DEF CancelGet
      <3> QED BY <1>1, <1>2, <3>1, <3>2, Fails
    <2>2. CASE Good(GetOutcome) /\ W!Terminal(tasks[x.task].state)
      <3>1. Finish(Canceled)
        BY <2>2 DEF CancelGet
      <3>2. PICK z : z = x
        OBVIOUS
      <3>3. W!Terminal(tasks'[z.task].state)
        BY <1>1, <1>3, <2>2, <3>2 DEF Calm, Moves, TasksLast
      <3> QED BY <1>1, <1>2, <3>1, <3>2, <3>3, CancelEnds
    <2>3. CASE Good(GetOutcome) /\ ~W!Terminal(tasks[x.task].state)
      <3>1. pass' = [pass EXCEPT !.snap = tasks[x.task], !.step = "cancelClose"]
        BY <2>3 DEF CancelGet
      <3>2. /\ pass'.step = "cancelClose"
            /\ pass'.queue = pass.queue /\ pass'.copy = pass.copy /\ pass'.x = pass.x
            /\ IsPass(pass')
        BY <1>3, <3>1 DEF IsPass
      <3>3. x' = x
        BY <1>1, <1>2, <3>2, FactsStay
      <3>4. x.phase = "canceling"
        BY <1>2, <1>3 DEF Fits
      <3>5. pass'.step \in Steps /\ Fits'
        BY <3>2, <3>3, <3>4 DEF Fits, Steps
      <3> QED BY <1>1, <1>2, <3>2, <3>5, CallsNext
    <2> QED BY <2>1, <2>2, <2>3
  <1> QED BY <1>1, <1>4, FileKept, FileRespected

(* The task is closed for a cancellation.                                  *)
LEMMA CancelCloseStep == ASSUME Inv, CancelClose PROVE Inv' /\ Respects
  <1>1. pass.step = "cancelClose" /\ pass.step \in Steps
    BY DEF CancelClose, At, Steps
  <1>2. PICK op, z, outcome :
            op = <<"close-cancel", cur>> /\ z = x /\ outcome = Answer(CloseOutcome(op))
    OBVIOUS
  <1>3. /\ CloseCall(op)
        /\ outcome \in {"ok", "replayed", "transition"} => Finish(Canceled)
        /\ outcome \notin {"ok", "replayed", "transition"} => Fail(outcome)
    BY <1>2 DEF CancelClose, Good
  <1>4. op[1] \notin {"submit", "review"}
    BY <1>2
  <1>5. PICK t : t = z.task
    OBVIOUS
  <1>6. /\ Calm /\ (\A e : Untouched(e)) /\ UNCHANGED fileVars
        /\ outcome \in Answers
        /\ outcome \in {"ok", "replayed", "transition"} => W!Terminal(tasks'[t].state)
    BY <1>1, <1>2, <1>3, <1>4, <1>5, Closes
  <1>7. Inv'
    <2>1. CASE outcome \in {"ok", "replayed", "transition"}
      BY <1>1, <1>2, <1>3, <1>5, <1>6, <2>1, CancelEnds
    <2>2. CASE outcome \notin {"ok", "replayed", "transition"}
      <3>1. outcome \in Errors
        BY <1>6, <2>2 DEF Answers
      <3> QED BY <1>1, <1>3, <1>6, <2>2, <3>1, Fails
    <2> QED BY <2>1, <2>2
  <1> QED BY <1>6, <1>7, FileKept, FileRespected

(* The task is read before it is closed for a failure.                     *)
LEMMA FailGetStep == ASSUME Inv, FailGet PROVE Inv' /\ Respects
  <1>1. Calm /\ (\A e : Untouched(e)) /\ UNCHANGED fileVars
    BY InvIsWorld, ReadMoves DEF FailGet
  <1>2. pass.step = "failGet" /\ pass.step \in Steps
    BY DEF FailGet, At, Steps
  <1>3. IsPass(pass) /\ Fits
    BY <1>2, AtWork DEF WorkInv
  <1>4. Inv'
    <2>1. CASE Finish(Failed)
      BY <1>1, <1>2, <2>1, FailEnds
    <2>2. CASE pass' = [pass EXCEPT !.snap = tasks[x.task], !.step = "failClose"]
      <3>1. /\ pass'.step = "failClose"
            /\ pass'.queue = pass.queue /\ pass'.copy = pass.copy /\ pass'.x = pass.x
            /\ IsPass(pass')
        BY <1>3, <2>2 DEF IsPass
      <3>2. x' = x
        BY <1>1, <1>2, <3>1, FactsStay
      <3>3. x.phase \in {"pending_claim", "running"}
        BY <1>2, <1>3 DEF Fits
      <3>4. pass'.step \in Steps /\ Fits'
        BY <3>1, <3>2, <3>3 DEF Fits, Steps
      <3> QED BY <1>1, <1>2, <3>1, <3>4, CallsNext
    <2> QED BY <2>1, <2>2 DEF FailGet
  <1> QED BY <1>1, <1>4, FileKept, FileRespected

(* The task is closed for a failure, and the answer is not looked at.      *)
LEMMA FailCloseStep == ASSUME Inv, FailClose PROVE Inv' /\ Respects
  <1>1. pass.step = "failClose" /\ pass.step \in Steps
    BY DEF FailClose, At, Steps
  <1>2. PICK op, t : op = <<"close-failed", cur>> /\ t = x.task
    OBVIOUS
  <1>3. CloseCall(op) /\ Finish(Failed) /\ op[1] \notin {"submit", "review"}
    BY <1>2 DEF FailClose
  <1>4. Calm /\ (\A e : Untouched(e)) /\ UNCHANGED fileVars
    BY <1>1, <1>2, <1>3, Closes
  <1>5. Inv'
    BY <1>1, <1>3, <1>4, FailEnds
  <1> QED BY <1>4, <1>5, FileKept, FileRespected

-----------------------------------------------------------------------------
(* The beginning: every task is new, nothing runs and the file is empty.   *)
LEMMA TasksStart ==
    ASSUME Init
    PROVE  TasksInv
  <1>1. PICK reviewer \in [TaskIds -> Reviewers], parent \in Parents :
            tasks = [tid \in TaskIds |-> NewTask(reviewer[tid], parent[tid])]
    BY DEF Init
  <1>2. artifacts = [k \in ArtifactKeys |-> W!NoArtifact]
    BY DEF Init
  <1>3. \A t \in TaskIds : IsTask(tasks[t]) /\ tasks[t].ledger = {}
    <2> SUFFICES ASSUME NEW t \in TaskIds
                 PROVE  IsTask(tasks[t]) /\ tasks[t].ledger = {}
      OBVIOUS
    <2>1. PICK r, p, task : r = reviewer[t] /\ p = parent[t] /\ task = tasks[t]
      OBVIOUS
    <2>2. task = NewTask(r, p) /\ r \in Reviewers
      BY <1>1, <2>1
    <2>3. TaskShape(task) /\ task.reviewer = r /\ task.subs = << >> /\ task.ledger = {}
      <3>1. PICK none : none = W!NoTask
        OBVIOUS
      <3>2. TaskShape(none) /\ none.subs = << >> /\ none.ledger = {}
        BY <3>1 DEF W!NoTask, TaskShape
      <3>3. task = [none EXCEPT !.state = "todo", !.rev = 1, !.contract = 1, !.creator = Creator,
                                !.assignee = Worker, !.reviewer = r, !.parent = p]
        BY <2>2, <3>1 DEF NewTask
      <3> QED BY <3>2, <3>3 DEF TaskShape
    <2>4. task.subs \in Seq(Elems(task.subs))
      BY <2>3
    <2> QED BY <2>1, <2>2, <2>3, <2>4 DEF IsTask
  <1>4. tasks = [t \in TaskIds |-> tasks[t]] /\ Whole(artifacts)
    BY <1>1, <1>2 DEF Whole
  <1>5. Stores
    BY <1>3, <1>4 DEF Stores
  <1>6. LedgersVouch
    BY <1>3 DEF LedgersVouch
  <1>7. \A run \in Runs : ~W!Stored(run)
    BY <1>2, RunsAreKeys DEF W!Stored
  <1> QED BY <1>5, <1>6, <1>7 DEF TasksInv, ArtifactsStem

(* No command, no lease, and every agent bound.                            *)
LEMMA RegistryStarts ==
    ASSUME Init
    PROVE  /\ Registry /\ RegistryInv
           /\ \A run : RunCommands(run) = {}
  <1>1. commands = << >> /\ ledger = {} /\ runLeases = [run \in Runs |-> C!NoLease]
    BY DEF Init
  <1>2. bindings = [a \in Agents |-> bindings[a]]
    BY DEF Init
  <1>3. DOMAIN commands = {} /\ commands \in Seq(Elems(commands))
    BY <1>1
  <1>4. \A run \in Runs : IsLease(runLeases[run]) /\ ~runLeases[run].live
    BY <1>1 DEF C!NoLease, IsLease
  <1>5. Registry
    BY <1>1, <1>2, <1>3, <1>4 DEF Registry
  <1>6. \A run : RunCommands(run) = {}
    BY <1>3 DEF RunCommands
  <1>7. \A run : ~C!Used(<<"queue", run>>)
    BY <1>1 DEF C!Used
  <1>8. RegistryInv
    BY <1>3, <1>4, <1>6, <1>7 DEF RegistryInv
  <1> QED BY <1>5, <1>6, <1>8

(* No execution, no request, no pass.                                      *)
LEMMA FileStarts ==
    ASSUME Init
    PROVE  StartsFit /\ FileInv /\ PassInv
  <1>1. /\ executions = [id \in Executions |-> NoExecution] /\ cancels = {}
        /\ starting = [id \in Executions |-> NoStart] /\ pass = Idle
    BY DEF Init
  <1>2. NoExecution \in ExecutionRecords
    BY MaxAttemptsAssumption DEF NoExecution, ExecutionRecords, Phases
  <1>3. /\ NoExecution.phase = "absent" /\ NoExecution.active = None /\ NoExecution.result = None
        /\ NoExecution.attempt = 0 /\ NoExecution.reviewAttempt = 0
    BY DEF NoExecution
  <1>4. \A id \in Executions : Sound(id, NoExecution)
    BY <1>2, <1>3 DEF Sound, OwnRuns, Grounded
  <1>5. \A id \in Executions : CountsFit(id, NoExecution)
    <2>1. \A id, mode : Queued(id, mode) = {}
      BY RegistryStarts DEF Queued
    <2>2. 1..0 = {}
      OBVIOUS
    <2>3. \A id, mode : Counted(id, mode, 0)
      BY <2>1, <2>2 DEF Counted
    <2> QED BY <1>3, <2>3 DEF CountsFit
  <1>6. executions \in [Executions -> ExecutionRecords]
    BY <1>1, <1>2
  <1>7. FileInv
    BY <1>1, <1>4, <1>5, <1>6 DEF FileInv
  <1>8. StartsFit
    BY <1>1 DEF StartsFit, NoStart
  <1>9. IsPass(pass) /\ pass.step = "idle"
    BY <1>1 DEF Idle, IsPass
  <1>10. PassInv
    BY <1>9 DEF PassInv, Steps
  <1> QED BY <1>7, <1>8, <1>10

(* The invariant holds at the beginning.                                   *)
LEMMA Starts == Init => Inv
  BY TasksStart, RegistryStarts, FileStarts DEF Inv

(* Every step of every actor.                                              *)
LEMMA EveryStep ==
    ASSUME Inv, Step
    PROVE  Inv' /\ Respects
  <1>1. CASE PassStep
    BY <1>1, BeginStep, AdvanceStep, WriteFileStep, ClaimGetStep, ClaimCallStep, PlaceStep,
       AcquireStep, QueueStep, ReviewGetStep, ObserveStep, ReleaseStep, ArtifactGetStep,
       AddArtifactStep, SubmitStep, VerdictGetStep, ReviewCallStep, HumanGetStep,
       CancelGetStep, CancelCloseStep, FailGetStep, FailCloseStep
       DEF PassStep
  <1>2. ASSUME NEW id \in Executions,
               \/ \E tid \in TaskIds : StartRead(id, tid)
               \/ Start(id)
               \/ \E op \in CancelOps : Cancel(op, id) \/ CancelCrash(op, id)
        PROVE  Inv' /\ Respects
    BY <1>2, StartReadStep, StartStep, CancelStep, CancelCrashStep
  <1>3. CASE Crash \/ AddArtifactCrash \/ GiveUp
    BY <1>3, CrashStep, AddArtifactCrashStep, GiveUpStep
  <1>4. CASE Poll \/ Ack \/ Api \/ Reconnect \/ Devices
    BY <1>4, PollStep, AckStep, ApiStep, ReconnectStep, DevicesStep
  <1> QED BY <1>1, <1>2, <1>3, <1>4 DEF Step

(* A step in which nothing at all happens.                                 *)
LEMMA Rest ==
    ASSUME Inv, UNCHANGED vars
    PROVE  Inv' /\ Respects
  <1>1. UNCHANGED taskVars /\ UNCHANGED computerVars /\ UNCHANGED fileVars /\ UNCHANGED pass
    BY DEF vars, taskVars, computerVars, fileVars
  <1>2. Calm /\ \A e : Untouched(e)
    BY <1>1, InvIsWorld, NothingMoves
  <1> QED BY <1>1, <1>2, FileKept, Undisturbed, FileRespected

(* The invariant is inductive, and every step respects what is over.       *)
LEMMA Preserved == Inv /\ [Next]_vars => Inv' /\ Respects
  BY EveryStep, Rest DEF Next, Under

-----------------------------------------------------------------------------
(* Theorems.                                                               *)

(* The file of the dispatcher holds well-formed executions, whatever the   *)
(* stores answer (types.go of the dispatcher).                             *)
THEOREM FileIsWellFormed == Spec => []TypeOK
  <1>1. Inv => TypeOK
    BY DEF Inv, FileInv, StartsFit, TypeOK
  <1>2. Inv /\ [Next]_vars => Inv'
    BY Preserved
  <1> QED BY <1>1, <1>2, Starts, PTL DEF Spec

(* An execution ends as succeeded only under a task that is done, and as   *)
(* canceled only under one that is over (observeReview, finishCancel).     *)
THEOREM ExecutionsEndWithTheirTask == Spec => []EndsWithTask
  <1>1. Inv => EndsWithTask
    BY DEF Inv, FileInv, Sound, Grounded, EndsWithTask
  <1>2. Inv /\ [Next]_vars => Inv'
    BY Preserved
  <1> QED BY <1>1, <1>2, Starts, PTL DEF Spec

(* Before an execution is reviewed its result is stored and handed over    *)
(* (submitResult, dispatchReview).                                         *)
THEOREM ReviewsFollowHandoffs == Spec => []HandoffBeforeReview
  <1>1. Inv => HandoffBeforeReview
    BY DEF Inv, FileInv, Sound, Grounded, HandedOver, HandoffBeforeReview
  <1>2. Inv /\ [Next]_vars => Inv'
    BY Preserved
  <1> QED BY <1>1, <1>2, Starts, PTL DEF Spec

(* No artifact of a run and no verdict of a review but what that run has   *)
(* reported (observeExecute, observeReview).                               *)
THEOREM OnlyReportsSpeak == Spec => []ResultsWereReported
  <1>1. Inv => ResultsWereReported
    BY DEF Inv, TasksInv, LedgersVouch, ArtifactsStem, Vouched, Backed, ResultsWereReported
  <1>2. Inv /\ [Next]_vars => Inv'
    BY Preserved
  <1> QED BY <1>1, <1>2, Starts, PTL DEF Spec

(* No run is queued twice and no attempt goes uncounted (queueRun and its  *)
(* callers), with any crash between the command and the file.              *)
THEOREM EveryRunIsCounted == Spec => []RunsAreCounted
  <1>1. ASSUME Inv PROVE RunsAreCounted
    <2>1. \A run \in Runs : Cardinality(RunCommands(run)) <= 1
      <3> SUFFICES ASSUME NEW run \in Runs PROVE Cardinality(RunCommands(run)) <= 1
        OBVIOUS
      <3>1. PICK S : S = RunCommands(run)
        OBVIOUS
      <3>2. \A i, j \in S : i = j
        BY <1>1, <3>1 DEF Inv, RegistryInv
      <3>3. CASE S = {}
        BY <3>1, <3>3, FS_EmptySet
      <3>4. ASSUME NEW i \in S PROVE Cardinality(S) <= 1
        <4>1. S = {i}
          BY <3>2, <3>4
        <4> QED BY <4>1, FS_Singleton
      <3> QED BY <3>1, <3>3, <3>4
    <2>2. \A id \in Executions : CountsFit(id, executions[id])
      BY <1>1 DEF Inv, FileInv
    <2> QED BY <2>1, <2>2 DEF RunsAreCounted, CountsFit, Counted, Queued
  <1>2. Inv /\ [Next]_vars => Inv'
    BY Preserved
  <1> QED BY <1>1, <1>2, Starts, PTL DEF Spec

(* While a run is leased, its agent stays on the computer that has its     *)
(* command (Bind refuses an agent at work).                                *)
THEOREM AgentsStayWithTheirRuns == Spec => []RunsStayHome
  <1>1. ASSUME Inv PROVE RunsStayHome
    <2> SUFFICES ASSUME NEW id \in Executions, NEW run, run = executions[id].active,
                        run # None, runLeases[run].live, NEW i \in RunCommands(run)
                 PROVE  bindings[commands[i].agent].computer = commands[i].computer
      BY DEF RunsStayHome
    <2>1. run \in Runs
      BY <1>1 DEF Inv, FileInv, ExecutionRecords
    <2>2. AtHome(runLeases[run], run)
      BY <1>1, <2>1 DEF Inv, RegistryInv
    <2> QED BY <2>2 DEF AtHome
  <1>2. Inv /\ [Next]_vars => Inv'
    BY Preserved
  <1> QED BY <1>1, <1>2, Starts, PTL DEF Spec

(* What comes after a cancellation or an end changes nothing any more.     *)
THEOREM NothingComesLate == Spec => LateResultsIgnored
  <1> DEFINE Left(id) ==
                 /\ executions[id].phase \in {"canceling", "canceled", "failed", "succeeded"} =>
                       /\ \A run \in Runs : run[1] = id =>
                             RunCommands(run)' = RunCommands(run) /\ artifacts'[run] = artifacts[run]
                       /\ LET tid == executions[id].task
                          IN  \A entry \in tasks'[tid].ledger \ tasks[tid].ledger :
                                 entry.id[1] \in {"submit", "review"} => entry.id[2][1] # id
                 /\ FinalPhase(executions[id].phase) => executions'[id] = executions[id]
  <1>1. ASSUME Inv, Respects, NEW id \in Executions
        PROVE  Left(id)
    <2>1. FinalPhase(executions[id].phase) => executions'[id] = executions[id]
      BY <1>1 DEF Respects
    <2>2. ASSUME executions[id].phase \in {"canceling", "canceled", "failed", "succeeded"}
          PROVE  Untouched(id) /\ executions[id].task \in TaskIds
      <3>1. Sound(id, executions[id])
        BY <1>1 DEF Inv, FileInv
      <3>2. executions[id].task \in TaskIds
        BY <2>2, <3>1 DEF Sound, Grounded
      <3>3. Late(id)
        BY <2>2 DEF Late
      <3>4. Untouched(id)
        BY <1>1, <3>3 DEF Respects
      <3> QED BY <3>2, <3>4
    <2> QED BY <2>1, <2>2 DEF Untouched
  <1>2. Inv /\ [Next]_vars => Inv' /\ [\A id \in Executions : Left(id)]_vars
    <2> HIDE DEF Left
    <2> QED BY <1>1, Preserved
  <1> QED BY <1>2, Starts, PTL DEF Spec, LateResultsIgnored
=============================================================================
