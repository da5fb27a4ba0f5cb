----------------------------- MODULE Dispatcher -----------------------------
(***************************************************************************)
(* The coordinator between product tasks and daemons,                      *)
(* internal/dispatcher/store.go, composed with the two stores it calls.    *)
(*                                                                         *)
(* Reconcile reads the execution file, advances every execution in a fixed *)
(* order on a copy in memory, and writes the file once at the end.  Each   *)
(* call it makes to the task or computer store is a step of its own, with  *)
(* everything the HTTP API, the daemons and time may do in between.  A     *)
(* crash forgets the copy and keeps what the stores have been told.        *)
(* Start, Cancel and Reconcile exclude one another (the store's mutex).    *)
(***************************************************************************)
EXTENDS Integers, Sequences, FiniteSets

CONSTANTS
    TaskIds, Executions, Computers, ConnLeases, Capabilities,
    Order,          \* the executions sorted by id, as Reconcile visits them
    Worker,         \* the assignee of every task
    Reviewers,      \* agents that may be the gate's reviewer
    Creator,        \* the person who created the tasks
    Parents,        \* the parent functions the tasks may have been created with
    CancelOps,      \* operation ids of cancel requests
    Manual,         \* lease and artifact id of work done through the API
    MaxMoves,       \* how often an agent is bound to another computer
    MaxAttempts,    \* attempt bound of an execution
    Quiet,          \* task revision from which the outside leaves a task alone
    MaxRevision,    \* bound on task revisions
    Disturbances,   \* the sets of things that may interfere, one set in a behaviour
    None

ASSUME MaxAttemptsAssumption == MaxAttempts \in Nat \ {0}
ASSUME OrderAssumption ==
    /\ Order \in Seq(Executions)
    /\ \A known \in Executions : \E i \in DOMAIN Order : Order[i] = known
    /\ \A i, j \in DOMAIN Order : Order[i] = Order[j] => i = j

Modes == {"exec", "review"}
Agents == Reviewers \cup {Worker}
Actors == Agents \cup {Creator}
Runs == Executions \X Modes \X (1..MaxAttempts)
LeaseIds == Executions \cup {Manual}
ArtifactKeys == Runs \cup {Manual}
Digests == {"sha256"}
RunLeaseIds == Runs

(* Identities are not confused: "nothing" is none of them, and whoever     *)
(* works through the API names an artifact after no run.                   *)
ASSUME NamesAssumption ==
    /\ None \notin Runs \cup TaskIds \cup Computers \cup Reviewers \cup Executions
    /\ Manual \notin Runs
Terms == [mode : Modes, task : TaskIds, rev : 1..MaxRevision, contract : 1..MaxRevision]
Outcomes == {"pass", "reject", "needs_human", "failure", "bare"}
Ops == ({"acquire", "queue", "release"} \X Runs) \cup ({"cancel"} \X CancelOps)
       \cup ({"move"} \X (Agents \X (1..MaxMoves)))

VARIABLES
    tasks, artifacts,                                      \* workitem.Store
    computers, bindings, runLeases, commands, ledger,      \* computer.Store
    executions,     \* the dispatcher's file: Executions -> execution
    cancels,        \* its ledger of cancel requests: set of <<operation, execution>>
    starting,       \* Start requests that have read their task: Executions -> what they read
    pass,           \* Reconcile's memory
    disturbances    \* what may interfere: crash, giveup, cancel, move, failure, ...

W == INSTANCE WorkItem WITH MaxRevision <- [tid \in TaskIds |-> MaxRevision]
C == INSTANCE Computer

taskVars == <<tasks, artifacts>>
computerVars == <<computers, bindings, runLeases, commands, ledger>>
fileVars == <<executions, cancels, starting>>
vars == <<tasks, artifacts, computers, bindings, runLeases, commands, ledger,
          executions, cancels, starting, pass, disturbances>>

-----------------------------------------------------------------------------
(* Records.                                                                *)

NoExecution ==
    [phase |-> "absent", task |-> None, reviewer |-> None, attempt |-> 0,
     reviewAttempt |-> 0, active |-> None, result |-> None, err |-> None]
NoStart == [task |-> None, reviewer |-> None]

FinalPhase(phase) == phase \in {"succeeded", "failed", "canceled"}

(* Reconcile's memory: the next store call, the executions still to visit, *)
(* its copy of the file, the execution being advanced, the task as last    *)
(* read, the place and capability a run is dispatched to, the verdict      *)
(* being delivered, and whether the request it serves has been given up.   *)
(* then is what follows the call: after a release what the run had come    *)
(* to, after the claim what it is needed for.                              *)
Idle == [step |-> "idle", queue |-> <<>>, copy |-> <<>>, x |-> NoExecution,
         snap |-> W!NoTask, at |-> None, cap |-> None, verdict |-> None,
         then |-> None, gone |-> FALSE]

cur == Head(pass.queue)
x == pass.x
snap == pass.snap

At(step) == pass.step = step
Goto(step) == pass' = [pass EXCEPT !.step = step]

(* The execution is done for this pass: keep y in the copy, take the next. *)
Keep(y) ==
    [Idle EXCEPT !.step = "advance", !.queue = Tail(pass.queue),
                 !.copy = [pass.copy EXCEPT ![cur] = y], !.gone = pass.gone]
Finish(y) == pass' = Keep(y)
Wait == Finish(pass.copy[cur])

(* An error is stored with everything advance changed before it, unless it *)
(* repeats the last one: then the whole change is dropped.                 *)
Fail(err) ==
    pass' = IF x.err = err THEN Keep(pass.copy[cur]) ELSE Keep([x EXCEPT !.err = err])

(* Every store refuses the calls of a request that has been given up.      *)
Answer(outcome) == IF pass.gone THEN "canceled" ELSE outcome
Good(outcome) == Answer(outcome) \in {"ok", "replayed"}

(* A call that changes a store when its answer is "ok", and nothing        *)
(* otherwise.                                                              *)
TaskCall(outcome, action) ==
    /\ \/ Answer(outcome) = "ok" /\ action
       \/ Answer(outcome) # "ok" /\ UNCHANGED taskVars
    /\ UNCHANGED <<computerVars, fileVars>>

ComputerCall(outcome, action) ==
    /\ \/ Answer(outcome) = "ok" /\ action
       \/ Answer(outcome) # "ok" /\ UNCHANGED computerVars
    /\ UNCHANGED <<taskVars, fileVars>>

ReadStep == UNCHANGED <<taskVars, computerVars, fileVars>>
GetOutcome == IF W!Readable(tasks[x.task]) THEN "ok" ELSE "unreadable"

(* The run that is dispatched next.                                        *)
Clear(y) == [y EXCEPT !.active = None]
ReviewStage == x.phase = "pending_review"
NextRun == IF ReviewStage THEN <<cur, "review", x.reviewAttempt + 1>>
                          ELSE <<cur, "exec", x.attempt + 1>>
RunAgent == IF ReviewStage THEN x.reviewer ELSE Worker

(* The command of the active run, if there is one.                         *)
ActiveCommands == {i \in DOMAIN commands : commands[i].op = <<"queue", x.active>>}

-----------------------------------------------------------------------------
(* Requests.  Start reads the task before it takes the store's lock.       *)

StartRead(id, tid) ==
    /\ starting[id] = NoStart
    /\ tasks[tid].state \in {"todo", "in_progress"}
    /\ tasks[tid].reviewer # Worker
    /\ starting' = [starting EXCEPT ![id] = [task |-> tid, reviewer |-> tasks[tid].reviewer]]
    /\ UNCHANGED <<taskVars, computerVars, executions, cancels, pass>>

Start(id) ==
    /\ At("idle")
    /\ starting[id] # NoStart
    /\ executions[id].phase = "absent"
    /\ executions' = [executions EXCEPT ![id] =
          [NoExecution EXCEPT !.phase = "pending_claim", !.task = starting[id].task,
                              !.reviewer = starting[id].reviewer]]
    /\ UNCHANGED <<taskVars, computerVars, cancels, starting, pass>>

CancelVerdict(op, id) ==
    IF \E known \in Executions : <<op, known>> \in cancels
       THEN IF <<op, id>> \in cancels THEN "replayed" ELSE "conflict"
    ELSE IF executions[id].phase = "absent" THEN "notexist"
    ELSE IF FinalPhase(executions[id].phase) THEN "terminal"
    ELSE "ok"

(* A run whose lease is gone already needs no command.                     *)
CancelOutcome(op, id) ==
    IF executions[id].active = None THEN "lease"
    ELSE C!QueueCancelOutcome(<<"cancel", op>>, executions[id].active)

CancelRun(op, id) ==
    \/ CancelOutcome(op, id) = "ok" /\ C!QueueCancel(<<"cancel", op>>, executions[id].active)
    \/ CancelOutcome(op, id) # "ok" /\ UNCHANGED computerVars

(* Mutant: Cancel does not take the store's lock.                          *)
CancelUnlocked(op, id) ==
    /\ CancelVerdict(op, id) = "ok"
    /\ CancelOutcome(op, id) # "conflict"
    /\ CancelRun(op, id)
    /\ executions' = [executions EXCEPT ![id] = [@ EXCEPT !.phase = "canceling", !.err = None]]
    /\ cancels' = cancels \cup {<<op, id>>}
    /\ UNCHANGED <<taskVars, starting, pass>>

Cancel(op, id) ==
    /\ At("idle")
    /\ CancelVerdict(op, id) = "ok"
    /\ CancelOutcome(op, id) # "conflict"
    /\ CancelRun(op, id)
    /\ executions' = [executions EXCEPT ![id] = [@ EXCEPT !.phase = "canceling", !.err = None]]
    /\ cancels' = cancels \cup {<<op, id>>}
    /\ UNCHANGED <<taskVars, starting, pass>>

(* The process dies between the command and the file.                      *)
CancelCrash(op, id) ==
    /\ At("idle") /\ "crash" \in disturbances
    /\ CancelVerdict(op, id) = "ok"
    /\ CancelOutcome(op, id) = "ok" /\ CancelRun(op, id)
    /\ UNCHANGED <<taskVars, fileVars, pass>>

-----------------------------------------------------------------------------
(* Reconcile and advance.                                                  *)

Begin ==
    /\ At("idle")
    /\ pass' = [Idle EXCEPT !.step = "advance", !.copy = executions, !.queue = Order]
    /\ ReadStep

(* An execution is taken up: its phase says what comes first.  One that    *)
(* has not been started is not in the file and is passed over.             *)
FirstStep(y) ==
    CASE y.phase = "pending_claim" -> IF y.attempt >= MaxAttempts THEN "failGet" ELSE "claimGet"
      [] y.phase \in {"running", "reviewing"} -> "observe"
      [] y.phase = "awaiting_children" -> "claimGet"
      [] y.phase = "pending_review" -> "reviewGet"
      [] y.phase = "awaiting_human" -> "humanGet"
      [] y.phase = "canceling" -> IF y.active = None THEN "cancelGet" ELSE "release"
      [] OTHER -> "advance"

FirstThen(y) ==
    CASE y.phase = "pending_claim" -> "place"
      [] y.phase = "awaiting_children" -> "artifact"
      [] y.phase = "canceling" -> "canceled"
      [] OTHER -> None

Advance ==
    /\ At("advance") /\ pass.queue # <<>>
    /\ LET y == pass.copy[cur]
       IN  pass' = IF y.phase = "absent" \/ FinalPhase(y.phase) THEN Keep(y)
                   ELSE IF y.phase = "pending_review" /\ y.reviewAttempt >= MaxAttempts
                   THEN Keep([y EXCEPT !.phase = "awaiting_human", !.err = "exhausted"])
                   ELSE [pass EXCEPT !.x = y, !.step = FirstStep(y), !.then = FirstThen(y)]
    /\ ReadStep

(* The file is replaced in one rename.                                     *)
WriteFile ==
    /\ At("advance") /\ pass.queue = <<>>
    /\ executions' = pass.copy
    /\ pass' = Idle
    /\ UNCHANGED <<taskVars, computerVars, cancels, starting>>

-----------------------------------------------------------------------------
(* Claiming the task: ensureClaim.                                         *)

Owned == W!ValidClaim(snap, Worker, cur)

ClaimGet ==
    /\ At("claimGet")
    /\ IF ~Good(GetOutcome) THEN Fail(Answer(GetOutcome))
       ELSE LET task == tasks[x.task]
                settled == W!ValidClaim(task, Worker, cur) /\ task.claim.left = "long"
            IN  pass' = [pass EXCEPT !.snap = task, !.step = IF settled THEN pass.then ELSE "claim"]
    /\ ReadStep

(* Renew a claim that is about to end, else take the task anew; both name  *)
(* their operation after the revision that was read.                       *)
ClaimFp == <<IF Owned THEN "renew" ELSE "claim", Worker, cur>>
ClaimOp == <<IF Owned THEN "renew" ELSE "claim", cur, snap.rev>>
ClaimOutcome ==
    W!Outcome(x.task, ClaimOp, ClaimFp, snap.rev, W!UsedIds(tasks[x.task]),
              IF Owned THEN W!RenewVerdict(tasks[x.task], Worker, cur)
                       ELSE W!ClaimVerdict(tasks[x.task], Worker))

ClaimCall ==
    /\ At("claim")
    /\ TaskCall(ClaimOutcome,
                IF Owned THEN W!Renew(x.task, ClaimOp, Worker, cur, snap.rev)
                         ELSE W!Claim(x.task, ClaimOp, Worker, cur, snap.rev))
    /\ IF Good(ClaimOutcome)
       THEN pass' = [pass EXCEPT !.snap = tasks'[x.task], !.step = pass.then]
       ELSE Fail(Answer(ClaimOutcome))

-----------------------------------------------------------------------------
(* Dispatching a run: queueRun, and what its callers do with the command.  *)

Place ==
    /\ At("place")
    /\ LET c == bindings[RunAgent].computer
       IN  IF pass.gone THEN Fail("canceled")
           ELSE IF c = None THEN Fail("unbound")
           ELSE IF ~C!Connected(c) THEN Fail("offline")
           ELSE pass' = [pass EXCEPT !.at = c, !.cap = computers[c].cap, !.step = "acquire"]
    /\ ReadStep

Acquire ==
    /\ At("acquire")
    /\ LET op == <<"acquire", NextRun>>
           outcome == C!AcquireOutcome(op, NextRun, RunAgent, pass.at, NextRun)
       IN  /\ ComputerCall(outcome, C!AcquireRun(op, NextRun, RunAgent, pass.at, NextRun))
           /\ IF Good(outcome) THEN Goto("queue") ELSE Fail(Answer(outcome))

Request ==
    [run |-> NextRun, agent |-> RunAgent, cap |-> pass.cap,
     terms |-> [mode |-> NextRun[2], task |-> x.task, rev |-> snap.rev, contract |-> snap.contract]]

(* Mutant: a review counts as an attempt at the work.                      *)
DispatchedAsWork ==
    [x EXCEPT !.attempt = @ + 1, !.active = NextRun, !.err = None,
              !.phase = IF ReviewStage THEN "reviewing" ELSE "running"]

Dispatched ==
    IF ReviewStage
    THEN [x EXCEPT !.reviewAttempt = @ + 1, !.active = NextRun, !.phase = "reviewing", !.err = None]
    ELSE [x EXCEPT !.attempt = @ + 1, !.active = NextRun, !.phase = "running", !.err = None]

Queue ==
    /\ At("queue")
    /\ LET op == <<"queue", NextRun>>
           outcome == C!QueueRunOutcome(op, Request)
       IN  /\ ComputerCall(outcome, C!QueueRun(op, Request))
           /\ IF Good(outcome) THEN Finish(Dispatched) ELSE Fail(Answer(outcome))

(* dispatchReview reads the task to see that it is ready.                  *)
ReviewGet ==
    /\ At("reviewGet")
    /\ LET task == tasks[x.task]
       IN  IF ~Good(GetOutcome) THEN Fail(Answer(GetOutcome))
           ELSE IF task.state # "in_review" \/ task.subs = <<>> THEN Fail("not_ready")
           ELSE pass' = [pass EXCEPT !.snap = task, !.step = "place"]
    /\ ReadStep

-----------------------------------------------------------------------------
(* Observing a run: observeExecute and observeReview.                      *)

(* Mutant: any finished command is taken for a success.                    *)
ObservedDone(command) ==
    IF command.state \in {"queued", "sent"} THEN Keep(pass.copy[cur])
    ELSE [pass EXCEPT !.step = "release", !.then = "done", !.verdict = command.result.outcome,
                      !.x.result = IF x.phase = "running" THEN x.active ELSE @]

Observed(command) ==
    CASE command.state \in {"queued", "sent"} -> Keep(pass.copy[cur])
      [] command.state = "failed" -> [pass EXCEPT !.step = "release", !.then = "failed"]
      [] command.state = "acked" ->
           IF x.phase = "running" /\ command.result.outcome = "bare"
           THEN IF x.err = "bare" THEN Keep(pass.copy[cur]) ELSE Keep([x EXCEPT !.err = "bare"])
           ELSE [pass EXCEPT !.step = "release",
                             !.then = IF command.result.outcome = "failure" THEN "ended" ELSE "done",
                             !.verdict = command.result.outcome,
                             !.x.result = IF x.phase = "running" THEN command.result.run ELSE @]

Observe ==
    /\ At("observe")
    /\ IF pass.gone THEN Fail("canceled")
       ELSE IF ActiveCommands = {} THEN Fail("notexist")
       ELSE \E i \in ActiveCommands : pass' = Observed(commands[i])
    /\ ReadStep

(* The run is over, without success; err says why.  failExecution releases *)
(* the lease once more, which changes nothing.                             *)
Retry(y, err) ==
    IF x.phase = "running"
    THEN IF x.attempt >= MaxAttempts
         THEN pass' = [pass EXCEPT !.x = y, !.step = "failGet"]
         ELSE Finish([Clear(x) EXCEPT !.phase = "pending_claim", !.err = err])
    ELSE Finish([Clear(x) EXCEPT !.err = err,
            !.phase = IF x.reviewAttempt >= MaxAttempts THEN "awaiting_human" ELSE "pending_review"])

AfterRelease ==
    CASE pass.then = "failed" -> Retry(x, "command")
      [] pass.then = "ended" -> Retry(Clear(x), "terminal")
      [] pass.then = "done" ->
           pass' = [pass EXCEPT !.x = Clear(x), !.then = "artifact",
                                !.step = IF x.phase = "running" THEN "claimGet" ELSE "verdictGet"]
      [] pass.then = "canceled" -> pass' = [pass EXCEPT !.x = Clear(x), !.step = "cancelGet"]

(* Whether the release worked is not looked at.                            *)
Release ==
    /\ At("release")
    /\ LET op == <<"release", x.active>>
       IN  ComputerCall(C!ReleaseOutcome(op, x.active, x.active), C!ReleaseRun(op, x.active, x.active))
    /\ AfterRelease

-----------------------------------------------------------------------------
(* Handing over the result: submitResult.                                  *)

Result == x.result
Ref == [key |-> Result, digest |-> "sha256"]
Handoff == [contract |-> snap.contract, author |-> Worker, refs |-> {Ref}]

(* An artifact that is stored already is taken as attached.                *)
ArtifactGet ==
    /\ At("artifact")
    /\ IF pass.gone THEN Fail("canceled")
       ELSE IF W!Stored(Result) THEN Goto("submit")
       ELSE Goto("addArtifact")
    /\ ReadStep

AddArtifact ==
    /\ At("addArtifact")
    /\ LET op == <<"artifact", Result>>
           outcome == W!ArtifactOutcome(x.task, op, Worker, cur, Result, "sha256", snap.rev)
       IN  /\ TaskCall(outcome, W!AddArtifact(x.task, op, Worker, cur, Result, "sha256", snap.rev))
           /\ IF Good(outcome)
              THEN pass' = [pass EXCEPT !.snap = tasks'[x.task], !.step = "submit"]
              ELSE Fail(Answer(outcome))

(* Mutant: open children are an error like any other.                      *)
AfterSubmitNeverWaits(answer) ==
    IF answer \in {"ok", "replayed"}
    THEN Finish([x EXCEPT !.phase = "pending_review", !.err = None])
    ELSE Fail(answer)

(* Mutant: the store's errors are dropped.                                 *)
AfterSubmitBlind(answer) ==
    IF answer = "transition"
    THEN Finish([x EXCEPT !.phase = "awaiting_children", !.err = "transition"])
    ELSE Finish([x EXCEPT !.phase = "pending_review", !.err = None])

AfterSubmit(answer) ==
    IF answer \in {"ok", "replayed"}
    THEN Finish([x EXCEPT !.phase = "pending_review", !.err = None])
    ELSE IF answer = "transition"
    THEN Finish([x EXCEPT !.phase = "awaiting_children", !.err = "transition"])
    ELSE Fail(answer)

Submit ==
    /\ At("submit")
    /\ LET op == <<"submit", Result>>
           fp == W!SubmitFp(Worker, cur, Handoff)
           outcome == W!Outcome(x.task, op, fp, snap.rev, W!UsedIds(tasks[x.task]),
                                W!SubmitVerdict(x.task, Worker, cur, Handoff))
       IN  /\ TaskCall(outcome, W!Submit(x.task, op, Worker, cur, Handoff, snap.rev))
           /\ AfterSubmit(Answer(outcome))

-----------------------------------------------------------------------------
(* The verdict of a finished review run.  It names the artifacts of the    *)
(* latest handoff as the task is read now.                                 *)

VerdictGet ==
    /\ At("verdictGet")
    /\ IF ~Good(GetOutcome) THEN Fail(Answer(GetOutcome))
       ELSE pass' = [pass EXCEPT !.snap = tasks[x.task], !.step = "review"]
    /\ ReadStep

Verdict ==
    [decision |-> IF pass.verdict \in W!Decisions THEN pass.verdict ELSE "needs_human",
     reviewer |-> x.reviewer, refs |-> W!LatestSub(snap).refs]

AfterVerdict(state) ==
    CASE state = "done" -> [x EXCEPT !.phase = "succeeded", !.err = None]
      [] state = "in_progress" -> [x EXCEPT !.phase = "pending_claim", !.result = None, !.err = None]
      [] state = "in_review" -> [x EXCEPT !.phase = "awaiting_human", !.err = None]
      [] OTHER -> [x EXCEPT !.err = None]

ReviewCall ==
    /\ At("review")
    /\ LET op == <<"review", pass.copy[cur].active>>
           outcome == W!Outcome(x.task, op, W!ReviewFp(Verdict), snap.rev, W!UsedIds(tasks[x.task]),
                                W!ReviewVerdict(tasks[x.task], Verdict))
       IN  /\ TaskCall(outcome, W!Review(x.task, op, Verdict, snap.rev))
           /\ IF Good(outcome) THEN Finish(AfterVerdict(tasks'[x.task].state))
              ELSE Fail(Answer(outcome))

(* A person decides: the execution only looks.                             *)
HumanGet ==
    /\ At("humanGet")
    /\ LET state == tasks[x.task].state
       IN  IF ~Good(GetOutcome) THEN Fail(Answer(GetOutcome))
           ELSE IF state \in {"done", "in_progress"} THEN Finish(AfterVerdict(state))
           ELSE Wait
    /\ ReadStep

-----------------------------------------------------------------------------
(* Closing the task: finishCancel and failExecution.                       *)

Canceled == [x EXCEPT !.phase = "canceled", !.err = None]
(* Mutant: the last attempt is counted twice.                              *)
FailedCountsAgain == [Clear(x) EXCEPT !.phase = "failed", !.err = "exhausted", !.attempt = @ + 1]

Failed == [Clear(x) EXCEPT !.phase = "failed", !.err = "exhausted"]

CancelGet ==
    /\ At("cancelGet")
    /\ IF ~Good(GetOutcome) THEN Fail(Answer(GetOutcome))
       ELSE IF W!Terminal(tasks[x.task].state) THEN Finish(Canceled)
       ELSE pass' = [pass EXCEPT !.snap = tasks[x.task], !.step = "cancelClose"]
    /\ ReadStep

(* A reason is not modelled: two closings by one actor are the same.       *)
CloseOutcome(op) ==
    W!Outcome(x.task, op, <<"close", snap.creator>>, snap.rev, W!UsedIds(tasks[x.task]),
              W!CloseVerdict(tasks[x.task], snap.creator))
CloseCall(op) == TaskCall(CloseOutcome(op), W!Close(x.task, op, snap.creator, snap.rev))

(* Mutant: what the store answers to the closing is not looked at.         *)
CancelCloseBlind ==
    /\ At("cancelClose")
    /\ CloseCall(<<"close-cancel", cur>>)
    /\ Finish(Canceled)

CancelClose ==
    /\ At("cancelClose")
    /\ LET op == <<"close-cancel", cur>>
       IN  /\ CloseCall(op)
           /\ IF Good(CloseOutcome(op)) \/ Answer(CloseOutcome(op)) = "transition"
              THEN Finish(Canceled)
              ELSE Fail(Answer(CloseOutcome(op)))

(* The execution has failed whatever becomes of the task.                  *)
FailGet ==
    /\ At("failGet")
    /\ IF ~Good(GetOutcome) \/ W!Terminal(tasks[x.task].state) THEN Finish(Failed)
       ELSE pass' = [pass EXCEPT !.snap = tasks[x.task], !.step = "failClose"]
    /\ ReadStep

FailClose ==
    /\ At("failClose")
    /\ CloseCall(<<"close-failed", cur>>)
    /\ Finish(Failed)

PassStep ==
    \/ Begin \/ Advance \/ WriteFile
    \/ ClaimGet \/ ClaimCall \/ Place \/ Acquire \/ Queue \/ ReviewGet
    \/ Observe \/ Release \/ ArtifactGet \/ AddArtifact \/ Submit
    \/ VerdictGet \/ ReviewCall \/ HumanGet
    \/ CancelGet \/ CancelClose \/ FailGet \/ FailClose

-----------------------------------------------------------------------------
(* What else happens: crashes, requests given up, the daemons, the API.    *)

Crash ==
    /\ "crash" \in disturbances
    /\ ~At("idle")
    /\ pass' = Idle
    /\ starting' = [id \in Executions |-> NoStart]
    /\ UNCHANGED <<taskVars, computerVars, executions, cancels>>

(* The process dies between the two files that AddArtifact writes.         *)
AddArtifactCrash ==
    /\ "crash" \in disturbances
    /\ At("addArtifact") /\ ~pass.gone
    /\ W!AddArtifactCrash(x.task, <<"artifact", Result>>, Worker, cur, Result, "sha256", snap.rev)
    /\ pass' = Idle
    /\ starting' = [id \in Executions |-> NoStart]
    /\ UNCHANGED <<computerVars, executions, cancels>>

(* Reconcile also runs on behalf of an HTTP request, whose context ends    *)
(* when the client goes away.                                              *)
GiveUp ==
    /\ "giveup" \in disturbances
    /\ ~At("idle") /\ ~pass.gone
    /\ pass' = [pass EXCEPT !.gone = TRUE]
    /\ ReadStep

(* The daemons take commands and report what became of them.               *)
Poll == \E c \in Computers, lease \in ConnLeases :
    C!PollCommand(c, lease) /\ UNCHANGED <<taskVars, fileVars, pass>>

ReportsOf(run) ==
    ({"pass"} \cup disturbances) \cap
        IF run[2] = "exec" THEN {"pass", "bare", "failure"} ELSE Outcomes \ {"bare"}

Report(c, lease, i) ==
    IF commands[i].kind = "run_agent"
    THEN \/ \E outcome \in ReportsOf(commands[i].run) :
               C!AckCommand(c, lease, i, TRUE, [run |-> commands[i].run, outcome |-> outcome])
         \/ "error" \in disturbances /\ C!AckCommand(c, lease, i, FALSE, C!NoResult)
    ELSE C!AckCommand(c, lease, i, TRUE, C!NoResult)

Ack == \E c \in Computers, lease \in ConnLeases, i \in DOMAIN commands :
    Report(c, lease, i) /\ UNCHANGED <<taskVars, fileVars, pass>>

Open(name, tid) == name \in disturbances /\ tasks[tid].rev < Quiet

ApiCall(tid) ==
    LET rev == tasks[tid].rev
        op == <<"api", rev>>
    IN  \/ Open("close", tid) /\ W!Close(tid, op, Creator, rev)
        \/ Open("revise", tid) /\ \E reviewer \in Reviewers :
              W!ReviseContract(tid, op, Creator, reviewer, rev)
        \/ Open("judge", tid) /\ tasks[tid].state = "in_review" /\ \E decision \in W!Decisions :
              W!Review(tid, op, [decision |-> decision, reviewer |-> tasks[tid].reviewer,
                                 refs |-> W!LatestSub(tasks[tid]).refs], rev)
        \/ Open("manual", tid) /\ W!Claim(tid, op, Worker, Manual, rev)
        \/ Open("manual", tid) /\ W!AddArtifact(tid, op, Worker, Manual, Manual, "sha256", rev)
        \/ Open("manual", tid) /\ W!Submit(tid, op, Worker, Manual,
              [contract |-> tasks[tid].contract, author |-> Worker, refs |-> tasks[tid].refs], rev)
        \/ Open("age", tid) /\ W!AgeClaim(tid)

Api == \E tid \in TaskIds :
    ApiCall(tid) /\ UNCHANGED <<computerVars, fileVars, pass>>

Lapse == "lapse" \in disturbances /\ \E run \in Runs : C!ExpireRun(run)
Offline(c) ==
    /\ "offline" \in disturbances
    /\ C!ExpireConnection(c) \/ \E lease \in ConnLeases : C!Disconnect(c, lease)
Reconnect == \E c \in Computers, lease \in ConnLeases, cap \in Capabilities :
    /\ "offline" \in disturbances
    /\ ~C!Connected(c)
    /\ C!FreshLease(lease)
    /\ C!Connect(c, lease, cap)
    /\ UNCHANGED <<taskVars, fileVars, pass>>
(* An operator moves the agents that work on the tasks.                    *)
Move == \E agent \in {Worker} \cup {tasks[tid].reviewer : tid \in TaskIds}, c \in Computers :
    /\ "move" \in disturbances
    /\ bindings[agent].rev <= MaxMoves
    /\ C!Rebind(<<"move", <<agent, bindings[agent].rev>>>>, agent, c, bindings[agent].rev)

Devices ==
    /\ Lapse \/ Move \/ \E c \in Computers : Offline(c)
    /\ UNCHANGED <<taskVars, fileVars, pass>>

Step ==
    \/ PassStep
    \/ \E id \in Executions :
          \/ \E tid \in TaskIds : StartRead(id, tid)
          \/ Start(id)
          \/ "cancel" \in disturbances /\ \E op \in CancelOps : Cancel(op, id) \/ CancelCrash(op, id)
    \/ Crash \/ AddArtifactCrash \/ GiveUp
    \/ Poll \/ Ack \/ Api \/ Reconnect \/ Devices

(* What may interfere does not change.                                     *)
Under(A) == A /\ UNCHANGED disturbances

Next == Under(Step)

(* Tasks have been created and assigned, the agents are bound to one       *)
(* computer, all are online, and no execution has been started.            *)
NewTask(reviewer, parent) ==
    [W!NoTask EXCEPT !.state = "todo", !.rev = 1, !.contract = 1, !.creator = Creator,
                     !.assignee = Worker, !.reviewer = reviewer, !.parent = parent]

Init ==
    /\ \E reviewer \in [TaskIds -> Reviewers], parent \in Parents :
          tasks = [tid \in TaskIds |-> NewTask(reviewer[tid], parent[tid])]
    /\ artifacts = [k \in ArtifactKeys |-> W!NoArtifact]
    /\ \E lease \in [Computers -> ConnLeases], cap \in [Computers -> Capabilities] :
          /\ \A c, d \in Computers : lease[c] = lease[d] => c = d
          /\ computers = [c \in Computers |->
                [status |-> "online", conn |-> lease[c], live |-> TRUE, cap |-> cap[c]]]
    /\ \E c \in Computers : bindings = [agent \in Agents |-> [computer |-> c, rev |-> 1]]
    /\ runLeases = [run \in Runs |-> C!NoLease]
    /\ commands = <<>>
    /\ ledger = {}
    /\ executions = [id \in Executions |-> NoExecution]
    /\ cancels = {}
    /\ starting = [id \in Executions |-> NoStart]
    /\ pass = Idle
    /\ disturbances \in Disturbances

Spec == Init /\ [][Next]_vars

(* Reconcile runs on a ticker and each call of it returns; the daemons     *)
(* poll on a ticker, bound every run by a deadline, and reconnect.         *)
Fairness ==
    /\ WF_vars(Under(PassStep))
    /\ SF_vars(Under(Poll))
    /\ SF_vars(Under(Ack))
    /\ WF_vars(Under(Reconnect))
FairSpec == Spec /\ Fairness

-----------------------------------------------------------------------------
(* Properties.                                                             *)

Phases == {"absent", "pending_claim", "running", "awaiting_children", "pending_review",
           "reviewing", "awaiting_human", "canceling", "succeeded", "failed", "canceled"}

(* What an execution may carry as its last error.                          *)
Errors == {"canceled", "unreadable", "conflict", "transition", "refused", "lease", "busy",
           "offline", "unbound", "not_ready", "notexist", "bare", "command", "terminal",
           "exhausted"}
ExecutionRecords ==
    [phase : Phases, task : TaskIds \cup {None}, reviewer : Reviewers \cup {None},
     attempt : 0..MaxAttempts, reviewAttempt : 0..MaxAttempts, active : Runs \cup {None},
     result : Runs \cup {None}, err : Errors \cup {None}]

(* The dispatcher's file holds values of the types of its types.go; the    *)
(* attempt counters stay within the bound.                                 *)
TypeOK ==
    /\ executions \in [Executions -> ExecutionRecords]
    /\ cancels \subseteq CancelOps \X Executions
    /\ starting \in [Executions -> [task : TaskIds \cup {None}, reviewer : Reviewers \cup {None}]]

RunCommands(run) == {i \in DOMAIN commands : commands[i].kind = "run_agent" /\ commands[i].run = run}
Reported(run, outcome) ==
    \E i \in RunCommands(run) :
        commands[i].state = "acked" /\ commands[i].result.outcome = outcome

(* An execution that succeeded or was canceled has left its task done, or  *)
(* done or closed: no race with the API, a crash or a lost request lets it *)
(* end under an open task.                                                 *)
EndsWithTask ==
    \A id \in Executions :
        /\ executions[id].phase = "succeeded" => tasks[executions[id].task].state = "done"
        /\ executions[id].phase = "canceled" => W!Terminal(tasks[executions[id].task].state)

(* "An execution result MUST become an immutable Task Artifact and Handoff *)
(* before review": an execution that waits for review or is being reviewed *)
(* has a stored artifact of its last run and a handoff naming it.          *)
HandoffBeforeReview ==
    \A id \in Executions : executions[id].phase \in {"pending_review", "reviewing"} =>
        LET run == executions[id].result
            subs == tasks[executions[id].task].subs
        IN  /\ run # None /\ W!Stored(run)
            /\ \E i \in DOMAIN subs : \E ref \in subs[i].refs : ref.key = run

(* A handoff made for a run, and a gate result made for a review run, rest *)
(* on that run's report: no crash, retry or cancellation lets a run that   *)
(* failed or never reported speak for the agent.                           *)
ResultsWereReported ==
    /\ \A run \in Runs : W!Stored(run) => run[2] = "exec" /\ Reported(run, "pass")
    /\ \A tid \in TaskIds : \A entry \in tasks[tid].ledger : entry.id[1] = "review" =>
          \E outcome \in Outcomes \ {"failure", "bare"} :
              Reported(entry.id[2], outcome) /\ entry.fp[2].decision = outcome

(* No run is queued twice, and every counted attempt has been queued; at   *)
(* most the one being dispatched is not counted yet.                       *)
RunsAreCounted ==
    \A id \in Executions :
        LET Queued(mode) == {n \in 1..MaxAttempts : RunCommands(<<id, mode, n>>) # {}}
        IN  /\ \A run \in Runs : Cardinality(RunCommands(run)) <= 1
            /\ Queued("exec") \in {1..executions[id].attempt, 1..(executions[id].attempt + 1)}
            /\ Queued("review") \in {1..executions[id].reviewAttempt,
                                     1..(executions[id].reviewAttempt + 1)}

(* While the lease of an execution's active run lives, its agent stays     *)
(* bound to the computer that has the run's command, however an operator   *)
(* moves agents about.                                                     *)
RunsStayHome ==
    \A id \in Executions :
        LET run == executions[id].active
        IN  run # None /\ runLeases[run].live =>
                \A i \in RunCommands(run) :
                    bindings[commands[i].agent].computer = commands[i].computer

(* Cancellation ignores late results: once an execution is being canceled  *)
(* or has ended, it starts no run and attaches, submits and judges nothing *)
(* any more, and an execution that has ended stays as it is.               *)
LateResultsIgnored ==
    [][\A id \in Executions :
          /\ executions[id].phase \in {"canceling", "canceled", "failed", "succeeded"} =>
                /\ \A run \in Runs : run[1] = id =>
                      RunCommands(run)' = RunCommands(run) /\ artifacts'[run] = artifacts[run]
                /\ LET tid == executions[id].task
                   IN  \A entry \in tasks'[tid].ledger \ tasks[tid].ledger :
                          entry.id[1] \in {"submit", "review"} => entry.id[2][1] # id
          /\ FinalPhase(executions[id].phase) => executions'[id] = executions[id]]_vars

Contended(id) == \E other \in Executions \ {id} : executions[other].task = executions[id].task
Rests(id) ==
    \/ FinalPhase(executions[id].phase)
    \/ executions[id].phase = "awaiting_human"
    \/ /\ executions[id].phase = "awaiting_children"
       /\ \E tid \in W!Children(executions[id].task) : ~W!Terminal(tasks[tid].state)
    \/ Contended(id)

(* Every started execution that has its task to itself comes to rest: it   *)
(* ends, or waits for a person or for an open child of its task; and every *)
(* cancellation goes through.                                              *)
ExecutionsSettle ==
    \A id \in Executions :
        /\ executions[id].phase = "pending_claim" ~> Rests(id)
        /\ executions[id].phase = "canceling" ~> executions[id].phase = "canceled"

(* "It MUST preserve a canonical phase, retry counters, active Run/command *)
(* identity" (docs/harness-spec.md): an execution observes the run it has. *)
ActiveHasCommand ==
    \A id \in Executions : executions[id].phase \in {"running", "reviewing"}
        => executions[id].active # None
=============================================================================
