# 01agent in TLA+

01agent is a runtime for long-lived software agents, written in Go. A server
(`cmd/01agentd`) keeps every record in JSON files, runs agent turns in process,
and dispatches product tasks to daemons on other computers. This directory
holds TLA+ models of it, the TLC instances that check them, and TLAPS proofs
about them. Each definition names the code it stands for in the `map` of
`PROJECT.json`.

## The system

Every store of the server is a struct with one mutex over a directory of JSON
files. A mutation takes the mutex, reads the file, checks, and replaces the file
by a rename. What an operation answers is therefore decided by one atomic read,
and what can interleave is whole store operations. The hard behaviour is in the
procedures that call several of them: the dispatcher's pass, the engine's
turns, delivery of jobs and of chat events. A crash, a lapsed lease, an HTTP
request whose client has gone, or another caller can fall between any two calls.

| Component | State it keeps | Operations | Talks to | Hard behaviour | Correct when |
| --- | --- | --- | --- | --- | --- |
| workitem | tasks with contract, claim, references, handoffs, reviews and an operation ledger; artifacts in files of their own | create, claim, renew, revise, attach, submit, review, close | the API, dispatcher, automation | stale writers, claims that run out, children, a crash between two files | only reviewed work is done; evidence stays; live claims are exclusive |
| computer | devices with a connection lease, bindings, run leases, the command queue, a ledger | register, connect, heartbeat, disconnect, rebind, acquire, release, queue, cancel, poll, acknowledge | the API, dispatcher, daemon | connections replaced and expired, redelivery, moves under a run | one run per agent, in order, on the promised device |
| dispatcher | executions with phase, attempts, active run, result; cancel ledger | start, cancel, reconcile | workitem, computer | one write after many calls, crashes, cancelled requests, retries | executions end with their task; results were really reported |
| daemon | connection, active runs, semaphore; the runtime's files on the device | connect, poll, acknowledge, execute, cancel, clean up | computer over HTTP, the runtime process | redelivery, breaks under a run, cancellation, lost acknowledgements, messages over a read limit | every run is answered with what it really ended with |
| engine, runstore | history checkpoints, events, input queue with claims, result | turns: claim inputs, compact, think, answer, call tools, commit, acknowledge, resume | provider, tools, taskstore | a crash between any two writes, commits that fail | inputs take effect once; event numbers rise; traces replay |
| sessionstore | session revision, pending turn | begin, commit | engine, server | two runs of one session, a client that sends again | the conversation is its turns, each once |
| taskstore, subagent | background jobs with owner and heartbeat, delivery marks | start, finish, cancel, deliver, reconcile lost jobs | input queue | lost owners, repeated delivery, results that the queue refuses | each final state is delivered, once |
| attention | conversations, inbox items with leases, cursors, drafts, marks | publish, claim, acknowledge, refresh, reply | agents | coalescing with a claimed item, replies to what was not read | nothing waits unseen; one thought at a time |
| automation | schedules, runs | tick, report, set status | workitem | a tick cut off between task and record, reads of a task that fail | one open task per schedule; failures pause it |
| approvalstore, tools | requests and decisions | resolve, decide, execute | engine, server | a batch that races for one approval | one decision, one execution of the exact call |
| feishu | jobs, wake channel | enqueue, claim, turn, reply, complete, fail, reconcile | server over HTTP | full channel, stops at any point | each message answered with its own turn |
| agentregistry, team | revisions of agents, lockfiles | propose, select, revise, select a team | engine | stale authors and reviewers, a registry that moves | what is current was reviewed against what was current |
| contextmanager, memory | window, archive | compact, archive, recall | engine | markers of markers, calls and results, broken archives | whatever was said can be recalled |
| tools: files | files of the workspace | write, edit | engine | inexact matches mapped back to bytes | an edit hits what was asked for |
| plan | plan and the two texts made from it | update, read | engine | an update broken off between its files | what was answered stands, in all files |
| provider, prompt, sandbox, eval, command line | retry state; none | | | | not modelled: wire formats, text, system calls, drivers |

`PROJECT.json` lists all of them with the state of their model and, under
`hazards`, what in this code a test would hardly reach, line by line.

## The modules

| Module | What it models |
| --- | --- |
| `WorkItem` | `internal/workitem/store.go`, one action per operation |
| `Computer` | `internal/computer/store.go`, one action per operation |
| `Dispatcher` | `internal/dispatcher/store.go`, one action per call it makes to a store, over instances of the two modules above; and what the daemons and the API do meanwhile |
| `RunStore` | the files of a run (`internal/runstore`) as functions of their contents |
| `Turns` | the engine's loop, the session store and the turn and resume handlers, over `RunStore` |
| `InputDelivery` | the abstract queue of inputs that `Turns` implements |
| `Jobs`, `Approvals`, `Attention`, `Automation` | the stores of these names with the handlers and tickers that drive them |
| `AgentRegistry`, `Team` | agents and their revisions; lockfiles selected over the moving registry |
| `Daemon`, `Feishu` | the two peers: a device's daemon with its runtime processes, and the chat bridge |
| `ContextWindow`, `FileEdits`, `Plans` | what a run works with: its history in the window, files, its plan |
| `ControlPlane` | the composition of the last eleven, one part moving at a time |
| `WorkItemProofs`, `ComputerProofs`, `DispatcherProofs` | the theorems about the two stores, and about the dispatcher over both |
| `TurnsProofs` | the theorems about the turns of a session and their runs |
| `ControlPlaneProofs`, `StoreProofs`, `AgentProofs`, `PeerProofs` | the theorems about the control plane, in this order: plans, approvals, the window and the file tools; schedules and jobs; attention and teams; daemon, chat bridge, and the types of all parts. The second and third extend the first, the last extends both |
| `MCWorkItem`, `MCComputer`, `MCDispatcher`, `MCTurns`, `MCControlPlane` | constants, symmetry and views for TLC |

### WorkItem

`tasks[t]` is a task file, `artifacts[k]` an artifact file. The text of a
task (objective, requirements, evidence, notes) is what fingerprints are made
of; a fingerprint is the tuple of the arguments that matter to some check. `mutate` in the code is
`Outcome` (its early returns, in their order) and `Mutate`; each operation adds
a `Verdict` (the early returns of its closure) and an `Effect` (what the closure
assigns). `AddArtifact` does not go through `mutate` in the code, nor here.
A claim has a long, a short (under the minute at which the dispatcher renews)
or no time left, and ages at any moment.

The store writes a task and then reads it back through the validation that every
read applies. `Readable` is the part of that validation that a legal sequence of
calls can break.

### Computer

`computers`, `bindings`, `runLeases`, `commands` and `ledger` are the maps and
lists of the one state file. Connections and run leases have no clock: they are
live or have run out. `Purged` is the removal of expired leases which
`Rebind` and `AcquireRun` do first. `commands` is kept in the order of
`CreatedAt`, and `PollCommand` hands out the oldest command that is queued or was
sent to another connection, or fails it when the device's capabilities changed.

### Dispatcher

`executions`, `cancels` are the dispatcher's file, `starting` is what a `Start`
request has read before it takes the mutex, `pass` is the memory of the running
`Reconcile`: which store call comes next, the copy of the file it will write, the
execution at hand, the task and the place it has read. `advance` and the functions it
calls become one step per store call:

| Code | Steps |
| --- | --- |
| `Reconcile`, `advance` | `Begin`, `Advance`, `WriteFile` |
| `ensureClaim` | `ClaimGet`, `ClaimCall` |
| `queueRun`, `dispatchExecute`, `dispatchReview` | `ReviewGet`, `Place`, `Acquire`, `Queue` |
| `observeExecute`, `observeReview` | `Observe`, `Release`, `VerdictGet`, `ReviewCall` |
| `submitResult` | `ArtifactGet`, `AddArtifact`, `Submit` |
| `finishCancel`, `failExecution` | `CancelGet`, `CancelClose`, `FailGet`, `FailClose` |

The steps call the operators of `WorkItem` and `Computer` with the operation
ids and the expected revisions the code passes, so a repeated call replays or
conflicts as it does in the program. `Fail` keeps the code's rule that an
execution whose error repeats is stored unchanged. Crashes (`Crash`, and the ones
between two files, `CancelCrash` and `AddArtifactCrash`), an ended request context
(`GiveUp`: the stores refuse every later call), the daemons (`Poll`, `Ack`), the
API (`Api`) and the devices (`Devices`, `Reconnect`) interleave with them.
`disturbances` is chosen from `Disturbances` at the start and stays: it says which of these, and
which reports of runs, a behaviour may have. `Quiet` bounds how long the API keeps touching a task.

Abstractions to keep in mind: reasons, prompts and result texts are left out, so
two closings by the same actor are the same operation with the same id; a run's report is its
outcome; operation ids are pairs of a kind and the run, execution or revision from
which the code builds the string.

### RunStore, Turns and InputDelivery

A run has four files: the queue of inputs, the history, the trace and the result.
`RunStore` has one operator for each operation on them (`Enqueued`, `Claimed`,
`Acknowledged`, `Released`, `Reconciled`, `Replay`, ...); each takes a file and
returns what it becomes. `Turns` is the procedure over them. `adm[r]` is what the loop
of run `r` has in memory: its barrier, the claim it holds, the inputs it took in, the
revision it follows and the next event number. A step is one write of a file with
the events appended before the next one:

| Code | Steps |
| --- | --- |
| `sessionTurn`, `Begin` | `OpenTurn`, `RetryTurn` |
| `Resume` and the resume handler | `ResumedAdmission` and the steps from it |
| `run`: reconcile, admit | the barriers `reconcile`, `admit` |
| claim, commit, acknowledge | the barrier `take` |
| compact, think, answer, execute, observe | `shrink`, `reflect`, `answer`, `observe` |
| `finish` | the terminal commit, its event, the result |

A crash of the server forgets `adm` and leaves the files; a commit of the history may
fail at the barriers of `Failing`. A history and an admission keep of the messages the bag of the inputs they took in, so
that an input taken twice shows, and the trace keeps the record of the last result apart from the numbered events. `DeliveryStatus` maps the files to the status of
an input in `InputDelivery`, and `DeliversInputs` is the refinement: the loop and the
queue implement exactly-once delivery. One precondition shows in the configuration: `take` is not
among the barriers that fail in `Turns`, because then the refinement is false (`InputsRepeated`).

### The stores and peers of the control plane

- **Jobs**. `jobs` are the job files; `calls` are deliveries under way,
  which a crash forgets. A delivery takes three writes: the terminal state, the input in the parent's
  queue, the mark. `server` is the process with the round of `reconcileTasks` it is in: `ListSilent`, `ListOwed` and
  `ListUnconsumed` read the lists of `ReconcileLost`, `DeliverPending` and `ReconcileConsumption`, and `MarkLost`, `Redeliver` and
  `Consume` go through them job by job, in the order of the files and each after the delivery before it. A delivery that is refused
  ends the round (`Rest`): the ticker begins another, while a server that was starting gives up and has to be started again. A
  result is `long` when the queue refuses it for its size (64 KiB). The parent run is its use of the queue, with the operators of
  `RunStore`.
- **Approvals**. An attempt is one request of one exact call; resolving consumes an approved record before
  the call is carried out, and deciding is two writes, the record and the run's directive.
- **Attention**. One action per operation of the store; a lease lapses at any moment. The recipients of a
  message are kept for the properties.
- **Automation**. A tick works on a copy and writes it at the end, while each task it
  creates is written at once; `TickIsCut` is a tick that dies or whose dispatch fails. `TickMisreads` is one in which the read of
  the task under way fails (`finalizeTerminal` says no more than that nothing ended): the occurrence is skipped.
- **AgentRegistry, Team**. Whoever changes an agent has read it before, at the revision it names; the ledger
  remembers what a reader of a revision saw. A selection reads one candidate after the other.
- **Daemon**. `commands` is what the connections of one device see of the queue in `Computer`; jobs are the
  goroutines, `procs` the runtime processes, `disk` their files. A break ends the daemon's jobs and leaves the files. A command
  may be `long`, over what the daemon's websocket reads (32 KiB, the default that the dial leaves), and a result `Long`, over what the
  server reads (1 MiB): `PollTooLong` and `AnswerTooLong` end the connection, at each delivery. A result is `Wide` when the runtime
  prints more than the executor keeps (2 MiB), which leaves output that cannot be decoded (`Collect`).
- **Feishu**. `jobs` are the job files, `wake` the channel of ids, `workers` where each worker is. The session API
  is what `Turns` shows of it: a committed turn is answered again, a pending one resumed, another refused.
- **ContextWindow**. `window` is the history, `archive` the file of its scope. A body knows of which message it stems, whether
  it is raw, a marker or a cut text, and the entry it names. `Compact` is one call of the compactor and the
  commit after it; `BreakOff` is an archive that stops after any line, or (with `Tears`) within one.
- **FileEdits**. A file is a sequence of letters, blanks, `LF` and `CR`; `EditMatch` is the chain of the
  four levels, on normalized text, with the offsets mapped back. The tool keeps nothing between two edits, so one
  edit of every file is all it can do.
- **Plans**. `plan` is `plan.json`, `texts` the two files made from it, `work` the call under way, which may
  break off after each write.

No two of these share state, so an interleaving of two of them shows nothing that each
alone does not show. `ControlPlane` has all of their variables and a `focus` chosen at the start: the
states to check are the sum of the parts' and not their product. `Moving` says which parts a run looks at:
all of them, or the one a finding is about.

## What the runs check

| Run | Instance | Shows |
| --- | --- | --- |
| `WorkItem` | two tasks that may be parent and child, two claim leases, two artifact keys, 8 and 3 revisions | type invariant and the six properties of the task store |
| `WorkItemReadBack` | the same | finding: a task is written that cannot be read again |
| `Computer` | two devices, one agent, two runs, three connection leases, two capability digests, six operations | type invariant and the five properties of the registry |
| `Dispatcher` | one execution of two attempts, two computers, one of four kinds of disturbance | executions end with their task, handoffs precede review, results were reported, attempts are counted, runs stay on their agent's device, late results are ignored |
| `DispatcherFamily` | two executions over a parent and a child task (or both over one), without faults, with fairness | executions come to rest and cancellations finish |
| `DispatcherStuck` | one execution, crashes | finding: a running execution without a run |
| `Turns` | a session of two turns, two inputs, one fault, two admissions by resuming | inputs are delivered once (refinement), event numbers rise, uncut runs replay, the conversation is its turns, pending turns end |
| `InputsRepeated` | one turn whose input commit fails | finding: an input enters the history twice |
| `ControlPlane` | each part on a small instance, with fairness | the properties of the parts, below |
| `RemoteDeadline` | the device | finding: the runtime's deadline is in nanoseconds |
| `ChatShutdown` | the chat bridge | finding: a stop gives messages up |
| `ArchiveTorn` | the window, with lines written in part | finding: a torn line makes the archive unreadable |

The properties of `ControlPlane`:

| Property | Says |
| --- | --- |
| `ReportsAreTrue` | a queued result never differs from how its job ended, is queued once, and counts as consumed only at a revision that took it in; a run is answered with the result its history ended with, and finished work is not thrown away unless it was cut off or its output was; a chat job is in the hands of one worker, only answers of its own turn are sent, and a job succeeds only when one was |
| `ReportsArrive` | a result is delivered in the end, unless it is too long for the parent's queue or one that is comes before it in the order of the files; a server that crashed is up again, unless such a result is undelivered; a device's run commands are all answered, unless one of them or its result is too long for its reader; and every chat job ends |
| `ApprovalsAreSpentOnce` | whatever requests race, a call is carried out at most once, after a person approved it, and the run is told no other decision than the one that counts |
| `OneThoughtAtATime`, `MessagesWait` | one live claim and one open item per conversation, its view is the cursor; a delivered message waits until its agent is shown it or acknowledges the item it joined |
| `SchedulesHold` | a schedule has one open task at most besides those it was led away from, one for each read that failed, and none twice for one occurrence; failures are counted once and pause it |
| `TeamsStandOnReview` | each accepted revision was compared with the one it replaced, no relationship replaces one its author had not seen, a lockfile gives each role a member of its own, whose named revision was selected and has what the role needs |
| `ContextHolds` | each message of the run is shown or archived as it was, following markers from source to source ends at the raw text, and results stay behind the message that asked for them |
| `EditsHold` | what an edit replaces answers the request at the level reported, nothing else does and nothing at a stricter level; uniform line ends stay so |
| `PlansStand` | whatever broke off before, an answered call leaves both texts of the plan that was answered, and an answered plan was the plan of its revision |

**Bounds.** Each property of the two stores relates at most two records of a
kind (two owners of a claim, two runs of an agent, two commands of a device, a
parent and a child), so two of each, with spare leases for a third connection,
reach every way to break it; eight revisions hold two full rounds of claim, attachment,
handoff and review. For the theorems the bounds do not matter. In the dispatcher, an
execution of two attempts goes through failure, retry and rework; a second
execution matters only for shared tasks, children and the order of a pass, which is
what `DispatcherFamily` has. All disturbances at once are out of reach, so a behaviour has
one of four sets: crashes, given-up requests and closings with every report of a run; people
with cancellation and verdicts; people with failures; devices, leases and moves. `Quiet` is 5 revisions: room for claim,
artifact, handoff, verdict and one more call of the API in any place between them.
In `Turns` one fault, a crash or a failed commit, falls anywhere in either turn, and a
resumed run may be interrupted again by the limit of turns; two inputs with `ClaimLimit` 1 take two claims.
In `ControlPlane` two of each kind race (jobs, calls, agents, authors, runs, messages, workers); one crash,
break or stop falls at any point, while a message that is too long ends the connection or the round each time it
is sent, without a bound. The messages of one of the two runs may be too long (`AnyLength`): it comes before the other or after it. One
schedule runs through four occurrences with two ticks cut off and two reads that fail, while an overlap takes three, one and one; schedules share
nothing but the tick, and the theorem is about any number of them; `MaxOperations` 4 lets an agent be proposed, selected and proposed again while a
second exists; `QueueSize` 1 fills the channel; `Quickest` 0 leaves the runtime as fast as it likes. Three turns with messages of 1, 3
and 6 units in a budget of 10 reach every stage of a compaction and a compaction of an already compacted window; files of four
symbols and fragments of three, over one letter, reach every level of matching and every way to cut a CRLF; three revisions
of a plan let an update break off, be repeated, and be followed by another.

**Symmetry and views.** Symmetry is used in runs without liveness only, over
values compared by equality alone. `MCWorkItem`'s view forgets the fingerprints of
used operation ids and all but the last entry of a history, which no guard and no
checked property reads. `MCTurns`'s view compares event numbers and revisions with the last
ones instead of keeping them, and forgets of a run that is over all but its inputs: no guard and no property
reads more. `MaxRevision`, `MaxAttempts`, `MaxMoves`, `Quiet`, the `Max...`
constants of the other modules, and the sets of operation ids and of leases are the only bounds.

**Deadlock** is checked for the dispatcher. Elsewhere behaviours may stop: operation ids,
revisions, messages and faults run out.

**Fairness** (`FairSpec`). The server's ticker calls `Reconcile` forever
(`cmd/01agentd/main.go`), and every call it makes returns: weak fairness of the
pass. A daemon polls on a ticker, puts a deadline on every run, and
acknowledges it; it may be disconnected again and again, so `Poll` and `Ack`
have strong fairness. It reconnects after an error: weak fairness of `Reconnect`. Nothing
is assumed of people, crashes, moves or lapsing leases, which the liveness run
leaves out: with them an execution may rightly stay, for instance under a task that
a person closed while it was waiting to be claimed. In `Turns` an admitted run goes on, as
the loop waits for nothing that is not bounded by its context: weak fairness of `LoopStep`. A client
whose turn is pending sends it again (`feishu` and the web console do), and may be refused while the semaphore
is full: strong fairness of `RetryTurn`. Of the server (`Deliver`), the daemon (`Serve`) and the bridge (`Answer`) in
`ControlPlane` no more is asked than that not all of their goroutines stop while one can move: weak fairness of each of the three as a
whole. The server is started again after it stopped, and its ticker begins round after round; no
job has a fair redelivery of its own: it waits for its turn in a round, as in the code. The daemon is started again after a
message that ended it. Nothing is assumed of the parent run, of executors and of people. The three parts share one property, as one of
them moves in a behaviour and the other two have nothing pending then.
In `Dispatcher` every command and every answer fits the limits of its reader; what follows when one does not is shown in
`Daemon`, and an execution whose run is never answered then stays as it is.

## What is proved

For all values of the constants, `WorkItemProofs` and `ComputerProofs` prove every property of the two
stores that the passing runs check, `DispatcherProofs` every safety and action property of the dispatcher, and
`TurnsProofs` those of the turns, with the refinement of the input queue;
`ControlPlaneProofs`, `StoreProofs`, `AgentProofs` and `PeerProofs`
those of all parts of the control plane. No invariant and no action property of a passing run is only model-checked.

**WorkItem.** The inductive invariant `TasksSafe` joins the type invariant with: claims only
in progress; a task in review or done has a handoff for its contract; a done task a
passing review of it whose basis is at least the revision of the handoff; submissions are numbered no later than
the task's revision; and every reference resolves in `artifacts`. The numbering is
what makes `DoneWasReviewed` inductive: a verdict names the revision its author had
read, `Outcome` accepts only the current one, and that is never smaller than the latest
handoff's. `RefsResolve` needs that an artifact file is never overwritten. The
action properties follow from the same invariant, action by action. Assumptions:
`NoneAssumption` and `MaxRevisionAssumption`.

**Computer.** Two inductive invariants. Leases: the type invariant with `RunLeasesHold`, "no
two live leases of one agent" and "the agent of a live lease is bound to its
device"; `Rebind` and `AcquireRun` keep them because both look at live leases
only and purge the rest. Queue: an unfinished command that is sent carries a
delivery, older commands of the device are not queued behind it, and whoever holds a newer command of
the current connection holds the older unfinished ones; the capability of a run in hand is the device's.
It rests on `PollCommand` taking the oldest and on `FreshLease`: a new connection draws a lease nobody has.
`StaleCallsAreVoid` joins `OutcomesStay` and `LiveConnectionIsFenced`; the two need no more than the guards of the
one action that could break them, over all actions, and so does `MovesAreSafe` with the guards of `Rebind`.

**Dispatcher.** The inductive invariant `Inv` has three parts, over the two instances of the stores as they
are composed, with every crash, given-up request, daemon, person and device between any two calls.

- *The stores*, as far as executions rest on them. `TasksInv`: what the ledger of a task says is so (an attached
  artifact is stored, a handoff is there, a closed task is closed, a verdict was reported by its run), and the stored artifact
  of a run stems from that run's report. `RegistryInv`: a run has one command at most, exactly when its queuing is
  in the ledger; a finished command carries a report its kind of run can give; the agent of a live run lease is
  bound to the computer that has the command. That the ledgers vouch for the state is what makes a *replayed* answer as good as a
  fresh one, and so covers every call that is repeated after a crash.
- *The file* (`FileInv`). Each record is grounded: its phase says what its task has (done, over, handed over) or
  what its run reported; its runs are its own; and the runs that were queued are those it counts or one more.
- *The memory of a pass* (`PassInv`). The copy is as sound as the file, agrees with it on what has not been visited and
  on what is over, and for each pending call `Fits` says what was established before it: a result that was reported, an
  artifact that is stored, a verdict of the active review run. The record in the file and the one at hand
  rest on stores that have moved since they were read; both stand because nothing they rest on is
  ever taken back (`TasksLast`, `Grown`: reports, artifacts, handoffs and endings stay), which `GroundedStays` carries over
  every step.

Each step of the pass and of everyone else preserves `Inv` and `Respects` (`EveryStep`), the step form of
`LateResultsIgnored`. For `TypeOK` and the five invariants one more line each. TLC
has checked `Inv` itself on the instances of `Dispatcher` and `DispatcherFamily` before it was proved. Assumptions: there is
an attempt at least, `Order` visits every execution once, and "nothing" and the API's own artifact are no run.

**Turns.** The inductive invariant `Inv` joins the shapes of the files and admissions with `RunsHold`, which says of every run
what follows, and `SessionHolds`. Of one run (`Held`, over its five files and its admission):

- *Revisions and admissions* (`Counted`). An admission that is executing has seen the last commit of its history, and
  its number is larger than any before; admissions are no more than people's resumptions and faults allow.
- *Numbers* (`Behind`). The last event in the trace is numbered no later than the admission's last. It holds again after a
  crash because a resumed admission takes the larger of the checkpoint's number and the trace's.
- *Claims* (`HistoryClaims`, `AdmissionClaims`, `BoxClaims`). Claims in the history are of admissions and turns past, so the
  claim of a new turn is one that nobody drew; an item of the queue is claimed by a claim of the history, by one about to be
  committed, or, before the reconciliation, by one that was lost; and what is acknowledged is in the history.

`SessionHolds` says that the run of the pending turn builds on the session's messages, in its admission, its history and its
result alike; that is what makes its result the next conversation whichever of the three a retry goes on from. An
operation that is neither pending nor committed has no run.

For the refinement, `TakenOnce` adds that the bag of a history holds an input once if the item's claim is in the history, and
not at all otherwise. A commit then moves the inputs of one claim from queued to taken, an acknowledgement or a reconciliation
moves taken ones to settled, and nothing else changes a status (`Advances`, `LiftedOnce`); `InputsAreDelivered` is that every step is a
step of `InputDelivery` or none. It assumes `"take" \notin Failing`, which is the finding `InputsRepeated` seen from the other side: the
code does not deliver exactly once when that commit fails. The other theorems hold without it.

`UncutRunsReplay` is about a fold over the whole trace. Its invariant `Told` keeps a summary of the trace instead: the last
number and revision, the claims made and acknowledged and the calls that are open, as `Replay` would have them (`Summary`).
`SummaryEmitted` says that the events of a step are replayed behind those before them, so each step extends
the summary; what it says is what the admission knows at its barrier (`Along`), and at the end it is the result.
TLC has checked `Inv` and `TakenOnce` on the instance of `Turns` before they were proved. `TurnsAssumption` is the only
assumption on the constants.

**ControlPlane.** A theorem about a part is one about the whole composition: `StepsOfParts`
shows that every step of it is a step of each part or leaves the part's variables alone, whichever part
has the `focus`. The parts' invariants:

- *Plans* (`PlanInv`). A call that did not break off works on the plan that is there; when it comes to the second text it has
  written the first; and the plans written are numbered by their revisions. So what is answered is the plan of its revision.
- *Approvals* (`ApprovalInv`). The stored record never says another decision than the one that counts; there is one
  grant in hand at most for a call, only while its approval is consumed and before it was carried out; and
  the directives that have been queued, or are about to be, say the decision. The grant is what carries
  `ApprovalsAreSpentOnce` over the time between spending an approval and carrying out the call.
- *Automation* (`AutomationInv`). At most one run of a schedule is under way and every later one was skipped; its tasks are those of
  its runs and perhaps that of the next, which a tick that was cut off has left; the failures counted since the last
  success are failed runs. A tick works on a copy: what it has not visited is still as stored, and the copy agrees
  with the tasks as well as the file does. That both do is what lets the tick write its file at the end, or die before.
  A task that is there though its occurrence was recorded as skipped is astray (`Strays`). Only a read that failed makes one,
  and `StraysInv` bounds them by those reads, in the file and in the copy alike.
- *Jobs* (`JobInv`). A delivery in progress and a queued input carry the state the job ended in, one input for a
  job; an acknowledged input keeps the claim under which the history of the parent took it in, at a revision no later
  than the parent's; and a job counts as consumed only with such an input. What a round has listed is still so when its turn
  comes, as far as the round relies on it: a job that was terminal stays what it was (`Deliverable`).
- *Attention* (`AttentionInv`). Items of an agent and conversation are apart: their ranges do not meet and
  one of them at most is open. An open one ends where the conversation ends or begins after what was
  shown. `MessagesWait` is an action property over this invariant: only a cursor that passes a message, or an acknowledgement
  of the item that covers it, takes the message out of the inbox.
- *AgentRegistry and Team* (`TeamInv`). Each selection of an agent stands on a proposal that named the one it
  replaced. The histories only grow, so what a team search has read of an agent stood at the time, and still
  stands in the history when the lockfile is written; that is how a lockfile can be right
  though the registry has moved on.
- *Daemon* (`DeviceInv`). A run has one command; a job of the daemon carries out a command that is sent and not answered;
  and job, process and the files on the device agree: a result is written only for a history that ended, and equal to how it ended.
- *Feishu* (`ChatInv`). A job in processing is in the hands of exactly one worker, or of nobody when the bridge is
  down; a worker that replies holds the answer of its own turn, and one that completes has sent it.
- *ContextWindow* (`WindowInv`). The body of every line, shown or archived, stems from a message of the run, or names an
  archived entry that came before it and stems from the same one; every message has a raw body in one of the two places; and
  each result stands behind its call. A compaction files the whole window before it rewrites or drops a line, which is
  why `BreakOff` between the two loses nothing. `CallsAreWhole` holds of every file; `ContextIsKept` assumes
  `Tears = FALSE`, the other side of the finding `ArchiveTorn`: a torn line does lose what was archived.
- *FileEdits* (`EditInv`). `LevelChooses`: at each of the four levels, what the code finds is chosen from the
  places that answer (`Answering`, which looks at every place of the text and knows nothing of the search), is not empty when
  one does, and if it is one place then that overlaps every other. The level by lines rests on the offsets: a place that cuts no CRLF is the
  image of a place in the normal text (`UncutIsOffset`), and a stretch of whole lines has the trimmed lines of the text
  (`LinesTaken`). For `LineEndsStay`, texts with one kind of line end are closed under taking parts, unless the part
  cuts a pair, and under joining; a replacement is converted to the kind of its place (`ConvertedIs`, `ReplacedIs`).

`ReportsHold` joins the daemon and the bridge with the jobs: `ReportsAreTrue`. `EveryPartIsTyped` is `TypeOK` of the whole. Most types are in
the invariants above. The rest are bounds, each with a reason of its own: a schedule's next time is set from a
time of the clock (`Timed`); a draft was made before the latest message (`DraftsBehind`); the daemon works
on no more runs than its semaphore has room for, since a step starts one at most (`WithinLimit`); and the attempts of a chat job
pass `MaxAttempts` by no more than the stops it survived, each of which queues it again with the attempt it cut off counted (`AttemptsSpent`).

Assumptions: revisions, turns, times and the limits of tries, runs, queues and stops are numbers, and a run has a turn and a chat job
an attempt at least; a schedule has a positive interval and threshold (`automation/store.go` refuses others); texts have a
size; replacements are texts over the model's symbols; the agents are finitely many (the
files of one directory); and the names that stand for nothing (`NoLease`, `None`, an absent file) are no lease, message or letter.

**Induction over data.** The library's induction theorems cannot be used by the provers installed, as they take an operator as a parameter. What
recursive functions and folds compute (the archive after each message, the offsets of a text, a joined sequence of texts, a list of a set's
numbers) is proved here for every input from the least counterexample (`Least`): a step of the function would make a
smaller one. That is why such definitions are functions over `0..n` in `ContextWindow` and `FileEdits`, and not `SelectSeq`.

**Only model-checked.** All liveness, which is outside the prover's reach together with ENABLED: that results reach
the parent, runs are answered, chats settle, executions come to rest, pending turns end.

## Findings

- `WorkItemReadBack`: `AddArtifact` (`workitem/store.go:259`) looks for a repeated
  operation among attached artifacts only. An id used before for something else
  is appended a second time, the file is written, and then the
  read-back refuses it. The file stays, and no later read accepts the task.
- `DispatcherStuck`: `observeExecute` (`dispatcher/store.go:313`) clears the active
  run before the result is submitted. When submission is refused, the execution is
  stored as running with no run; no later pass can observe or submit it.

- `InputsRepeated`: the loop appends claimed inputs to its messages before the commit that takes
  them in (`engine/engine.go:500`). When that commit fails and the terminal one does not, the history holds
  them, the claim is released, and a resumed run takes them in again.
- `RemoteDeadline`: `daemon/executor.go:50` passes the seconds of a command as a duration without a unit,
  so the runtime gets as many nanoseconds.
- `ChatShutdown`: a bridge that is told to stop stores the messages in work as failed
  (`feishu/bridge.go:163`), and a restart takes up only queued ones and those in processing.
- `ArchiveTorn`: a line of the archive that is written in part is never cut off (`memory/archive.go:144`), and
  every later reading of the archive fails, compaction included.

What the conditions of the control plane's properties stand for. Each is in the model, and without it TLC finds the behaviour
described:

- *Reads that fail* (`SchedulesHold`). `finalizeTerminal` (`automation/store.go:323`) says of a task that cannot be read what it
  says of an open one. The tick, above all one whose request ended while it waited for the mutex, skips the occurrence; if an earlier tick was cut
  off after it had created the task of this occurrence, nothing watches over that task any more, and a later tick opens another: two tasks
  of one schedule are open, though `docs/harness-spec.md:174` says "A schedule MUST NOT dispatch while its preceding Product Task is still open."
  The task's id is not used again, so there is at most one such task for each read that failed.
- *Results that are too long* (`ReportsArrive`). A result may be as long as a request (1 MiB, `server/server.go:33`), an input of the queue
  no longer than 64 KiB (`runstore/inbox.go:38`). A longer one is refused at every attempt, and `DeliverPending` returns at it
  (`taskstore/store.go:222`), so that those behind it in the directory wait with it. The reconciliation that comes before the server
  serves (`cmd/01agentd/main.go:149`) fails on it too, and the start with it, each time; the ticker only logs the error. `README.md:242-244`
  says "Terminal task output is delivered to the parent run" and that the daemon "repairs delivery/consumption state after restart".
- *Messages that are too long* (`ReportsArrive`). The daemon leaves its websocket the default limit of 32 KiB (`daemon/daemon.go:76`), and
  prompts have none. A longer command fails the read (`daemon/daemon.go:130`) and ends the daemon. It is delivered again on
  each connection, and before every younger command of the device, so the runs behind it starve; those before it are cut off with the
  daemon. An acknowledgement over 1 MiB (`server/computers.go:119`) ends the connection likewise.
- *Output that is cut short* (`ReportsAreTrue`). Of a runtime that prints more than 2 MiB the executor keeps the beginning
  (`daemon/executor.go:72`), which cannot be decoded: the run fails, with its result on the device.

Seen while modelling, described here and not stated as properties. Against `docs/harness-spec.md`:

- A child may be created under a parent that is in review (`workitem/store.go:81`): `Create` refuses only parents that are over, and
  `ParentWaits` is about the submission, so the parent may be done before that child.
- A queued run is handed to a daemon without a look at its lease
  (`computer/store.go:425`): after the lease ran out, another run of the agent can hold one, and both are executed.
- `failExecution` ignores the error of closing the task (`dispatcher/store.go:487`),
  so an exhausted execution can leave its task open.
- A handoff carries the contract revision of the task at submission, not the one the run was given (`dispatcher/store.go:349`).
- A run whose queuing was refused keeps its lease (`dispatcher/store.go:529`); a
  cancellation then finds no active run and the lease lives on until it runs out.
- A verdict names the latest handoff when it is recorded, which may be newer than
  the one the review run was given (`dispatcher/store.go:434`).
- A decision is stored, but the directive is not queued when the second write fails (`server/server.go:697`).

In the engine and the sessions: a resumed run that had stopped at its limit of turns gets the
limit again (`engine/engine.go:438`); a history that was completed without its result strands the
pending turn, and so does a capability that changed; the result of a run is overwritten when it is
resumed; two resumptions of one run may overlap. A cancelled turn is answered from the cache with its
cancellation, and a message given up while its turn is pending keeps its chat busy
(`sessionstore/store.go:165`).

In the stores: a task that cannot be created ends the whole tick of the automations
(`automation/store.go:152`); a claim sent again is answered with the item as it is by then, also after its
lease ran out (`attention/store.go:126`), and an acknowledgement of an item passes over messages
merged into it after the claim; a relationship proposal whose base was replaced can neither be
accepted nor rejected; negative delivery scores can make the search for a team find none; a
lockfile may name a revision rolled back before it was written; the result of a job whose id is that of another
input of its parent is refused forever (`taskstore/store.go:293`); a plan accepts an operation
id again when another operation came between.

On the device: the cleanup of an agent that moved away races its next run (`daemon/daemon.go:151`); a run cancelled while its connection
breaks is delivered again.

In the window and the file tools: a marker longer than the short text it replaces makes the window
grow. Overlapping matches count as one (`aa` in `aaa`), though `docs/reading-notes.md:138` says "Every
level still requires one unique match". An exact match that starts or ends within a CRLF leaves mixed
line ends (`docs/reading-notes.md:140`: "preserves CRLF/LF conventions"); `LineEndsStay` excepts it.
A foreign writer between the comparison and the rename of an edit is overwritten.

## Not modelled

- `cleanup_agent` of the daemon and runtime processes that outlive it; `Dispatcher` and `Computer` have the command.
- The batching of parallel tool calls, `replace_all`, `expected_sha256`, `bash` and `read_file`.
- The ranking of recalled sources (arithmetic on reals), and `subagent`, which wraps jobs and runs.
- The retrying wrapper of the model clients, and their wire formats, as those of the chat service.
- Starting a run outside a session, event streaming, metrics and the web console of the server.
- Prompt composition, the sandbox, the evaluation drivers and the command line: text, system
  calls and drivers without a protocol of their own.

## Plan

The stores of tasks and computers, the dispatcher composed of them, the engine over the files of a run with the
refinement of the input queue, and the parts of the control plane are modelled, and every invariant and action property of the
passing runs is proved. What a later step would take up, in this order:

1. The hazards without a property: a contract revised under a run, the cleanup of an agent that moved away and back,
   the tick that one task ends, the directive that is not queued, the chat behind a message given up, and a foreign
   writer between the comparison and the rename of an edit.
2. What `Not modelled` lists with state of its own: the batches of parallel tool calls, and runs outside a session.
