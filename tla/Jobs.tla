-------------------------------- MODULE Jobs ---------------------------------
(***************************************************************************)
(* Background jobs, internal/taskstore: their state machine with owners    *)
(* and heartbeats, the delivery of a terminal result into the input queue  *)
(* of the parent run, and the reconciliation that the server makes when it *)
(* starts and repeats while it runs (cmd/01agentd/main.go).                *)
(*                                                                         *)
(* Each change of a job is one write of its file under the store's mutex;  *)
(* delivering takes three: the terminal state, the queued input, the       *)
(* delivery mark.  Calls between two of them are kept in calls and a crash *)
(* forgets them.  The reconciliation is a round of three lists, each gone  *)
(* through in the order of the jobs' files; the first delivery that is     *)
(* refused ends the round, and a server that is starting with it.  The     *)
(* parent run is what the queue sees of the query loop (Turns): claim,     *)
(* commit, acknowledge, reconcile after a crash.  A heartbeat is fresh     *)
(* until it is not; an input is the job's id with the state its content    *)
(* reports, and a result is long when its content is more than an input    *)
(* may hold.                                                               *)
(***************************************************************************)
EXTENDS RunStore

CONSTANTS
    JobIds,         \* jobs of one parent run: numbers, in the order of their files
    Owners,         \* executors
    NoOwner,
    ClaimLimit,     \* inputs one claim of the parent takes
    MaxClaims,      \* bound: claims the parent draws
    MaxCrashes      \* bound: crashes of the server

VARIABLES
    jobs,           \* JobIds -> job record
    calls,          \* deliveries under way: set of [job, state, at, by]
    server,         \* the server and its round: [up, stage, todo]
    queue,          \* the parent's queue of inputs
    parent,         \* the parent run: [pc, claim, rev, claims]
    crashes

vars == <<jobs, calls, server, queue, parent, crashes>>

-----------------------------------------------------------------------------
Active == {"running", "stopping"}
Terminal == {"succeeded", "failed", "canceled", "lost"}

NoJob == [state |-> "absent", owner |-> NoOwner, fresh |-> FALSE, long |-> FALSE,
          delivered |-> FALSE, consumed |-> 0]

Callers == {"request", "round"}
Call(j, state, by) == [job |-> j, state |-> state, at |-> "enqueue", by |-> by]

(* deliver: nothing unless the job it was given is terminal and unmarked.  *)
Delivery(j, job, by) ==
    IF job.state \in Terminal /\ ~job.delivered THEN {Call(j, job.state, by)} ELSE {}

Change(j, job) == jobs' = [jobs EXCEPT ![j] = job]
Quiet == UNCHANGED <<server, queue, parent, crashes>>

Create(j) ==
    /\ jobs[j].state = "absent"
    /\ Change(j, [NoJob EXCEPT !.state = "queued"])
    /\ UNCHANGED calls /\ Quiet

Start(j, o) ==
    /\ jobs[j].state = "queued"
    /\ Change(j, [jobs[j] EXCEPT !.state = "running", !.owner = o, !.fresh = TRUE])
    /\ UNCHANGED calls /\ Quiet

Heartbeat(j, o) ==
    /\ jobs[j].state \in Active /\ jobs[j].owner = o
    /\ Change(j, [jobs[j] EXCEPT !.fresh = TRUE])
    /\ UNCHANGED calls /\ Quiet

RequestStop(j) ==
    /\ jobs[j].state = "running"
    /\ Change(j, [jobs[j] EXCEPT !.state = "stopping"])
    /\ UNCHANGED calls /\ Quiet

(* A terminal change of state, and the delivery it starts.  Owner and      *)
(* heartbeat of a job count only while it is active.                       *)
EndAs(j, state, by) ==
    \E long \in BOOLEAN :
        /\ Change(j, [NoJob EXCEPT !.state = state, !.long = long])
        /\ calls' = calls \cup Delivery(j, [jobs[j] EXCEPT !.state = state], by)

MayFinish(j, o) == jobs[j].state \in Active /\ jobs[j].owner = o

Finish(j, o) ==
    /\ MayFinish(j, o)
    /\ \E state \in {"succeeded", "failed"} : EndAs(j, state, "request")
    /\ Quiet

Cancel(j) ==
    /\ jobs[j].state \in {"queued"} \cup Active
    /\ EndAs(j, "canceled", "request")
    /\ Quiet

-----------------------------------------------------------------------------
(* A delivery.  Enqueue refuses what is too long for an input, and an id   *)
(* that is queued with another content.                                    *)

Refused(c) ==
    \/ jobs[c.job].long
    \/ \E k \in DOMAIN queue : queue[k].input[1] = c.job /\ queue[k].input[2] # c.state

(* The round ends; a server that was starting gives up.                    *)
Rest == [server EXCEPT !.stage = IF server.up THEN "rest" ELSE "off", !.todo = {}]

Enqueue(c) ==
    /\ c.at = "enqueue"
    /\ IF Refused(c)
       THEN /\ calls' = calls \ {c} /\ UNCHANGED queue
            /\ server' = IF c.by = "round" THEN Rest ELSE server
       ELSE /\ calls' = (calls \ {c}) \cup {[c EXCEPT !.at = "mark"]}
            /\ queue' = Enqueued(queue, <<c.job, c.state>>)
            /\ UNCHANGED server
    /\ UNCHANGED <<jobs, parent, crashes>>

MarkDelivered(c) ==
    /\ c.at = "mark"
    /\ Change(c.job, [jobs[c.job] EXCEPT !.delivered = TRUE])
    /\ calls' = calls \ {c}
    /\ Quiet

-----------------------------------------------------------------------------
(* Reconciliation: ReconcileLost, DeliverPending, ReconcileConsumption.    *)
(* Each decides on a list it read before.                                  *)

Silent == {j \in JobIds : jobs[j].state \in Active /\ ~jobs[j].fresh}
Owed == {j \in JobIds : jobs[j].state \in Terminal /\ ~jobs[j].delivered}
Unconsumed == {j \in JobIds : jobs[j].delivered /\ jobs[j].consumed = 0}

Waits == \E c \in calls : c.by = "round"
Listed(stage) == server.stage = stage /\ server.todo = {} /\ ~Waits
Turn(stage, j) ==
    server.stage = stage /\ ~Waits /\ j \in server.todo /\ \A i \in server.todo : j <= i
Struck(j) == server' = [server EXCEPT !.todo = @ \ {j}]

Stage(from, to, list) ==
    /\ Listed(from)
    /\ server' = [server EXCEPT !.stage = to, !.todo = list]
    /\ UNCHANGED <<jobs, calls, queue, parent, crashes>>

(* The server's start, and the ticker.                                     *)
ListSilent == \E from \in {"off", "rest"} : Stage(from, "lost", Silent)
ListOwed == Stage("lost", "deliver", Owed)
ListUnconsumed == Stage("deliver", "consume", Unconsumed)

(* After a round without an error a server that was starting serves.       *)
RoundEnds ==
    /\ Listed("consume")
    /\ server' = [server EXCEPT !.stage = "rest", !.up = TRUE]
    /\ UNCHANGED <<jobs, calls, queue, parent, crashes>>

(* Mutant: the list that was read before decides.                          *)
MarkListed(j) ==
    /\ Turn("lost", j) /\ Struck(j)
    /\ EndAs(j, "lost", "round")
    /\ UNCHANGED <<queue, parent, crashes>>

MarkLost(j) ==
    /\ Turn("lost", j) /\ Struck(j)
    /\ IF jobs[j].state \in Active THEN EndAs(j, "lost", "round")
       ELSE calls' = calls \cup Delivery(j, jobs[j], "round") /\ UNCHANGED jobs
    /\ UNCHANGED <<queue, parent, crashes>>

(* Mutant: only results of executors are delivered again.                  *)
RedeliverFinished(j) ==
    /\ Turn("deliver", j) /\ Struck(j)
    /\ calls' = calls \cup (IF jobs[j].state \in {"succeeded", "failed"}
                            THEN {Call(j, jobs[j].state, "round")} ELSE {})
    /\ UNCHANGED <<jobs, queue, parent, crashes>>

Redeliver(j) ==
    /\ Turn("deliver", j) /\ Struck(j)
    /\ calls' = calls \cup {Call(j, jobs[j].state, "round")}
    /\ UNCHANGED <<jobs, queue, parent, crashes>>

(* The revision that acknowledged the job's input.                         *)
Acknowledgement(j) ==
    LET items == {k \in DOMAIN queue : queue[k].input[1] = j}
    IN IF items = {} THEN 0 ELSE queue[CHOOSE k \in items : TRUE].ack

Consume(j) ==
    /\ Turn("consume", j) /\ Struck(j)
    /\ IF Acknowledgement(j) > 0
       THEN Change(j, [jobs[j] EXCEPT !.consumed = Acknowledgement(j)])
       ELSE UNCHANGED jobs
    /\ UNCHANGED <<calls, queue, parent, crashes>>

-----------------------------------------------------------------------------
(* The parent run, and the clock.                                          *)

ParentMove(from, to) == parent.pc = from /\ parent' = to
JobsQuiet == UNCHANGED <<jobs, calls, server, crashes>>

ParentClaims ==
    /\ Unclaimed(queue) # {} /\ parent.claim < MaxClaims
    /\ ParentMove("idle", [parent EXCEPT !.pc = "claimed", !.claim = @ + 1])
    /\ queue' = Claimed(queue, <<parent.claim + 1, 1>>, ClaimLimit)
    /\ JobsQuiet

ParentCommits ==
    /\ ParentMove("claimed", [parent EXCEPT !.pc = "committed", !.rev = @ + 1,
           !.claims = @ \cup {[id |-> <<parent.claim, 1>>, rev |-> parent.rev + 1]}])
    /\ UNCHANGED queue /\ JobsQuiet

ParentAcks ==
    /\ ParentMove("committed", [parent EXCEPT !.pc = "idle"])
    /\ queue' = Acknowledged(queue, <<parent.claim, 1>>, parent.rev)
    /\ JobsQuiet

ParentResumes ==
    /\ ParentMove("down", [parent EXCEPT !.pc = "idle"])
    /\ queue' = Reconciled(queue, parent.claims)
    /\ JobsQuiet

Lapse(j) ==
    /\ jobs[j].state \in Active /\ jobs[j].fresh
    /\ Change(j, [jobs[j] EXCEPT !.fresh = FALSE])
    /\ UNCHANGED calls /\ Quiet

Crash ==
    /\ crashes < MaxCrashes
    /\ crashes' = crashes + 1
    /\ calls' = {} /\ server' = [up |-> FALSE, stage |-> "off", todo |-> {}]
    /\ parent' = [parent EXCEPT !.pc = "down"]
    /\ UNCHANGED <<jobs, queue>>

Init ==
    /\ jobs = [j \in JobIds |-> NoJob]
    /\ calls = {} /\ server = [up |-> TRUE, stage |-> "rest", todo |-> {}] /\ queue = <<>>
    /\ parent = [pc |-> "idle", claim |-> 0, rev |-> 0, claims |-> {}]
    /\ crashes = 0

ApiStep(j) ==
    \/ Create(j) \/ RequestStop(j) \/ Cancel(j)
    \/ \E o \in Owners : Start(j, o) \/ Heartbeat(j, o) \/ Finish(j, o)

EnqueueResult(j, by) == \E c \in calls : c.job = j /\ c.by = by /\ Enqueue(c)
MarkResult(j, by) == \E c \in calls : c.job = j /\ c.by = by /\ MarkDelivered(c)

RoundStep ==
    \/ ListSilent \/ ListOwed \/ ListUnconsumed \/ RoundEnds
    \/ \E j \in JobIds : MarkLost(j) \/ Redeliver(j) \/ Consume(j)

ParentStep == ParentClaims \/ ParentCommits \/ ParentAcks \/ ParentResumes

Next ==
    \/ \E j \in JobIds :
          \/ server.up /\ ApiStep(j)
          \/ Lapse(j)
          \/ \E by \in Callers : EnqueueResult(j, by) \/ MarkResult(j, by)
    \/ RoundStep \/ Crash
    \/ server.up /\ ParentStep

Spec == Init /\ [][Next]_vars

-----------------------------------------------------------------------------
(* Type correctness.                                                       *)
TypeOK ==
    /\ \A j \in JobIds :
          /\ jobs[j].state \in {"absent", "queued"} \cup Active \cup Terminal
          /\ jobs[j].owner \in Owners \cup {NoOwner}
          /\ jobs[j].fresh \in BOOLEAN /\ jobs[j].long \in BOOLEAN /\ jobs[j].delivered \in BOOLEAN
          /\ jobs[j].consumed \in 0..parent.rev
    /\ server.up \in BOOLEAN /\ server.todo \subseteq JobIds
    /\ server.stage \in {"off", "rest", "lost", "deliver", "consume"}
    /\ \A c \in calls : /\ c.job \in JobIds /\ c.state \in Terminal
                        /\ c.at \in {"enqueue", "mark"} /\ c.by \in Callers
    /\ parent.pc \in {"idle", "claimed", "committed", "down"}

(* The parent is told the final state of a job, once: a job whose result   *)
(* is queued never ends differently, and it counts as consumed only at a   *)
(* revision of the parent's history that took its result in.               *)
ResultsAreFinal ==
    /\ \A k \in DOMAIN queue :
          /\ jobs[queue[k].input[1]].state = queue[k].input[2]
          /\ \A l \in DOMAIN queue : queue[k].input[1] = queue[l].input[1] => k = l
    /\ \A j \in JobIds : jobs[j].consumed > 0 =>
          \E k \in DOMAIN queue : /\ queue[k].input[1] = j
                                  /\ [id |-> queue[k].claim, rev |-> jobs[j].consumed] \in parent.claims

(* Something is left to do for the server, by itself: a terminal job to    *)
(* deliver to its parent, also after a stop between its terminal state and *)
(* the queued input, or before the mark; or a start after a crash.  A      *)
(* result that is too long for an input keeps those behind it waiting, and *)
(* the server down.                                                        *)
TooLong == {j \in Owed : jobs[j].long}
Due == {j \in Owed : \A i \in TooLong : j < i}
Pending == Due # {} \/ (~server.up /\ TooLong = {})
=============================================================================
