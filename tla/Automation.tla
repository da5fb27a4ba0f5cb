----------------------------- MODULE Automation -----------------------------
(***************************************************************************)
(* Schedules that create product tasks, internal/automation/store.go: the  *)
(* tick over all due automations, reports of their tasks' outcome, pausing *)
(* after consecutive failures.                                             *)
(*                                                                         *)
(* A tick holds the store's mutex and works on a copy of the state; each   *)
(* task it creates is written by the product task store at once, the copy  *)
(* only at the end, and a failing dispatch or a crash drops the copy.  A   *)
(* read of a task may fail too, above all when the request that ticks is   *)
(* over by the time it gets the mutex: it counts as a task still open.     *)
(* Tasks move on meanwhile.  Task n of an automation is the one whose id   *)
(* ends in -run-n; its creation is one operation of the task store, so     *)
(* dispatching it again finds it.  Operations of the clients sent again    *)
(* change nothing and are left out, and so are revisions and time stamps.  *)
(***************************************************************************)
EXTENDS Integers, Sequences, FiniteSets

CONSTANTS
    Automations,    \* a set of numbers: the order of their ids
    Every,          \* the interval of a schedule
    Threshold,      \* failures that pause it
    LastTime,       \* bound: the time of a tick
    MaxResumes,     \* bound: changes of an automation's status by its owner
    MaxCuts,        \* bound: ticks cut off
    MaxMisreads     \* bound: reads of a task that fail in a tick

VARIABLES
    autos,          \* Automations -> [status, next, failures, runs]
    tasks,          \* Automations -> the states of its tasks, in order of their number
    tick,           \* the tick under way: [at, todo, copy], or NoTick
    resumes, cuts, misreads \* for the bounds

vars == <<autos, tasks, tick, resumes, cuts, misreads>>

NoTick == [at |-> -1, todo |-> {}, copy |-> <<>>]
Quiet == tick = NoTick
Absent == [status |-> "absent", next |-> 0, failures |-> 0, runs |-> <<>>]

-----------------------------------------------------------------------------
Create(a, start) ==
    /\ Quiet /\ autos[a].status = "absent"
    /\ autos' = [autos EXCEPT ![a] = [Absent EXCEPT !.status = "active", !.next = start]]
    /\ UNCHANGED <<tasks, tick, resumes, cuts, misreads>>

(* A run that ended, whoever finds out: a success clears the failures, the *)
(* last failure allowed pauses.                                            *)
Settled(item, n, success) ==
    [item EXCEPT
        !.runs[n] = IF success THEN "succeeded" ELSE "failed",
        !.failures = IF success THEN 0 ELSE @ + 1,
        !.status = IF ~success /\ item.failures + 1 >= Threshold THEN "paused" ELSE @]

Dispatched(item) == {n \in DOMAIN item.runs : item.runs[n] = "dispatched"}
Latest(runs) == CHOOSE n \in runs : \A m \in runs : m <= n

(* finalizeTerminal: the latest run under way, if its task has ended.      *)
Finalized(a, item) ==
    IF Dispatched(item) = {} THEN item
    ELSE LET n == Latest(Dispatched(item))
         IN IF tasks[a][n] = "open" THEN item ELSE Settled(item, n, tasks[a][n] = "done")

(* advance: the first time of the schedule after at.                       *)
Advanced(item, at) ==
    [item EXCEPT !.next = IF @ > at THEN @ ELSE @ + Every * ((at - @) \div Every + 1)]

Recorded(item, state, at) == Advanced([item EXCEPT !.runs = Append(@, state)], at)

Due(item, at) == item.status = "active" /\ at >= item.next

Tick(at) ==
    /\ Quiet
    /\ \E a \in Automations : Due(autos[a], at)
    /\ tick' = [at |-> at, todo |-> {a \in Automations : Due(autos[a], at)}, copy |-> autos]
    /\ UNCHANGED <<autos, tasks, resumes, cuts, misreads>>

Turn(a) == a \in tick.todo /\ \A b \in tick.todo : a <= b
Tidy(a) == Finalized(a, tick.copy[a])

Put(a, item) ==
    /\ tick' = [tick EXCEPT !.todo = @ \ {a}, !.copy[a] = item]
    /\ UNCHANGED <<autos, resumes, cuts>>

TickPauses(a) ==
    /\ Turn(a) /\ Tidy(a).status = "paused"
    /\ Put(a, Tidy(a)) /\ UNCHANGED <<tasks, misreads>>

TickSkips(a) ==
    /\ Turn(a) /\ Tidy(a).status = "active" /\ Dispatched(Tidy(a)) # {}
    /\ Put(a, Recorded(Tidy(a), "skipped", tick.at)) /\ UNCHANGED <<tasks, misreads>>

(* The task of the run under way cannot be read: whatever became of it,    *)
(* the occurrence is skipped, also when its own task is there already.     *)
TickMisreads(a) ==
    /\ Turn(a) /\ Dispatched(tick.copy[a]) # {} /\ misreads < MaxMisreads
    /\ misreads' = misreads + 1
    /\ Put(a, Recorded(tick.copy[a], "skipped", tick.at)) /\ UNCHANGED tasks

(* The task may be there already, from a tick that was cut off.            *)
TickDispatches(a) ==
    /\ Turn(a) /\ Tidy(a).status = "active" /\ Dispatched(Tidy(a)) = {}
    /\ LET n == Len(Tidy(a).runs) + 1
       IN tasks' = [tasks EXCEPT ![a] =
              [m \in DOMAIN @ \cup {n} |-> IF m \in DOMAIN @ THEN @[m] ELSE "open"]]
    /\ Put(a, Recorded(Tidy(a), "dispatched", tick.at)) /\ UNCHANGED misreads

TickEnds ==
    /\ tick # NoTick /\ tick.todo = {}
    /\ autos' = tick.copy /\ tick' = NoTick
    /\ UNCHANGED <<tasks, resumes, cuts, misreads>>

(* A dispatch fails, the write fails, or the server stops.                 *)
TickIsCut ==
    /\ tick # NoTick /\ cuts < MaxCuts
    /\ cuts' = cuts + 1 /\ tick' = NoTick
    /\ UNCHANGED <<autos, tasks, resumes, misreads>>

(* Mutant: the state of the task is not looked at.                         *)
ReportUnchecked(a, n, success) ==
    /\ Quiet /\ n \in Dispatched(autos[a])
    /\ autos' = [autos EXCEPT ![a] = Settled(@, n, success)]
    /\ UNCHANGED <<tasks, tick, resumes, cuts, misreads>>

(* A person or an agent reports the outcome of a task, with evidence.      *)
Report(a, n, success) ==
    /\ Quiet /\ n \in Dispatched(autos[a])
    /\ tasks[a][n] = IF success THEN "done" ELSE "closed"
    /\ autos' = [autos EXCEPT ![a] = Settled(@, n, success)]
    /\ UNCHANGED <<tasks, tick, resumes, cuts, misreads>>

SetStatus(a, status) ==
    /\ Quiet /\ autos[a].status # "absent" /\ resumes < MaxResumes
    /\ resumes' = resumes + 1
    /\ autos' = [autos EXCEPT ![a].status = status,
                              ![a].failures = IF status = "active" THEN 0 ELSE @]
    /\ UNCHANGED <<tasks, tick, cuts, misreads>>

(* The product task store, outside: a task is delivered or closed.         *)
TaskEnds(a, n, state) ==
    /\ tasks[a][n] = "open"
    /\ tasks' = [tasks EXCEPT ![a][n] = state]
    /\ UNCHANGED <<autos, tick, resumes, cuts, misreads>>

Init ==
    /\ autos = [a \in Automations |-> Absent]
    /\ tasks = [a \in Automations |-> <<>>]
    /\ tick = NoTick /\ resumes = 0 /\ cuts = 0 /\ misreads = 0

Owner(a) ==
    \/ \E start \in 0..LastTime : Create(a, start)
    \/ \E n \in DOMAIN autos[a].runs : \E success \in BOOLEAN : Report(a, n, success)
    \/ \E status \in {"active", "paused"} : SetStatus(a, status)

TickStep(a) == TickPauses(a) \/ TickSkips(a) \/ TickMisreads(a) \/ TickDispatches(a)

Next ==
    \/ \E a \in Automations :
          \/ Owner(a) \/ TickStep(a)
          \/ \E n \in DOMAIN tasks[a] : \E state \in {"done", "closed"} : TaskEnds(a, n, state)
    \/ \E at \in 0..LastTime : Tick(at)
    \/ TickEnds \/ TickIsCut

Spec == Init /\ [][Next]_vars

-----------------------------------------------------------------------------
(* Type correctness.                                                       *)
Schedules ==
    [status : {"absent", "active", "paused"}, next : 0..(LastTime + Every), failures : Nat,
     runs : Seq({"dispatched", "succeeded", "failed", "skipped"})]

TypeOK ==
    /\ autos \in [Automations -> Schedules]
    /\ \A a \in Automations : \A n \in DOMAIN tasks[a] : tasks[a][n] \in {"open", "done", "closed"}
    /\ tick.at \in -1..LastTime /\ (Quiet \/ tick.copy \in [Automations -> Schedules])

(* A task is astray when the schedule goes on without it: its occurrence   *)
(* was recorded as skipped.                                                *)
Unfinished(a) == {n \in DOMAIN tasks[a] : tasks[a][n] = "open"}
Astray(a) == {n \in DOMAIN tasks[a] : n \in DOMAIN autos[a].runs /\ autos[a].runs[n] = "skipped"}

(* A schedule never has two open tasks, nor two tasks for one occurrence,  *)
(* whatever ticks are cut off: each task belongs to a run of its number,   *)
(* or it is the next one, left by a tick that was cut off, and no run      *)
(* under way or settled is without its task.  Only a read that failed      *)
(* leads a task astray.                                                    *)
SchedulesDoNotOverlap ==
    \A a \in Automations :
        /\ Cardinality(Unfinished(a) \ Astray(a)) <= 1
        /\ DOMAIN tasks[a] \subseteq 1..(Len(autos[a].runs) + 1)
        /\ \A n \in DOMAIN autos[a].runs : autos[a].runs[n] # "skipped" => n \in DOMAIN tasks[a]
        /\ Cardinality(Astray(a)) <= misreads

(* Consecutive failures pause a schedule at the threshold, and each run    *)
(* counts once, whether a report or a tick is first to see it end.         *)
LastGood(item) ==
    LET good == {n \in DOMAIN item.runs : item.runs[n] = "succeeded"}
    IN IF good = {} THEN 0 ELSE Latest(good)

FailuresPause ==
    \A a \in Automations :
        LET item == autos[a]
        IN /\ item.status = "active" => item.failures < Threshold
           /\ item.failures <= Cardinality({n \in DOMAIN item.runs :
                                               n > LastGood(item) /\ item.runs[n] = "failed"})
=============================================================================
