------------------------------- MODULE Daemon -------------------------------
(***************************************************************************)
(* Remote runs on one device: the daemon's loop (internal/daemon), its     *)
(* executor with the runtime process it starts (cmd/01agent), the files    *)
(* the runtime leaves on the device, and the connection that the server    *)
(* keeps with it (daemonConnect of server/computers.go).                   *)
(*                                                                         *)
(* commands is the device's part of the queue of Computer, reduced to what *)
(* one connection after the other sees of it.  A connection ends with its  *)
(* daemon process, and a runtime process ends with its daemon: the model   *)
(* leaves out processes that outlive it.  A runtime is seen through its    *)
(* commits to the run's history and its result file; killing it may come   *)
(* at any moment.  A job is the goroutine that carries out a run command;  *)
(* cut says that its context is done, by a cancel_run or its deadline.     *)
(*                                                                         *)
(* A message that is longer than its reader's limit ends the connection,   *)
(* and the daemon with it: a run command with a long prompt, the answer to *)
(* a run with a long final message.  A result is wide when the runtime's   *)
(* output, all of its messages, is more than the executor keeps.           *)
(***************************************************************************)
EXTENDS Integers, Sequences, FiniteSets

CONSTANTS
    Runs,
    Seconds,        \* the timeout of a run command
    Nanoseconds,    \* nanoseconds in a second
    Quickest,       \* nanoseconds that the runtime needs for a turn
    MaxConcurrent,  \* capacity of the daemon's semaphore
    MaxBreaks,      \* bound: connections that break
    AnyLength       \* bound: runs whose messages may be too long

VARIABLES
    commands,       \* sequence of [kind, run, long, state, reason]
    daemon,         \* [up, breaks]
    jobs,           \* Runs -> [pc, cut, reason] in the daemon
    procs,          \* Runs -> [pc, limit] the runtime process
    disk            \* Runs -> [history, result, size] the run's files

vars == <<commands, daemon, jobs, procs, disk>>

(* Of a result: its output is cut short, its answer is not taken.          *)
Wide == {"wide", "both"}
Oversize == {"long", "both"}
ResultSizes == {"fits"} \cup Wide \cup Oversize

NoJob == [pc |-> "none", cut |-> FALSE, reason |-> "none"]
NoProc == [pc |-> "none", limit |-> 0]

Command(kind, r, long) ==
    [kind |-> kind, run |-> r, long |-> long, state |-> "queued", reason |-> "none"]
Asked(kind, r) == \E k \in DOMAIN commands : commands[k].kind = kind /\ commands[k].run = r

-----------------------------------------------------------------------------
(* The server's side.                                                      *)

QueueRun(r) ==
    /\ ~Asked("run_agent", r)
    /\ \E long \in BOOLEAN :
          /\ long => r \in AnyLength
          /\ commands' = Append(commands, Command("run_agent", r, long))
    /\ UNCHANGED <<daemon, jobs, procs, disk>>

QueueCancel(r) ==
    /\ Asked("run_agent", r) /\ ~Asked("cancel_run", r)
    /\ commands' = Append(commands, Command("cancel_run", r, FALSE))
    /\ UNCHANGED <<daemon, jobs, procs, disk>>

(* Mutant: what earlier connections were sent stays sent.                  *)
ConnectOnly ==
    /\ ~daemon.up
    /\ daemon' = [daemon EXCEPT !.up = TRUE]
    /\ UNCHANGED <<commands, jobs, procs, disk>>

(* Connecting makes what earlier connections were sent deliverable again.  *)
Connect ==
    /\ ~daemon.up
    /\ daemon' = [daemon EXCEPT !.up = TRUE]
    /\ commands' = [k \in DOMAIN commands |->
          IF commands[k].state = "sent" THEN [commands[k] EXCEPT !.state = "queued"]
          ELSE commands[k]]
    /\ UNCHANGED <<jobs, procs, disk>>

NextCommand(k) ==
    /\ k \in DOMAIN commands /\ commands[k].state = "queued"
    /\ \A j \in DOMAIN commands : commands[j].state = "queued" => k <= j

(* The daemon exits, with its jobs and processes.                          *)
Exits ==
    /\ jobs' = [r \in Runs |-> NoJob] /\ procs' = [r \in Runs |-> NoProc]
    /\ UNCHANGED disk

(* A run command starts a job; a cancellation is acknowledged at once.     *)
PollRun(k) ==
    /\ daemon.up /\ NextCommand(k) /\ commands[k].kind = "run_agent" /\ ~commands[k].long
    /\ commands' = [commands EXCEPT ![k].state = "sent"]
    /\ jobs' = [jobs EXCEPT ![commands[k].run] = [NoJob EXCEPT !.pc = "waiting"]]
    /\ UNCHANGED <<daemon, procs, disk>>

(* A command that is too long to be read counts as sent.                   *)
PollTooLong(k) ==
    /\ daemon.up /\ NextCommand(k) /\ commands[k].long
    /\ commands' = [commands EXCEPT ![k].state = "sent"]
    /\ daemon' = [daemon EXCEPT !.up = FALSE]
    /\ Exits

PollCancel(k) ==
    /\ daemon.up /\ NextCommand(k) /\ commands[k].kind = "cancel_run"
    /\ commands' = [commands EXCEPT ![k].state = "acked"]
    /\ jobs' = [jobs EXCEPT ![commands[k].run].cut = jobs[commands[k].run].pc # "none"]
    /\ UNCHANGED <<daemon, procs, disk>>

Deadline(r) ==
    /\ jobs[r].pc \in {"waiting", "working"} /\ ~jobs[r].cut
    /\ jobs' = [jobs EXCEPT ![r].cut = TRUE]
    /\ UNCHANGED <<commands, daemon, procs, disk>>

-----------------------------------------------------------------------------
(* A job: it waits for the semaphore, answers from a result that is there, *)
(* or runs the runtime, resuming a run that has a history.                 *)

Working == {r \in Runs : jobs[r].pc = "working"}
Answer(r, reason) == jobs' = [jobs EXCEPT ![r].pc = "outcome", ![r].reason = reason]

(* The time limit of the process: a number of nanoseconds, as the executor *)
(* converts it.                                                            *)
Limit(seconds) == seconds

(* Mutant: the result file of an earlier process is not looked for.        *)
BeginAnew(r) ==
    /\ jobs[r].pc = "waiting" /\ Cardinality(Working) < MaxConcurrent
    /\ jobs' = [jobs EXCEPT ![r].pc = "working"]
    /\ procs' = [procs EXCEPT ![r] = [pc |-> "start", limit |-> Limit(Seconds)]]
    /\ UNCHANGED <<commands, daemon, disk>>

Begin(r) ==
    /\ jobs[r].pc = "waiting" /\ Cardinality(Working) < MaxConcurrent
    /\ IF disk[r].result # "none"
       THEN Answer(r, disk[r].result) /\ UNCHANGED procs
       ELSE /\ jobs' = [jobs EXCEPT ![r].pc = "working"]
            /\ procs' = [procs EXCEPT ![r] = [pc |-> "start", limit |-> Limit(Seconds)]]
    /\ UNCHANGED <<commands, daemon, disk>>

GiveUp(r) ==
    /\ jobs[r].pc = "waiting" /\ jobs[r].cut
    /\ Answer(r, "error")
    /\ UNCHANGED <<commands, daemon, procs, disk>>

(* A context that is done kills the process.                               *)
Kill(r) ==
    /\ jobs[r].pc = "working" /\ jobs[r].cut
    /\ procs' = [procs EXCEPT ![r] = NoProc]
    /\ Answer(r, "error")
    /\ UNCHANGED <<commands, daemon, disk>>

(* The process ended; without output that can be decoded the run failed.   *)
Collect(r) ==
    /\ jobs[r].pc = "working" /\ procs[r].pc \in {"written", "refused"}
    /\ procs' = [procs EXCEPT ![r] = NoProc]
    /\ Answer(r, IF procs[r].pc = "written" /\ disk[r].size \notin Wide THEN disk[r].result
                 ELSE "error")
    /\ UNCHANGED <<commands, daemon, disk>>

(* The loop acknowledges the outcome, with the result or as a failure.     *)
LongAnswer(r) == jobs[r].reason # "error" /\ disk[r].size \in Oversize

Acknowledge(r) ==
    /\ daemon.up /\ jobs[r].pc = "outcome" /\ ~LongAnswer(r)
    /\ commands' = [k \in DOMAIN commands |->
          IF commands[k].kind = "run_agent" /\ commands[k].run = r /\ commands[k].state = "sent"
          THEN [commands[k] EXCEPT !.reason = jobs[r].reason,
                   !.state = IF jobs[r].reason = "error" THEN "failed" ELSE "acked"]
          ELSE commands[k]]
    /\ jobs' = [jobs EXCEPT ![r] = NoJob]
    /\ UNCHANGED <<daemon, procs, disk>>

(* The server does not take a message that is too long.                    *)
AnswerTooLong(r) ==
    /\ daemon.up /\ jobs[r].pc = "outcome" /\ LongAnswer(r)
    /\ daemon' = [daemon EXCEPT !.up = FALSE]
    /\ Exits /\ UNCHANGED commands

(* The connection breaks: a command under way to the daemon counts as      *)
(* sent.                                                                   *)
Break ==
    /\ daemon.up /\ daemon.breaks < MaxBreaks
    /\ daemon' = [up |-> FALSE, breaks |-> daemon.breaks + 1]
    /\ Exits
    /\ \E lost \in {{}} \cup {{k} : k \in DOMAIN commands} :
          /\ \A k \in lost : NextCommand(k)
          /\ commands' = [k \in DOMAIN commands |->
                IF k \in lost THEN [commands[k] EXCEPT !.state = "sent"] ELSE commands[k]]

-----------------------------------------------------------------------------
(* The runtime process.  It refuses to resume a completed history, commits *)
(* as it goes, ends with a terminal commit, and then writes its result.    *)

Process(r, from, to) ==
    /\ procs[r].pc = from
    /\ procs' = [procs EXCEPT ![r].pc = to]
    /\ UNCHANGED <<commands, daemon, jobs>>

Refuse(r) ==
    disk[r].history = "completed" /\ Process(r, "start", "refused") /\ UNCHANGED disk

Admit(r) ==
    /\ disk[r].history # "completed" /\ Process(r, "start", "turns")
    /\ disk' = [disk EXCEPT ![r].history = "open"]

End(r, reason) ==
    /\ reason = "completed" => procs[r].limit >= Quickest
    /\ Process(r, "turns", "ended")
    /\ disk' = [disk EXCEPT ![r].history = reason]

WriteResult(r) ==
    /\ Process(r, "ended", "written")
    /\ \E size \in ResultSizes :
          /\ size # "fits" => r \in AnyLength
          /\ disk' = [disk EXCEPT ![r].result = disk[r].history, ![r].size = size]

Init ==
    /\ commands = <<>>
    /\ daemon = [up |-> FALSE, breaks |-> 0]
    /\ jobs = [r \in Runs |-> NoJob] /\ procs = [r \in Runs |-> NoProc]
    /\ disk = [r \in Runs |-> [history |-> "none", result |-> "none", size |-> "fits"]]

Job(r) ==
    Begin(r) \/ GiveUp(r) \/ Kill(r) \/ Collect(r) \/ Acknowledge(r) \/ AnswerTooLong(r)
Runtime(r) ==
    Refuse(r) \/ Admit(r) \/ WriteResult(r) \/ \E reason \in {"completed", "stopped"} : End(r, reason)
Poll == \E k \in DOMAIN commands : PollRun(k) \/ PollTooLong(k) \/ PollCancel(k)

Next ==
    \/ \E r \in Runs : QueueRun(r) \/ QueueCancel(r) \/ Deadline(r) \/ Job(r) \/ Runtime(r)
    \/ Connect \/ Poll \/ Break

Spec == Init /\ [][Next]_vars

-----------------------------------------------------------------------------
(* Type correctness.                                                       *)
TypeOK ==
    /\ \A k \in DOMAIN commands : commands[k].state \in {"queued", "sent", "acked", "failed"}
    /\ \A r \in Runs :
          /\ jobs[r].pc \in {"none", "waiting", "working", "outcome"}
          /\ jobs[r].pc = "working" <=> procs[r].pc # "none"
          /\ procs[r].pc \in {"none", "start", "refused", "turns", "ended", "written"}
          /\ disk[r].history \in {"none", "open", "completed", "stopped"}
          /\ disk[r].result \in {"none", "completed", "stopped"}
          /\ disk[r].size \in ResultSizes
    /\ Cardinality(Working) <= MaxConcurrent

(* A run is answered with the result that lies on the device, which is the *)
(* one its history ended with, and finished work is not thrown away: a run *)
(* that was answered as failed left no result, unless it was cancelled or  *)
(* its time was up, or the executor could not keep all of the output.      *)
AnswersAreTrue ==
    \A k \in DOMAIN commands :
        LET r == commands[k].run
        IN commands[k].kind = "run_agent" =>
              /\ commands[k].state = "acked" =>
                    commands[k].reason = disk[r].result /\ disk[r].result = disk[r].history
              /\ jobs[r].pc = "outcome" /\ jobs[r].reason = "error" /\ ~jobs[r].cut =>
                    disk[r].result = "none" \/ disk[r].size \in Wide

Open == {k \in DOMAIN commands : commands[k].kind = "run_agent"
                                 /\ commands[k].state \notin {"acked", "failed"}}

(* A message of an open run that the other side will not read.             *)
TooLong ==
    \E k \in Open : LET r == commands[k].run
                   IN commands[k].long \/ disk[r].size \in Oversize

(* Run commands are to be answered: connections that break, a full         *)
(* semaphore, cancellations and resumed runs do not excuse one.  Only a    *)
(* message that is too long holds up the device.                           *)
Pending == Open # {} /\ ~TooLong

(* Documented: a run command carries a bounded deadline, in seconds        *)
(* (docs/harness-spec.md); the runtime is given that time.                 *)
DeadlineAsAsked ==
    \A r \in Runs : procs[r].pc # "none" => procs[r].limit = Seconds * Nanoseconds
=============================================================================
