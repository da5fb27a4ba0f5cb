---------------------------- MODULE ControlPlane ----------------------------
(***************************************************************************)
(* The stores of the control plane beside the product tasks, its two       *)
(* peers, and what a run works with: background jobs, approvals, the inbox *)
(* and the work marks of agents, schedules, the agents' records with the   *)
(* teams made of them; the daemon and the chat bridge; the context window, *)
(* the files and the plan of a run.  No two of the parts share state, so   *)
(* an interleaving of steps of two of them shows nothing that each does    *)
(* not show alone; focus names the one that moves, from the start, and the *)
(* states to check are their sum and not their product.  Moving says which *)
(* parts are looked at.                                                    *)
(***************************************************************************)
EXTENDS Integers, Sequences, FiniteSets

CONSTANTS
    Moving,         \* the parts that may move
    JobIds, Owners, NoOwner, ClaimLimit, MaxClaims, MaxJobCrashes,
    Calls, Attempts, MaxTries, MaxApprovalCrashes,
    Agents, Conversations, Ranks, Leases, NoLease,
    MaxRecipients, MaxMessages, MaxDrafts, MaxMarks,
    Automations, Every, Threshold, LastTime, MaxResumes, MaxCuts, MaxMisreads,
    Models, Capabilities, MaxOperations, Roles, Budgets, MaxLockfiles,
    Runs, Seconds, Nanoseconds, Quickest, MaxConcurrent, MaxBreaks, AnyLength,
    Events, Chats, Workers, QueueSize, MaxAttempts, MaxStops, None,
    Sizes, MarkerSize, Long, MaxTool, Budget, RecentMessages, MinTail, Tears, MaxTurns,
    Letter, MaxFile, MaxFragment, Replacements,
    OperationIds, Contents, MaxRevision

Parts ==
    {"jobs", "approvals", "inbox", "marks", "schedules", "agents", "teams", "device", "chat",
     "window", "files", "plan"}

ASSUME MovingAssumption == Moving \subseteq Parts

ASSUME RevisionsAssumption == MaxRevision \in Nat

(* A schedule is created with a positive interval and threshold.           *)
ASSUME SchedulesAssumption == Every \in Nat \ {0} /\ Threshold \in Nat \ {0}

(* The agents are those of one directory, and a lease has a name.          *)
ASSUME AgentsAssumption == IsFiniteSet(Agents) /\ NoLease \notin Leases

(* Texts have a size, and those that are archived say something.           *)
ASSUME TextsAssumption == Sizes \subseteq Nat \ {0} /\ MarkerSize \in Nat /\ MaxTool \in Nat

(* What an edit puts in is a text, as what it replaces; no text stands for *)
(* a file that is not there.                                               *)
ASSUME EditsAssumption ==
    /\ Replacements \subseteq Seq({Letter, "SP", "LF", "CR"}) /\ Letter # "absent"
    /\ MaxFile \in Nat /\ MaxFragment \in Nat

(* A run has a turn at least.                                              *)
ASSUME TurnsAssumption == MaxTurns \in Nat \ {0}

(* What is counted has a limit; a chat job is attempted at least once, as  *)
(* the bridge's configuration sees to.                                     *)
ASSUME LimitsAssumption ==
    /\ MaxTries \in Nat /\ LastTime \in Nat /\ MaxConcurrent \in Nat /\ QueueSize \in Nat
    /\ MaxAttempts \in Nat \ {0} /\ MaxStops \in Nat

(* No message has the name that stands for none.                           *)
ASSUME EventsAssumption == None \notin Events

VARIABLES
    focus,
    jobs, calls, server, queue, parent, jobCrashes,
    requests, late, granted, deciding, directives, decided, executed, tries, approvalCrashes,
    messages, inbox, cursors, drafts, marks,
    autos, tasks, tick, resumes, cuts, misreads,
    agents, lockfiles, choice,
    commands, daemon, lanes, procs, disk,
    chatJobs, wake, workers, bridge, pending, turns, replied, stops,
    window, archive, torn, turn, fitted, said,
    file, edit,
    plan, texts, work, written, answers

Jobs == INSTANCE Jobs WITH crashes <- jobCrashes, MaxCrashes <- MaxJobCrashes
Approvals == INSTANCE Approvals WITH crashes <- approvalCrashes, MaxCrashes <- MaxApprovalCrashes
Attention == INSTANCE Attention
Automation == INSTANCE Automation
Teams == INSTANCE Team WITH AgentIds <- Agents
Daemon == INSTANCE Daemon WITH jobs <- lanes
Chat == INSTANCE Feishu WITH jobs <- chatJobs
Window == INSTANCE ContextWindow
Edits == INSTANCE FileEdits
Plans == INSTANCE Plans

jobVars == <<jobs, calls, server, queue, parent, jobCrashes>>
approvalVars ==
    <<requests, late, granted, deciding, directives, decided, executed, tries, approvalCrashes>>
attentionVars == <<messages, inbox, cursors, drafts, marks>>
automationVars == <<autos, tasks, tick, resumes, cuts, misreads>>
teamVars == <<agents, lockfiles, choice>>
daemonVars == <<commands, daemon, lanes, procs, disk>>
chatVars == <<chatJobs, wake, workers, bridge, pending, turns, replied, stops>>
windowVars == <<window, archive, torn, turn, fitted, said>>
editVars == <<file, edit>>
planVars == <<plan, texts, work, written, answers>>
storeVars == <<jobVars, approvalVars, attentionVars, automationVars, teamVars>>
peerVars == <<daemonVars, chatVars>>
runVars == <<windowVars, editVars, planVars>>
vars == <<focus, storeVars, peerVars, runVars>>

Init ==
    /\ focus \in Moving
    /\ Jobs!Init /\ Approvals!Init /\ Attention!Init /\ Automation!Init
    /\ Teams!TeamInit /\ Daemon!Init /\ Chat!Init
    /\ Window!Init /\ Edits!Init /\ Plans!Init

Move(part, A) == focus = part /\ A /\ UNCHANGED focus

StoreMoves(part, A) == Move(part, A) /\ UNCHANGED <<peerVars, runVars>>

JobsMove(A) ==
    StoreMoves("jobs", A)
    /\ UNCHANGED <<approvalVars, attentionVars, automationVars, teamVars>>

ApprovalsMove(A) ==
    StoreMoves("approvals", A)
    /\ UNCHANGED <<jobVars, attentionVars, automationVars, teamVars>>

AttentionMoves(part, A) ==
    StoreMoves(part, A)
    /\ UNCHANGED <<jobVars, approvalVars, automationVars, teamVars>>

AutomationMoves(A) ==
    StoreMoves("schedules", A)
    /\ UNCHANGED <<jobVars, approvalVars, attentionVars, teamVars>>

TeamMoves(part, A) ==
    StoreMoves(part, A)
    /\ UNCHANGED <<jobVars, approvalVars, attentionVars, automationVars>>

DaemonMoves(A) == Move("device", A) /\ UNCHANGED <<storeVars, chatVars, runVars>>

ChatMoves(A) == Move("chat", A) /\ UNCHANGED <<storeVars, daemonVars, runVars>>

WindowMoves(A) ==
    Move("window", A) /\ UNCHANGED <<storeVars, peerVars, editVars, planVars>>

FilesMove(A) ==
    Move("files", A) /\ UNCHANGED <<storeVars, peerVars, windowVars, planVars>>

PlanMoves(A) ==
    Move("plan", A) /\ UNCHANGED <<storeVars, peerVars, windowVars, editVars>>

Next ==
    \/ JobsMove(Jobs!Next)
    \/ ApprovalsMove(Approvals!Next)
    \/ AttentionMoves("inbox", Attention!InboxStep)
    \/ AttentionMoves("marks", Attention!MarkStep)
    \/ AutomationMoves(Automation!Next)
    \/ TeamMoves("agents", Teams!Next /\ UNCHANGED <<lockfiles, choice>>)
    \/ TeamMoves("teams", Teams!TeamStep)
    \/ TeamMoves("teams", Teams!ConfigurationStep /\ UNCHANGED <<lockfiles, choice>>)
    \/ DaemonMoves(Daemon!Next)
    \/ ChatMoves(Chat!Next)
    \/ WindowMoves(Window!Next)
    \/ FilesMove(Edits!Next)
    \/ PlanMoves(Plans!Next)

Spec == Init /\ [][Next]_vars

(* Of the server, the daemon and the bridge no more is asked than that not *)
(* all of their goroutines stop: which of them moves is left open.         *)

(* The server is started again and reconciles, and started deliveries of   *)
(* results go on.                                                          *)
Deliver ==
    \/ Jobs!RoundStep
    \/ \E j \in JobIds : \E by \in Jobs!Callers : Jobs!EnqueueResult(j, by) \/ Jobs!MarkResult(j, by)

(* The daemon is started again and polls, its jobs and processes go on.    *)
Serve == Daemon!Connect \/ Daemon!Poll \/ \E r \in Runs : Daemon!Job(r) \/ Daemon!Runtime(r)

(* The bridge is started again, wakes its workers and they work.           *)
Answer ==
    \/ Chat!Start \/ Chat!Exit
    \/ \E e \in Events : Chat!Wake(e)
    \/ \E w \in Workers : Chat!Work(w)

Fairness ==
    /\ WF_jobVars(focus = "jobs" /\ Deliver)
    /\ WF_daemonVars(focus = "device" /\ Serve)
    /\ WF_chatVars(focus = "chat" /\ Answer)

FairSpec == Spec /\ Fairness

-----------------------------------------------------------------------------
(* The properties of the parts, stated in their modules.                   *)

(* Type correctness of every part.                                         *)
TypeOK ==
    /\ focus \in Parts
    /\ Jobs!TypeOK /\ Approvals!TypeOK /\ Attention!TypeOK /\ Automation!TypeOK
    /\ Teams!TypeOK /\ Daemon!TypeOK /\ Chat!TypeOK
    /\ Window!TypeOK /\ Edits!TypeOK /\ Plans!TypeOK

(* taskstore: the parent is told the final state of a job, and once.       *)
ResultsAreFinal == Jobs!ResultsAreFinal

(* approvalstore: one approval carries one execution of the exact call.    *)
ApprovalsAreSpentOnce == Approvals!ApprovalsAreSpentOnce

(* attention: one live claim and one view of its conversation per agent.   *)
OneThoughtAtATime == Attention!OneThoughtAtATime

(* attention: a delivered message waits until it is shown or given up.     *)
MessagesWait == Attention!MessagesWait

(* automation: one open task per schedule, and none twice, but for those   *)
(* led astray by a read that failed; consecutive failures pause it, each   *)
(* run counted once.                                                       *)
SchedulesHold == Automation!SchedulesDoNotOverlap /\ Automation!FailuresPause

(* agentregistry, team: agents change by review of what was current, and   *)
(* a lockfile names reviewed revisions that can do its roles.              *)
TeamsStandOnReview == Teams!AgentsFollowReview /\ Teams!LockfilesHold

(* daemon: a run is answered with the result its history ended with.       *)
AnswersAreTrue == Daemon!AnswersAreTrue

(* feishu: a message is worked on by one worker and answered with the      *)
(* answer of its own turn.                                                 *)
RepliesRestOnTurns == Chat!RepliesRestOnTurns

(* What is reported onwards is what happened: a job to its parent, a       *)
(* remote run to the server, a turn to its chat.                           *)
ReportsAreTrue == ResultsAreFinal /\ AnswersAreTrue /\ RepliesRestOnTurns

(* What is to be reported onwards gets there in the end: results of jobs   *)
(* to the parent run, unless one that is too long for its queue comes      *)
(* before them; remote runs are answered, unless one of their messages is  *)
(* too long for its reader; every chat message is answered or given up;    *)
(* whatever crashes, breaks and stops there are, and the server comes back *)
(* after its crash.  One of the three moves in a behaviour.                *)
Pending == Jobs!Pending \/ Daemon!Pending \/ Chat!Pending
ReportsArrive == Pending ~> ~Pending

(* feishu, documented: interrupted jobs are not given up.                  *)
GivenUpWhenExhausted == Chat!GivenUpWhenExhausted

(* memory: whatever a run was told can be recalled.                        *)
NothingIsLost == Window!NothingIsLost

(* contextmanager: nothing is lost in a compaction, and no result is       *)
(* parted from the call it answers.                                        *)
ContextHolds == Window!NothingIsLost /\ Window!CallsStayWhole

(* tools: an edit replaces what was asked for, and keeps the line ends.    *)
EditsHold == Edits!EditsHitTheirMark /\ Edits!LineEndsStay

(* plan: what is answered is the plan, in all of its files.                *)
PlansStand == Plans!AnsweredPlansStand

(* daemon, documented: the runtime is given the deadline of the command.   *)
DeadlineAsAsked == Daemon!DeadlineAsAsked
=============================================================================
