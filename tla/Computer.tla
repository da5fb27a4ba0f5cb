------------------------------ MODULE Computer ------------------------------
(***************************************************************************)
(* The computer registry, internal/computer/store.go: persistent execution *)
(* devices with a short connection lease, revisioned agent bindings, run   *)
(* leases, and the durable queue of typed daemon commands.  Every          *)
(* operation reads the one state file, changes it and replaces it under    *)
(* the store's mutex, so it is one action.                                 *)
(*                                                                         *)
(* Leases carry no clock: a connection or run lease is live or has run     *)
(* out, and it runs out at any moment.  commands is the queue in the order *)
(* of CreatedAt.  Refusals change nothing; they are the kinds of the       *)
(* code's errors: "conflict", "lease", "offline", "busy" (ErrActiveRun or  *)
(* a run id in use) and "refused".                                         *)
(***************************************************************************)
EXTENDS Integers, Sequences, FiniteSets

CONSTANTS
    Computers,      \* registered execution devices
    Agents,         \* agents that can be bound to one
    Runs,           \* run identities
    ConnLeases,     \* connection lease ids, one drawn by the daemon per connection
    RunLeaseIds,    \* run lease ids
    Capabilities,   \* capability digests
    Terms,          \* what a run request freezes: task, mode, prompt, revisions
    Outcomes,       \* what a run result says
    Ops,            \* operation ids of the store's clients
    None            \* the empty string / nil pointer of the code

ASSUME NoneAssumption ==
    None \notin Computers \cup Agents \cup Runs \cup ConnLeases \cup RunLeaseIds
                \cup Capabilities

VARIABLES
    computers,      \* Computers -> device record
    bindings,       \* Agents -> binding, NoBinding before the first
    runLeases,      \* Runs -> lease, NoLease when there is none
    commands,       \* sequence of daemon commands, oldest first
    ledger          \* client operations: set of [id, fp]

vars == <<computers, bindings, runLeases, commands, ledger>>

-----------------------------------------------------------------------------
(* Records.                                                                *)

NoComputer == [status |-> "absent", conn |-> None, live |-> FALSE, cap |-> None]
NoBinding == [computer |-> None, rev |-> 0]
NoLease == [agent |-> None, computer |-> None, lease |-> None, live |-> FALSE]
NoRequest == [run |-> None, agent |-> None, cap |-> None, terms |-> None]
NoResult == [run |-> None, outcome |-> None]

Leased(r) == runLeases[r] # NoLease
Connected(c) == computers[c].status = "online" /\ computers[c].live
Holds(c, lease) == Connected(c) /\ computers[c].conn = lease

Entry(op, fp) == [id |-> op, fp |-> fp]
Used(op) == \E entry \in ledger : entry.id = op
Log(op, fp) == ledger' = ledger \cup {Entry(op, fp)}

(* A client operation: a known id replays when its semantics are the same, *)
(* and only then; a new one gets the verdict of the operation's checks.    *)
Outcome(op, fp, verdict) ==
    IF Entry(op, fp) \in ledger THEN "replayed"
    ELSE IF Used(op) THEN "conflict"
    ELSE verdict

Command(op, kind, c, agent, run, request) ==
    [op |-> op, kind |-> kind, computer |-> c, agent |-> agent, run |-> run,
     request |-> request, state |-> "queued", delivery |-> None, result |-> NoResult]

(* Mutant: expired leases are kept.                                        *)
NotPurged == runLeases

(* Rebind and AcquireRun drop every lease they find expired.               *)
Purged == [r \in Runs |-> IF runLeases[r].live THEN runLeases[r] ELSE NoLease]
HasLiveRun(agent) == \E r \in Runs : runLeases[r].live /\ runLeases[r].agent = agent

-----------------------------------------------------------------------------
(* Devices and their connections.                                          *)

Register(op, c) ==
    /\ Outcome(op, <<"register", c>>,
               IF computers[c].status # "absent" THEN "conflict" ELSE "ok") = "ok"
    /\ computers' = [computers EXCEPT ![c] = [NoComputer EXCEPT !.status = "offline"]]
    /\ Log(op, <<"register", c>>)
    /\ UNCHANGED <<bindings, runLeases, commands>>

(* A live lease of another connection refuses the newcomer.                *)
ConnectVerdict(c, lease) ==
    IF computers[c].status = "absent" THEN "refused"
    ELSE IF Connected(c) /\ computers[c].conn # lease THEN "lease"
    ELSE "ok"

Connect(c, lease, cap) ==
    /\ ConnectVerdict(c, lease) = "ok"
    /\ computers' = [computers EXCEPT ![c] =
          [status |-> "online", conn |-> lease, live |-> TRUE, cap |-> cap]]
    /\ UNCHANGED <<bindings, runLeases, commands, ledger>>

(* Renews the time of a lease that still has some.                         *)
Heartbeat(c, lease) ==
    /\ Holds(c, lease)
    /\ computers' = [computers EXCEPT ![c] = [@ EXCEPT !.live = TRUE]]
    /\ UNCHANGED <<bindings, runLeases, commands, ledger>>

(* Only the lease is compared: an expired connection still disconnects.    *)
Disconnect(c, lease) ==
    /\ computers[c].conn = lease
    /\ computers' = [computers EXCEPT ![c] =
          [@ EXCEPT !.status = "offline", !.conn = None, !.live = FALSE]]
    /\ UNCHANGED <<bindings, runLeases, commands, ledger>>

ExpireConnection(c) ==
    /\ Connected(c)
    /\ computers' = [computers EXCEPT ![c] = [@ EXCEPT !.live = FALSE]]
    /\ UNCHANGED <<bindings, runLeases, commands, ledger>>

-----------------------------------------------------------------------------
(* Bindings and run leases.                                                *)

(* Mutant: an agent moves under its run.                                   *)
RebindVerdictWhileBusy(agent, target, exp) ==
    IF ~Connected(target) THEN "offline"
    ELSE IF bindings[agent].rev # exp THEN "conflict"
    ELSE "ok"

RebindVerdict(agent, target, exp) ==
    IF ~Connected(target) THEN "offline"
    ELSE IF bindings[agent].rev # exp THEN "conflict"
    ELSE IF HasLiveRun(agent) THEN "busy"
    ELSE "ok"

(* Moving an agent queues the cleanup of its directory on the old device.  *)
Rebind(op, agent, target, exp) ==
    LET fp == <<"rebind", agent, target, exp>>
        old == bindings[agent].computer
        cleanup == Command(op, "cleanup_agent", old, agent, None, NoRequest)
    IN  /\ Outcome(op, fp, RebindVerdict(agent, target, exp)) = "ok"
        /\ bindings' = [bindings EXCEPT ![agent] = [computer |-> target, rev |-> exp + 1]]
        /\ runLeases' = Purged
        /\ commands' = IF old \in {None, target} THEN commands ELSE Append(commands, cleanup)
        /\ Log(op, fp)
        /\ UNCHANGED computers

(* Mutant: only the run itself is looked up, not the other runs of agent.  *)
AcquireVerdictByRun(run, agent, c) ==
    IF bindings[agent].computer # c THEN "conflict"
    ELSE IF runLeases[run].live THEN "busy"
    ELSE "ok"

AcquireVerdict(run, agent, c) ==
    IF bindings[agent].computer # c THEN "conflict"
    ELSE IF runLeases[run].live \/ HasLiveRun(agent) THEN "busy"
    ELSE "ok"

AcquireFp(run, agent, c, lease) == <<"acquire_run", run, agent, c, lease>>

(* A replay hands back the lease, which may be gone by now.                *)
AcquireOutcome(op, run, agent, c, lease) ==
    LET outcome == Outcome(op, AcquireFp(run, agent, c, lease), AcquireVerdict(run, agent, c))
    IN  IF outcome = "replayed" /\ ~Leased(run) THEN "lease" ELSE outcome

AcquireRun(op, run, agent, c, lease) ==
    /\ AcquireOutcome(op, run, agent, c, lease) = "ok"
    /\ runLeases' = [Purged EXCEPT ![run] =
          [agent |-> agent, computer |-> c, lease |-> lease, live |-> TRUE]]
    /\ Log(op, AcquireFp(run, agent, c, lease))
    /\ UNCHANGED <<computers, bindings, commands>>

ReleaseOutcome(op, run, lease) ==
    Outcome(op, <<"release_run", run, lease>>,
            IF Leased(run) /\ runLeases[run].lease = lease THEN "ok" ELSE "lease")

ReleaseRun(op, run, lease) ==
    /\ ReleaseOutcome(op, run, lease) = "ok"
    /\ runLeases' = [runLeases EXCEPT ![run] = NoLease]
    /\ Log(op, <<"release_run", run, lease>>)
    /\ UNCHANGED <<computers, bindings, commands>>

ExpireRun(run) ==
    /\ runLeases[run].live
    /\ runLeases' = [runLeases EXCEPT ![run] = [@ EXCEPT !.live = FALSE]]
    /\ UNCHANGED <<computers, bindings, commands, ledger>>

-----------------------------------------------------------------------------
(* The command queue.  A request is [run, agent, cap, terms].              *)

QueueRunVerdict(request) ==
    LET lease == runLeases[request.run]
    IN  IF ~lease.live \/ lease.agent # request.agent THEN "lease"
        ELSE IF bindings[request.agent].computer # lease.computer \/ ~Connected(lease.computer)
             THEN "offline"
        ELSE IF computers[lease.computer].cap # request.cap THEN "conflict"
        ELSE "ok"

QueueRunOutcome(op, request) ==
    Outcome(op, <<"queue_run", request>>, QueueRunVerdict(request))

QueueRun(op, request) ==
    /\ QueueRunOutcome(op, request) = "ok"
    /\ commands' = Append(commands,
          Command(op, "run_agent", runLeases[request.run].computer, request.agent,
                  request.run, request))
    /\ Log(op, <<"queue_run", request>>)
    /\ UNCHANGED <<computers, bindings, runLeases>>

(* Mutant: a run without a lease is cancelled too.                         *)
QueueCancelOutcomeAnyRun(op, run) == Outcome(op, <<"queue_cancel", run>>, "ok")

(* An expired lease is enough to find the device.                          *)
QueueCancelOutcome(op, run) ==
    Outcome(op, <<"queue_cancel", run>>, IF Leased(run) THEN "ok" ELSE "lease")

QueueCancel(op, run) ==
    /\ QueueCancelOutcome(op, run) = "ok"
    /\ commands' = Append(commands,
          Command(op, "cancel_run", runLeases[run].computer, runLeases[run].agent, run, NoRequest))
    /\ Log(op, <<"queue_cancel", run>>)
    /\ UNCHANGED <<computers, bindings, runLeases>>

(* Mutant: what an older connection was sent is not sent again.            *)
DeliverableOnce(c, lease) ==
    {i \in DOMAIN commands : commands[i].computer = c /\ commands[i].state = "queued"}

(* What PollCommand may hand to connection lease of c, and the oldest.     *)
Deliverable(c, lease) ==
    {i \in DOMAIN commands :
        /\ commands[i].computer = c
        /\ \/ commands[i].state = "queued"
           \/ commands[i].state = "sent" /\ commands[i].delivery # lease}

Oldest(c, lease, i) ==
    i \in Deliverable(c, lease) /\ \A j \in Deliverable(c, lease) : i <= j

(* Mutant: only the first delivery compares the capability.                *)
CapabilityChangedAtFirst(c, i) ==
    /\ commands[i].kind = "run_agent" /\ commands[i].state = "queued"
    /\ commands[i].request.cap # computers[c].cap

CapabilityChanged(c, i) ==
    commands[i].kind = "run_agent" /\ commands[i].request.cap # computers[c].cap

(* A run whose computer changed since it was queued fails undelivered.     *)
Handed(c, lease, i) ==
    IF CapabilityChanged(c, i)
    THEN [commands[i] EXCEPT !.state = "failed", !.delivery = None]
    ELSE [commands[i] EXCEPT !.state = "sent", !.delivery = lease]

PollCommand(c, lease) ==
    /\ Holds(c, lease)
    /\ \E i \in DOMAIN commands :
          Oldest(c, lease, i) /\ commands' = [commands EXCEPT ![i] = Handed(c, lease, i)]
    /\ UNCHANGED <<computers, bindings, runLeases, ledger>>

(* Mutant: a finished command is acknowledged again.                       *)
AckVerdictTwice(c, lease, i, success, result) ==
    IF ~(computers[c].conn = lease /\ computers[c].live) THEN "lease"
    ELSE IF commands[i].computer # c \/ commands[i].delivery # lease THEN "conflict"
    ELSE IF success /\ commands[i].kind = "run_agent" /\ result.run # commands[i].run THEN "refused"
    ELSE "ok"

(* An acknowledgement [success, result] from connection lease of c; the    *)
(* result of a finished run is [run, outcome] and must match its command.  *)
AckVerdict(c, lease, i, success, result) ==
    IF ~(computers[c].conn = lease /\ computers[c].live) THEN "lease"
    ELSE IF ~(/\ commands[i].computer = c
              /\ commands[i].state = "sent"
              /\ commands[i].delivery = lease) THEN "conflict"
    ELSE IF success /\ commands[i].kind = "run_agent" /\ result.run # commands[i].run THEN "refused"
    ELSE "ok"

Acknowledged(i, success, result) ==
    [commands[i] EXCEPT
        !.state = IF success THEN "acked" ELSE "failed",
        !.result = IF success /\ commands[i].kind = "run_agent" THEN result ELSE NoResult]

AckCommand(c, lease, i, success, result) ==
    /\ AckVerdict(c, lease, i, success, result) = "ok"
    /\ commands' = [commands EXCEPT ![i] = Acknowledged(i, success, result)]
    /\ UNCHANGED <<computers, bindings, runLeases, ledger>>

-----------------------------------------------------------------------------
(* The store and its callers: operators and the dispatcher use any         *)
(* operation id, the daemon's handler in server/computers.go connects,     *)
(* heartbeats, polls and acknowledges.  The daemon draws a random lease id *)
(* for each connection (newLeaseID in daemon.go): one that nothing holds.  *)

Requests == [run : Runs, agent : Agents, cap : Capabilities, terms : Terms]
Results == [run : Runs, outcome : Outcomes]

FreshLease(lease) ==
    /\ \A c \in Computers : computers[c].conn # lease
    /\ \A i \in DOMAIN commands : commands[i].state = "sent" => commands[i].delivery # lease

Init ==
    /\ computers = [c \in Computers |-> NoComputer]
    /\ bindings = [a \in Agents |-> NoBinding]
    /\ runLeases = [r \in Runs |-> NoLease]
    /\ commands = <<>>
    /\ ledger = {}

RegisterStep(c) == \E op \in Ops : Register(op, c)
ConnectStep(c) == \E lease \in ConnLeases, cap \in Capabilities :
                     FreshLease(lease) /\ Connect(c, lease, cap)
HeartbeatStep(c) == \E lease \in ConnLeases : Heartbeat(c, lease)
DisconnectStep(c) == \E lease \in ConnLeases : Disconnect(c, lease)
PollStep(c) == \E lease \in ConnLeases : PollCommand(c, lease)
AckStep(c) == \E lease \in ConnLeases, i \in DOMAIN commands, success \in BOOLEAN,
                 result \in Results : AckCommand(c, lease, i, success, result)
RebindStep(a) == \E op \in Ops, c \in Computers, exp \in 0..Cardinality(ledger) :
                    Rebind(op, a, c, exp)
AcquireStep(r) == \E op \in Ops, a \in Agents, c \in Computers, lease \in RunLeaseIds :
                     AcquireRun(op, r, a, c, lease)
ReleaseStep(r) == \E op \in Ops, lease \in RunLeaseIds : ReleaseRun(op, r, lease)
QueueRunStep == \E op \in Ops, request \in Requests : QueueRun(op, request)
QueueCancelStep(r) == \E op \in Ops : QueueCancel(op, r)

Next ==
    \/ \E c \in Computers :
          \/ RegisterStep(c) \/ ConnectStep(c) \/ HeartbeatStep(c) \/ DisconnectStep(c)
          \/ ExpireConnection(c) \/ PollStep(c) \/ AckStep(c)
    \/ \E a \in Agents : RebindStep(a)
    \/ \E r \in Runs :
          \/ AcquireStep(r) \/ ReleaseStep(r) \/ QueueCancelStep(r) \/ ExpireRun(r)
    \/ QueueRunStep

Spec == Init /\ [][Next]_vars

-----------------------------------------------------------------------------
(* Properties.                                                             *)

Devices == [status : {"absent", "offline", "online"}, conn : ConnLeases \cup {None},
            live : BOOLEAN, cap : Capabilities \cup {None}]
Bindings == [computer : Computers \cup {None}, rev : Nat]
RunLeases == [agent : Agents, computer : Computers, lease : RunLeaseIds, live : BOOLEAN]
             \cup {NoLease}
Commands == [op : Ops, kind : {"run_agent", "cancel_run", "cleanup_agent"},
             computer : Computers, agent : Agents, run : Runs \cup {None},
             request : Requests \cup {NoRequest},
             state : {"queued", "sent", "acked", "failed"},
             delivery : ConnLeases \cup {None}, result : Results \cup {NoResult}]

(* The state file holds values of the types of types.go.                   *)
TypeOK ==
    /\ computers \in [Computers -> Devices]
    /\ bindings \in [Agents -> Bindings]
    /\ runLeases \in [Runs -> RunLeases]
    /\ commands \in Seq(Commands)

(* An agent has one run lease at most, expired ones included, so two runs  *)
(* of it never both believe they may proceed.                              *)
OneRunPerAgent ==
    \A r, s \in Runs : Leased(r) /\ Leased(s) /\ runLeases[r].agent = runLeases[s].agent => r = s

(* A run lease names the computer its agent is bound to, whatever moves    *)
(* and expiries come between.  validateState refuses a file in which it    *)
(* does not, so otherwise every later operation of the store would fail.   *)
LeasesFollowBindings ==
    \A r \in Runs : Leased(r) => bindings[runLeases[r].agent].computer = runLeases[r].computer

(* What a run may rely on while it has a lease: it is the only one of its  *)
(* agent, and the agent works where the lease says.                        *)
RunLeasesHold == OneRunPerAgent /\ LeasesFollowBindings

(* In the hands of the connection that c now has.                          *)
InHand(i) ==
    /\ commands[i].state = "sent"
    /\ commands[i].delivery = computers[commands[i].computer].conn

(* A command is overtaken by none of its computer: once one has left the   *)
(* queue every older one has, and once the current connection has one it   *)
(* has every older one that is unfinished.  A reconnect therefore replays  *)
(* a cleanup before the runs queued behind it.                             *)
InOrder ==
    \A i, j \in DOMAIN commands :
        i < j /\ commands[i].computer = commands[j].computer =>
            /\ commands[j].state # "queued" => commands[i].state # "queued"
            /\ InHand(j) /\ commands[i].state = "sent" => InHand(i)

(* A run in the hands of the current connection was promised the           *)
(* capability snapshot that this connection published.                     *)
RunsOnPromisedCapability ==
    \A i \in DOMAIN commands :
        commands[i].kind = "run_agent" /\ InHand(i)
            => commands[i].request.cap = computers[commands[i].computer].cap

(* An agent moves only to a connected computer, never under a live run,    *)
(* and its old computer is told to clean up in the same step.              *)
MovesAreSafe ==
    [][\A a \in Agents :
          LET old == bindings[a].computer
              new == bindings'[a].computer
          IN  old # new =>
                /\ ~HasLiveRun(a)
                /\ Connected(new)
                /\ old # None => \E i \in DOMAIN commands' \ DOMAIN commands :
                       /\ commands'[i].kind = "cleanup_agent"
                       /\ commands'[i].computer = old
                       /\ commands'[i].agent = a]_vars

(* Finished commands keep their outcome: a late acknowledgement from an    *)
(* old connection, or a redelivery, never changes one.                     *)
OutcomesStay ==
    [][\A i \in DOMAIN commands : commands[i].state \in {"acked", "failed"}
          => i \in DOMAIN commands' /\ commands'[i] = commands[i]]_vars

(* A live connection keeps its lease until it disconnects or runs out.     *)
LiveConnectionIsFenced ==
    [][\A c \in Computers :
          Connected(c) /\ computers'[c].live => computers'[c].conn = computers[c].conn]_vars

(* A process that was replaced, or whose call was already answered,        *)
(* disturbs nothing: it neither takes a live connection over nor changes   *)
(* the outcome of a command.                                               *)
StaleCallsAreVoid == OutcomesStay /\ LiveConnectionIsFenced
=============================================================================
