--------------------------- MODULE ComputerProofs ---------------------------
(* Theorems about the computer registry, for any number of computers,      *)
(* agents, runs, leases and commands.                                      *)
EXTENDS Computer, SequenceTheorems, TLAPS

-----------------------------------------------------------------------------
(* The command queue as a sequence.                                        *)

(* Queueing puts a command behind the others, which stay as they are.      *)
LEMMA Queued ==
  ASSUME NEW S, NEW queue \in Seq(S), NEW e \in S
  PROVE  /\ Append(queue, e) \in Seq(S)
         /\ DOMAIN queue \subseteq DOMAIN Append(queue, e)
         /\ \A i \in DOMAIN queue : Append(queue, e)[i] = queue[i]
         /\ Len(queue) + 1 \in DOMAIN Append(queue, e)
         /\ Append(queue, e)[Len(queue) + 1] = e
         /\ \A i \in DOMAIN Append(queue, e) : i \in DOMAIN queue \/ i = Len(queue) + 1
         /\ \A i \in DOMAIN queue : i \in Nat /\ i < Len(queue) + 1
  BY AppendProperties, LenProperties

(* Replacing one command leaves the others.                                *)
LEMMA Replaced ==
  ASSUME NEW S, NEW queue \in Seq(S), NEW i \in DOMAIN queue, NEW e \in S
  PROVE  /\ [queue EXCEPT ![i] = e] \in Seq(S)
         /\ DOMAIN [queue EXCEPT ![i] = e] = DOMAIN queue
         /\ [queue EXCEPT ![i] = e][i] = e
         /\ \A j \in DOMAIN queue \ {i} : [queue EXCEPT ![i] = e][j] = queue[j]
  <1>1. i \in 1..Len(queue)
    BY LenProperties
  <1> QED BY <1>1, ExceptSeq, LenProperties

(* The elements of the queue are commands.                                 *)
LEMMA CommandTypes ==
  ASSUME TypeOK, NEW i \in DOMAIN commands
  PROVE  commands[i] \in Commands
  BY LenProperties, ElementOfSeq DEF TypeOK

-----------------------------------------------------------------------------
(* Type correctness.                                                       *)

(* The empty file is well typed.                                           *)
LEMMA InitType == Init => TypeOK
  BY EmptySeq DEF Init, TypeOK, NoComputer, NoBinding, NoLease, Devices, Bindings, RunLeases

(* What the poll and the acknowledgement make of a command is a command.   *)
LEMMA AnsweredTypes ==
  ASSUME TypeOK, NEW i \in DOMAIN commands
  PROVE  /\ \A c : \A lease \in ConnLeases : Handed(c, lease, i) \in Commands
         /\ \A success \in BOOLEAN, result \in Results : Acknowledged(i, success, result) \in Commands
  <1>1. PICK e \in Commands : e = commands[i]
    BY CommandTypes
  <1>2. ASSUME NEW state \in {"queued", "sent", "acked", "failed"}, NEW to \in ConnLeases \cup {None}
        PROVE  [e EXCEPT !.state = state, !.delivery = to] \in Commands
    BY DEF Commands
  <1>3. ASSUME NEW state \in {"queued", "sent", "acked", "failed"}, NEW r \in Results \cup {NoResult}
        PROVE  [e EXCEPT !.state = state, !.result = r] \in Commands
    BY DEF Commands
  <1>4. ASSUME NEW c, NEW lease \in ConnLeases PROVE Handed(c, lease, i) \in Commands
    <2>1. PICK state \in {"queued", "sent", "acked", "failed"}, to \in ConnLeases \cup {None} :
             Handed(c, lease, i) = [e EXCEPT !.state = state, !.delivery = to]
      <3>1. CASE CapabilityChanged(c, i)
        <4>1. Handed(c, lease, i) = [e EXCEPT !.state = "failed", !.delivery = None]
          BY <1>1, <3>1 DEF Handed
        <4> QED BY <4>1
      <3>2. CASE ~CapabilityChanged(c, i)
        <4>1. Handed(c, lease, i) = [e EXCEPT !.state = "sent", !.delivery = lease]
          BY <1>1, <3>2 DEF Handed
        <4> QED BY <4>1
      <3> QED BY <3>1, <3>2
    <2> QED BY <1>2, <2>1
  <1>5. ASSUME NEW success \in BOOLEAN, NEW result \in Results
        PROVE  Acknowledged(i, success, result) \in Commands
    <2>1. PICK state, r : /\ state = IF success THEN "acked" ELSE "failed"
                          /\ r = IF success /\ e.kind = "run_agent" THEN result ELSE NoResult
      OBVIOUS
    <2>2. state \in {"queued", "sent", "acked", "failed"} /\ r \in Results \cup {NoResult}
      BY <2>1
    <2>3. Acknowledged(i, success, result) = [e EXCEPT !.state = state, !.result = r]
      BY <1>1, <2>1 DEF Acknowledged
    <2> QED BY <1>3, <2>2, <2>3
  <1> QED BY <1>4, <1>5

(* Purging keeps the run leases well typed.                                *)
LEMMA PurgedType ==
  ASSUME TypeOK
  PROVE  /\ Purged \in [Runs -> RunLeases]
         /\ \A r \in Runs : Purged[r] = IF runLeases[r].live THEN runLeases[r] ELSE NoLease
  BY DEF TypeOK, Purged, NoLease, RunLeases

(* A new command is a command.                                             *)
LEMMA CommandType ==
  ASSUME NEW op \in Ops, NEW kind \in {"run_agent", "cancel_run", "cleanup_agent"},
         NEW c \in Computers, NEW a \in Agents, NEW run \in Runs \cup {None},
         NEW request \in Requests \cup {NoRequest}
  PROVE  Command(op, kind, c, a, run, request) \in Commands
  BY DEF Command, Commands

(* A computer that is replaced by a computer leaves the file well typed.   *)
LEMMA DeviceChanged ==
  ASSUME TypeOK, NEW c \in Computers, NEW d \in Devices,
         computers' = [computers EXCEPT ![c] = d], UNCHANGED <<bindings, runLeases, commands>>
  PROVE  TypeOK'
  BY DEF TypeOK

(* Every operation keeps the file well typed.                              *)
LEMMA StepType == TypeOK /\ [Next]_vars => TypeOK'
  <1> SUFFICES ASSUME TypeOK, [Next]_vars PROVE TypeOK'
    OBVIOUS
  <1>0. /\ computers \in [Computers -> Devices] /\ bindings \in [Agents -> Bindings]
        /\ runLeases \in [Runs -> RunLeases] /\ commands \in Seq(Commands)
    BY DEF TypeOK
  <1>1. CASE UNCHANGED vars
    BY <1>1 DEF vars, TypeOK
  <1>2. ASSUME NEW c \in Computers, RegisterStep(c) PROVE TypeOK'
    <2>1. [NoComputer EXCEPT !.status = "offline"] \in Devices
      BY DEF NoComputer, Devices
    <2>2. PICK op \in Ops : Register(op, c)
      BY <1>2 DEF RegisterStep
    <2> QED BY <1>0, <2>1, <2>2, DeviceChanged DEF Register, Log
  <1>3. ASSUME NEW c \in Computers, ConnectStep(c) PROVE TypeOK'
    <2>1. PICK lease \in ConnLeases, cap \in Capabilities : Connect(c, lease, cap)
      BY <1>3 DEF ConnectStep
    <2>2. [status |-> "online", conn |-> lease, live |-> TRUE, cap |-> cap] \in Devices
      BY DEF Devices
    <2> QED BY <1>0, <2>1, <2>2, DeviceChanged DEF Connect
  <1>4. ASSUME NEW c \in Computers, HeartbeatStep(c) PROVE TypeOK'
    <2>1. [computers[c] EXCEPT !.live = TRUE] \in Devices
      BY <1>0 DEF Devices
    <2> QED BY <1>4, <2>1, DeviceChanged DEF HeartbeatStep, Heartbeat
  <1>5. ASSUME NEW c \in Computers, DisconnectStep(c) PROVE TypeOK'
    <2>1. [computers[c] EXCEPT !.status = "offline", !.conn = None, !.live = FALSE] \in Devices
      BY <1>0 DEF Devices
    <2> QED BY <1>5, <2>1, DeviceChanged DEF DisconnectStep, Disconnect
  <1>6. ASSUME NEW c \in Computers, ExpireConnection(c) PROVE TypeOK'
    <2>1. [computers[c] EXCEPT !.live = FALSE] \in Devices
      BY <1>0 DEF Devices
    <2> QED BY <1>6, <2>1, DeviceChanged DEF ExpireConnection
  <1>7. ASSUME NEW c \in Computers, PollStep(c) PROVE TypeOK'
    <2>1. PICK lease \in ConnLeases : PollCommand(c, lease)
      BY <1>7 DEF PollStep
    <2>2. PICK i \in DOMAIN commands : commands' = [commands EXCEPT ![i] = Handed(c, lease, i)]
      BY <2>1 DEF PollCommand
    <2>3. Handed(c, lease, i) \in Commands
      BY AnsweredTypes
    <2>4. commands' \in Seq(Commands)
      BY <1>0, <2>2, <2>3, Replaced
    <2> QED BY <1>0, <2>1, <2>4 DEF PollCommand, TypeOK
  <1>8. ASSUME NEW c \in Computers, AckStep(c) PROVE TypeOK'
    <2>1. PICK lease \in ConnLeases, i \in DOMAIN commands, success \in BOOLEAN, result \in Results :
             AckCommand(c, lease, i, success, result)
      BY <1>8 DEF AckStep
    <2>2. Acknowledged(i, success, result) \in Commands
      BY AnsweredTypes
    <2>3. commands' \in Seq(Commands)
      BY <1>0, <2>1, <2>2, Replaced DEF AckCommand
    <2> QED BY <1>0, <2>1, <2>3 DEF AckCommand, TypeOK
  <1>9. ASSUME NEW a \in Agents, RebindStep(a) PROVE TypeOK'
    <2>1. PICK op \in Ops, c \in Computers, exp \in 0..Cardinality(ledger) : Rebind(op, a, c, exp)
      BY <1>9 DEF RebindStep
    <2>2. bindings' \in [Agents -> Bindings]
      BY <1>0, <2>1 DEF Rebind, Bindings
    <2>3. runLeases' \in [Runs -> RunLeases]
      BY <2>1, PurgedType DEF Rebind
    <2> DEFINE old == bindings[a].computer
               cleanup == Command(op, "cleanup_agent", old, a, None, NoRequest)
    <2>4. old \notin {None, c} => cleanup \in Commands
      BY <1>0, CommandType DEF Bindings
    <2>5. commands' = IF old \in {None, c} THEN commands ELSE Append(commands, cleanup)
      BY <2>1 DEF Rebind
    <2> HIDE DEF cleanup
    <2>6. commands' \in Seq(Commands)
      BY <1>0, <2>4, <2>5, Queued
    <2> QED BY <1>0, <2>1, <2>2, <2>3, <2>6 DEF Rebind, TypeOK
  <1>10. ASSUME NEW r \in Runs, AcquireStep(r) PROVE TypeOK'
    <2>1. PICK op \in Ops, a \in Agents, c \in Computers, lease \in RunLeaseIds :
             AcquireRun(op, r, a, c, lease)
      BY <1>10 DEF AcquireStep
    <2>2. [agent |-> a, computer |-> c, lease |-> lease, live |-> TRUE] \in RunLeases
      BY DEF RunLeases
    <2> QED BY <1>0, <2>1, <2>2, PurgedType DEF AcquireRun, TypeOK
  <1>11. ASSUME NEW r \in Runs, ReleaseStep(r) PROVE TypeOK'
    BY <1>0, <1>11 DEF ReleaseStep, ReleaseRun, NoLease, RunLeases, TypeOK
  <1>12. ASSUME NEW r \in Runs, QueueCancelStep(r) PROVE TypeOK'
    <2>1. PICK op \in Ops : QueueCancel(op, r)
      BY <1>12 DEF QueueCancelStep
    <2> DEFINE cancel == Command(op, "cancel_run", runLeases[r].computer, runLeases[r].agent, r, NoRequest)
    <2>2. Leased(r) /\ commands' = Append(commands, cancel)
      BY <2>1 DEF QueueCancel, QueueCancelOutcome, Outcome
    <2>3. runLeases[r].computer \in Computers /\ runLeases[r].agent \in Agents
      BY <1>0, <2>2 DEF Leased, RunLeases
    <2>4. cancel \in Commands
      BY <2>3, CommandType
    <2>5. commands' \in Seq(Commands)
      <3> HIDE DEF cancel
      <3> QED BY <1>0, <2>2, <2>4, Queued
    <2> QED BY <1>0, <2>1, <2>5 DEF QueueCancel, TypeOK
  <1>13. ASSUME NEW r \in Runs, ExpireRun(r) PROVE TypeOK'
    <2>1. runLeases[r] # NoLease
      BY <1>13 DEF ExpireRun, NoLease
    <2>2. [runLeases[r] EXCEPT !.live = FALSE] \in RunLeases
      BY <1>0, <2>1 DEF RunLeases
    <2> QED BY <1>0, <1>13, <2>2 DEF ExpireRun, TypeOK
  <1>14. ASSUME QueueRunStep PROVE TypeOK'
    <2>1. PICK op \in Ops, request \in Requests : QueueRun(op, request)
      BY <1>14 DEF QueueRunStep
    <2> DEFINE run == Command(op, "run_agent", runLeases[request.run].computer, request.agent,
                              request.run, request)
    <2>2. runLeases[request.run].live /\ commands' = Append(commands, run)
      BY <2>1 DEF QueueRun, QueueRunOutcome, QueueRunVerdict, Outcome
    <2>3. request.run \in Runs /\ request.agent \in Agents
      BY DEF Requests
    <2>4. runLeases[request.run].computer \in Computers
      BY <1>0, <2>2, <2>3 DEF RunLeases, NoLease
    <2>5. run \in Commands
      BY <2>3, <2>4, CommandType
    <2>6. commands' \in Seq(Commands)
      <3> HIDE DEF run
      <3> QED BY <1>0, <2>2, <2>5, Queued
    <2> QED BY <1>0, <2>1, <2>6 DEF QueueRun, TypeOK
  <1> QED BY <1>1, <1>2, <1>3, <1>4, <1>5, <1>6, <1>7, <1>8, <1>9, <1>10, <1>11, <1>12, <1>13, <1>14 DEF Next
(* The registry only ever holds records of its declared types.             *)
THEOREM TypeCorrect == Spec => []TypeOK
  BY InitType, StepType, PTL DEF Spec

-----------------------------------------------------------------------------
(* Run leases.  OneRunPerAgent and LeasesFollowBindings need each other:   *)
(* a rebind keeps the leases with the binding because the moved agent has  *)
(* no lease left, and none is left because the purge drops the expired one *)
(* and the check refuses the live one.                                     *)


(* Every operation keeps the leases consistent.                            *)
LEMMA StepLeases == TypeOK /\ RunLeasesHold /\ [Next]_vars => RunLeasesHold'
  <1> SUFFICES ASSUME TypeOK, RunLeasesHold, [Next]_vars PROVE RunLeasesHold'
    OBVIOUS
  <1>0. bindings \in [Agents -> Bindings] /\ runLeases \in [Runs -> RunLeases]
    BY DEF TypeOK
  <1>1. CASE UNCHANGED <<bindings, runLeases>>
    BY <1>1 DEF RunLeasesHold, OneRunPerAgent, LeasesFollowBindings, Leased
  <1>2. ASSUME NEW a \in Agents, RebindStep(a) PROVE RunLeasesHold'
    <2>1. PICK op \in Ops, c \in Computers, exp \in 0..Cardinality(ledger) : Rebind(op, a, c, exp)
      BY <1>2 DEF RebindStep
    <2>2. ~HasLiveRun(a) /\ runLeases' = Purged
      BY <2>1 DEF Rebind, Outcome, RebindVerdict
    <2>3. \A r \in Runs : runLeases'[r] # NoLease =>
             runLeases'[r] = runLeases[r] /\ runLeases[r].agent # a
      BY <2>2, PurgedType DEF HasLiveRun
    <2>4. \A b \in Agents \ {a} : bindings'[b] = bindings[b]
      BY <1>0, <2>1 DEF Rebind
    <2> QED BY <1>0, <2>3, <2>4 DEF RunLeasesHold, OneRunPerAgent, LeasesFollowBindings, Leased, RunLeases
  <1>3. ASSUME NEW r \in Runs, AcquireStep(r) PROVE RunLeasesHold'
    <2>1. PICK op \in Ops, a \in Agents, c \in Computers, lease \in RunLeaseIds :
             AcquireRun(op, r, a, c, lease)
      BY <1>3 DEF AcquireStep
    <2> DEFINE new == [agent |-> a, computer |-> c, lease |-> lease, live |-> TRUE]
    <2>2. /\ bindings[a].computer = c /\ ~HasLiveRun(a) /\ bindings' = bindings
          /\ runLeases' = [Purged EXCEPT ![r] = new]
      BY <2>1 DEF AcquireRun, AcquireOutcome, Outcome, AcquireVerdict
    <2>3. runLeases'[r] = new
      BY <2>2, PurgedType
    <2>4. \A s \in Runs \ {r} : runLeases'[s] # NoLease =>
             runLeases'[s] = runLeases[s] /\ runLeases[s].agent # a
      BY <2>2, PurgedType DEF HasLiveRun
    <2> QED BY <2>2, <2>3, <2>4 DEF RunLeasesHold, OneRunPerAgent, LeasesFollowBindings, Leased
  <1>4. ASSUME NEW r \in Runs, ReleaseStep(r) PROVE RunLeasesHold'
    <2>1. runLeases' = [runLeases EXCEPT ![r] = NoLease] /\ bindings' = bindings
      BY <1>4 DEF ReleaseStep, ReleaseRun
    <2> QED BY <1>0, <2>1 DEF RunLeasesHold, OneRunPerAgent, LeasesFollowBindings, Leased
  <1>5. ASSUME NEW r \in Runs, ExpireRun(r) PROVE RunLeasesHold'
    <2>1. /\ runLeases' = [runLeases EXCEPT ![r] = [@ EXCEPT !.live = FALSE]]
          /\ bindings' = bindings /\ runLeases[r].live
      BY <1>5 DEF ExpireRun
    <2>2. Leased(r)
      BY <2>1 DEF Leased, NoLease
    <2>3. \A s \in Runs : /\ runLeases'[s].agent = runLeases[s].agent
                          /\ runLeases'[s].computer = runLeases[s].computer
                          /\ runLeases'[s] # NoLease => Leased(s)
      BY <1>0, <2>1, <2>2 DEF Leased, RunLeases, NoLease
    <2> QED BY <2>1, <2>3 DEF RunLeasesHold, OneRunPerAgent, LeasesFollowBindings, Leased
  <1>6. CASE UNCHANGED vars
    BY <1>1, <1>6 DEF vars
  <1>7. ASSUME NEW c \in Computers,
               \/ RegisterStep(c) \/ ConnectStep(c) \/ HeartbeatStep(c) \/ DisconnectStep(c)
               \/ ExpireConnection(c) \/ PollStep(c) \/ AckStep(c)
        PROVE  RunLeasesHold'
    BY <1>1, <1>7 DEF RegisterStep, Register, ConnectStep, Connect, HeartbeatStep, Heartbeat,
       DisconnectStep, Disconnect, ExpireConnection, PollStep, PollCommand, AckStep, AckCommand
  <1>8. ASSUME NEW r \in Runs, QueueCancelStep(r) PROVE RunLeasesHold'
    BY <1>1, <1>8 DEF QueueCancelStep, QueueCancel
  <1>9. ASSUME QueueRunStep PROVE RunLeasesHold'
    BY <1>1, <1>9 DEF QueueRunStep, QueueRun
  <1> QED BY <1>2, <1>3, <1>4, <1>5, <1>6, <1>7, <1>8, <1>9 DEF Next

(* The leases of the registry stay consistent.                             *)
THEOREM LeasesConsistent == Spec => [](TypeOK /\ RunLeasesHold)
  <1>1. Init => TypeOK /\ RunLeasesHold
    BY InitType DEF Init, RunLeasesHold, OneRunPerAgent, LeasesFollowBindings, Leased
  <1>2. TypeOK /\ RunLeasesHold /\ [Next]_vars => (TypeOK /\ RunLeasesHold)'
    BY StepType, StepLeases
  <1> QED BY <1>1, <1>2, PTL DEF Spec

(* An agent never holds two run leases (the scan in AcquireRun), and it    *)
(* works where the lease says: the file never fails validateState over a   *)
(* lease and its binding, so rebinding and expiry cannot lock the store.   *)
THEOREM RunLeasesHeld == Spec => []RunLeasesHold
  <1>1. TypeOK /\ RunLeasesHold => RunLeasesHold
    OBVIOUS
  <1> QED BY <1>1, LeasesConsistent, PTL
-----------------------------------------------------------------------------
(* The command queue.  InOrder is inductive once a sent command is known   *)
(* to carry a lease: then a disconnected computer has nothing in hand, and *)
(* a new connection starts with nothing in hand either.                    *)

SentCarriesLease ==
    \A i \in DOMAIN commands : commands[i].state = "sent" => commands[i].delivery \in ConnLeases

QueueInv ==
    SentCarriesLease /\ InOrder /\ RunsOnPromisedCapability

(* A change of one device keeps the queue consistent when its connection   *)
(* and capability stay, or when nothing sent belongs to the new connection.*)
LEMMA DeviceKeepsQueue ==
  ASSUME TypeOK, QueueInv, NEW c \in Computers, NEW device,
         computers' = [computers EXCEPT ![c] = device], commands' = commands,
         \/ device.conn = computers[c].conn /\ device.cap = computers[c].cap
         \/ \A i \in DOMAIN commands :
               commands[i].state = "sent" => commands[i].delivery # device.conn
  PROVE  QueueInv'
  <1>1. /\ computers'[c] = device
        /\ \A d \in Computers \ {c} : computers'[d] = computers[d]
    BY DEF TypeOK
  <1>2. \A i \in DOMAIN commands : commands[i].computer \in Computers
    BY CommandTypes DEF Commands
  <1>3. CASE device.conn = computers[c].conn /\ device.cap = computers[c].cap
    <2>1. \A d \in Computers : computers'[d].conn = computers[d].conn
                               /\ computers'[d].cap = computers[d].cap
      BY <1>1, <1>3
    <2>2. \A i \in DOMAIN commands : InHand(i)' <=> InHand(i)
      BY <1>2, <2>1 DEF InHand
    <2> QED BY <1>2, <2>1, <2>2 DEF QueueInv, SentCarriesLease, InOrder,
               RunsOnPromisedCapability
  <1>4. CASE \A i \in DOMAIN commands :
                commands[i].state = "sent" => commands[i].delivery # device.conn
    <2>1. \A i \in DOMAIN commands : commands[i].computer = c => ~InHand(i)'
      BY <1>1, <1>4 DEF InHand
    <2>2. \A i \in DOMAIN commands : commands[i].computer # c => (InHand(i)' <=> InHand(i))
      BY <1>1, <1>2 DEF InHand
    <2> QED BY <1>1, <1>2, <2>1, <2>2 DEF QueueInv, SentCarriesLease, InOrder,
               RunsOnPromisedCapability
  <1> QED BY <1>3, <1>4

(* So does queueing a new command.                                         *)
LEMMA QueueingKeepsQueue ==
  ASSUME TypeOK, QueueInv, NEW e \in Commands, e.state = "queued",
         commands' = Append(commands, e), computers' = computers
  PROVE  QueueInv'
  <1>1. commands \in Seq(Commands)
    BY DEF TypeOK
  <1>0. PICK n \in Nat : n = Len(commands) + 1
    BY <1>1, LenProperties
  <1>2. /\ DOMAIN commands \subseteq DOMAIN commands'
        /\ \A i \in DOMAIN commands : commands'[i] = commands[i] /\ i \in Nat /\ i < n
        /\ \A i \in DOMAIN commands' : i \in DOMAIN commands \/ i = n
        /\ commands'[n] = e
    BY <1>0, <1>1, Queued
  <1>3. \A i \in DOMAIN commands : InHand(i)' <=> InHand(i)
    BY <1>2 DEF InHand
  <1>4. ~InHand(n)'
    BY <1>2 DEF InHand
  <1>5. SentCarriesLease'
    BY <1>2 DEF QueueInv, SentCarriesLease
  <1>6. InOrder'
    <2> SUFFICES ASSUME NEW i \in DOMAIN commands', NEW j \in DOMAIN commands', i < j,
                        commands'[i].computer = commands'[j].computer
                 PROVE  /\ commands'[j].state # "queued" => commands'[i].state # "queued"
                        /\ InHand(j)' /\ commands'[i].state = "sent" => InHand(i)'
      BY DEF InOrder
    <2>1. CASE j = n
      BY <1>2, <1>4, <2>1
    <2>2. CASE j # n
      BY <1>2, <1>3, <2>2 DEF QueueInv, InOrder
    <2> QED BY <2>1, <2>2
  <1>7. RunsOnPromisedCapability'
    BY <1>2, <1>3, <1>4 DEF QueueInv, RunsOnPromisedCapability
  <1> QED BY <1>5, <1>6, <1>7 DEF QueueInv

(* Polling hands out the oldest command that the connection does not have. *)
LEMMA PollKeepsQueue ==
  ASSUME TypeOK, QueueInv, NEW c \in Computers, NEW lease \in ConnLeases,
         PollCommand(c, lease)
  PROVE  QueueInv'
  <1>1. PICK k \in DOMAIN commands :
           Oldest(c, lease, k) /\ commands' = [commands EXCEPT ![k] = Handed(c, lease, k)]
    BY DEF PollCommand
  <1>2. /\ commands \in Seq(Commands) /\ computers' = computers
        /\ computers[c].conn = lease
    BY DEF TypeOK, PollCommand, Holds
  <1>3. Handed(c, lease, k) \in Commands /\ commands[k] \in Commands
    BY AnsweredTypes, CommandTypes
  <1>4. /\ DOMAIN commands' = DOMAIN commands
        /\ commands'[k] = Handed(c, lease, k)
        /\ \A i \in DOMAIN commands \ {k} : commands'[i] = commands[i]
    BY <1>1, <1>2, <1>3, Replaced
  <1>5. /\ commands'[k].computer = c /\ commands[k].computer = c
        /\ commands'[k].kind = commands[k].kind
        /\ commands'[k].request = commands[k].request
        /\ commands'[k].state \in {"sent", "failed"}
        /\ commands'[k].state = "sent" =>
              commands'[k].delivery = lease /\ ~CapabilityChanged(c, k)
    BY <1>1, <1>3, <1>4 DEF Handed, Oldest, Deliverable, Commands
  <1>6. \A i \in DOMAIN commands \ {k} : InHand(i)' <=> InHand(i)
    BY <1>2, <1>4 DEF InHand
  <1>7. commands'[k].state = "sent" => InHand(k)'
    BY <1>2, <1>5 DEF InHand
  <1>8. \A i \in DOMAIN commands : i \in Nat
    BY <1>2, LenProperties
  <1>9. \A i \in DOMAIN commands : i < k /\ commands[i].computer = c =>
           commands[i].state # "queued" /\ (commands[i].state = "sent" => InHand(i))
    BY <1>1, <1>2, <1>8 DEF Oldest, Deliverable, InHand
  <1>10. commands[k].state = "queued" \/ (commands[k].state = "sent" /\ ~InHand(k))
    BY <1>1, <1>2 DEF Oldest, Deliverable, InHand
  <1>11. SentCarriesLease'
    BY <1>4, <1>5 DEF QueueInv, SentCarriesLease
  <1>12. InOrder'
    <2> SUFFICES ASSUME NEW i \in DOMAIN commands', NEW j \in DOMAIN commands', i < j,
                        commands'[i].computer = commands'[j].computer
                 PROVE  /\ commands'[j].state # "queued" => commands'[i].state # "queued"
                        /\ InHand(j)' /\ commands'[i].state = "sent" => InHand(i)'
      BY DEF InOrder
    <2>1. CASE j = k
      BY <1>4, <1>5, <1>6, <1>8, <1>9, <2>1
    <2>2. CASE i = k
      BY <1>4, <1>5, <1>7, <1>8, <2>2
    <2>3. CASE i # k /\ j # k
      BY <1>4, <1>6, <2>3 DEF QueueInv, InOrder
    <2> QED BY <2>1, <2>2, <2>3
  <1>13. RunsOnPromisedCapability'
    BY <1>2, <1>4, <1>5, <1>6 DEF QueueInv, RunsOnPromisedCapability, CapabilityChanged, InHand
  <1> QED BY <1>11, <1>12, <1>13 DEF QueueInv

(* An acknowledgement finishes one command that was in hand.               *)
LEMMA AckKeepsQueue ==
  ASSUME TypeOK, QueueInv, NEW c \in Computers, NEW lease \in ConnLeases,
         NEW k \in DOMAIN commands, NEW success \in BOOLEAN, NEW result \in Results,
         AckCommand(c, lease, k, success, result)
  PROVE  QueueInv'
  <1>1. /\ commands \in Seq(Commands) /\ computers' = computers
        /\ commands' = [commands EXCEPT ![k] = Acknowledged(k, success, result)]
    BY DEF TypeOK, AckCommand
  <1>2. Acknowledged(k, success, result) \in Commands /\ commands[k] \in Commands
    BY CommandTypes, AnsweredTypes
  <1>3. /\ DOMAIN commands' = DOMAIN commands
        /\ commands'[k] = Acknowledged(k, success, result)
        /\ \A i \in DOMAIN commands \ {k} : commands'[i] = commands[i]
    BY <1>1, <1>2, Replaced
  <1>4. commands[k].state = "sent"
        /\ (success /\ commands[k].kind = "run_agent" => result.run = commands[k].run)
    BY DEF AckCommand, AckVerdict
  <1>5. /\ commands'[k].computer = commands[k].computer
        /\ commands'[k].kind = commands[k].kind
        /\ commands'[k].run = commands[k].run
        /\ commands'[k].state \in {"acked", "failed"}
        /\ commands'[k].state = "acked" /\ commands[k].kind = "run_agent" =>
              commands'[k].result = result /\ success
    BY <1>2, <1>3 DEF Acknowledged, Commands
  <1>6. \A i \in DOMAIN commands \ {k} : InHand(i)' <=> InHand(i)
    BY <1>1, <1>3 DEF InHand
  <1>7. ~InHand(k)'
    BY <1>5 DEF InHand
  <1>8. InOrder'
    <2> SUFFICES ASSUME NEW i \in DOMAIN commands', NEW j \in DOMAIN commands', i < j,
                        commands'[i].computer = commands'[j].computer
                 PROVE  /\ commands'[j].state # "queued" => commands'[i].state # "queued"
                        /\ InHand(j)' /\ commands'[i].state = "sent" => InHand(i)'
      BY DEF InOrder
    <2>1. CASE j = k
      BY <1>3, <1>4, <1>5, <1>7, <2>1 DEF QueueInv, InOrder
    <2>2. CASE i = k
      BY <1>5, <2>2
    <2>3. CASE i # k /\ j # k
      BY <1>3, <1>6, <2>3 DEF QueueInv, InOrder
    <2> QED BY <2>1, <2>2, <2>3
  <1>9. SentCarriesLease' /\ RunsOnPromisedCapability'
    BY <1>1, <1>3, <1>5, <1>6, <1>7 DEF QueueInv, SentCarriesLease, RunsOnPromisedCapability
  <1> QED BY <1>8, <1>9 DEF QueueInv

(* Every operation keeps the queue consistent.                             *)
LEMMA StepQueue == TypeOK /\ QueueInv /\ [Next]_vars => QueueInv'
  <1> SUFFICES ASSUME TypeOK, QueueInv, [Next]_vars PROVE QueueInv'
    OBVIOUS
  <1>0. /\ computers \in [Computers -> Devices] /\ bindings \in [Agents -> Bindings]
        /\ runLeases \in [Runs -> RunLeases] /\ commands \in Seq(Commands)
    BY DEF TypeOK
  <1>1. CASE UNCHANGED <<computers, commands>>
    BY <1>1 DEF QueueInv, SentCarriesLease, InOrder, InHand, RunsOnPromisedCapability
  <1>2. CASE UNCHANGED vars
    BY <1>1, <1>2 DEF vars
  <1>3. ASSUME NEW c \in Computers, RegisterStep(c) PROVE QueueInv'
    <2> DEFINE device == [NoComputer EXCEPT !.status = "offline"]
    <2>1. computers' = [computers EXCEPT ![c] = device] /\ commands' = commands
      BY <1>3 DEF RegisterStep, Register
    <2>2. device.conn = None
      BY DEF NoComputer
    <2>3. \A i \in DOMAIN commands : commands[i].state = "sent" => commands[i].delivery # device.conn
      BY <2>2, NoneAssumption DEF QueueInv, SentCarriesLease
    <2> HIDE DEF device
    <2> QED BY <2>1, <2>3, DeviceKeepsQueue
  <1>4. ASSUME NEW c \in Computers, ConnectStep(c) PROVE QueueInv'
    <2>1. PICK lease \in ConnLeases, cap \in Capabilities : FreshLease(lease) /\ Connect(c, lease, cap)
      BY <1>4 DEF ConnectStep
    <2> DEFINE device == [status |-> "online", conn |-> lease, live |-> TRUE, cap |-> cap]
    <2>2. computers' = [computers EXCEPT ![c] = device] /\ commands' = commands
      BY <2>1 DEF Connect
    <2>3. \A i \in DOMAIN commands : commands[i].state = "sent" => commands[i].delivery # device.conn
      BY <2>1 DEF FreshLease
    <2> HIDE DEF device
    <2> QED BY <2>2, <2>3, DeviceKeepsQueue
  <1>5. ASSUME NEW c \in Computers, HeartbeatStep(c) \/ ExpireConnection(c) PROVE QueueInv'
    <2>1. PICK live \in BOOLEAN :
             computers' = [computers EXCEPT ![c] = [computers[c] EXCEPT !.live = live]]
             /\ commands' = commands
      BY <1>5 DEF HeartbeatStep, Heartbeat, ExpireConnection
    <2>2. /\ [computers[c] EXCEPT !.live = live].conn = computers[c].conn
          /\ [computers[c] EXCEPT !.live = live].cap = computers[c].cap
      BY <1>0 DEF Devices
    <2> QED BY <2>1, <2>2, DeviceKeepsQueue
  <1>6. ASSUME NEW c \in Computers, DisconnectStep(c) PROVE QueueInv'
    <2> DEFINE device == [computers[c] EXCEPT !.status = "offline", !.conn = None, !.live = FALSE]
    <2>1. computers' = [computers EXCEPT ![c] = device] /\ commands' = commands
      BY <1>6 DEF DisconnectStep, Disconnect
    <2>2. device.conn = None
      BY <1>0 DEF Devices
    <2>3. \A i \in DOMAIN commands : commands[i].state = "sent" => commands[i].delivery # device.conn
      BY <2>2, NoneAssumption DEF QueueInv, SentCarriesLease
    <2> HIDE DEF device
    <2> QED BY <2>1, <2>3, DeviceKeepsQueue
  <1>7. ASSUME NEW c \in Computers, PollStep(c) PROVE QueueInv'
    BY <1>7, PollKeepsQueue DEF PollStep
  <1>8. ASSUME NEW c \in Computers, AckStep(c) PROVE QueueInv'
    BY <1>8, AckKeepsQueue DEF AckStep
  <1>9. ASSUME NEW a \in Agents, RebindStep(a) PROVE QueueInv'
    <2>1. PICK op \in Ops, c \in Computers, exp \in 0..Cardinality(ledger) : Rebind(op, a, c, exp)
      BY <1>9 DEF RebindStep
    <2> DEFINE old == bindings[a].computer
               cleanup == Command(op, "cleanup_agent", old, a, None, NoRequest)
    <2>2. computers' = computers
          /\ commands' = IF old \in {None, c} THEN commands ELSE Append(commands, cleanup)
      BY <2>1 DEF Rebind
    <2>3. CASE old \in {None, c}
      BY <1>1, <2>2, <2>3
    <2>4. CASE old \notin {None, c}
      <3>1. cleanup \in Commands /\ cleanup.state = "queued"
        BY <1>0, <2>4, CommandType DEF Bindings, Command
      <3> HIDE DEF cleanup
      <3> QED BY <2>2, <2>4, <3>1, QueueingKeepsQueue
    <2> QED BY <2>3, <2>4
  <1>10. ASSUME NEW r \in Runs, QueueCancelStep(r) PROVE QueueInv'
    <2>1. PICK op \in Ops : QueueCancel(op, r)
      BY <1>10 DEF QueueCancelStep
    <2> DEFINE cancel == Command(op, "cancel_run", runLeases[r].computer, runLeases[r].agent, r, NoRequest)
    <2>2. Leased(r) /\ commands' = Append(commands, cancel) /\ computers' = computers
      BY <2>1 DEF QueueCancel, QueueCancelOutcome, Outcome
    <2>3. runLeases[r].computer \in Computers /\ runLeases[r].agent \in Agents
      BY <1>0, <2>2 DEF Leased, RunLeases
    <2>4. cancel \in Commands /\ cancel.state = "queued"
      BY <2>3, CommandType DEF Command
    <2> HIDE DEF cancel
    <2> QED BY <2>2, <2>4, QueueingKeepsQueue
  <1>11. ASSUME QueueRunStep PROVE QueueInv'
    <2>1. PICK op \in Ops, request \in Requests : QueueRun(op, request)
      BY <1>11 DEF QueueRunStep
    <2> DEFINE run == Command(op, "run_agent", runLeases[request.run].computer, request.agent,
                              request.run, request)
    <2>2. runLeases[request.run].live /\ commands' = Append(commands, run) /\ computers' = computers
      BY <2>1 DEF QueueRun, QueueRunOutcome, QueueRunVerdict, Outcome
    <2>3. request.run \in Runs /\ request.agent \in Agents
      BY DEF Requests
    <2>4. runLeases[request.run].computer \in Computers
      BY <1>0, <2>2, <2>3 DEF RunLeases, NoLease
    <2>5. run \in Commands /\ run.state = "queued"
      BY <2>3, <2>4, CommandType DEF Command
    <2> HIDE DEF run
    <2> QED BY <2>2, <2>5, QueueingKeepsQueue
  <1>12. ASSUME NEW r \in Runs, AcquireStep(r) \/ ReleaseStep(r) \/ ExpireRun(r) PROVE QueueInv'
    BY <1>1, <1>12 DEF AcquireStep, AcquireRun, ReleaseStep, ReleaseRun, ExpireRun
  <1> QED BY <1>2, <1>3, <1>4, <1>5, <1>6, <1>7, <1>8, <1>9, <1>10, <1>11, <1>12 DEF Next

(* Types and the queue invariant hold together.                            *)
THEOREM QueueConsistent == Spec => [](TypeOK /\ QueueInv)
  <1>1. Init => TypeOK /\ QueueInv
    BY InitType DEF Init, QueueInv, SentCarriesLease, InOrder, RunsOnPromisedCapability
  <1>2. TypeOK /\ QueueInv /\ [Next]_vars => (TypeOK /\ QueueInv)'
    BY StepType, StepQueue
  <1> QED BY <1>1, <1>2, PTL DEF Spec

(* No command of a computer is overtaken (PollCommand's choice of the      *)
(* oldest, across disconnections and redeliveries).                        *)
THEOREM CommandsInOrder == Spec => []InOrder
  <1>1. QueueInv => InOrder
    BY DEF QueueInv
  <1> QED BY <1>1, QueueConsistent, PTL

(* A daemon executes only on the capability snapshot a run was dispatched  *)
(* against (the check in PollCommand).                                     *)
THEOREM RunsKeepTheirCapability == Spec => []RunsOnPromisedCapability
  <1>1. QueueInv => RunsOnPromisedCapability
    BY DEF QueueInv
  <1> QED BY <1>1, QueueConsistent, PTL
-----------------------------------------------------------------------------
(* What a step may never do.                                               *)

(* The queue grows at its end, or one unfinished command changes.          *)
LEMMA QueueSteps ==
  ASSUME TypeOK, [Next]_vars
  PROVE  \/ commands' = commands
         \/ \E e \in Commands : commands' = Append(commands, e)
         \/ \E k \in DOMAIN commands, e \in Commands :
               /\ commands[k].state \in {"queued", "sent"}
               /\ commands' = [commands EXCEPT ![k] = e]
  <1> DEFINE Goal == \/ commands' = commands
                     \/ \E e \in Commands : commands' = Append(commands, e)
                     \/ \E k \in DOMAIN commands, e \in Commands :
                           /\ commands[k].state \in {"queued", "sent"}
                           /\ commands' = [commands EXCEPT ![k] = e]
  <1>0. /\ bindings \in [Agents -> Bindings] /\ runLeases \in [Runs -> RunLeases]
    BY DEF TypeOK
  <1>1. ASSUME NEW c \in Computers, PollStep(c) PROVE Goal
    <2>1. PICK lease \in ConnLeases : PollCommand(c, lease)
      BY <1>1 DEF PollStep
    <2>2. PICK k \in DOMAIN commands :
             Oldest(c, lease, k) /\ commands' = [commands EXCEPT ![k] = Handed(c, lease, k)]
      BY <2>1 DEF PollCommand
    <2>3. Handed(c, lease, k) \in Commands
      BY AnsweredTypes
    <2> QED BY <2>2, <2>3 DEF Oldest, Deliverable
  <1>2. ASSUME NEW c \in Computers, AckStep(c) PROVE Goal
    <2>1. PICK lease \in ConnLeases, k \in DOMAIN commands, success \in BOOLEAN, result \in Results :
             AckCommand(c, lease, k, success, result)
      BY <1>2 DEF AckStep
    <2>2. Acknowledged(k, success, result) \in Commands
      BY AnsweredTypes
    <2> QED BY <2>1, <2>2 DEF AckCommand, AckVerdict
  <1>3. ASSUME NEW a \in Agents, RebindStep(a) PROVE Goal
    <2>1. PICK op \in Ops, c \in Computers, exp \in 0..Cardinality(ledger) : Rebind(op, a, c, exp)
      BY <1>3 DEF RebindStep
    <2> DEFINE old == bindings[a].computer
               cleanup == Command(op, "cleanup_agent", old, a, None, NoRequest)
    <2>2. commands' = IF old \in {None, c} THEN commands ELSE Append(commands, cleanup)
      BY <2>1 DEF Rebind
    <2>3. old \notin {None, c} => cleanup \in Commands
      BY <1>0, CommandType DEF Bindings
    <2> HIDE DEF cleanup
    <2> QED BY <2>2, <2>3
  <1>4. ASSUME NEW r \in Runs, QueueCancelStep(r) PROVE Goal
    <2>1. PICK op \in Ops : QueueCancel(op, r)
      BY <1>4 DEF QueueCancelStep
    <2> DEFINE cancel == Command(op, "cancel_run", runLeases[r].computer, runLeases[r].agent, r, NoRequest)
    <2>2. Leased(r) /\ commands' = Append(commands, cancel)
      BY <2>1 DEF QueueCancel, QueueCancelOutcome, Outcome
    <2>3. cancel \in Commands
      BY <1>0, <2>2, CommandType DEF Leased, RunLeases
    <2> HIDE DEF cancel
    <2> QED BY <2>2, <2>3
  <1>5. ASSUME QueueRunStep PROVE Goal
    <2>1. PICK op \in Ops, request \in Requests : QueueRun(op, request)
      BY <1>5 DEF QueueRunStep
    <2> DEFINE run == Command(op, "run_agent", runLeases[request.run].computer, request.agent,
                              request.run, request)
    <2>2. runLeases[request.run].live /\ commands' = Append(commands, run)
      BY <2>1 DEF QueueRun, QueueRunOutcome, QueueRunVerdict, Outcome
    <2>3. request.run \in Runs /\ request.agent \in Agents
      BY DEF Requests
    <2>4. runLeases[request.run].computer \in Computers
      BY <1>0, <2>2, <2>3 DEF RunLeases, NoLease
    <2>5. run \in Commands
      BY <2>3, <2>4, CommandType
    <2> HIDE DEF run
    <2> QED BY <2>2, <2>5
  <1>6. ASSUME NEW c \in Computers, RegisterStep(c) \/ ConnectStep(c) \/ HeartbeatStep(c)
                                    \/ DisconnectStep(c) \/ ExpireConnection(c)
        PROVE  Goal
    BY <1>6 DEF RegisterStep, Register, ConnectStep, Connect, HeartbeatStep, Heartbeat,
       DisconnectStep, Disconnect, ExpireConnection
  <1>7. ASSUME NEW r \in Runs, AcquireStep(r) \/ ReleaseStep(r) \/ ExpireRun(r) PROVE Goal
    BY <1>7 DEF AcquireStep, AcquireRun, ReleaseStep, ReleaseRun, ExpireRun
  <1>8. CASE UNCHANGED vars
    BY <1>8 DEF vars
  <1>9. CASE Next
    BY <1>1, <1>2, <1>3, <1>4, <1>5, <1>6, <1>7, <1>9 DEF Next
  <1> QED BY <1>8, <1>9 DEF Goal

(* An acknowledged or failed command never changes again.                  *)
THEOREM OutcomesAreKept == Spec => OutcomesStay
  <1>1. TypeOK /\ [Next]_vars =>
          [\A i \in DOMAIN commands : commands[i].state \in {"acked", "failed"}
              => i \in DOMAIN commands' /\ commands'[i] = commands[i]]_vars
    <2> SUFFICES ASSUME TypeOK, [Next]_vars, NEW i \in DOMAIN commands,
                        commands[i].state \in {"acked", "failed"}
                 PROVE  i \in DOMAIN commands' /\ commands'[i] = commands[i]
      OBVIOUS
    <2>0. commands \in Seq(Commands)
      BY DEF TypeOK
    <2>1. CASE commands' = commands
      BY <2>1
    <2>2. ASSUME NEW e \in Commands, commands' = Append(commands, e)
          PROVE  i \in DOMAIN commands' /\ commands'[i] = commands[i]
      BY <2>0, <2>2, Queued
    <2>3. ASSUME NEW k \in DOMAIN commands, NEW e \in Commands,
                 commands[k].state \in {"queued", "sent"},
                 commands' = [commands EXCEPT ![k] = e]
          PROVE  i \in DOMAIN commands' /\ commands'[i] = commands[i]
      BY <2>0, <2>3, Replaced
    <2> QED BY <2>1, <2>2, <2>3, QueueSteps
  <1> QED BY <1>1, TypeCorrect, PTL DEF Spec, OutcomesStay

(* Nobody takes a live connection over (the lease test in Connect).        *)
THEOREM LiveConnectionsAreFenced == Spec => LiveConnectionIsFenced
  <1>1. TypeOK /\ [Next]_vars =>
          [\A c \in Computers :
              Connected(c) /\ computers'[c].live => computers'[c].conn = computers[c].conn]_vars
    <2> SUFFICES ASSUME TypeOK, Next, NEW c \in Computers, Connected(c), computers'[c].live
                 PROVE  computers'[c].conn = computers[c].conn
      OBVIOUS
    <2>0. computers \in [Computers -> Devices]
      BY DEF TypeOK
    <2>1. CASE computers' = computers
      BY <2>1
    <2>2. ASSUME NEW d \in Computers, RegisterStep(d) PROVE computers'[c].conn = computers[c].conn
      BY <2>0, <2>2 DEF RegisterStep, Register, Outcome, Connected
    <2>3. ASSUME NEW d \in Computers, ConnectStep(d) PROVE computers'[c].conn = computers[c].conn
      BY <2>0, <2>3 DEF ConnectStep, Connect, ConnectVerdict
    <2>4. ASSUME NEW d \in Computers, HeartbeatStep(d) \/ DisconnectStep(d) \/ ExpireConnection(d)
          PROVE  computers'[c].conn = computers[c].conn
      <3>1. CASE DisconnectStep(d)
        BY <2>0, <3>1 DEF DisconnectStep, Disconnect, Devices
      <3>2. CASE HeartbeatStep(d) \/ ExpireConnection(d)
        BY <2>0, <3>2 DEF HeartbeatStep, Heartbeat, ExpireConnection, Devices
      <3> QED BY <2>4, <3>1, <3>2
    <2>5. ASSUME NEW d \in Computers, PollStep(d) \/ AckStep(d) PROVE computers' = computers
      BY <2>5 DEF PollStep, PollCommand, AckStep, AckCommand
    <2>6. ASSUME NEW a \in Agents, RebindStep(a) PROVE computers' = computers
      BY <2>6 DEF RebindStep, Rebind
    <2>7. ASSUME NEW r \in Runs, \/ AcquireStep(r) \/ ReleaseStep(r) \/ QueueCancelStep(r)
                                 \/ ExpireRun(r)
          PROVE  computers' = computers
      BY <2>7 DEF AcquireStep, AcquireRun, ReleaseStep, ReleaseRun, QueueCancelStep, QueueCancel, ExpireRun
    <2>8. ASSUME QueueRunStep PROVE computers' = computers
      BY <2>8 DEF QueueRunStep, QueueRun
    <2> QED BY <2>1, <2>2, <2>3, <2>4, <2>5, <2>6, <2>7, <2>8 DEF Next
  <1> QED BY <1>1, TypeCorrect, PTL DEF Spec, LiveConnectionIsFenced

(* Calls of replaced or repeated senders are void: the two facts above.    *)
THEOREM StaleCallsVoid == Spec => StaleCallsAreVoid
  BY OutcomesAreKept, LiveConnectionsAreFenced DEF StaleCallsAreVoid

(* An agent moves only off a finished run, to a connected device, and with *)
(* the cleanup of its old one queued (Rebind).                             *)
THEOREM MovesAreSafeHolds == Spec => MovesAreSafe
  <1> DEFINE Safe(a) ==
        bindings[a].computer # bindings'[a].computer =>
          /\ ~HasLiveRun(a)
          /\ Connected(bindings'[a].computer)
          /\ bindings[a].computer # None =>
                \E i \in DOMAIN commands' \ DOMAIN commands :
                   /\ commands'[i].kind = "cleanup_agent"
                   /\ commands'[i].computer = bindings[a].computer
                   /\ commands'[i].agent = a
  <1>1. TypeOK /\ [Next]_vars => [\A a \in Agents : Safe(a)]_vars
    <2> SUFFICES ASSUME TypeOK, Next, NEW a \in Agents PROVE Safe(a)
      OBVIOUS
    <2>0. /\ bindings \in [Agents -> Bindings]
          /\ commands \in Seq(Commands)
      BY DEF TypeOK
    <2>1. ASSUME NEW b \in Agents, RebindStep(b) PROVE Safe(a)
      <3>1. PICK op \in Ops, c \in Computers, exp \in 0..Cardinality(ledger) : Rebind(op, b, c, exp)
        BY <2>1 DEF RebindStep
      <3>2. /\ bindings' = [bindings EXCEPT ![b] = [computer |-> c, rev |-> exp + 1]]
            /\ ~HasLiveRun(b) /\ Connected(c)
        BY <3>1 DEF Rebind, Outcome, RebindVerdict
      <3>3. CASE a # b \/ bindings[a].computer = c
        BY <2>0, <3>2, <3>3 DEF Bindings
      <3>4. CASE a = b /\ bindings[a].computer # c
        <4> DEFINE cleanup == Command(op, "cleanup_agent", bindings[a].computer, a, None, NoRequest)
        <4>1. bindings'[a].computer = c
          BY <2>0, <3>2, <3>4
        <4>2. bindings[a].computer # None => commands' = Append(commands, cleanup)
          BY <3>1, <3>4 DEF Rebind
        <4>3. bindings[a].computer # None =>
                 /\ Len(commands) + 1 \in DOMAIN commands' \ DOMAIN commands
                 /\ commands'[Len(commands) + 1] = cleanup
          BY <2>0, <4>2
        <4>4. /\ cleanup.kind = "cleanup_agent"
              /\ cleanup.computer = bindings[a].computer
              /\ cleanup.agent = a
          BY DEF Command
        <4> QED BY <3>2, <3>4, <4>1, <4>3, <4>4
      <3> QED BY <3>3, <3>4
    <2>2. ASSUME bindings' = bindings PROVE Safe(a)
      BY <2>2
    <2>3. ASSUME NEW c \in Computers,
                 \/ RegisterStep(c) \/ ConnectStep(c) \/ HeartbeatStep(c) \/ DisconnectStep(c)
                 \/ ExpireConnection(c) \/ PollStep(c) \/ AckStep(c)
          PROVE  bindings' = bindings
      BY <2>3 DEF RegisterStep, Register, ConnectStep, Connect, HeartbeatStep, Heartbeat,
           DisconnectStep, Disconnect, ExpireConnection, PollStep, PollCommand, AckStep, AckCommand
    <2>4. ASSUME NEW r \in Runs, \/ AcquireStep(r) \/ ReleaseStep(r) \/ QueueCancelStep(r)
                                 \/ ExpireRun(r)
          PROVE  bindings' = bindings
      BY <2>4 DEF AcquireStep, AcquireRun, ReleaseStep, ReleaseRun, QueueCancelStep, QueueCancel, ExpireRun
    <2>5. ASSUME QueueRunStep PROVE bindings' = bindings
      BY <2>5 DEF QueueRunStep, QueueRun
    <2> QED BY <2>1, <2>2, <2>3, <2>4, <2>5 DEF Next
  <1> QED BY <1>1, TypeCorrect, PTL DEF Spec, MovesAreSafe
=============================================================================
