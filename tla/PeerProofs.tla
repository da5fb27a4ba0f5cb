------------------------------ MODULE PeerProofs ------------------------------
(* Theorems about the two peers, for any values of the constants: the      *)
(* daemon of a device answers runs as they ended, and the chat bridge      *)
(* answers messages from their own turns.  Last, the types of all parts.   *)
EXTENDS StoreProofs, AgentProofs

-----------------------------------------------------------------------------
(* The device.  A run has one command; a job of the daemon carries out a   *)
(* command that was sent over the connection that stands; and what a job,  *)
(* its process and the files on the device say of a run agrees.            *)

Reasons == {"none", "error", "completed", "stopped"}

DeviceCommands ==
    [kind : {"run_agent", "cancel_run"}, run : Runs, long : BOOLEAN,
     state : {"queued", "sent", "acked", "failed"}, reason : Reasons]

Lanes == [pc : {"none", "waiting", "working", "outcome"}, cut : BOOLEAN, reason : Reasons]
Procs == [pc : {"none", "start", "refused", "turns", "ended", "written"}, limit : {0, Daemon!Limit(Seconds)}]
Files ==
    [history : {"none", "open", "completed", "stopped"}, result : {"none", "completed", "stopped"},
     size : Daemon!ResultSizes]

DeviceTypes ==
    /\ commands \in Seq(DeviceCommands)
    /\ daemon \in [up : BOOLEAN, breaks : Int]
    /\ lanes \in [Runs -> Lanes]
    /\ procs \in [Runs -> Procs]
    /\ disk \in [Runs -> Files]

(* A job, its process and the files of one run.                            *)
Agree(lane, proc, stored) ==
    /\ lane.pc = "working" <=> proc.pc # "none"
    /\ stored.result # "none" => stored.result = stored.history
    /\ proc.pc \in {"start", "refused", "turns", "ended"} => stored.result = "none"
    /\ proc.pc = "ended" => stored.history \in {"completed", "stopped"}
    /\ proc.pc = "written" => stored.result # "none"
    /\ lane.pc = "outcome" =>
          IF lane.reason = "error"
          THEN lane.cut \/ stored.result = "none" \/ stored.size \in Daemon!Wide
          ELSE lane.reason = stored.result /\ stored.result # "none"

OneCommandPerRun ==
    \A j, k \in DOMAIN commands :
        commands[j].kind = "run_agent" /\ commands[k].kind = "run_agent"
        /\ commands[j].run = commands[k].run => j = k

SentFor(r) ==
    \E k \in DOMAIN commands :
        commands[k].kind = "run_agent" /\ commands[k].run = r /\ commands[k].state = "sent"

LanesCarryCommands == \A r \in Runs : lanes[r].pc # "none" => daemon.up /\ SentFor(r)

RunsAgree == \A r \in Runs : Agree(lanes[r], procs[r], disk[r])

AckedAsStored ==
    \A k \in DOMAIN commands :
        commands[k].kind = "run_agent" /\ commands[k].state = "acked" =>
            /\ commands[k].reason = disk[commands[k].run].result
            /\ disk[commands[k].run].result = disk[commands[k].run].history

DeviceInv ==
    DeviceTypes /\ OneCommandPerRun /\ LanesCarryCommands /\ RunsAgree /\ AckedAsStored

(* The entries of the queue are commands.                                  *)
LEMMA CommandTypes ==
  ASSUME DeviceTypes, NEW k \in DOMAIN commands
  PROVE  commands[k] \in DeviceCommands
  <1>1. commands \in Seq(DeviceCommands)
    BY DEF DeviceTypes
  <1> QED BY <1>1, ElementOfSeq, LenProperties

(* Nothing is queued and nothing runs at first.                            *)
LEMMA DeviceStarts == Init => DeviceInv
  <1> SUFFICES ASSUME Init PROVE DeviceInv
    OBVIOUS
  <1>1. /\ commands = <<>> /\ daemon = [up |-> FALSE, breaks |-> 0]
        /\ lanes = [r \in Runs |-> Daemon!NoJob] /\ procs = [r \in Runs |-> Daemon!NoProc]
        /\ disk = [r \in Runs |-> [history |-> "none", result |-> "none", size |-> "fits"]]
    BY DEF Init, Daemon!Init
  <1>2. DeviceTypes
    BY <1>1 DEF DeviceTypes, Daemon!NoJob, Daemon!NoProc, Lanes, Procs, Files, Reasons,
        Daemon!ResultSizes
  <1>3. RunsAgree
    BY <1>1 DEF RunsAgree, Agree, Daemon!NoJob, Daemon!NoProc
  <1>4. LanesCarryCommands
    BY <1>1 DEF LanesCarryCommands, Daemon!NoJob
  <1>5. OneCommandPerRun /\ AckedAsStored
    BY <1>1 DEF OneCommandPerRun, AckedAsStored
  <1> QED BY <1>2, <1>3, <1>4, <1>5 DEF DeviceInv

(* A step of a job or of its process: the files and the answers of other   *)
(* runs stay, and the command of this one is still out.                    *)
LEMMA RunMoves ==
  ASSUME DeviceInv, NEW r \in Runs, NEW lane \in Lanes, NEW proc \in Procs, NEW stored \in Files,
         lanes' = [lanes EXCEPT ![r] = lane], procs' = [procs EXCEPT ![r] = proc],
         disk' = [disk EXCEPT ![r] = stored], UNCHANGED <<commands, daemon>>,
         lanes[r].pc # "none", lane.pc # "none", Agree(lane, proc, stored)
  PROVE  DeviceInv'
  <1>0. DeviceTypes /\ OneCommandPerRun /\ LanesCarryCommands /\ RunsAgree /\ AckedAsStored
    BY DEF DeviceInv
  <1>1. DeviceTypes'
    BY <1>0 DEF DeviceTypes
  <1>2. \A s \in Runs : s # r => lanes'[s] = lanes[s] /\ procs'[s] = procs[s] /\ disk'[s] = disk[s]
    BY <1>0 DEF DeviceTypes
  <1>3. lanes'[r] = lane /\ procs'[r] = proc /\ disk'[r] = stored
    BY <1>0 DEF DeviceTypes
  <1>4. RunsAgree'
    <2> SUFFICES ASSUME NEW s \in Runs PROVE Agree(lanes'[s], procs'[s], disk'[s])
      BY DEF RunsAgree
    <2>1. CASE s = r
      BY <1>3, <2>1
    <2>2. CASE s # r
      BY <1>0, <1>2, <2>2 DEF RunsAgree
    <2> QED BY <2>1, <2>2
  <1>5. LanesCarryCommands'
    BY <1>0, <1>2 DEF LanesCarryCommands, SentFor
  <1>6. AckedAsStored'
    <2> SUFFICES ASSUME NEW k \in DOMAIN commands, commands[k].kind = "run_agent",
                        commands[k].state = "acked"
                 PROVE  /\ commands[k].reason = disk'[commands[k].run].result
                        /\ disk'[commands[k].run].result = disk'[commands[k].run].history
      BY DEF AckedAsStored
    <2>1. commands[k].run # r
      BY <1>0 DEF LanesCarryCommands, SentFor, OneCommandPerRun
    <2>2. commands[k].run \in Runs
      BY <1>0, CommandTypes DEF DeviceCommands
    <2> QED BY <1>0, <1>2, <2>1, <2>2 DEF AckedAsStored
  <1>7. OneCommandPerRun'
    BY <1>0 DEF OneCommandPerRun
  <1> QED BY <1>1, <1>4, <1>5, <1>6, <1>7 DEF DeviceInv

(* What a command of the queue becomes when its state or answer changes.   *)
Restated(next) ==
    /\ next \in [DOMAIN commands -> DeviceCommands]
    /\ \A k \in DOMAIN commands :
          next[k].kind = commands[k].kind /\ next[k].run = commands[k].run

(* Commands whose states change stay the commands of their runs.           *)
LEMMA RestatedQueue ==
  ASSUME DeviceInv, Restated(commands')
  PROVE  commands' \in Seq(DeviceCommands) /\ DOMAIN commands' = DOMAIN commands /\ OneCommandPerRun'
  <1>0. commands \in Seq(DeviceCommands) /\ OneCommandPerRun
    BY DEF DeviceInv, DeviceTypes
  <1>1. commands' \in [DOMAIN commands -> DeviceCommands]
    BY DEF Restated
  <1>2. commands' \in Seq(DeviceCommands) /\ DOMAIN commands' = DOMAIN commands
    BY <1>0, <1>1, Mapped
  <1>3. OneCommandPerRun'
    BY <1>0, <1>2 DEF OneCommandPerRun, Restated
  <1> QED BY <1>2, <1>3

(* The server queues a command.                                            *)
LEMMA CommandQueued ==
  ASSUME DeviceInv, NEW kind \in {"run_agent", "cancel_run"}, NEW r \in Runs,
         kind = "run_agent" => ~Daemon!Asked("run_agent", r),
         NEW long \in BOOLEAN, commands' = Append(commands, Daemon!Command(kind, r, long)),
         UNCHANGED <<daemon, lanes, procs, disk>>
  PROVE  DeviceInv'
  <1>0. DeviceTypes /\ OneCommandPerRun /\ LanesCarryCommands /\ RunsAgree /\ AckedAsStored
    BY DEF DeviceInv
  <1> DEFINE new == Daemon!Command(kind, r, long)
  <1>1. new \in DeviceCommands /\ new.state = "queued" /\ new.kind = kind /\ new.run = r
    BY DEF Daemon!Command, DeviceCommands, Reasons
  <1> HIDE DEF new
  <1>2. commands \in Seq(DeviceCommands) /\ commands' = Append(commands, new)
    BY <1>0 DEF DeviceTypes, new
  <1>3. /\ commands' \in Seq(DeviceCommands) /\ Len(commands') = Len(commands) + 1
        /\ commands'[Len(commands) + 1] = new
        /\ \A n \in DOMAIN commands : n \in DOMAIN commands' /\ commands'[n] = commands[n]
    BY <1>1, <1>2, Appended
  <1>4. \A n \in DOMAIN commands' : n \in DOMAIN commands \/ n = Len(commands) + 1
    BY <1>2, <1>3, LenProperties
  <1>5. DeviceTypes'
    BY <1>0, <1>3 DEF DeviceTypes
  <1>6. OneCommandPerRun'
    <2> SUFFICES ASSUME NEW j \in DOMAIN commands', NEW k \in DOMAIN commands',
                        commands'[j].kind = "run_agent", commands'[k].kind = "run_agent",
                        commands'[j].run = commands'[k].run
                 PROVE  j = k
      BY DEF OneCommandPerRun
    <2>1. CASE j \in DOMAIN commands /\ k \in DOMAIN commands
      BY <1>0, <1>3, <2>1 DEF OneCommandPerRun
    <2>2. CASE j = Len(commands) + 1 /\ k \in DOMAIN commands
      BY <1>1, <1>3, <2>2 DEF Daemon!Asked
    <2>3. CASE k = Len(commands) + 1 /\ j \in DOMAIN commands
      BY <1>1, <1>3, <2>3 DEF Daemon!Asked
    <2> QED BY <1>4, <2>1, <2>2, <2>3
  <1>7. LanesCarryCommands'
    <2> SUFFICES ASSUME NEW s \in Runs, lanes[s].pc # "none" PROVE daemon.up /\ SentFor(s)'
      BY DEF LanesCarryCommands
    <2>1. daemon.up /\ SentFor(s)
      BY <1>0 DEF LanesCarryCommands
    <2> QED BY <1>3, <2>1 DEF SentFor
  <1>8. RunsAgree'
    BY <1>0 DEF RunsAgree
  <1>9. AckedAsStored'
    BY <1>0, <1>1, <1>3, <1>4 DEF AckedAsStored
  <1> QED BY <1>5, <1>6, <1>7, <1>8, <1>9 DEF DeviceInv

(* A new connection: nothing runs yet, and what was sent is queued again.  *)
LEMMA Connected == DeviceInv /\ Daemon!Connect => DeviceInv'
  <1> SUFFICES ASSUME DeviceInv, Daemon!Connect PROVE DeviceInv'
    OBVIOUS
  <1>0. DeviceTypes /\ OneCommandPerRun /\ LanesCarryCommands /\ RunsAgree /\ AckedAsStored
    BY DEF DeviceInv
  <1>1. /\ ~daemon.up /\ daemon' = [daemon EXCEPT !.up = TRUE] /\ UNCHANGED <<lanes, procs, disk>>
        /\ commands' = [k \in DOMAIN commands |->
              IF commands[k].state = "sent" THEN [commands[k] EXCEPT !.state = "queued"]
              ELSE commands[k]]
    BY DEF Daemon!Connect
  <1>2. Restated(commands')
    BY <1>0, <1>1, CommandTypes DEF Restated, DeviceCommands
  <1>3. commands' \in Seq(DeviceCommands) /\ DOMAIN commands' = DOMAIN commands /\ OneCommandPerRun'
    BY <1>2, RestatedQueue
  <1>4. daemon' \in [up : BOOLEAN, breaks : Int]
    BY <1>0, <1>1 DEF DeviceTypes
  <1>5. DeviceTypes'
    BY <1>0, <1>1, <1>3, <1>4 DEF DeviceTypes
  <1>6. LanesCarryCommands'
    BY <1>0, <1>1 DEF LanesCarryCommands
  <1>7. RunsAgree'
    BY <1>0, <1>1 DEF RunsAgree
  <1>8. \A k \in DOMAIN commands : commands'[k].state = "acked" => commands'[k] = commands[k]
    BY <1>0, <1>1, CommandTypes DEF DeviceCommands
  <1>9. AckedAsStored'
    BY <1>0, <1>1, <1>3, <1>8 DEF AckedAsStored
  <1> QED BY <1>3, <1>5, <1>6, <1>7, <1>9 DEF DeviceInv

(* A run command is polled: the run has no job, as its only command was    *)
(* still queued.                                                           *)
LEMMA RunPolled ==
  ASSUME DeviceInv, NEW c \in DOMAIN commands, Daemon!PollRun(c) PROVE DeviceInv'
  <1>0. DeviceTypes /\ OneCommandPerRun /\ LanesCarryCommands /\ RunsAgree /\ AckedAsStored
    BY DEF DeviceInv
  <1> DEFINE r == commands[c].run
             lane == [Daemon!NoJob EXCEPT !.pc = "waiting"]
  <1>1. /\ daemon.up /\ commands[c].state = "queued" /\ commands[c].kind = "run_agent"
        /\ commands' = [commands EXCEPT ![c].state = "sent"]
        /\ lanes' = [lanes EXCEPT ![r] = lane] /\ UNCHANGED <<daemon, procs, disk>>
    BY DEF Daemon!PollRun, Daemon!NextCommand
  <1>2. commands[c] \in DeviceCommands /\ r \in Runs
    BY <1>0, CommandTypes DEF DeviceCommands
  <1>3. lane \in Lanes /\ lane.pc = "waiting"
    BY DEF Lanes, Daemon!NoJob, Reasons
  <1> HIDE DEF r, lane
  <1>4. /\ DOMAIN commands' = DOMAIN commands
        /\ \A k \in DOMAIN commands : k # c => commands'[k] = commands[k]
        /\ commands'[c] = [commands[c] EXCEPT !.state = "sent"]
    BY <1>1
  <1>5. /\ commands'[c] \in DeviceCommands /\ commands'[c].state = "sent"
        /\ commands'[c].kind = "run_agent" /\ commands'[c].run = r
    BY <1>1, <1>2, <1>4 DEF DeviceCommands, r
  <1>6. Restated(commands')
    <2>1. \A k \in DOMAIN commands : commands'[k] \in DeviceCommands
      BY <1>0, <1>4, <1>5, CommandTypes
    <2>2. commands' \in [DOMAIN commands -> DeviceCommands]
      BY <1>1, <2>1
    <2> QED BY <1>1, <1>4, <1>5, <2>2 DEF Restated, r
  <1>7. commands' \in Seq(DeviceCommands) /\ OneCommandPerRun'
    BY <1>6, RestatedQueue
  <1>8. /\ lanes' \in [Runs -> Lanes] /\ lanes'[r] = lane
        /\ \A s \in Runs : s # r => lanes'[s] = lanes[s]
    BY <1>0, <1>1, <1>2, <1>3 DEF DeviceTypes
  <1>9. DeviceTypes'
    BY <1>0, <1>1, <1>7, <1>8 DEF DeviceTypes
  <1>10. lanes[r].pc = "none"
    <2>1. ~SentFor(r)
      BY <1>0, <1>1 DEF SentFor, OneCommandPerRun, r
    <2> QED BY <1>0, <1>2, <2>1 DEF LanesCarryCommands
  <1>11. LanesCarryCommands'
    <2> SUFFICES ASSUME NEW s \in Runs, lanes'[s].pc # "none" PROVE SentFor(s)'
      BY <1>1 DEF LanesCarryCommands
    <2>1. CASE s = r
      BY <1>4, <1>5, <2>1 DEF SentFor
    <2>2. CASE s # r
      <3>1. SentFor(s)
        BY <1>0, <1>8, <2>2 DEF LanesCarryCommands
      <3>2. PICK k \in DOMAIN commands :
               commands[k].kind = "run_agent" /\ commands[k].run = s /\ commands[k].state = "sent"
        BY <3>1 DEF SentFor
      <3>3. k # c
        BY <1>1, <3>2
      <3> QED BY <1>4, <3>2, <3>3 DEF SentFor
    <2> QED BY <2>1, <2>2
  <1>12. RunsAgree'
    <2> SUFFICES ASSUME NEW s \in Runs PROVE Agree(lanes'[s], procs[s], disk[s])
      BY <1>1 DEF RunsAgree
    <2>0. Agree(lanes[s], procs[s], disk[s])
      BY <1>0 DEF RunsAgree
    <2>1. CASE s = r
      BY <1>3, <1>8, <1>10, <2>0, <2>1 DEF Agree
    <2>2. CASE s # r
      BY <1>8, <2>0, <2>2
    <2> QED BY <2>1, <2>2
  <1>13. AckedAsStored'
    BY <1>0, <1>1, <1>4, <1>5 DEF AckedAsStored
  <1> QED BY <1>7, <1>9, <1>11, <1>12, <1>13 DEF DeviceInv

(* A cancellation is polled: the commands of runs stay, and a job that is  *)
(* there is cut.                                                           *)
LEMMA CancelPolled ==
  ASSUME DeviceInv, NEW c \in DOMAIN commands, Daemon!PollCancel(c) PROVE DeviceInv'
  <1>0. DeviceTypes /\ OneCommandPerRun /\ LanesCarryCommands /\ RunsAgree /\ AckedAsStored
    BY DEF DeviceInv
  <1> DEFINE r == commands[c].run
             lane == [lanes[r] EXCEPT !.cut = lanes[r].pc # "none"]
  <1>1. /\ commands[c].kind = "cancel_run"
        /\ commands' = [commands EXCEPT ![c].state = "acked"]
        /\ lanes' = [lanes EXCEPT ![r].cut = lanes[r].pc # "none"] /\ UNCHANGED <<daemon, procs, disk>>
    BY DEF Daemon!PollCancel
  <1>2. commands[c] \in DeviceCommands /\ r \in Runs
    BY <1>0, CommandTypes DEF DeviceCommands
  <1>3. lanes[r] \in Lanes
    BY <1>0, <1>2 DEF DeviceTypes
  <1>4. /\ lane \in Lanes /\ lane.pc = lanes[r].pc /\ lane.reason = lanes[r].reason
        /\ lane.pc # "none" => lane.cut
    BY <1>3 DEF Lanes
  <1>5. lanes' = [lanes EXCEPT ![r] = lane]
    BY <1>1
  <1> HIDE DEF r, lane
  <1>6. /\ DOMAIN commands' = DOMAIN commands
        /\ \A k \in DOMAIN commands : k # c => commands'[k] = commands[k]
        /\ commands'[c] = [commands[c] EXCEPT !.state = "acked"]
    BY <1>1
  <1>7. /\ commands'[c] \in DeviceCommands
        /\ commands'[c].kind = "cancel_run" /\ commands'[c].run = r
    BY <1>1, <1>2, <1>6 DEF DeviceCommands, r
  <1>8. Restated(commands')
    <2>1. \A k \in DOMAIN commands : commands'[k] \in DeviceCommands
      BY <1>0, <1>6, <1>7, CommandTypes
    <2>2. commands' \in [DOMAIN commands -> DeviceCommands]
      BY <1>1, <2>1
    <2> QED BY <1>1, <1>6, <1>7, <2>2 DEF Restated, r
  <1>9. commands' \in Seq(DeviceCommands) /\ OneCommandPerRun'
    BY <1>8, RestatedQueue
  <1>10. /\ lanes' \in [Runs -> Lanes] /\ lanes'[r] = lane
         /\ \A s \in Runs : s # r => lanes'[s] = lanes[s]
    BY <1>0, <1>2, <1>4, <1>5 DEF DeviceTypes
  <1>11. DeviceTypes'
    BY <1>0, <1>1, <1>9, <1>10 DEF DeviceTypes
  <1>12. \A s \in Runs : lanes'[s].pc = lanes[s].pc
    BY <1>4, <1>10
  <1>13. LanesCarryCommands'
    <2> SUFFICES ASSUME NEW s \in Runs, lanes'[s].pc # "none" PROVE daemon.up /\ SentFor(s)'
      BY <1>1 DEF LanesCarryCommands
    <2>1. daemon.up /\ SentFor(s)
      BY <1>0, <1>12 DEF LanesCarryCommands
    <2>2. PICK k \in DOMAIN commands :
             commands[k].kind = "run_agent" /\ commands[k].run = s /\ commands[k].state = "sent"
      BY <2>1 DEF SentFor
    <2>3. k # c
      BY <1>1, <2>2
    <2> QED BY <1>6, <2>1, <2>2, <2>3 DEF SentFor
  <1>14. RunsAgree'
    <2> SUFFICES ASSUME NEW s \in Runs PROVE Agree(lanes'[s], procs[s], disk[s])
      BY <1>1 DEF RunsAgree
    <2>0. Agree(lanes[s], procs[s], disk[s])
      BY <1>0 DEF RunsAgree
    <2>1. CASE s = r
      BY <1>4, <1>10, <2>0, <2>1 DEF Agree
    <2>2. CASE s # r
      BY <1>10, <2>0, <2>2
    <2> QED BY <2>1, <2>2
  <1>15. AckedAsStored'
    BY <1>0, <1>1, <1>6, <1>7 DEF AckedAsStored
  <1> QED BY <1>9, <1>11, <1>13, <1>14, <1>15 DEF DeviceInv

(* A job is acknowledged with what it answers: the answer is the stored    *)
(* result or a failure, and the run has no job afterwards.                 *)
LEMMA JobAcknowledged ==
  ASSUME DeviceInv, NEW r \in Runs, Daemon!Acknowledge(r) PROVE DeviceInv'
  <1>0. DeviceTypes /\ OneCommandPerRun /\ LanesCarryCommands /\ RunsAgree /\ AckedAsStored
    BY DEF DeviceInv
  <1> DEFINE mine(k) ==
               commands[k].kind = "run_agent" /\ commands[k].run = r /\ commands[k].state = "sent"
             reason == lanes[r].reason
             state == IF reason = "error" THEN "failed" ELSE "acked"
  <1>1. /\ daemon.up /\ lanes[r].pc = "outcome" /\ lanes' = [lanes EXCEPT ![r] = Daemon!NoJob]
        /\ UNCHANGED <<daemon, procs, disk>>
        /\ commands' = [k \in DOMAIN commands |->
              IF mine(k) THEN [commands[k] EXCEPT !.reason = reason, !.state = state] ELSE commands[k]]
    BY DEF Daemon!Acknowledge
  <1>2. lanes[r] \in Lanes /\ reason \in Reasons /\ state \in {"failed", "acked"}
    BY <1>0 DEF DeviceTypes, Lanes
  <1>3. Agree(lanes[r], procs[r], disk[r])
    BY <1>0 DEF RunsAgree
  <1>4. /\ reason # "error" => reason = disk[r].result /\ disk[r].result = disk[r].history
        /\ procs[r].pc = "none"
    BY <1>0, <1>1, <1>3 DEF Agree, DeviceTypes, Procs
  <1>5. state = "acked" => reason # "error"
    OBVIOUS
  <1> HIDE DEF reason, state
  <1>6. \A k \in DOMAIN commands :
           /\ commands'[k] \in DeviceCommands
           /\ commands'[k].kind = commands[k].kind /\ commands'[k].run = commands[k].run
           /\ mine(k) => commands'[k].reason = reason /\ commands'[k].state = state
           /\ ~mine(k) => commands'[k] = commands[k]
    <2> SUFFICES ASSUME NEW k \in DOMAIN commands
                 PROVE  /\ commands'[k] \in DeviceCommands
                        /\ commands'[k].kind = commands[k].kind /\ commands'[k].run = commands[k].run
                        /\ mine(k) => commands'[k].reason = reason /\ commands'[k].state = state
                        /\ ~mine(k) => commands'[k] = commands[k]
      OBVIOUS
    <2>1. commands[k] \in DeviceCommands
      BY <1>0, CommandTypes
    <2>2. CASE mine(k)
      <3>1. commands'[k] = [commands[k] EXCEPT !.reason = reason, !.state = state]
        BY <1>1, <2>2
      <3> QED BY <1>2, <2>1, <2>2, <3>1 DEF DeviceCommands
    <2>3. CASE ~mine(k)
      <3>1. commands'[k] = commands[k]
        BY <1>1, <2>3
      <3> QED BY <2>1, <2>3, <3>1
    <2> QED BY <2>2, <2>3
  <1>7. commands' \in [DOMAIN commands -> DeviceCommands]
    BY <1>1, <1>6
  <1>8. Restated(commands')
    BY <1>6, <1>7 DEF Restated
  <1>9. commands' \in Seq(DeviceCommands) /\ DOMAIN commands' = DOMAIN commands /\ OneCommandPerRun'
    BY <1>8, RestatedQueue
  <1>10. /\ lanes' \in [Runs -> Lanes] /\ lanes'[r] = Daemon!NoJob
         /\ \A s \in Runs : s # r => lanes'[s] = lanes[s]
    BY <1>0, <1>1 DEF DeviceTypes, Lanes, Daemon!NoJob, Reasons
  <1>11. DeviceTypes'
    BY <1>0, <1>1, <1>9, <1>10 DEF DeviceTypes
  <1>12. LanesCarryCommands'
    <2> SUFFICES ASSUME NEW s \in Runs, lanes'[s].pc # "none" PROVE SentFor(s)'
      BY <1>1 DEF LanesCarryCommands
    <2>1. s # r
      BY <1>10 DEF Daemon!NoJob
    <2>2. SentFor(s)
      BY <1>0, <1>10, <2>1 DEF LanesCarryCommands
    <2>3. PICK k \in DOMAIN commands :
             commands[k].kind = "run_agent" /\ commands[k].run = s /\ commands[k].state = "sent"
      BY <2>2 DEF SentFor
    <2>4. commands'[k] = commands[k]
      BY <1>6, <2>1, <2>3
    <2> QED BY <1>9, <2>3, <2>4 DEF SentFor
  <1>13. RunsAgree'
    <2> SUFFICES ASSUME NEW s \in Runs PROVE Agree(lanes'[s], procs[s], disk[s])
      BY <1>1 DEF RunsAgree
    <2>0. Agree(lanes[s], procs[s], disk[s])
      BY <1>0 DEF RunsAgree
    <2>1. CASE s = r
      BY <1>4, <1>10, <2>0, <2>1 DEF Agree, Daemon!NoJob
    <2>2. CASE s # r
      BY <1>10, <2>0, <2>2
    <2> QED BY <2>1, <2>2
  <1>14. AckedAsStored'
    <2>0. disk' = disk
      BY <1>1
    <2> SUFFICES ASSUME NEW k \in DOMAIN commands', commands'[k].kind = "run_agent",
                        commands'[k].state = "acked"
                 PROVE  /\ commands'[k].reason = disk[commands'[k].run].result
                        /\ disk[commands'[k].run].result = disk[commands'[k].run].history
      BY <2>0 DEF AckedAsStored
    <2>1. CASE mine(k)
      <3>1. commands'[k].run = r /\ commands'[k].reason = reason /\ state = "acked"
        BY <1>6, <1>9, <2>1
      <3> QED BY <1>4, <1>5, <3>1
    <2>2. CASE ~mine(k)
      <3>1. commands'[k] = commands[k] /\ k \in DOMAIN commands
        BY <1>6, <1>9, <2>2
      <3> QED BY <1>0, <3>1 DEF AckedAsStored
    <2> QED BY <2>1, <2>2
  <1> QED BY <1>9, <1>11, <1>12, <1>13, <1>14 DEF DeviceInv

(* The daemon is gone: no job is left, and no command was answered.        *)
LEMMA DaemonGone ==
  ASSUME DeviceInv, daemon' \in [up : BOOLEAN, breaks : Int], Daemon!Exits, Restated(commands'),
         \A k \in DOMAIN commands : commands'[k].state = "acked" => commands'[k] = commands[k]
  PROVE  DeviceInv'
  <1>0. DeviceTypes /\ OneCommandPerRun /\ LanesCarryCommands /\ RunsAgree /\ AckedAsStored
    BY DEF DeviceInv
  <1>1. /\ lanes' = [r \in Runs |-> Daemon!NoJob] /\ procs' = [r \in Runs |-> Daemon!NoProc]
        /\ UNCHANGED disk
    BY DEF Daemon!Exits
  <1>2. commands' \in Seq(DeviceCommands) /\ DOMAIN commands' = DOMAIN commands /\ OneCommandPerRun'
    BY RestatedQueue
  <1>3. lanes' \in [Runs -> Lanes] /\ procs' \in [Runs -> Procs]
    BY <1>1 DEF Lanes, Procs, Daemon!NoJob, Daemon!NoProc, Reasons
  <1>4. DeviceTypes'
    BY <1>0, <1>1, <1>2, <1>3 DEF DeviceTypes
  <1>5. LanesCarryCommands'
    BY <1>1 DEF LanesCarryCommands, Daemon!NoJob
  <1>6. RunsAgree'
    BY <1>0, <1>1 DEF RunsAgree, Agree, Daemon!NoJob, Daemon!NoProc
  <1>7. AckedAsStored'
    BY <1>0, <1>1, <1>2 DEF AckedAsStored, Restated
  <1> QED BY <1>2, <1>4, <1>5, <1>6, <1>7 DEF DeviceInv

(* The connection breaks: a command on its way counts as sent.             *)
LEMMA Broken == DeviceInv /\ Daemon!Break => DeviceInv'
  <1> SUFFICES ASSUME DeviceInv, Daemon!Break PROVE DeviceInv'
    OBVIOUS
  <1>0. DeviceTypes
    BY DEF DeviceInv
  <1>1. PICK lost \in {{}} \cup {{k} : k \in DOMAIN commands} :
           /\ \A k \in lost : Daemon!NextCommand(k)
           /\ commands' = [k \in DOMAIN commands |->
                 IF k \in lost THEN [commands[k] EXCEPT !.state = "sent"] ELSE commands[k]]
    BY DEF Daemon!Break
  <1>2. \A k \in DOMAIN commands :
           /\ commands'[k] \in DeviceCommands
           /\ commands'[k].kind = commands[k].kind /\ commands'[k].run = commands[k].run
           /\ commands'[k].state = "acked" => commands'[k] = commands[k]
    BY <1>0, <1>1, CommandTypes DEF DeviceCommands
  <1>3. Restated(commands')
    BY <1>1, <1>2 DEF Restated
  <1>4. daemon' \in [up : BOOLEAN, breaks : Int] /\ Daemon!Exits
    BY <1>0 DEF DeviceTypes, Daemon!Break
  <1> QED BY <1>2, <1>3, <1>4, DaemonGone

(* A command that is too long to be read counts as sent.                   *)
LEMMA TooLongToPoll ==
  ASSUME DeviceInv, NEW c \in DOMAIN commands, Daemon!PollTooLong(c) PROVE DeviceInv'
  <1>0. DeviceTypes
    BY DEF DeviceInv
  <1>1. commands' = [commands EXCEPT ![c].state = "sent"]
    BY DEF Daemon!PollTooLong
  <1>2. \A k \in DOMAIN commands :
           commands'[k] = IF k = c THEN [commands[k] EXCEPT !.state = "sent"] ELSE commands[k]
    BY <1>1
  <1>3. ASSUME NEW k \in DOMAIN commands
        PROVE  /\ commands'[k] \in DeviceCommands
               /\ commands'[k].kind = commands[k].kind /\ commands'[k].run = commands[k].run
               /\ commands'[k].state = "acked" => commands'[k] = commands[k]
    <2>1. commands[k] \in DeviceCommands
      BY <1>0, CommandTypes
    <2> DEFINE sent == [commands[k] EXCEPT !.state = "sent"]
    <2>2. /\ sent \in DeviceCommands /\ sent.kind = commands[k].kind /\ sent.run = commands[k].run
          /\ sent.state = "sent"
      BY <2>1 DEF DeviceCommands
    <2>3. commands'[k] = IF k = c THEN sent ELSE commands[k]
      BY <1>2
    <2> HIDE DEF sent
    <2> QED BY <2>1, <2>2, <2>3
  <1>4. Restated(commands')
    <2>1. commands' \in [DOMAIN commands -> DeviceCommands]
      BY <1>1, <1>3
    <2> QED BY <1>3, <2>1 DEF Restated
  <1>5. daemon' \in [up : BOOLEAN, breaks : Int] /\ Daemon!Exits
    BY <1>0 DEF DeviceTypes, Daemon!PollTooLong
  <1> QED BY <1>3, <1>4, <1>5, DaemonGone

(* An answer that is too long for the server ends the daemon.              *)
LEMMA TooLongToAnswer ==
  ASSUME DeviceInv, NEW r \in Runs, Daemon!AnswerTooLong(r) PROVE DeviceInv'
  <1>0. DeviceTypes /\ commands' = commands
    BY DEF DeviceInv, Daemon!AnswerTooLong
  <1>1. commands \in Seq(DeviceCommands) /\ \A k \in DOMAIN commands : commands[k] \in DeviceCommands
    BY <1>0, CommandTypes DEF DeviceTypes
  <1>2. commands \in [DOMAIN commands -> DeviceCommands]
    <2>1. commands = [k \in DOMAIN commands |-> commands[k]]
      BY <1>1, LenProperties
    <2> QED BY <1>1, <2>1
  <1>3. Restated(commands')
    BY <1>0, <1>2 DEF Restated
  <1>4. daemon' \in [up : BOOLEAN, breaks : Int] /\ Daemon!Exits
    BY <1>0 DEF DeviceTypes, Daemon!AnswerTooLong
  <1> QED BY <1>0, <1>3, <1>4, DaemonGone

(* Every step of a job and of a process is one of RunMoves.                *)
LEMMA JobsMoveRightly ==
  ASSUME DeviceInv, NEW r \in Runs,
         \/ Daemon!Deadline(r) \/ Daemon!Begin(r) \/ Daemon!GiveUp(r) \/ Daemon!Kill(r)
         \/ Daemon!Collect(r)
  PROVE  DeviceInv'
  <1>0. /\ DeviceTypes /\ RunsAgree
        /\ lanes \in [Runs -> Lanes] /\ procs \in [Runs -> Procs] /\ disk \in [Runs -> Files]
    BY DEF DeviceInv, DeviceTypes
  <1>1. /\ lanes[r] \in Lanes /\ procs[r] \in Procs /\ disk[r] \in Files
        /\ Agree(lanes[r], procs[r], disk[r])
        /\ lanes = [lanes EXCEPT ![r] = lanes[r]] /\ procs = [procs EXCEPT ![r] = procs[r]]
        /\ disk = [disk EXCEPT ![r] = disk[r]]
    BY <1>0 DEF RunsAgree
  <1>2. CASE Daemon!Deadline(r)
    <2> DEFINE lane == [lanes[r] EXCEPT !.cut = TRUE]
    <2>1. /\ lanes[r].pc \in {"waiting", "working"} /\ lanes' = [lanes EXCEPT ![r] = lane]
          /\ UNCHANGED <<commands, daemon, procs, disk>>
      BY <1>2 DEF Daemon!Deadline
    <2>2. lane \in Lanes /\ lane.pc = lanes[r].pc
      BY <1>1 DEF Lanes
    <2>3. Agree(lane, procs[r], disk[r])
      BY <1>1, <2>1, <2>2 DEF Agree
    <2> HIDE DEF lane
    <2>4. procs' = [procs EXCEPT ![r] = procs[r]] /\ disk' = [disk EXCEPT ![r] = disk[r]]
      BY <1>1, <2>1
    <2> QED BY <1>1, <2>1, <2>2, <2>3, <2>4, RunMoves
  <1>3. ASSUME NEW reason \in Reasons, NEW proc \in Procs, lanes[r].pc # "none",
               Daemon!Answer(r, reason), procs' = [procs EXCEPT ![r] = proc], proc.pc = "none",
               UNCHANGED <<commands, daemon, disk>>,
               IF reason = "error"
               THEN lanes[r].cut \/ disk[r].result = "none" \/ disk[r].size \in Daemon!Wide
               ELSE reason = disk[r].result /\ disk[r].result # "none"
        PROVE  DeviceInv'
    <2> DEFINE lane == [lanes[r] EXCEPT !.pc = "outcome", !.reason = reason]
    <2>1. lanes' = [lanes EXCEPT ![r] = lane]
      BY <1>3 DEF Daemon!Answer
    <2>2. /\ lane \in Lanes /\ lane.pc = "outcome" /\ lane.reason = reason
          /\ lane.cut = lanes[r].cut
      BY <1>1 DEF Lanes
    <2> HIDE DEF lane
    <2>3. Agree(lane, proc, disk[r])
      BY <1>1, <1>3, <2>2 DEF Agree
    <2>4. disk' = [disk EXCEPT ![r] = disk[r]]
      BY <1>1, <1>3
    <2> QED BY <1>1, <1>3, <2>1, <2>2, <2>3, <2>4, RunMoves
  <1>4. Daemon!NoProc \in Procs /\ Daemon!NoProc.pc = "none"
    BY DEF Daemon!NoProc, Procs
  <1>5. CASE Daemon!Begin(r)
    <2>1. lanes[r].pc = "waiting" /\ procs[r].pc = "none" /\ UNCHANGED <<commands, daemon, disk>>
      BY <1>1, <1>5 DEF Daemon!Begin, Agree, Procs
    <2>2. CASE disk[r].result # "none"
      <3>1. Daemon!Answer(r, disk[r].result) /\ procs' = [procs EXCEPT ![r] = procs[r]]
        BY <1>1, <1>5, <2>2 DEF Daemon!Begin
      <3>2. disk[r].result \in Reasons /\ disk[r].result # "error"
        BY <1>1 DEF Files, Reasons
      <3> QED BY <1>1, <1>3, <2>1, <2>2, <3>1, <3>2
    <2>3. CASE disk[r].result = "none"
      <3> DEFINE lane == [lanes[r] EXCEPT !.pc = "working"]
                 proc == [pc |-> "start", limit |-> Daemon!Limit(Seconds)]
      <3>1. lanes' = [lanes EXCEPT ![r] = lane] /\ procs' = [procs EXCEPT ![r] = proc]
        BY <1>5, <2>3 DEF Daemon!Begin
      <3>2. lane \in Lanes /\ lane.pc = "working" /\ proc \in Procs /\ proc.pc = "start"
        BY <1>1 DEF Lanes, Procs
      <3> HIDE DEF lane, proc
      <3>3. Agree(lane, proc, disk[r])
        BY <1>1, <2>3, <3>2 DEF Agree
      <3>4. disk' = [disk EXCEPT ![r] = disk[r]]
        BY <1>1, <2>1
      <3> QED BY <1>1, <2>1, <3>1, <3>2, <3>3, <3>4, RunMoves
    <2> QED BY <2>2, <2>3
  <1>6. CASE Daemon!GiveUp(r)
    <2>1. /\ lanes[r].pc = "waiting" /\ lanes[r].cut /\ Daemon!Answer(r, "error")
          /\ UNCHANGED <<commands, daemon, procs, disk>>
      BY <1>6 DEF Daemon!GiveUp
    <2>2. procs[r].pc = "none" /\ procs' = [procs EXCEPT ![r] = procs[r]] /\ "error" \in Reasons
      BY <1>1, <2>1 DEF Agree, Procs, Reasons
    <2> QED BY <1>1, <1>3, <2>1, <2>2
  <1>7. CASE Daemon!Kill(r)
    <2>1. /\ lanes[r].pc = "working" /\ lanes[r].cut /\ Daemon!Answer(r, "error")
          /\ procs' = [procs EXCEPT ![r] = Daemon!NoProc] /\ UNCHANGED <<commands, daemon, disk>>
      BY <1>7 DEF Daemon!Kill
    <2>2. "error" \in Reasons
      BY DEF Reasons
    <2> QED BY <1>3, <1>4, <2>1, <2>2
  <1>8. CASE Daemon!Collect(r)
    <2> DEFINE reason == IF procs[r].pc = "written" /\ disk[r].size \notin Daemon!Wide
                         THEN disk[r].result ELSE "error"
    <2>1. /\ lanes[r].pc = "working" /\ procs[r].pc \in {"written", "refused"}
          /\ Daemon!Answer(r, reason)
          /\ procs' = [procs EXCEPT ![r] = Daemon!NoProc] /\ UNCHANGED <<commands, daemon, disk>>
      BY <1>8 DEF Daemon!Collect
    <2>2. /\ reason \in Reasons
          /\ IF reason = "error"
             THEN lanes[r].cut \/ disk[r].result = "none" \/ disk[r].size \in Daemon!Wide
             ELSE reason = disk[r].result /\ disk[r].result # "none"
      BY <1>1, <2>1 DEF Agree, Files, Reasons
    <2> HIDE DEF reason
    <2> QED BY <1>3, <1>4, <2>1, <2>2
  <1> QED BY <1>2, <1>5, <1>6, <1>7, <1>8

(* The runtime writes only while its job works on the run.                 *)
LEMMA RuntimeMovesRightly ==
  ASSUME DeviceInv, NEW r \in Runs, Daemon!Runtime(r) PROVE DeviceInv'
  <1>0. /\ DeviceTypes /\ RunsAgree
        /\ lanes \in [Runs -> Lanes] /\ procs \in [Runs -> Procs] /\ disk \in [Runs -> Files]
    BY DEF DeviceInv, DeviceTypes
  <1>1. /\ lanes[r] \in Lanes /\ procs[r] \in Procs /\ disk[r] \in Files
        /\ Agree(lanes[r], procs[r], disk[r])
        /\ lanes = [lanes EXCEPT ![r] = lanes[r]] /\ disk = [disk EXCEPT ![r] = disk[r]]
    BY <1>0 DEF RunsAgree
  <1>2. ASSUME NEW from, NEW to \in {"refused", "turns", "ended", "written"}, from # "none",
               Daemon!Process(r, from, to),
               NEW stored \in Files, disk' = [disk EXCEPT ![r] = stored],
               stored.result # "none" => stored.result = stored.history /\ to = "written",
               to = "ended" => stored.history \in {"completed", "stopped"},
               to = "written" => stored.result # "none"
        PROVE  DeviceInv'
    <2> DEFINE proc == [procs[r] EXCEPT !.pc = to]
    <2>1. /\ procs[r].pc = from /\ procs' = [procs EXCEPT ![r] = proc]
          /\ UNCHANGED <<commands, daemon, lanes>>
      BY <1>2 DEF Daemon!Process
    <2>2. proc \in Procs /\ proc.pc = to
      BY <1>1 DEF Procs
    <2>3. lanes[r].pc = "working"
      BY <1>1, <1>2, <2>1 DEF Agree
    <2> HIDE DEF proc
    <2>4. Agree(lanes[r], proc, stored)
      BY <1>1, <1>2, <2>2, <2>3 DEF Agree
    <2>5. lanes' = [lanes EXCEPT ![r] = lanes[r]]
      BY <1>1, <2>1
    <2> QED BY <1>1, <1>2, <2>1, <2>2, <2>3, <2>4, <2>5, RunMoves
  <1>3. CASE Daemon!Refuse(r)
    <2>1. Daemon!Process(r, "start", "refused") /\ disk' = [disk EXCEPT ![r] = disk[r]]
      BY <1>1, <1>3 DEF Daemon!Refuse
    <2>2. disk[r].result = "none"
      BY <1>1, <2>1 DEF Daemon!Process, Agree
    <2> QED BY <1>1, <1>2, <2>1, <2>2
  <1>4. CASE Daemon!Admit(r)
    <2> DEFINE stored == [disk[r] EXCEPT !.history = "open"]
    <2>1. Daemon!Process(r, "start", "turns") /\ disk' = [disk EXCEPT ![r] = stored]
      BY <1>4 DEF Daemon!Admit
    <2>2. disk[r].result = "none"
      BY <1>1, <2>1 DEF Daemon!Process, Agree
    <2>3. stored \in Files /\ stored.result = "none"
      BY <1>1, <2>2 DEF Files
    <2> HIDE DEF stored
    <2> QED BY <1>2, <2>1, <2>3
  <1>5. ASSUME NEW reason \in {"completed", "stopped"}, Daemon!End(r, reason) PROVE DeviceInv'
    <2> DEFINE stored == [disk[r] EXCEPT !.history = reason]
    <2>1. Daemon!Process(r, "turns", "ended") /\ disk' = [disk EXCEPT ![r] = stored]
      BY <1>5 DEF Daemon!End
    <2>2. disk[r].result = "none"
      BY <1>1, <2>1 DEF Daemon!Process, Agree
    <2>3. stored \in Files /\ stored.result = "none" /\ stored.history = reason
      BY <1>1, <2>2 DEF Files
    <2> HIDE DEF stored
    <2> QED BY <1>2, <2>1, <2>3
  <1>6. CASE Daemon!WriteResult(r)
    <2>0. PICK size \in Daemon!ResultSizes :
             disk' = [disk EXCEPT ![r].result = disk[r].history, ![r].size = size]
      BY <1>6 DEF Daemon!WriteResult
    <2> DEFINE stored == [disk[r] EXCEPT !.result = disk[r].history, !.size = size]
    <2>1. Daemon!Process(r, "ended", "written") /\ disk' = [disk EXCEPT ![r] = stored]
      BY <1>0, <1>6, <2>0 DEF Daemon!WriteResult
    <2>2. disk[r].history \in {"completed", "stopped"}
      BY <1>1, <2>1 DEF Daemon!Process, Agree
    <2>3. stored \in Files /\ stored.result = stored.history /\ stored.result # "none"
      BY <1>1, <2>2 DEF Files
    <2> HIDE DEF stored
    <2> QED BY <1>2, <2>1, <2>3
  <1> QED BY <1>3, <1>4, <1>5, <1>6 DEF Daemon!Runtime

(* Every step of the device keeps the invariant.                           *)
LEMMA DeviceKept == DeviceInv /\ [Daemon!Next]_daemonVars => DeviceInv'
  <1> SUFFICES ASSUME DeviceInv, [Daemon!Next]_daemonVars PROVE DeviceInv'
    OBVIOUS
  <1>1. CASE UNCHANGED daemonVars
    BY <1>1 DEF daemonVars, DeviceInv, DeviceTypes, OneCommandPerRun, LanesCarryCommands, SentFor,
        RunsAgree, AckedAsStored
  <1>2. ASSUME NEW r \in Runs, Daemon!QueueRun(r) PROVE DeviceInv'
    BY <1>2, CommandQueued DEF Daemon!QueueRun
  <1>3. ASSUME NEW r \in Runs, Daemon!QueueCancel(r) PROVE DeviceInv'
    <2>1. FALSE \in BOOLEAN
      OBVIOUS
    <2> QED BY <1>3, <2>1, CommandQueued DEF Daemon!QueueCancel
  <1>4. ASSUME NEW r \in Runs, Daemon!Job(r) PROVE DeviceInv'
    BY <1>4, JobsMoveRightly, JobAcknowledged, TooLongToAnswer DEF Daemon!Job
  <1>5. CASE Daemon!Poll
    BY <1>5, RunPolled, CancelPolled, TooLongToPoll DEF Daemon!Poll
  <1> QED BY <1>1, <1>2, <1>3, <1>4, <1>5, JobsMoveRightly, RuntimeMovesRightly, Connected, Broken
       DEF Daemon!Next

(* A run of a device is answered with the result its history ended with,   *)
(* and none is answered as failed that left one, unless it was cut off or  *)
(* printed more than the executor keeps: RunRemote and executeRun of       *)
(* internal/daemon, whatever connections break in between.                 *)
THEOREM AnswersAreAsStored == Spec => []AnswersAreTrue
  <1>1. DeviceInv => AnswersAreTrue
    <2> SUFFICES ASSUME DeviceInv, NEW k \in DOMAIN commands, commands[k].kind = "run_agent"
                 PROVE  /\ commands[k].state = "acked" =>
                              /\ commands[k].reason = disk[commands[k].run].result
                              /\ disk[commands[k].run].result = disk[commands[k].run].history
                        /\ LET r == commands[k].run
                           IN lanes[r].pc = "outcome" /\ lanes[r].reason = "error" /\ ~lanes[r].cut =>
                                disk[r].result = "none" \/ disk[r].size \in Daemon!Wide
      BY DEF AnswersAreTrue, Daemon!AnswersAreTrue
    <2>1. commands[k].run \in Runs
      BY CommandTypes DEF DeviceInv, DeviceCommands
    <2>2. Agree(lanes[commands[k].run], procs[commands[k].run], disk[commands[k].run])
      BY <2>1 DEF DeviceInv, RunsAgree
    <2> QED BY <2>2 DEF DeviceInv, AckedAsStored, Agree
  <1>2. DeviceInv /\ [Next]_vars => DeviceInv'
    BY StepsOfParts, DeviceKept
  <1> QED BY <1>1, <1>2, DeviceStarts, PTL DEF Spec

-----------------------------------------------------------------------------
(* The chat bridge.  A job in processing is in the hands of one worker, or *)
(* of nobody while the process is down; a worker that replies has the      *)
(* answer of its own turn, and one that completes has sent it.             *)

ChatRecords ==
    [state : {"absent", "queued", "processing", "succeeded", "failed"}, chat : Chats \cup {None},
     attempts : Nat]

Places == {"idle", "turn", "reply", "fail", "complete", "wait"}

(* A worker at rest has no event.                                          *)
Desks == {desk \in [at : Places, event : Events \cup {None}] : desk.event = None <=> desk.at = "idle"}

ChatTypes ==
    /\ chatJobs \in [Events -> ChatRecords]
    /\ wake \in Seq(Events)
    /\ workers \in [Workers -> Desks]
    /\ bridge \in {"up", "stopping", "down"}
    /\ turns \in [Events -> {"none", "answered", "empty"}]

(* A worker is busy with an event until it waits for its retry.            *)
Busy(desk) == desk.at \notin {"idle", "wait"}

Hands ==
    /\ \A v, w \in Workers :
          Busy(workers[v]) /\ Busy(workers[w]) /\ workers[v].event = workers[w].event => v = w
    /\ \A w \in Workers : Busy(workers[w]) => chatJobs[workers[w].event].state = "processing"
    /\ \A e \in Events : chatJobs[e].state = "processing" /\ bridge # "down" =>
          \E w \in Workers : Busy(workers[w]) /\ workers[w].event = e

Answers ==
    /\ \A w \in Workers : workers[w].at \in {"reply", "complete"} => turns[workers[w].event] = "answered"
    /\ \A w \in Workers : workers[w].at = "complete" => workers[w].event \in replied
    /\ \A e \in Events : e \in replied => turns[e] = "answered"
    /\ \A e \in Events : chatJobs[e].state = "succeeded" => e \in replied

DownAtRest == bridge = "down" => \A w \in Workers : workers[w] = Chat!Free

ChatInv == ChatTypes /\ Hands /\ Answers /\ DownAtRest

(* A worker that rests is idle and has no event.                           *)
LEMMA AtRest == Chat!Free \in Desks /\ ~Busy(Chat!Free) /\ Chat!Free.at = "idle" /\ Chat!Free.event = None
  BY DEF Chat!Free, Desks, Places, Busy

(* There is no message at first and the bridge is down.                    *)
LEMMA ChatStarts == Init => ChatInv
  <1> SUFFICES ASSUME Init PROVE ChatInv
    OBVIOUS
  <1>1. /\ chatJobs = [e \in Events |-> Chat!NoJob] /\ wake = <<>>
        /\ workers = [w \in Workers |-> Chat!Free] /\ bridge = "down"
        /\ turns = [e \in Events |-> "none"] /\ replied = {}
    BY DEF Init, Chat!Init
  <1>2. Chat!NoJob \in ChatRecords /\ Chat!NoJob.state = "absent"
    BY DEF Chat!NoJob, ChatRecords
  <1>3. ChatTypes
    BY <1>1, <1>2, AtRest DEF ChatTypes
  <1>4. Hands
    BY <1>1, <1>2, AtRest DEF Hands
  <1>5. Answers
    BY <1>1, <1>2, AtRest DEF Answers
  <1> QED BY <1>1, <1>3, <1>4, <1>5 DEF ChatInv, DownAtRest

(* A worker goes on with its event while the jobs stay as they are.        *)
LEMMA WorkerGoesOn ==
  ASSUME ChatInv, NEW w \in Workers, NEW desk \in Desks, Busy(workers[w]), Busy(desk),
         desk.event = workers[w].event, workers' = [workers EXCEPT ![w] = desk],
         UNCHANGED <<chatJobs, wake, bridge>>,
         turns' \in [Events -> {"none", "answered", "empty"}],
         \A e \in Events : turns[e] = "answered" => turns'[e] = "answered",
         \A e \in replied' : e \in replied \/ (e \in Events => turns'[e] = "answered"),
         \A e \in replied : e \in replied',
         desk.at \in {"reply", "complete"} => turns'[desk.event] = "answered",
         desk.at = "complete" => desk.event \in replied'
  PROVE  ChatInv'
  <1>0. ChatTypes /\ Hands /\ Answers /\ DownAtRest
    BY DEF ChatInv
  <1>1. /\ workers' \in [Workers -> Desks] /\ workers'[w] = desk
        /\ \A v \in Workers : v # w => workers'[v] = workers[v]
    BY <1>0 DEF ChatTypes
  <1>2. ChatTypes'
    BY <1>0, <1>1 DEF ChatTypes
  <1>3. \A v \in Workers :
           /\ workers'[v].event = workers[v].event
           /\ Busy(workers'[v]) <=> Busy(workers[v])
    BY <1>1
  <1>4. Hands'
    BY <1>0, <1>3 DEF Hands
  <1>5. \A v \in Workers : workers'[v].at # "idle" => workers'[v].event \in Events
    BY <1>1 DEF Desks
  <1>6. Answers'
    <2>1. ASSUME NEW v \in Workers, workers'[v].at \in {"reply", "complete"}
          PROVE  turns'[workers'[v].event] = "answered"
      BY <1>0, <1>1, <1>5, <2>1 DEF Answers
    <2>2. ASSUME NEW v \in Workers, workers'[v].at = "complete" PROVE workers'[v].event \in replied'
      BY <1>0, <1>1, <2>2 DEF Answers
    <2>3. \A e \in Events : e \in replied' => turns'[e] = "answered"
      BY <1>0 DEF Answers
    <2>4. \A e \in Events : chatJobs'[e].state = "succeeded" => e \in replied'
      BY <1>0 DEF Answers
    <2> QED BY <2>1, <2>2, <2>3, <2>4 DEF Answers
  <1>7. DownAtRest'
    <2>1. bridge # "down"
      BY <1>0, AtRest DEF DownAtRest
    <2> QED BY <2>1 DEF DownAtRest
  <1> QED BY <1>2, <1>4, <1>6, <1>7 DEF ChatInv

(* A worker is done with its event for now: the job has left processing.   *)
LEMMA WorkerLeaves ==
  ASSUME ChatInv, NEW w \in Workers, NEW desk \in Desks, Busy(workers[w]), ~Busy(desk),
         workers' = [workers EXCEPT ![w] = desk],
         NEW state \in {"queued", "succeeded", "failed"},
         Chat!Put(workers[w].event, state),
         state = "succeeded" => workers[w].event \in replied,
         UNCHANGED <<wake, bridge, turns, replied>>
  PROVE  ChatInv'
  <1>0. ChatTypes /\ Hands /\ Answers /\ DownAtRest
    BY DEF ChatInv
  <1>1. /\ workers' \in [Workers -> Desks] /\ workers'[w] = desk
        /\ \A v \in Workers : v # w => workers'[v] = workers[v]
    BY <1>0 DEF ChatTypes
  <1> DEFINE e == workers[w].event
  <1>2. e \in Events
    BY <1>0 DEF ChatTypes, Desks, Busy
  <1>3. /\ chatJobs' \in [Events -> ChatRecords] /\ chatJobs'[e].state = state
        /\ \A d \in Events : d # e => chatJobs'[d] = chatJobs[d]
    <2>1. chatJobs[e] \in ChatRecords /\ chatJobs \in [Events -> ChatRecords]
      BY <1>0, <1>2 DEF ChatTypes
    <2>2. [chatJobs[e] EXCEPT !.state = state] \in ChatRecords
      BY <2>1 DEF ChatRecords
    <2>3. [chatJobs[e] EXCEPT !.state = state].state = state
      BY <2>1 DEF ChatRecords
    <2>4. chatJobs' = [chatJobs EXCEPT ![e] = [chatJobs[e] EXCEPT !.state = state]]
      BY DEF Chat!Put
    <2> QED BY <1>2, <2>1, <2>2, <2>3, <2>4
  <1> HIDE DEF e
  <1>4. ChatTypes'
    BY <1>0, <1>1, <1>3 DEF ChatTypes
  <1>5. \A v \in Workers : v # w /\ Busy(workers[v]) => workers[v].event # e
    BY <1>0 DEF Hands, e
  <1>6. \A v \in Workers : v # w /\ Busy(workers[v]) => workers[v].event \in Events
    BY <1>0 DEF ChatTypes, Desks, Busy
  <1>7. Hands'
    <2>1. ASSUME NEW u \in Workers, NEW v \in Workers, Busy(workers'[u]), Busy(workers'[v]),
                 workers'[u].event = workers'[v].event
          PROVE  u = v
      <3>1. u # w /\ v # w
        BY <1>1, <2>1
      <3> QED BY <1>0, <1>1, <2>1, <3>1 DEF Hands
    <2>2. ASSUME NEW v \in Workers, Busy(workers'[v])
          PROVE  chatJobs'[workers'[v].event].state = "processing"
      <3>1. v # w /\ workers'[v] = workers[v]
        BY <1>1, <2>2
      <3>2. workers[v].event # e /\ workers[v].event \in Events
        BY <1>5, <1>6, <2>2, <3>1
      <3> QED BY <1>0, <1>3, <2>2, <3>1, <3>2 DEF Hands
    <2>3. ASSUME NEW d \in Events, chatJobs'[d].state = "processing", bridge # "down"
          PROVE  \E v \in Workers : Busy(workers'[v]) /\ workers'[v].event = d
      <3>1. d # e /\ chatJobs[d].state = "processing"
        BY <1>3, <2>3
      <3>2. PICK v \in Workers : Busy(workers[v]) /\ workers[v].event = d
        BY <1>0, <2>3, <3>1 DEF Hands
      <3>3. v # w
        BY <3>1, <3>2 DEF e
      <3> QED BY <1>1, <3>2, <3>3
    <2> QED BY <2>1, <2>2, <2>3 DEF Hands
  <1>8. Answers'
    <2>1. \A v \in Workers : workers'[v].at \in {"reply", "complete"} => workers'[v] = workers[v]
      BY <1>1 DEF Busy
    <2>2. \A d \in Events : chatJobs'[d].state = "succeeded" => d \in replied
      BY <1>0, <1>3 DEF Answers, e
    <2> QED BY <1>0, <2>1, <2>2 DEF Answers
  <1>9. DownAtRest'
    <2>1. bridge # "down"
      BY <1>0, AtRest DEF DownAtRest
    <2> QED BY <2>1 DEF DownAtRest
  <1> QED BY <1>4, <1>7, <1>8, <1>9 DEF ChatInv

(* A job that is taken up again has one attempt more.                      *)
LEMMA JobTaken ==
  ASSUME NEW old \in ChatRecords, NEW new,
         new = [old EXCEPT !.state = "processing", !.attempts = old.attempts + 1]
  PROVE  new \in ChatRecords /\ new.state = "processing" /\ new.attempts = old.attempts + 1
  <1>1. old.attempts + 1 \in Nat /\ old.chat \in Chats \cup {None}
    BY DEF ChatRecords
  <1>2. new = [state |-> "processing", chat |-> old.chat, attempts |-> old.attempts + 1]
    BY DEF ChatRecords
  <1>3. \A n \in Nat, chat \in Chats \cup {None} :
           [state |-> "processing", chat |-> chat, attempts |-> n] \in ChatRecords
    BY DEF ChatRecords
  <1> QED BY <1>1, <1>2, <1>3

(* A worker takes the id at the head of the channel: a queued job is then  *)
(* in its hands alone, as only jobs in processing are in anybody's.        *)
LEMMA ClaimKeeps == ASSUME ChatInv, NEW w \in Workers, Chat!Claim(w) PROVE ChatInv'
  <1>0. ChatTypes /\ Hands /\ Answers /\ DownAtRest
    BY DEF ChatInv
  <1> DEFINE e == Head(wake)
  <1>1. /\ workers[w].at = "idle" /\ bridge # "down" /\ wake # <<>> /\ wake' = Tail(wake)
        /\ UNCHANGED <<bridge, turns, replied>>
    BY DEF Chat!Claim, Chat!At, Chat!session
  <1>2. e \in Events /\ wake' \in Seq(Events)
    BY <1>0, <1>1, HeadTailProperties DEF ChatTypes
  <1>3. CASE chatJobs[e].state # "queued"
    <2>1. UNCHANGED <<chatJobs, workers>>
      BY <1>3 DEF Chat!Claim, Chat!Queued
    <2>2. ChatTypes'
      BY <1>0, <1>1, <1>2, <2>1 DEF ChatTypes
    <2>3. Hands'
      BY <1>0, <1>1, <2>1 DEF Hands
    <2>4. Answers'
      BY <1>0, <1>1, <2>1 DEF Answers
    <2>5. DownAtRest'
      BY <1>0, <1>1, <2>1 DEF DownAtRest
    <2> QED BY <2>2, <2>3, <2>4, <2>5 DEF ChatInv
  <1>4. CASE chatJobs[e].state = "queued"
    <2> DEFINE desk == [at |-> "turn", event |-> e]
               job == [chatJobs[e] EXCEPT !.state = "processing", !.attempts = @ + 1]
    <2>1. workers' = [workers EXCEPT ![w] = desk] /\ chatJobs' = [chatJobs EXCEPT ![e] = job]
      BY <1>4 DEF Chat!Claim, Chat!Queued
    <2>2. desk \in Desks /\ Busy(desk) /\ desk.event = e /\ desk.at = "turn"
      BY <1>2, EventsAssumption DEF Desks, Busy, Places
    <2>3. job \in ChatRecords /\ job.state = "processing"
      <3>1. chatJobs[e] \in ChatRecords
        BY <1>0, <1>2 DEF ChatTypes
      <3>2. job = [chatJobs[e] EXCEPT !.state = "processing", !.attempts = chatJobs[e].attempts + 1]
        OBVIOUS
      <3> HIDE DEF e, job
      <3> QED BY <3>1, <3>2, JobTaken
    <2> HIDE DEF desk, job, e
    <2>4. /\ workers' \in [Workers -> Desks] /\ workers'[w] = desk
          /\ \A v \in Workers : v # w => workers'[v] = workers[v]
      BY <1>0, <2>1, <2>2 DEF ChatTypes
    <2>5. /\ chatJobs' \in [Events -> ChatRecords] /\ chatJobs'[e] = job
          /\ \A d \in Events : d # e => chatJobs'[d] = chatJobs[d]
      BY <1>0, <1>2, <2>1, <2>3 DEF ChatTypes
    <2>6. ChatTypes'
      BY <1>0, <1>1, <1>2, <2>4, <2>5 DEF ChatTypes
    <2>7. \A v \in Workers : Busy(workers[v]) => workers[v].event # e
      BY <1>0, <1>4 DEF Hands
    <2>8. Hands'
      <3>1. ASSUME NEW u \in Workers, NEW v \in Workers, Busy(workers'[u]), Busy(workers'[v]),
                   workers'[u].event = workers'[v].event
            PROVE  u = v
        <4>1. CASE u # w /\ v # w
          BY <1>0, <2>4, <3>1, <4>1 DEF Hands
        <4>2. CASE u = w /\ v # w
          BY <2>2, <2>4, <2>7, <3>1, <4>2
        <4>3. CASE v = w /\ u # w
          BY <2>2, <2>4, <2>7, <3>1, <4>3
        <4> QED BY <4>1, <4>2, <4>3
      <3>2. ASSUME NEW v \in Workers, Busy(workers'[v])
            PROVE  chatJobs'[workers'[v].event].state = "processing"
        <4>1. CASE v = w
          BY <2>2, <2>3, <2>4, <2>5, <4>1
        <4>2. CASE v # w
          <5>1. workers'[v] = workers[v] /\ workers[v].event # e
            BY <2>4, <2>7, <3>2, <4>2
          <5>2. workers[v].event \in Events
            BY <1>0, <3>2, <5>1 DEF ChatTypes, Desks, Busy
          <5> QED BY <1>0, <2>5, <3>2, <5>1, <5>2 DEF Hands
        <4> QED BY <4>1, <4>2
      <3>3. ASSUME NEW d \in Events, chatJobs'[d].state = "processing"
            PROVE  \E v \in Workers : Busy(workers'[v]) /\ workers'[v].event = d
        <4>1. CASE d = e
          BY <2>2, <2>4, <4>1
        <4>2. CASE d # e
          <5>1. PICK v \in Workers : Busy(workers[v]) /\ workers[v].event = d
            BY <1>0, <1>1, <2>5, <3>3, <4>2 DEF Hands
          <5>2. v # w
            BY <1>1, <5>1 DEF Busy
          <5> QED BY <2>4, <5>1, <5>2
        <4> QED BY <4>1, <4>2
      <3> QED BY <3>1, <3>2, <3>3 DEF Hands
    <2>9. Answers'
      <3>1. \A v \in Workers : workers'[v].at \in {"reply", "complete"} => workers'[v] = workers[v]
        BY <2>2, <2>4
      <3>2. \A d \in Events : chatJobs'[d].state = "succeeded" => d \in replied
        BY <1>0, <2>3, <2>5 DEF Answers
      <3> QED BY <1>0, <1>1, <3>1, <3>2 DEF Answers
    <2>10. DownAtRest'
      BY <1>1 DEF DownAtRest
    <2> QED BY <2>6, <2>8, <2>9, <2>10 DEF ChatInv
  <1> QED BY <1>3, <1>4

(* What a busy worker does.                                                *)
LEMMA WorkKeeps == ASSUME ChatInv, NEW w \in Workers, Chat!Work(w) PROVE ChatInv'
  <1>0. ChatTypes /\ Hands /\ Answers /\ DownAtRest
    BY DEF ChatInv
  <1>1. workers[w] \in Desks
    BY <1>0 DEF ChatTypes
  <1> DEFINE e == workers[w].event
             moved(at) == [workers[w] EXCEPT !.at = at]
  <1>2. \A at \in Places : Chat!Goto(w, at) => workers' = [workers EXCEPT ![w] = moved(at)]
    BY DEF Chat!Goto
  <1>3. workers[w].at # "idle" =>
           /\ e \in Events
           /\ \A at \in Places \ {"idle"} : moved(at) \in Desks /\ moved(at).at = at /\ moved(at).event = e
    BY <1>1 DEF Desks
  <1> HIDE DEF moved
  <1>4. ASSUME workers[w].at = "turn", NEW at \in {"reply", "fail"}, Chat!Goto(w, at),
               UNCHANGED <<chatJobs, wake, bridge, replied>>,
               turns' \in [Events -> {"none", "answered", "empty"}],
               \A d \in Events : turns[d] = "answered" => turns'[d] = "answered",
               at = "reply" => turns'[e] = "answered"
        PROVE  ChatInv'
    <2>1. /\ moved(at) \in Desks /\ moved(at).at = at /\ moved(at).event = e /\ at \in Places
          /\ e \in Events
      BY <1>3, <1>4 DEF Places
    <2>2. Busy(workers[w]) /\ Busy(moved(at))
      BY <1>4, <2>1 DEF Busy
    <2>3. workers' = [workers EXCEPT ![w] = moved(at)]
      BY <1>2, <1>4, <2>1
    <2> QED BY <1>4, <2>1, <2>2, <2>3, WorkerGoesOn
  <1>5. CASE Chat!TurnRuns(w)
    <2>1. /\ workers[w].at = "turn" /\ turns[e] = "none"
          /\ UNCHANGED <<chatJobs, wake, bridge, replied>>
      BY <1>5 DEF Chat!TurnRuns, Chat!At, Chat!Event
    <2>2. PICK outcome \in {"answered", "empty", "none"} :
             /\ turns' = [turns EXCEPT ![e] = outcome]
             /\ (outcome = "answered" /\ bridge = "up" /\ Chat!Goto(w, "reply")) \/ Chat!Goto(w, "fail")
      BY <1>5 DEF Chat!TurnRuns, Chat!Event
    <2>3. e \in Events
      BY <1>3, <2>1
    <2>4. /\ turns' \in [Events -> {"none", "answered", "empty"}] /\ turns'[e] = outcome
          /\ \A d \in Events : turns[d] = "answered" => turns'[d] = "answered"
      BY <1>0, <2>1, <2>2, <2>3 DEF ChatTypes
    <2> QED BY <1>4, <2>1, <2>2, <2>4
  <1>6. CASE Chat!TurnCached(w)
    <2>1. /\ workers[w].at = "turn" /\ turns[e] = "answered" /\ Chat!Goto(w, "reply")
          /\ UNCHANGED <<chatJobs, wake, bridge, turns, replied>>
      BY <1>6 DEF Chat!TurnCached, Chat!At, Chat!Event, Chat!session
    <2> QED BY <1>0, <1>4, <2>1 DEF ChatTypes
  <1>7. CASE Chat!TurnRefused(w)
    <2>1. /\ workers[w].at = "turn" /\ Chat!Goto(w, "fail")
          /\ UNCHANGED <<chatJobs, wake, bridge, turns, replied>>
      BY <1>7 DEF Chat!TurnRefused, Chat!At, Chat!session
    <2> QED BY <1>0, <1>4, <2>1 DEF ChatTypes
  <1>8. CASE Chat!Reply(w)
    <2>1. workers[w].at = "reply" /\ UNCHANGED <<chatJobs, wake, bridge, turns>>
      BY <1>8 DEF Chat!Reply, Chat!At, Chat!session
    <2>2. PICK at \in {"complete", "fail"} :
             /\ Chat!Goto(w, at) /\ replied' \in {replied, replied \cup {e}}
             /\ at = "complete" => replied' = replied \cup {e}
      BY <1>8 DEF Chat!Reply, Chat!Event
    <2>3. /\ moved(at) \in Desks /\ moved(at).at = at /\ moved(at).event = e /\ at \in Places
      BY <1>3, <2>1 DEF Places
    <2>4. Busy(workers[w]) /\ Busy(moved(at)) /\ workers' = [workers EXCEPT ![w] = moved(at)]
      BY <1>2, <2>1, <2>2, <2>3 DEF Busy
    <2>5. turns[e] = "answered" /\ turns' = turns /\ turns' \in [Events -> {"none", "answered", "empty"}]
      BY <1>0, <2>1 DEF Answers, ChatTypes
    <2>6. /\ \A d \in replied' : d \in replied \/ (d \in Events => turns'[d] = "answered")
          /\ \A d \in replied : d \in replied'
          /\ at = "complete" => e \in replied'
      BY <2>2, <2>5
    <2> QED BY <2>1, <2>2, <2>3, <2>4, <2>5, <2>6, WorkerGoesOn
  <1>9. CASE Chat!Complete(w)
    <2>1. /\ workers[w].at = "complete" /\ Chat!Put(e, "succeeded")
          /\ workers' = [workers EXCEPT ![w] = Chat!Free] /\ UNCHANGED <<wake, bridge, turns, replied>>
      BY <1>9 DEF Chat!Complete, Chat!At, Chat!Event, Chat!Rest, Chat!session
    <2>2. e \in replied /\ Busy(workers[w])
      BY <1>0, <2>1 DEF Answers, Busy
    <2> QED BY <2>1, <2>2, AtRest, WorkerLeaves
  <1>10. CASE Chat!Fail(w)
    <2>1. workers[w].at = "fail" /\ UNCHANGED <<wake, bridge, turns, replied>>
      BY <1>10 DEF Chat!Fail, Chat!At, Chat!session
    <2>2. Busy(workers[w])
      BY <2>1 DEF Busy
    <2>3. CASE Chat!Put(e, "queued") /\ Chat!Goto(w, "wait")
      <3>1. moved("wait") \in Desks /\ moved("wait").at = "wait" /\ "wait" \in Places
        BY <1>3, <2>1 DEF Places
      <3>2. ~Busy(moved("wait")) /\ workers' = [workers EXCEPT ![w] = moved("wait")]
        BY <1>2, <2>3, <3>1 DEF Busy
      <3> QED BY <2>1, <2>2, <2>3, <3>1, <3>2, WorkerLeaves
    <2>4. CASE Chat!Put(e, "failed") /\ workers' = [workers EXCEPT ![w] = Chat!Free]
      BY <2>1, <2>2, <2>4, AtRest, WorkerLeaves
    <2> QED BY <1>10, <2>3, <2>4 DEF Chat!Fail, Chat!Event, Chat!Rest
  <1>11. CASE Chat!WaitEnds(w)
    <2>1. /\ workers[w].at = "wait" /\ workers' = [workers EXCEPT ![w] = Chat!Free]
          /\ wake' = Chat!Scheduled(wake, e) \/ wake' = wake
          /\ UNCHANGED <<chatJobs, bridge, turns, replied>>
      BY <1>11 DEF Chat!WaitEnds, Chat!At, Chat!Event, Chat!Rest, Chat!session
    <2>2. e \in Events
      BY <1>3, <2>1
    <2>3. wake' \in Seq(Events)
      BY <1>0, <2>1, <2>2, AppendProperties DEF Chat!Scheduled, ChatTypes
    <2>4. /\ workers' \in [Workers -> Desks] /\ workers'[w] = Chat!Free
          /\ \A v \in Workers : v # w => workers'[v] = workers[v]
      BY <1>0, <2>1, AtRest DEF ChatTypes
    <2>5. ChatTypes'
      BY <1>0, <2>1, <2>3, <2>4 DEF ChatTypes
    <2>6. \A v \in Workers : Busy(workers'[v]) => workers'[v] = workers[v] /\ v # w
      BY <2>4, AtRest
    <2>7. \A v \in Workers : Busy(workers[v]) => workers'[v] = workers[v]
      BY <2>1, <2>4 DEF Busy
    <2>8. Hands'
      BY <1>0, <2>1, <2>6, <2>7 DEF Hands
    <2>9. Answers'
      BY <1>0, <2>1, <2>4, AtRest DEF Answers
    <2>10. DownAtRest'
      BY <1>0, <2>1, <2>4 DEF DownAtRest
    <2> QED BY <2>5, <2>8, <2>9, <2>10 DEF ChatInv
  <1> QED BY <1>5, <1>6, <1>7, <1>8, <1>9, <1>10, <1>11, ClaimKeeps DEF Chat!Work

(* A message is received, or comes again.                                  *)
LEMMA MessageKeeps ==
  ASSUME ChatInv, NEW e \in Events, NEW chat \in Chats, Chat!HandleMessage(e, chat) PROVE ChatInv'
  <1>0. ChatTypes /\ Hands /\ Answers /\ DownAtRest
    BY DEF ChatInv
  <1>1. bridge # "down" /\ wake' = Chat!Scheduled(wake, e) /\ UNCHANGED <<workers, bridge, turns, replied>>
    BY DEF Chat!HandleMessage, Chat!session
  <1>2. wake' \in Seq(Events)
    BY <1>0, <1>1, AppendProperties DEF Chat!Scheduled, ChatTypes
  <1>3. chatJobs' \in [Events -> ChatRecords]
    <2>1. [state |-> "queued", chat |-> chat, attempts |-> 0] \in ChatRecords
      BY DEF ChatRecords
    <2> QED BY <1>0, <2>1 DEF Chat!HandleMessage, ChatTypes
  <1>4. \A d \in Events :
           \/ chatJobs'[d] = chatJobs[d]
           \/ chatJobs[d].state = "absent" /\ chatJobs'[d].state = "queued"
    <2>1. Chat!NoJob.state = "absent"
      BY DEF Chat!NoJob
    <2> QED BY <1>0, <2>1 DEF Chat!HandleMessage, ChatTypes
  <1>5. ChatTypes'
    BY <1>0, <1>1, <1>2, <1>3 DEF ChatTypes
  <1>6. \A w \in Workers : Busy(workers[w]) => workers[w].event \in Events
    BY <1>0 DEF ChatTypes, Desks, Busy
  <1>7. Hands'
    BY <1>0, <1>1, <1>4, <1>6 DEF Hands
  <1>8. Answers'
    BY <1>0, <1>1, <1>4 DEF Answers
  <1>9. DownAtRest'
    BY <1>1 DEF DownAtRest
  <1> QED BY <1>5, <1>7, <1>8, <1>9 DEF ChatInv

(* The process starts again: what was in processing is queued.             *)
LEMMA StartKeeps == ChatInv /\ Chat!Start => ChatInv'
  <1> SUFFICES ASSUME ChatInv, Chat!Start PROVE ChatInv'
    OBVIOUS
  <1>0. ChatTypes /\ Hands /\ Answers /\ DownAtRest
    BY DEF ChatInv
  <1>1. /\ bridge = "down" /\ bridge' = "up" /\ UNCHANGED <<wake, workers, turns, replied>>
        /\ chatJobs' = [e \in Events |-> Chat!Reconciled(chatJobs[e])]
    BY DEF Chat!Start, Chat!session
  <1>2. \A e \in Events :
           /\ chatJobs'[e] \in ChatRecords /\ chatJobs'[e].state # "processing"
           /\ chatJobs'[e].state = "succeeded" => chatJobs[e].state = "succeeded"
    <2> SUFFICES ASSUME NEW e \in Events
                 PROVE  /\ chatJobs'[e] \in ChatRecords /\ chatJobs'[e].state # "processing"
                        /\ chatJobs'[e].state = "succeeded" => chatJobs[e].state = "succeeded"
      OBVIOUS
    <2>1. chatJobs[e] \in ChatRecords /\ chatJobs'[e] = Chat!Reconciled(chatJobs[e])
      BY <1>0, <1>1 DEF ChatTypes
    <2> QED BY <2>1 DEF Chat!Reconciled, ChatRecords
  <1>3. chatJobs' \in [Events -> ChatRecords]
    BY <1>1, <1>2
  <1>4. ChatTypes'
    BY <1>0, <1>1, <1>3 DEF ChatTypes
  <1>5. \A w \in Workers : ~Busy(workers'[w])
    BY <1>0, <1>1, AtRest DEF DownAtRest
  <1>6. Hands'
    BY <1>2, <1>5 DEF Hands
  <1>7. Answers'
    BY <1>0, <1>1, <1>2 DEF Answers
  <1> QED BY <1>1, <1>4, <1>6, <1>7 DEF ChatInv, DownAtRest

(* The process ends, by a crash or when its workers have stopped.          *)
LEMMA DownKeeps == ChatInv /\ Chat!Down /\ bridge' = "down" => ChatInv'
  <1> SUFFICES ASSUME ChatInv, Chat!Down, bridge' = "down" PROVE ChatInv'
    OBVIOUS
  <1>0. ChatTypes /\ Answers
    BY DEF ChatInv
  <1>1. /\ wake' = <<>> /\ workers' = [w \in Workers |-> Chat!Free]
        /\ UNCHANGED <<chatJobs, turns, replied>>
    BY DEF Chat!Down, Chat!session
  <1>2. ChatTypes'
    BY <1>0, <1>1, AtRest DEF ChatTypes
  <1>3. Hands'
    BY <1>1, AtRest DEF Hands
  <1>4. Answers'
    BY <1>0, <1>1, AtRest DEF Answers
  <1> QED BY <1>1, <1>2, <1>3, <1>4 DEF ChatInv, DownAtRest

(* Every step of the bridge keeps the invariant.                           *)
LEMMA ChatKept == ChatInv /\ [Chat!Next]_chatVars => ChatInv'
  <1> SUFFICES ASSUME ChatInv, [Chat!Next]_chatVars PROVE ChatInv'
    OBVIOUS
  <1>0. ChatTypes /\ Hands /\ Answers /\ DownAtRest
    BY DEF ChatInv
  <1>1. CASE UNCHANGED chatVars
    <2>1. UNCHANGED <<chatJobs, wake, workers, bridge, turns, replied>>
      BY <1>1 DEF chatVars
    <2> QED BY <1>0, <2>1 DEF ChatInv, ChatTypes, Hands, Answers, DownAtRest
  <1>2. ASSUME NEW e \in Events, Chat!Wake(e) PROVE ChatInv'
    <2>1. wake' = Append(wake, e) /\ UNCHANGED <<chatJobs, workers, bridge, turns, replied>>
      BY <1>2 DEF Chat!Wake, Chat!session
    <2>2. wake' \in Seq(Events)
      BY <1>0, <2>1, AppendProperties DEF ChatTypes
    <2> QED BY <1>0, <2>1, <2>2 DEF ChatInv, ChatTypes, Hands, Answers, DownAtRest
  <1>3. CASE Chat!Signal
    <2>1. /\ bridge = "up" /\ bridge' = "stopping"
          /\ UNCHANGED <<chatJobs, wake, workers, turns, replied>>
      BY <1>3 DEF Chat!Signal, Chat!Stop, Chat!session
    <2>2. ChatTypes' /\ DownAtRest'
      BY <1>0, <2>1 DEF ChatTypes, DownAtRest
    <2>3. Hands'
      BY <1>0, <2>1 DEF Hands
    <2>4. Answers'
      BY <1>0, <2>1 DEF Answers
    <2> QED BY <2>2, <2>3, <2>4 DEF ChatInv
  <1>4. CASE Chat!Crash
    BY <1>4, DownKeeps DEF Chat!Crash, Chat!Stop
  <1>5. CASE Chat!Exit
    BY <1>5, DownKeeps DEF Chat!Exit
  <1> QED BY <1>1, <1>2, <1>3, <1>4, <1>5, MessageKeeps, WorkKeeps, StartKeeps DEF Chat!Next

(* The module of the bridge counts as every other.                         *)
LEMMA DesksCount == ASSUME NEW S PROVE Chat!Cardinality(S) = Cardinality(S)
  BY DEF Chat!Cardinality, Cardinality, Chat!IsFiniteSet, IsFiniteSet

(* A message of a chat is worked on by one worker, only the answer of its  *)
(* own turn is sent to the chat, and its job is done only when it was:     *)
(* process and the workers of internal/feishu, over every crash, signal    *)
(* and retry.                                                              *)
THEOREM AnswersRestOnTurns == Spec => []RepliesRestOnTurns
  <1>1. ChatInv => RepliesRestOnTurns
    <2> SUFFICES ASSUME ChatInv, NEW e \in Events
                 PROVE  /\ e \in replied => turns[e] = "answered"
                        /\ chatJobs[e].state = "succeeded" => e \in replied
                        /\ chatJobs[e].state = "processing" /\ bridge # "down" =>
                              Chat!Cardinality({w \in Workers : Chat!Event(w) = e /\ ~Chat!At(w, "wait")}) = 1
      BY DEF RepliesRestOnTurns, Chat!RepliesRestOnTurns
    <2>1. /\ e \in replied => turns[e] = "answered"
          /\ chatJobs[e].state = "succeeded" => e \in replied
      BY DEF ChatInv, Answers
    <2>2. ASSUME chatJobs[e].state = "processing", bridge # "down"
          PROVE  Chat!Cardinality({w \in Workers : Chat!Event(w) = e /\ ~Chat!At(w, "wait")}) = 1
      <3> DEFINE holders == {w \in Workers : Chat!Event(w) = e /\ ~Chat!At(w, "wait")}
      <3>1. PICK w \in Workers : Busy(workers[w]) /\ workers[w].event = e
        BY <2>2 DEF ChatInv, Hands
      <3>2. \A v \in Workers : workers[v].event = e /\ workers[v].at # "wait" => Busy(workers[v])
        BY EventsAssumption DEF ChatInv, ChatTypes, Desks, Busy
      <3>3. \A v \in Workers : workers[v].event = e /\ workers[v].at # "wait" => v = w
        BY <3>1, <3>2 DEF ChatInv, Hands
      <3>4. holders = {w}
        BY <3>1, <3>3 DEF Chat!Event, Chat!At, Busy
      <3> HIDE DEF holders
      <3>5. Cardinality({w}) = 1
        BY FS_Singleton
      <3> QED BY <3>4, <3>5, DesksCount DEF holders
    <2> QED BY <2>1, <2>2
  <1>2. ChatInv /\ [Next]_vars => ChatInv'
    BY StepsOfParts, ChatKept
  <1> QED BY <1>1, <1>2, ChatStarts, PTL DEF Spec

(* The three that report on behalf of another, together: the parent of a   *)
(* job, the server and a chat are told what happened.                      *)
THEOREM ReportsHold == Spec => []ReportsAreTrue
  <1>1. ResultsAreFinal /\ AnswersAreTrue /\ RepliesRestOnTurns => ReportsAreTrue
    BY DEF ReportsAreTrue
  <1> QED BY <1>1, FinalResults, AnswersAreAsStored, AnswersRestOnTurns, PTL

-----------------------------------------------------------------------------
(* What only the types say of the device: the jobs at work are no more     *)
(* than the semaphore lets through.                                        *)

(* The module of the daemon counts as every other.                         *)
LEMMA LanesCount == ASSUME NEW S PROVE Daemon!Cardinality(S) = Cardinality(S)
  BY DEF Daemon!Cardinality, Cardinality, Daemon!IsFiniteSet, IsFiniteSet

WithinLimit(working) == IsFiniteSet(working) /\ Cardinality(working) <= MaxConcurrent

(* No job works at first.                                                  *)
LEMMA WorkStarts == Init => WithinLimit(Daemon!Working)
  <1> SUFFICES ASSUME Init PROVE WithinLimit(Daemon!Working)
    OBVIOUS
  <1>1. lanes = [r \in Runs |-> Daemon!NoJob]
    BY DEF Init, Daemon!Init
  <1>2. Daemon!Working = {}
    BY <1>1 DEF Daemon!Working, Daemon!NoJob
  <1> QED BY <1>2, FS_EmptySet, LimitsAssumption DEF WithinLimit

(* A step starts one job at most, and only below the limit.                *)
JobStarts ==
    \/ Daemon!Working' \subseteq Daemon!Working
    \/ /\ Daemon!Cardinality(Daemon!Working) < MaxConcurrent
       /\ \E r : Daemon!Working' \subseteq Daemon!Working \cup {r}

(* A step starts at most one job, and only below the limit.                *)
LEMMA OneJobStarts ==
  ASSUME DeviceInv, [Daemon!Next]_daemonVars
  PROVE  JobStarts
  <1>0. lanes \in [Runs -> Lanes]
    BY DEF DeviceInv, DeviceTypes
  <1>1. ASSUME lanes' = lanes PROVE JobStarts
    BY <1>1 DEF JobStarts, Daemon!Working
  <1>2. ASSUME NEW r, NEW lane \in Lanes, lanes' = [lanes EXCEPT ![r] = lane],
               lane.pc = "working" => r \in Daemon!Working
        PROVE  JobStarts
    <2>1. \A s \in Runs : s # r => lanes'[s] = lanes[s]
      BY <1>0, <1>2
    <2>2. r \in Runs => lanes'[r] = lane
      BY <1>0, <1>2
    <2> QED BY <1>2, <2>1, <2>2 DEF JobStarts, Daemon!Working
  <1>3. ASSUME NEW r \in Runs, NEW reason \in Reasons, Daemon!Answer(r, reason) PROVE JobStarts
    <2> DEFINE lane == [lanes[r] EXCEPT !.pc = "outcome", !.reason = reason]
    <2>1. lanes[r] \in Lanes
      BY <1>0
    <2>2. lane \in Lanes /\ lane.pc = "outcome"
      BY <2>1 DEF Lanes
    <2>3. lanes' = [lanes EXCEPT ![r] = lane]
      BY <1>3, <2>1 DEF Daemon!Answer, Lanes
    <2> HIDE DEF lane
    <2> QED BY <1>2, <2>2, <2>3
  <1>4. ASSUME NEW r \in Runs, Daemon!QueueRun(r) \/ Daemon!QueueCancel(r) \/ Daemon!Runtime(r)
        PROVE  JobStarts
    <2>1. lanes' = lanes
      BY <1>4 DEF Daemon!QueueRun, Daemon!QueueCancel, Daemon!Runtime, Daemon!Refuse, Daemon!Admit,
          Daemon!End, Daemon!WriteResult, Daemon!Process
    <2> QED BY <1>1, <2>1
  <1>5. ASSUME NEW r \in Runs, Daemon!Deadline(r) PROVE JobStarts
    <2>1. /\ lanes[r] \in Lanes
          /\ lanes' = [lanes EXCEPT ![r] = [lanes[r] EXCEPT !.cut = TRUE]]
      BY <1>0, <1>5 DEF Daemon!Deadline
    <2>2. [lanes[r] EXCEPT !.cut = TRUE] \in Lanes /\ [lanes[r] EXCEPT !.cut = TRUE].pc = lanes[r].pc
      BY <2>1 DEF Lanes
    <2>3. lanes[r].pc = "working" => r \in Daemon!Working
      BY DEF Daemon!Working
    <2> QED BY <1>2, <2>1, <2>2, <2>3
  <1>6. ASSUME NEW k \in DOMAIN commands, Daemon!PollRun(k) PROVE JobStarts
    <2> DEFINE lane == [Daemon!NoJob EXCEPT !.pc = "waiting"]
    <2>1. lanes' = [lanes EXCEPT ![commands[k].run] = lane]
      BY <1>6 DEF Daemon!PollRun
    <2>2. lane \in Lanes /\ lane.pc = "waiting"
      BY DEF Daemon!NoJob, Lanes, Reasons
    <2> HIDE DEF lane
    <2> QED BY <1>2, <2>1, <2>2
  <1>7. ASSUME NEW k \in DOMAIN commands, Daemon!PollCancel(k) PROVE JobStarts
    <2> DEFINE r == commands[k].run
               cut == lanes[r].pc # "none"
    <2>1. r \in Runs
      BY CommandTypes DEF DeviceInv, DeviceCommands
    <2>2. lanes' = [lanes EXCEPT ![r].cut = cut]
      BY <1>7 DEF Daemon!PollCancel
    <2> HIDE DEF r
    <2>3. /\ lanes[r] \in Lanes /\ lanes' = [lanes EXCEPT ![r] = [lanes[r] EXCEPT !.cut = cut]]
      BY <1>0, <2>1, <2>2
    <2>4. [lanes[r] EXCEPT !.cut = cut] \in Lanes /\ [lanes[r] EXCEPT !.cut = cut].pc = lanes[r].pc
      BY <2>3 DEF Lanes
    <2>5. lanes[r].pc = "working" => r \in Daemon!Working
      BY <2>1 DEF Daemon!Working
    <2> QED BY <1>2, <2>3, <2>4, <2>5
  <1>8. ASSUME NEW r \in Runs, Daemon!Begin(r) PROVE JobStarts
    <2>1. CASE disk[r].result # "none"
      <3>1. Daemon!Answer(r, disk[r].result)
        BY <1>8, <2>1 DEF Daemon!Begin
      <3>2. disk[r].result \in Reasons
        BY DEF DeviceInv, DeviceTypes, Files, Reasons
      <3> QED BY <1>3, <3>1, <3>2
    <2>2. CASE disk[r].result = "none"
      <3>1. /\ Daemon!Cardinality(Daemon!Working) < MaxConcurrent
            /\ lanes' = [lanes EXCEPT ![r].pc = "working"]
        BY <1>8, <2>2 DEF Daemon!Begin
      <3>2. \A s \in Runs : s # r => lanes'[s] = lanes[s]
        BY <1>0, <3>1
      <3> QED BY <3>1, <3>2 DEF JobStarts, Daemon!Working
    <2> QED BY <2>1, <2>2
  <1>9. ASSUME NEW r \in Runs, Daemon!GiveUp(r) \/ Daemon!Kill(r) \/ Daemon!Collect(r) PROVE JobStarts
    <2>1. disk[r].result \in Reasons /\ "error" \in Reasons
      BY DEF DeviceInv, DeviceTypes, Files, Reasons
    <2>2. Daemon!Answer(r, "error") \/ Daemon!Answer(r, disk[r].result)
      BY <1>9 DEF Daemon!GiveUp, Daemon!Kill, Daemon!Collect
    <2> QED BY <1>3, <2>1, <2>2
  <1>10. ASSUME NEW r \in Runs, Daemon!Acknowledge(r) PROVE JobStarts
    <2>1. lanes' = [lanes EXCEPT ![r] = Daemon!NoJob]
      BY <1>10 DEF Daemon!Acknowledge
    <2>2. Daemon!NoJob \in Lanes /\ Daemon!NoJob.pc = "none"
      BY DEF Daemon!NoJob, Lanes, Reasons
    <2> QED BY <1>2, <2>1, <2>2
  <1>11. CASE Daemon!Exits
    <2>1. lanes' = [r \in Runs |-> Daemon!NoJob]
      BY <1>11 DEF Daemon!Exits
    <2>2. Daemon!Working' = {}
      BY <2>1 DEF Daemon!Working, Daemon!NoJob
    <2> QED BY <2>2 DEF JobStarts
  <1>12. CASE Daemon!Connect \/ UNCHANGED daemonVars
    BY <1>1, <1>12 DEF Daemon!Connect, daemonVars
  <1> QED BY <1>4, <1>5, <1>6, <1>7, <1>8, <1>9, <1>10, <1>11, <1>12
          DEF Daemon!Next, Daemon!Job, Daemon!Poll, Daemon!Break, Daemon!PollTooLong, Daemon!AnswerTooLong

(* Every step keeps the working jobs within the limit.                     *)
LEMMA WorkKept ==
  DeviceInv /\ WithinLimit(Daemon!Working) /\ [Daemon!Next]_daemonVars => WithinLimit(Daemon!Working')
  <1> SUFFICES ASSUME DeviceInv, WithinLimit(Daemon!Working), [Daemon!Next]_daemonVars
               PROVE  WithinLimit(Daemon!Working')
    OBVIOUS
  <1> DEFINE before == Daemon!Working
             after == Daemon!Working'
  <1>1. \/ after \subseteq before
        \/ Cardinality(before) < MaxConcurrent /\ \E r : after \subseteq before \cup {r}
    BY OneJobStarts, LanesCount DEF JobStarts
  <1>2. IsFiniteSet(before) /\ Cardinality(before) <= MaxConcurrent /\ MaxConcurrent \in Nat
    BY LimitsAssumption DEF WithinLimit
  <1> HIDE DEF before, after
  <1>3. CASE after \subseteq before
    <2>1. /\ IsFiniteSet(after) /\ Cardinality(after) <= Cardinality(before)
          /\ Cardinality(after) \in Nat /\ Cardinality(before) \in Nat
      BY <1>2, <1>3, FS_Subset, FS_CardinalityType
    <2> QED BY <1>2, <2>1 DEF WithinLimit, after
  <1>4. ASSUME NEW r, after \subseteq before \cup {r}, Cardinality(before) < MaxConcurrent
        PROVE  WithinLimit(after)
    <2>1. /\ IsFiniteSet(before \cup {r}) /\ Cardinality(before) \in Nat
          /\ Cardinality(before \cup {r}) \in {Cardinality(before), Cardinality(before) + 1}
      <3>1. /\ IsFiniteSet(before \cup {r})
            /\ \/ Cardinality(before \cup {r}) = Cardinality(before)
               \/ Cardinality(before \cup {r}) = Cardinality(before) + 1
        BY <1>2, FS_AddElement
      <3> QED BY <1>2, <3>1, FS_CardinalityType
    <2>2. /\ IsFiniteSet(after) /\ Cardinality(after) <= Cardinality(before \cup {r})
          /\ Cardinality(after) \in Nat
      BY <1>4, <2>1, FS_Subset, FS_CardinalityType
    <2>3. Cardinality(after) <= MaxConcurrent
      BY <1>2, <1>4, <2>1, <2>2
    <2> QED BY <2>2, <2>3 DEF WithinLimit
  <1> QED BY <1>1, <1>3, <1>4 DEF after

(* The invariants of the device hold its types.                            *)
LEMMA DeviceIsTyped == DeviceInv /\ WithinLimit(Daemon!Working) => Daemon!TypeOK
  <1> SUFFICES ASSUME DeviceInv, WithinLimit(Daemon!Working) PROVE Daemon!TypeOK
    OBVIOUS
  <1>1. ASSUME NEW k \in DOMAIN commands
        PROVE  commands[k].state \in {"queued", "sent", "acked", "failed"}
    BY CommandTypes DEF DeviceInv, DeviceCommands
  <1>2. ASSUME NEW r \in Runs
        PROVE  /\ lanes[r].pc \in {"none", "waiting", "working", "outcome"}
               /\ lanes[r].pc = "working" <=> procs[r].pc # "none"
               /\ procs[r].pc \in {"none", "start", "refused", "turns", "ended", "written"}
               /\ disk[r].history \in {"none", "open", "completed", "stopped"}
               /\ disk[r].result \in {"none", "completed", "stopped"}
               /\ disk[r].size \in Daemon!ResultSizes
    <2>1. lanes[r] \in Lanes /\ procs[r] \in Procs /\ disk[r] \in Files /\ Agree(lanes[r], procs[r], disk[r])
      BY DEF DeviceInv, DeviceTypes, RunsAgree
    <2>2. lanes[r].pc = "working" <=> procs[r].pc # "none"
      BY <2>1 DEF Agree
    <2> QED BY <2>1, <2>2 DEF Lanes, Procs, Files
  <1>3. Daemon!Cardinality(Daemon!Working) <= MaxConcurrent
    BY LanesCount DEF WithinLimit
  <1> QED BY <1>1, <1>2, <1>3 DEF Daemon!TypeOK

-----------------------------------------------------------------------------
(* What only the types say of the chat: a job is attempted as often as the *)
(* bridge allows, and once more for each stop, since a job in processing   *)
(* is queued again when the process starts.  Stops survived are those the  *)
(* bridge has come back from.                                              *)

Survived == IF bridge = "up" THEN stops ELSE stops - 1

Spent(job, survived, all) ==
    /\ job.state = "queued" => job.attempts < MaxAttempts + survived
    /\ job.state = "processing" => job.attempts <= MaxAttempts + survived
    /\ job.attempts <= MaxAttempts + all

AttemptsSpent ==
    /\ stops \in 0..MaxStops /\ Len(wake) <= QueueSize
    /\ bridge = "stopping" => stops > 0
    /\ \A e \in Events : Spent(chatJobs[e], Survived, stops)

(* No attempts are spent and no stop has happened at first.                *)
LEMMA AttemptsStart == Init => AttemptsSpent
  <1> SUFFICES ASSUME Init PROVE AttemptsSpent
    OBVIOUS
  <1>1. chatJobs = [e \in Events |-> Chat!NoJob] /\ wake = <<>> /\ bridge = "down" /\ stops = 0
    BY DEF Init, Chat!Init
  <1>2. Len(wake) = 0
    BY <1>1
  <1>3. 0 \in 0..MaxStops /\ 0 <= QueueSize /\ 0 <= MaxAttempts + 0
    BY LimitsAssumption
  <1>4. Chat!NoJob.state = "absent" /\ Chat!NoJob.attempts = 0
    BY DEF Chat!NoJob
  <1> QED BY <1>1, <1>2, <1>3, <1>4 DEF AttemptsSpent, Spent

(* The channel stays within its size.                                      *)
LEMMA WakeBounded ==
  ASSUME ChatInv, AttemptsSpent, NEW e \in Events, wake' = Chat!Scheduled(wake, e)
  PROVE  Len(wake') <= QueueSize
  <1>1. wake \in Seq(Events) /\ Len(wake) <= QueueSize /\ Len(wake) \in Nat
    BY LenProperties DEF ChatInv, ChatTypes, AttemptsSpent
  <1>2. CASE Len(wake) < QueueSize
    <2>1. wake' = Append(wake, e)
      BY <1>2 DEF Chat!Scheduled
    <2>2. Len(wake') = Len(wake) + 1
      BY <1>1, <2>1, AppendProperties
    <2> QED BY <1>1, <1>2, <2>2, LimitsAssumption
  <1>3. CASE ~(Len(wake) < QueueSize)
    BY <1>1, <1>3 DEF Chat!Scheduled
  <1> QED BY <1>2, <1>3

(* Every step of the bridge keeps count.                                   *)
LEMMA AttemptsKept == ChatInv /\ AttemptsSpent /\ [Chat!Next]_chatVars => AttemptsSpent'
  <1> SUFFICES ASSUME ChatInv, AttemptsSpent, [Chat!Next]_chatVars PROVE AttemptsSpent'
    OBVIOUS
  <1>0. /\ chatJobs \in [Events -> ChatRecords] /\ wake \in Seq(Events)
        /\ stops \in Nat /\ stops <= MaxStops /\ MaxStops \in Nat /\ MaxAttempts \in Nat /\ MaxAttempts > 0
        /\ Len(wake) <= QueueSize /\ QueueSize \in Nat /\ Len(wake) \in Nat
        /\ bridge \in {"up", "stopping", "down"} /\ (bridge = "stopping" => stops > 0)
        /\ Survived \in Int /\ Survived <= stops
        /\ \A e \in Events : Spent(chatJobs[e], Survived, stops) /\ chatJobs[e] \in ChatRecords
                             /\ chatJobs[e].attempts \in Nat
    <2>1. chatJobs \in [Events -> ChatRecords] /\ wake \in Seq(Events) /\ bridge \in {"up", "stopping", "down"}
      BY DEF ChatInv, ChatTypes
    <2>2. /\ stops \in 0..MaxStops /\ Len(wake) <= QueueSize /\ (bridge = "stopping" => stops > 0)
          /\ \A e \in Events : Spent(chatJobs[e], Survived, stops)
      BY DEF AttemptsSpent
    <2>3. stops \in Nat /\ Survived \in Int /\ Survived <= stops
      BY <2>2, LimitsAssumption DEF Survived
    <2>4. \A e \in Events : chatJobs[e] \in ChatRecords /\ chatJobs[e].attempts \in Nat
      BY <2>1 DEF ChatRecords
    <2> QED BY <2>1, <2>2, <2>3, <2>4, LenProperties, LimitsAssumption
  <1>1. ASSUME UNCHANGED <<bridge, stops>>, Len(wake') <= QueueSize,
               \A e \in Events : chatJobs'[e] = chatJobs[e] \/ Spent(chatJobs'[e], Survived, stops)
        PROVE  AttemptsSpent'
    <2>1. Survived' = Survived
      BY <1>1 DEF Survived
    <2>2. \A e \in Events : Spent(chatJobs'[e], Survived', stops')
      BY <1>0, <1>1, <2>1
    <2> QED BY <1>0, <1>1, <2>2 DEF AttemptsSpent
  <1>2. ASSUME UNCHANGED <<chatJobs, wake, bridge, stops>> PROVE AttemptsSpent'
    BY <1>0, <1>1, <1>2
  <1>3. ASSUME NEW e \in Events, Chat!Wake(e) PROVE AttemptsSpent'
    <2>1. /\ wake' = Append(wake, e) /\ Len(wake) < QueueSize /\ UNCHANGED <<chatJobs, bridge, stops>>
      BY <1>3 DEF Chat!Wake
    <2>2. Len(wake') = Len(wake) + 1
      BY <1>0, <2>1, AppendProperties
    <2>3. Len(wake') <= QueueSize
      BY <1>0, <2>1, <2>2
    <2> QED BY <1>1, <2>1, <2>3
  <1>4. ASSUME NEW e \in Events, NEW chat \in Chats, Chat!HandleMessage(e, chat) PROVE AttemptsSpent'
    <2> DEFINE job == [state |-> "queued", chat |-> chat, attempts |-> 0]
    <2>1. /\ wake' = Chat!Scheduled(wake, e) /\ UNCHANGED <<bridge, stops>> /\ bridge # "down"
          /\ chatJobs' = [chatJobs EXCEPT ![e] = job] \/ chatJobs' = chatJobs
      BY <1>4 DEF Chat!HandleMessage
    <2>2. Survived \in Nat
      BY <1>0, <2>1 DEF Survived
    <2>3. Spent(job, Survived, stops)
      <3>1. 0 < MaxAttempts + Survived /\ 0 <= MaxAttempts + stops
        BY <1>0, <2>2
      <3> QED BY <3>1 DEF Spent
    <2> HIDE DEF job
    <2>4. \A d \in Events : chatJobs'[d] = chatJobs[d] \/ Spent(chatJobs'[d], Survived, stops)
      BY <1>0, <2>1, <2>3
    <2> QED BY <1>1, <2>1, <2>4, WakeBounded
  <1>5. ASSUME NEW w \in Workers, Chat!Claim(w) PROVE AttemptsSpent'
    <2> DEFINE e == Head(wake)
    <2>1. wake # <<>> /\ wake' = Tail(wake) /\ UNCHANGED <<bridge, stops>>
      BY <1>5 DEF Chat!Claim
    <2>2. e \in Events /\ Len(wake') <= QueueSize
      <3>1. e \in Events /\ Len(wake') = Len(wake) - 1
        BY <1>0, <2>1, HeadTailProperties
      <3> HIDE DEF e
      <3>2. Len(wake') <= QueueSize
        BY <1>0, <3>1
      <3> QED BY <3>1, <3>2
    <2>3. CASE chatJobs[e].state # "queued"
      BY <1>1, <1>5, <2>1, <2>2, <2>3 DEF Chat!Claim, Chat!Queued
    <2>4. CASE chatJobs[e].state = "queued"
      <3> DEFINE old == chatJobs[e]
                 new == [old EXCEPT !.state = "processing", !.attempts = old.attempts + 1]
      <3>1. chatJobs' = [chatJobs EXCEPT ![e] = new]
        BY <1>5, <2>4 DEF Chat!Claim, Chat!Queued
      <3>2. old \in ChatRecords /\ old.attempts \in Nat /\ Spent(old, Survived, stops)
        BY <1>0, <2>2
      <3>3. old.attempts < MaxAttempts + Survived
        BY <2>4, <3>2 DEF Spent
      <3> HIDE DEF old
      <3>4. new.state = "processing" /\ new.attempts = old.attempts + 1
        BY <3>2, JobTaken
      <3> HIDE DEF new
      <3> DEFINE m == old.attempts
      <3>5. m \in Nat /\ m < MaxAttempts + Survived /\ new.attempts = m + 1
        BY <3>2, <3>3, <3>4
      <3> HIDE DEF m
      <3>6. new.attempts <= MaxAttempts + Survived /\ new.attempts <= MaxAttempts + stops
        BY <1>0, <3>5
      <3>7. Spent(new, Survived, stops)
        BY <3>4, <3>6 DEF Spent
      <3> HIDE DEF e
      <3>8. \A d \in Events : chatJobs'[d] = chatJobs[d] \/ Spent(chatJobs'[d], Survived, stops)
        BY <1>0, <3>1, <3>7
      <3> QED BY <1>1, <2>1, <2>2, <3>8
    <2> QED BY <2>3, <2>4
  <1>6. ASSUME NEW w \in Workers,
               Chat!TurnRuns(w) \/ Chat!TurnCached(w) \/ Chat!TurnRefused(w) \/ Chat!Reply(w)
        PROVE  AttemptsSpent'
    <2>1. UNCHANGED <<chatJobs, wake, bridge, stops>>
      BY <1>6 DEF Chat!TurnRuns, Chat!TurnCached, Chat!TurnRefused, Chat!Reply
    <2> QED BY <1>2, <2>1
  <1>7. ASSUME NEW e, NEW state, Chat!Put(e, state), UNCHANGED <<wake, bridge, stops>>,
               \/ state \in {"succeeded", "failed"}
               \/ state = "queued" /\ Chat!Retried(e)
        PROVE  AttemptsSpent'
    <2>1. ASSUME NEW d \in Events, chatJobs'[d] # chatJobs[d]
          PROVE  Spent(chatJobs'[d], Survived, stops)
      <3> DEFINE old == chatJobs[d]
                 new == chatJobs'[d]
      <3>1. chatJobs' = [chatJobs EXCEPT ![e] = [chatJobs[e] EXCEPT !.state = state]]
        BY <1>7 DEF Chat!Put
      <3>2. d = e /\ new = [old EXCEPT !.state = state]
        BY <1>0, <2>1, <3>1
      <3>3. old \in ChatRecords /\ old.attempts \in Nat /\ Spent(old, Survived, stops)
        BY <1>0
      <3>4. state = "queued" => old.attempts < MaxAttempts /\ bridge = "up"
        BY <1>7, <3>2 DEF Chat!Retried
      <3> HIDE DEF old, new
      <3>5. new.state = state /\ new.attempts = old.attempts
        BY <3>2, <3>3 DEF ChatRecords
      <3> DEFINE m == old.attempts
      <3>6. m \in Nat /\ m <= MaxAttempts + stops /\ (state = "queued" => m < MaxAttempts /\ bridge = "up")
        BY <3>3, <3>4 DEF Spent
      <3> HIDE DEF m
      <3>7. state = "queued" => m < MaxAttempts + Survived
        BY <1>0, <3>6 DEF Survived
      <3>8. new.attempts = m
        BY <3>5 DEF m
      <3> QED BY <1>7, <3>5, <3>6, <3>7, <3>8 DEF Spent, new
    <2> QED BY <1>0, <1>1, <1>7, <2>1
  <1>8. ASSUME NEW w \in Workers, Chat!Complete(w) \/ Chat!Fail(w) PROVE AttemptsSpent'
    <2>1. CASE Chat!Complete(w)
      BY <1>7, <2>1 DEF Chat!Complete
    <2>2. CASE Chat!Fail(w)
      BY <1>7, <2>2 DEF Chat!Fail
    <2> QED BY <1>8, <2>1, <2>2
  <1>9. ASSUME NEW w \in Workers, Chat!WaitEnds(w) PROVE AttemptsSpent'
    <2>1. /\ wake' = Chat!Scheduled(wake, workers[w].event) \/ wake' = wake
          /\ UNCHANGED <<chatJobs, bridge, stops>> /\ workers[w].at = "wait"
      BY <1>9 DEF Chat!WaitEnds, Chat!Event, Chat!At
    <2>2. workers[w].event \in Events
      BY <2>1 DEF ChatInv, ChatTypes, Desks
    <2>3. Len(wake') <= QueueSize
      BY <1>0, <2>1, <2>2, WakeBounded
    <2> QED BY <1>1, <2>1, <2>3
  <1>10. ASSUME NEW next \in {"stopping", "down"}, Chat!Stop(next), chatJobs' = chatJobs,
                wake' = wake \/ wake' = <<>>
         PROVE  AttemptsSpent'
    <2>1. bridge = "up" /\ stops < MaxStops /\ stops' = stops + 1 /\ bridge' = next
      BY <1>10 DEF Chat!Stop
    <2>2. Survived' = Survived
      BY <1>0, <2>1 DEF Survived
    <2>3. Len(wake') <= QueueSize
      <3>1. wake' = <<>> => Len(wake') = 0
        OBVIOUS
      <3> QED BY <1>0, <1>10, <3>1
    <2>4. \A e \in Events : Spent(chatJobs[e], Survived, stops + 1)
      <3> SUFFICES ASSUME NEW e \in Events PROVE Spent(chatJobs[e], Survived, stops + 1)
        OBVIOUS
      <3> DEFINE m == chatJobs[e].attempts
      <3>1. m \in Nat /\ m <= MaxAttempts + stops
        BY <1>0 DEF Spent
      <3> HIDE DEF m
      <3>2. m <= MaxAttempts + (stops + 1)
        BY <1>0, <3>1
      <3> QED BY <1>0, <3>2 DEF Spent, m
    <2>5. stops' \in 0..MaxStops /\ stops' > 0
      BY <1>0, <2>1
    <2> QED BY <1>10, <2>1, <2>2, <2>3, <2>4, <2>5 DEF AttemptsSpent
  <1>11. CASE Chat!Signal
    BY <1>10, <1>11 DEF Chat!Signal
  <1>12. CASE Chat!Crash
    BY <1>10, <1>12 DEF Chat!Crash, Chat!Down
  <1>13. CASE Chat!Exit
    <2>1. /\ bridge = "stopping" /\ bridge' = "down" /\ wake' = <<>> /\ UNCHANGED <<chatJobs, stops>>
      BY <1>13 DEF Chat!Exit, Chat!Down
    <2>2. Survived' = Survived
      BY <2>1 DEF Survived
    <2>3. Len(wake') <= QueueSize
      <3>1. Len(wake') = 0
        BY <2>1
      <3> QED BY <1>0, <3>1
    <2>4. stops' \in 0..MaxStops
      BY <1>0, <2>1
    <2> QED BY <1>0, <2>1, <2>2, <2>3, <2>4 DEF AttemptsSpent
  <1>14. CASE Chat!Start
    <2>1. /\ bridge = "down" /\ bridge' = "up" /\ UNCHANGED <<wake, stops>>
          /\ chatJobs' = [e \in Events |-> Chat!Reconciled(chatJobs[e])]
      BY <1>14 DEF Chat!Start
    <2>2. Survived = stops - 1 /\ Survived' = stops
      BY <2>1 DEF Survived
    <2>3. ASSUME NEW e \in Events PROVE Spent(chatJobs'[e], stops, stops)
      <3> DEFINE old == chatJobs[e]
                 new == chatJobs'[e]
      <3>1. old \in ChatRecords /\ old.attempts \in Nat /\ Spent(old, stops - 1, stops)
        BY <1>0, <2>2
      <3>2. /\ new.attempts = old.attempts /\ new.state # "processing"
            /\ new.state = "queued" => old.state \in {"queued", "processing"}
        BY <2>1, <3>1 DEF Chat!Reconciled, ChatRecords
      <3> HIDE DEF old, new
      <3> DEFINE m == old.attempts
      <3>3. m \in Nat /\ m <= MaxAttempts + stops
        BY <3>1 DEF Spent
      <3>4. new.state = "queued" => m < MaxAttempts + (stops - 1) \/ m <= MaxAttempts + (stops - 1)
        BY <3>1, <3>2 DEF Spent
      <3> HIDE DEF m
      <3>5. new.state = "queued" => m < MaxAttempts + stops
        BY <1>0, <3>3, <3>4
      <3>6. new.attempts = m
        BY <3>2 DEF m
      <3> QED BY <3>2, <3>3, <3>5, <3>6 DEF Spent, new
    <2>4. stops' \in 0..MaxStops
      BY <1>0, <2>1
    <2> QED BY <1>0, <2>1, <2>2, <2>3, <2>4 DEF AttemptsSpent
  <1>15. CASE UNCHANGED chatVars
    BY <1>2, <1>15 DEF chatVars
  <1> QED BY <1>3, <1>4, <1>5, <1>6, <1>8, <1>9, <1>11, <1>12, <1>13, <1>14, <1>15
          DEF Chat!Next, Chat!Work

(* The invariants of the chat bridge hold its types.                       *)
LEMMA ChatIsTyped == ChatInv /\ AttemptsSpent => Chat!TypeOK
  <1> SUFFICES ASSUME ChatInv, AttemptsSpent PROVE Chat!TypeOK
    OBVIOUS
  <1> DEFINE Known == [state : {"absent", "queued", "processing", "succeeded", "failed"},
                       chat : Chats \cup {None}, attempts : 0..(MaxAttempts + MaxStops)]
  <1>1. ASSUME NEW e \in Events PROVE chatJobs[e] \in Known
    <2> DEFINE job == chatJobs[e]
               m == job.attempts
    <2>1. job \in ChatRecords
      BY DEF ChatInv, ChatTypes
    <2>2. Spent(job, Survived, stops) /\ stops \in 0..MaxStops
      BY DEF AttemptsSpent
    <2>3. m \in Nat /\ m <= MaxAttempts + stops
      BY <2>1, <2>2 DEF ChatRecords, Spent
    <2> HIDE DEF m
    <2>4. m \in 0..(MaxAttempts + MaxStops)
      BY <2>2, <2>3, LimitsAssumption
    <2> HIDE DEF job
    <2> QED BY <2>1, <2>4 DEF ChatRecords, m, job
  <1>2. chatJobs \in [Events -> Known]
    BY <1>1 DEF ChatInv, ChatTypes
  <1>3. \A w \in Workers : workers[w].at # "idle" => Chat!Event(w) \in Events
    BY DEF ChatInv, ChatTypes, Desks, Chat!Event
  <1>4. Len(wake) <= QueueSize
    BY DEF AttemptsSpent
  <1> QED BY <1>2, <1>3, <1>4 DEF Chat!TypeOK

-----------------------------------------------------------------------------
(* Types of all the parts, from what was shown of each.                    *)

TypeInv ==
    /\ focus \in Parts
    /\ JobInv
    /\ ApprovalInv /\ RequestsCounted
    /\ AttentionInv /\ DraftsBehind
    /\ AutomationInv /\ Timed
    /\ TeamInv /\ Teams!TypeOK
    /\ DeviceInv /\ WithinLimit(Daemon!Working)
    /\ ChatInv /\ AttemptsSpent
    /\ WindowInv /\ EditInv /\ PlanInv

(* At first every part is as its module says.                              *)
LEMMA TypesStart == Init => TypeInv
  <1>1. Init => focus \in Parts
    BY MovingAssumption DEF Init
  <1> QED BY <1>1, JobsStart, ApprovalsStart, RequestsStart, AttentionStarts, DraftsStart,
          SchedulesStart, TimesStart, TeamsStart, AgentsStart, DeviceStarts, WorkStarts,
          ChatStarts, AttemptsStart, WindowStarts, FilesStart, PlanStarts DEF TypeInv

(* A step of one part keeps what is known of each.                         *)
LEMMA TypesKept == TypeInv /\ [Next]_vars => TypeInv'
  <1> SUFFICES ASSUME TypeInv, [Next]_vars PROVE TypeInv'
    OBVIOUS
  <1> USE DEF TypeInv
  <1>1. focus' \in Parts
    BY FocusKept DEF Parts
  <1>2. JobInv' /\ AutomationInv' /\ Timed'
    BY StepsOfParts, JobsKept, SchedulesKept, TimesKept
  <1>3. ApprovalInv' /\ RequestsCounted'
    BY StepsOfParts, ApprovalsKept, RequestsKept
  <1>4. AttentionInv' /\ DraftsBehind'
    BY StepsOfParts, AttentionKept, DraftsKept
  <1>5. TeamInv' /\ Teams!TypeOK'
    BY StepsOfParts, TeamKept, AgentsAreTyped
  <1>6. DeviceInv' /\ WithinLimit(Daemon!Working')
    BY StepsOfParts, DeviceKept, WorkKept
  <1>7. ChatInv' /\ AttemptsSpent'
    BY StepsOfParts, ChatKept, AttemptsKept
  <1>8. WindowInv' /\ EditInv' /\ PlanInv'
    BY StepsOfParts, WindowKept, FilesKept, PlanKept
  <1> QED BY <1>1, <1>2, <1>3, <1>4, <1>5, <1>6, <1>7, <1>8

(* Every part of the control plane stays within its types and bounds: the  *)
(* state files pass the checks of their validators, no more remote runs    *)
(* are at work than the semaphore lets through, no chat job is attempted   *)
(* more often than the bridge allows and once for each stop, a tick leaves *)
(* no schedule more than an interval ahead, and a result is consumed at a  *)
(* revision the parent's history has.                                      *)
THEOREM EveryPartIsTyped == Spec => []TypeOK
  <1>1. TypeInv => TypeOK
    <2> SUFFICES ASSUME TypeInv PROVE TypeOK
      OBVIOUS
    <2>1. Jobs!TypeOK /\ Approvals!TypeOK
      BY JobsAreTyped, ApprovalsAreTyped DEF TypeInv
    <2>2. Attention!TypeOK /\ Automation!TypeOK
      BY InboxIsTyped, SchedulesAreTyped DEF TypeInv
    <2>3. Daemon!TypeOK /\ Chat!TypeOK
      BY DeviceIsTyped, ChatIsTyped DEF TypeInv
    <2>4. Window!TypeOK /\ Edits!TypeOK
      BY WindowIsTyped, FilesAreTyped DEF TypeInv
    <2>5. Plans!TypeOK
      BY DEF TypeInv, PlanInv
    <2> QED BY <2>1, <2>2, <2>3, <2>4, <2>5 DEF TypeInv, TypeOK
  <1> QED BY <1>1, TypesStart, TypesKept, PTL DEF Spec
=============================================================================
