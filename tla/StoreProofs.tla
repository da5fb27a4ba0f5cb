----------------------------- MODULE StoreProofs -----------------------------
(* Theorems about the schedules and the background jobs of the control     *)
(* plane, for any values of its constants: what they promise, and their    *)
(* types.                                                                  *)
EXTENDS ControlPlaneProofs

-----------------------------------------------------------------------------
(* Schedules.  At most one run of a schedule is under way, and every run   *)
(* after it was skipped.  Its tasks are those of its runs, and maybe the   *)
(* one of the next run, left by a tick that was cut off: then no run under *)
(* way has an open task.  A skipped run has a task only where a read       *)
(* failed, which led that task astray.                                     *)

RunStates == {"dispatched", "succeeded", "failed", "skipped"}

Items ==
    [status : {"absent", "active", "paused"}, next : Int, failures : Nat, runs : Seq(RunStates)]

Alone(item) ==
    \A n, m \in DOMAIN item.runs :
        item.runs[n] = "dispatched" /\ n < m => item.runs[m] = "skipped"

Good(item) == {n \in DOMAIN item.runs : item.runs[n] = "succeeded"}
Failed(item) == {n \in DOMAIN item.runs : item.runs[n] = "failed" /\ \A m \in Good(item) : m < n}

(* The failures counted are runs that failed since the last success.       *)
Counts(item) ==
    /\ Good(item) = {} \/ \E n \in Good(item) : \A m \in Good(item) : m <= n
    /\ item.failures <= Cardinality(Failed(item))
    /\ item.status = "active" => item.failures < Threshold
    /\ item.status = "absent" => item.runs = <<>> /\ item.failures = 0

(* The tasks are those of the runs.                                        *)
Fits(item, ts) ==
    /\ DOMAIN ts \subseteq 1..(Len(item.runs) + 1)
    /\ \A n \in DOMAIN item.runs : item.runs[n] # "skipped" => n \in DOMAIN ts
    /\ \A n \in DOMAIN item.runs : item.runs[n] \in {"succeeded", "failed"} => ts[n] # "open"
    /\ Len(item.runs) + 1 \in DOMAIN ts =>
          \A n \in DOMAIN item.runs : item.runs[n] = "dispatched" => ts[n] # "open"

Sound(item, ts) == item \in Items /\ Alone(item) /\ Counts(item) /\ Fits(item, ts)

Ticks == [at : Int, todo : SUBSET Automations, copy : [Automations -> Items]]

AutomationInv ==
    /\ autos \in [Automations -> Items] /\ DOMAIN tasks = Automations
    /\ \A a \in Automations : Sound(autos[a], tasks[a])
    /\ tick # Automation!NoTick =>
          /\ tick \in Ticks
          /\ \A a \in Automations : Sound(tick.copy[a], tasks[a])
          /\ \A a \in tick.todo : tick.copy[a] = autos[a]

(* The module of schedules counts as every other.                          *)
LEMMA SchedulesCount == ASSUME NEW S PROVE Automation!Cardinality(S) = Cardinality(S)
  BY DEF Automation!Cardinality, Cardinality, Automation!IsFiniteSet, IsFiniteSet

(* The runs of a schedule, and the failed ones among them, can be counted. *)
LEMMA RunsCount ==
  ASSUME NEW item \in Items
  PROVE  /\ DOMAIN item.runs = 1..Len(item.runs) /\ Len(item.runs) \in Nat
         /\ IsFiniteSet(Failed(item)) /\ Cardinality(Failed(item)) \in Nat
  <1>1. DOMAIN item.runs = 1..Len(item.runs) /\ Len(item.runs) \in Nat
    BY LenProperties DEF Items
  <1>2. IsFiniteSet(1..Len(item.runs))
    BY <1>1, FS_Interval
  <1>3. Failed(item) \subseteq 1..Len(item.runs)
    BY <1>1 DEF Failed
  <1> QED BY <1>1, <1>2, <1>3, FS_Subset, FS_CardinalityType

(* A run that ended is settled, once, and it is the last that was under    *)
(* way: a failure after the last success counts, a success clears the      *)
(* failures.                                                               *)
LEMMA SettledSound ==
  ASSUME NEW item \in Items, NEW ts, Sound(item, ts), NEW n \in Automation!Dispatched(item),
         ts[n] # "open", NEW success \in BOOLEAN
  PROVE  /\ Sound(Automation!Settled(item, n, success), ts)
         /\ Automation!Dispatched(Automation!Settled(item, n, success)) = {}
         /\ Len(Automation!Settled(item, n, success).runs) = Len(item.runs)
  <1> DEFINE state == IF success THEN "succeeded" ELSE "failed"
             next == Automation!Settled(item, n, success)
  <1>1. /\ next.runs = [item.runs EXCEPT ![n] = state] /\ next.next = item.next
        /\ next.failures = IF success THEN 0 ELSE item.failures + 1
        /\ next.status = IF ~success /\ item.failures + 1 >= Threshold THEN "paused" ELSE item.status
        /\ next = [item EXCEPT !.runs = next.runs, !.failures = next.failures, !.status = next.status]
    BY DEF Items, Automation!Settled
  <1>2. n \in DOMAIN item.runs /\ item.runs[n] = "dispatched" /\ item.failures \in Nat
        /\ item.status \in {"active", "paused"}
    <2>1. n \in DOMAIN item.runs /\ item.runs[n] = "dispatched" /\ item.failures \in Nat
      BY DEF Automation!Dispatched, Items
    <2> QED BY <2>1 DEF Items, Sound, Counts
  <1> HIDE DEF next, state
  <1>3. DOMAIN item.runs = 1..Len(item.runs) /\ Len(item.runs) \in Nat
    BY RunsCount
  <1>4. /\ next.runs \in Seq(RunStates) /\ Len(next.runs) = Len(item.runs)
        /\ DOMAIN next.runs = DOMAIN item.runs
    <2>1. item.runs \in Seq(RunStates) /\ state \in RunStates
      BY DEF Items, RunStates, state
    <2> QED BY <1>1, <1>2, <1>3, <2>1, ExceptSeq
  <1>5. /\ next.runs[n] = state
        /\ \A m \in DOMAIN item.runs : m # n => next.runs[m] = item.runs[m]
    BY <1>1, <1>2
  <1>6. next \in Items
    <2>1. next.failures \in Nat /\ next.status \in {"absent", "active", "paused"} /\ next.next \in Int
      BY <1>1, <1>2 DEF Items
    <2> QED BY <1>1, <1>4, <2>1 DEF Items
  <1>7. \A m \in DOMAIN item.runs : item.runs[m] = "dispatched" => m = n
    BY <1>2, <1>3 DEF Sound, Alone
  <1>8. Alone(next) /\ Automation!Dispatched(next) = {}
    BY <1>4, <1>5, <1>7 DEF Alone, Automation!Dispatched, state
  <1>9. Fits(next, ts)
    BY <1>2, <1>4, <1>5, <1>7 DEF Sound, Fits, state
  <1>10. Counts(next)
    <2>1. CASE success
      <3>1. Good(next) = Good(item) \cup {n}
        BY <1>2, <1>4, <1>5, <2>1 DEF Good, state
      <3>2. \A m \in Good(item) : m <= n
        BY <1>2, <1>3 DEF Good, Sound, Alone
      <3>3. next.failures = 0 /\ next.status = item.status
        BY <1>1, <2>1
      <3>4. Cardinality(Failed(next)) \in Nat
        BY <1>6, RunsCount
      <3>5. \E k \in Good(next) : \A m \in Good(next) : m <= k
        <4>1. n \in Nat
          BY <1>2, <1>3
        <4>2. n \in Good(next) /\ \A m \in Good(next) : m <= n
          BY <3>1, <3>2, <4>1
        <4> QED BY <4>2
      <3>6. 0 <= Cardinality(Failed(next)) /\ 0 < Threshold
        BY <3>4, SchedulesAssumption
      <3> QED BY <1>2, <3>3, <3>5, <3>6 DEF Counts
    <2>2. CASE ~success
      <3>1. Good(next) = Good(item)
        BY <1>2, <1>4, <1>5, <2>2 DEF Good, state
      <3>2. \A m \in Good(item) : m < n
        BY <1>2, <1>3 DEF Good, Sound, Alone
      <3>3. Failed(next) = Failed(item) \cup {n} /\ n \notin Failed(item)
        <4>1. \A m \in DOMAIN item.runs :
                 m \in Failed(next) <=> next.runs[m] = "failed" /\ \A k \in Good(item) : k < m
          BY <1>4, <3>1 DEF Failed
        <4>2. \A m \in DOMAIN item.runs :
                 m \in Failed(item) <=> item.runs[m] = "failed" /\ \A k \in Good(item) : k < m
          BY DEF Failed
        <4>3. next.runs[n] = "failed"
          BY <1>5, <2>2 DEF state
        <4>4. \A m \in DOMAIN item.runs : m \in Failed(next) <=> m \in Failed(item) \/ m = n
          BY <1>2, <1>5, <3>2, <4>1, <4>2, <4>3
        <4>5. Failed(next) \subseteq DOMAIN item.runs /\ Failed(item) \subseteq DOMAIN item.runs
          BY <1>4 DEF Failed
        <4> QED BY <1>2, <4>2, <4>4, <4>5
      <3>4. Cardinality(Failed(next)) = Cardinality(Failed(item)) + 1
        BY <3>3, RunsCount, FS_AddElement
      <3>5. next.failures = item.failures + 1 /\ item.failures <= Cardinality(Failed(item))
        BY <1>1, <2>2 DEF Sound, Counts
      <3>6. next.failures <= Cardinality(Failed(next))
        BY <1>2, <3>4, <3>5, RunsCount
      <3>7. next.status # "absent" /\ (next.status = "active" => next.failures < Threshold)
        BY <1>1, <1>2, <2>2, SchedulesAssumption
      <3> QED BY <3>1, <3>6, <3>7 DEF Sound, Counts
    <2> QED BY <2>1, <2>2
  <1> QED BY <1>4, <1>6, <1>8, <1>9, <1>10 DEF Sound, next

(* The last run under way is the only one.                                 *)
LEMMA LatestUnderWay ==
  ASSUME NEW item \in Items, Alone(item), Automation!Dispatched(item) # {}
  PROVE  /\ Automation!Latest(Automation!Dispatched(item)) \in Automation!Dispatched(item)
         /\ Automation!Dispatched(item) = {Automation!Latest(Automation!Dispatched(item))}
  <1>1. PICK n : n \in Automation!Dispatched(item)
    OBVIOUS
  <1>2. Automation!Dispatched(item) = {n} /\ n \in Nat
    BY <1>1, RunsCount DEF Alone, Automation!Dispatched
  <1>3. Automation!Latest({n}) = n
    BY <1>2 DEF Automation!Latest
  <1> QED BY <1>2, <1>3

(* Looking at the task of the run under way keeps a schedule sound, and a  *)
(* run that is still under way has an open task.                           *)
LEMMA TidySound ==
  ASSUME NEW a \in Automations, NEW item \in Items, Sound(item, tasks[a])
  PROVE  /\ Sound(Automation!Finalized(a, item), tasks[a])
         /\ Len(Automation!Finalized(a, item).runs) = Len(item.runs)
         /\ \A n \in Automation!Dispatched(Automation!Finalized(a, item)) : tasks[a][n] = "open"
         /\ Automation!Dispatched(Automation!Finalized(a, item)) = {} =>
               \A n \in Automation!Dispatched(item) : tasks[a][n] # "open"
  <1> DEFINE n == Automation!Latest(Automation!Dispatched(item))
  <1>1. CASE Automation!Dispatched(item) = {}
    BY <1>1 DEF Automation!Finalized
  <1>2. CASE Automation!Dispatched(item) # {} /\ tasks[a][n] = "open"
    <2>1. Automation!Finalized(a, item) = item
      BY <1>2 DEF Automation!Finalized
    <2>2. Automation!Dispatched(item) = {n}
      BY <1>2, LatestUnderWay DEF Sound
    <2> QED BY <1>2, <2>1, <2>2
  <1>3. CASE Automation!Dispatched(item) # {} /\ tasks[a][n] # "open"
    <2>1. Automation!Finalized(a, item) = Automation!Settled(item, n, tasks[a][n] = "done")
      BY <1>3 DEF Automation!Finalized
    <2>2. Automation!Dispatched(item) = {n}
      BY <1>3, LatestUnderWay DEF Sound
    <2> HIDE DEF n
    <2> DEFINE success == tasks[a][n] = "done"
    <2>3. success \in BOOLEAN
      OBVIOUS
    <2> HIDE DEF success
    <2>4. /\ Sound(Automation!Settled(item, n, success), tasks[a])
          /\ Automation!Dispatched(Automation!Settled(item, n, success)) = {}
          /\ Len(Automation!Settled(item, n, success).runs) = Len(item.runs)
      BY <1>3, <2>2, <2>3, SettledSound
    <2> QED BY <1>3, <2>1, <2>2, <2>4 DEF success
  <1> QED BY <1>1, <1>2, <1>3

(* Recording an occurrence keeps a schedule sound: it is skipped, or it is *)
(* dispatched with its task when no run is under way.                      *)
LEMMA RecordedSound ==
  ASSUME NEW item \in Items, NEW ts, Sound(item, ts), NEW state \in RunStates, NEW at \in Int,
         item.status # "absent", NEW us,
         \/ state = "skipped" /\ us = ts
         \/ /\ state = "dispatched" /\ Automation!Dispatched(item) = {}
            /\ DOMAIN us = DOMAIN ts \cup {Len(item.runs) + 1}
            /\ \A n \in DOMAIN ts : us[n] = ts[n]
  PROVE  /\ Sound(Automation!Recorded(item, state, at), us)
         /\ Len(Automation!Recorded(item, state, at).runs) = Len(item.runs) + 1
  <1> DEFINE next == Automation!Recorded(item, state, at)
  <1>1. /\ next.runs = Append(item.runs, state) /\ next.failures = item.failures
        /\ next.status = item.status /\ next \in Items
    <2> DEFINE added == [item EXCEPT !.runs = Append(@, state)]
    <2>1. /\ added.runs = Append(item.runs, state) /\ added.failures = item.failures
          /\ added.status = item.status /\ added \in Items
      <3>1. Append(item.runs, state) \in Seq(RunStates)
        BY AppendProperties DEF Items
      <3> QED BY <3>1 DEF Items
    <2> HIDE DEF added
    <2>2. next = Automation!Advanced(added, at)
      BY DEF Automation!Recorded, added
    <2> DEFINE later == IF added.next > at THEN added.next
                        ELSE added.next + Every * ((at - added.next) \div Every + 1)
    <2>3. next = [added EXCEPT !.next = later]
      BY <2>2 DEF Automation!Advanced
    <2>4. later \in Int
      BY <2>1, SchedulesAssumption DEF Items
    <2> HIDE DEF later, next
    <2> QED BY <2>1, <2>3, <2>4 DEF Items
  <1> HIDE DEF next
  <1>2. /\ DOMAIN item.runs = 1..Len(item.runs) /\ Len(item.runs) \in Nat
        /\ item.runs \in Seq(RunStates) /\ item.failures \in Nat
    BY RunsCount DEF Items
  <1>3. /\ next.runs \in Seq(RunStates) /\ Len(next.runs) = Len(item.runs) + 1
        /\ next.runs[Len(item.runs) + 1] = state
        /\ \A n \in DOMAIN item.runs : next.runs[n] = item.runs[n]
    BY <1>1, <1>2, AppendProperties
  <1>4. DOMAIN next.runs = 1..(Len(item.runs) + 1)
    BY <1>3, LenProperties
  <1>5. Alone(next)
    <2> DEFINE top == Len(item.runs) + 1
    <2>1. /\ DOMAIN next.runs = 1..top /\ next.runs[top] = state /\ DOMAIN item.runs = 1..(top - 1)
          /\ \A n \in DOMAIN item.runs : next.runs[n] = item.runs[n]
          /\ top \in Nat
      BY <1>2, <1>3, <1>4
    <2>2. \A n, m \in DOMAIN item.runs : item.runs[n] = "dispatched" /\ n < m => item.runs[m] = "skipped"
      BY DEF Sound, Alone
    <2>3. state = "skipped" \/ \A n \in DOMAIN item.runs : item.runs[n] # "dispatched"
      BY DEF Automation!Dispatched
    <2> HIDE DEF top
    <2> SUFFICES ASSUME NEW n \in DOMAIN next.runs, NEW m \in DOMAIN next.runs,
                        next.runs[n] = "dispatched", n < m
                 PROVE  next.runs[m] = "skipped"
      BY DEF Alone
    <2>4. n \in DOMAIN item.runs /\ (m = top \/ m \in DOMAIN item.runs)
      BY <2>1
    <2>5. CASE m = top
      BY <2>1, <2>3, <2>4, <2>5
    <2>6. CASE m \in DOMAIN item.runs
      BY <2>1, <2>2, <2>4, <2>6
    <2> QED BY <2>4, <2>5, <2>6
  <1>6. state \notin {"succeeded", "failed"}
    OBVIOUS
  <1>7. Good(next) = Good(item) /\ Failed(next) = Failed(item)
    <2>1. Good(next) = Good(item)
      BY <1>2, <1>3, <1>4, <1>6 DEF Good
    <2> QED BY <1>2, <1>3, <1>4, <1>6, <2>1 DEF Failed
  <1>8. Counts(next)
    BY <1>1, <1>7 DEF Sound, Counts
  <1>9. Fits(next, us)
    <2> DEFINE top == Len(item.runs) + 1
    <2>1. /\ top \in Nat /\ top \notin DOMAIN item.runs
          /\ DOMAIN next.runs = DOMAIN item.runs \cup {top} /\ DOMAIN next.runs = 1..top
          /\ Len(next.runs) = top /\ next.runs[top] = state
          /\ \A n \in DOMAIN item.runs : next.runs[n] = item.runs[n]
      BY <1>2, <1>3, <1>4
    <2>2. /\ DOMAIN ts \subseteq 1..top
          /\ \A n \in DOMAIN item.runs : item.runs[n] # "skipped" => n \in DOMAIN ts
          /\ \A n \in DOMAIN item.runs :
                item.runs[n] \in {"succeeded", "failed"} => ts[n] # "open"
          /\ top \in DOMAIN ts =>
                \A n \in DOMAIN item.runs : item.runs[n] = "dispatched" => ts[n] # "open"
      BY DEF Sound, Fits
    <2> HIDE DEF top
    <2>3. CASE state = "skipped"
      <3>1. us = ts
        BY <2>3
      <3>2. DOMAIN us \subseteq 1..top
        BY <2>2, <3>1
      <3>3. DOMAIN us \subseteq 1..(top + 1) /\ top + 1 \notin DOMAIN us
        BY <2>1, <3>2
      <3>4. \A n \in DOMAIN next.runs : next.runs[n] # "skipped" => n \in DOMAIN us
        BY <2>1, <2>2, <2>3, <3>1
      <3>5. \A n \in DOMAIN next.runs : next.runs[n] \in {"succeeded", "failed"} => us[n] # "open"
        BY <2>1, <2>2, <2>3, <3>1
      <3> QED BY <2>1, <3>3, <3>4, <3>5 DEF Fits
    <2>4. CASE state = "dispatched"
      <3>1. /\ DOMAIN us = DOMAIN ts \cup {top} /\ \A n \in DOMAIN ts : us[n] = ts[n]
            /\ \A n \in DOMAIN item.runs : item.runs[n] # "dispatched"
        BY <2>4 DEF Automation!Dispatched, top
      <3>2. DOMAIN us \subseteq 1..top
        BY <2>1, <2>2, <3>1
      <3>3. DOMAIN us \subseteq 1..(top + 1) /\ top + 1 \notin DOMAIN us
        BY <2>1, <3>2
      <3>4. \A n \in DOMAIN next.runs : next.runs[n] # "skipped" => n \in DOMAIN us
        BY <2>1, <2>2, <2>4, <3>1
      <3>5. \A n \in DOMAIN next.runs : next.runs[n] \in {"succeeded", "failed"} => us[n] # "open"
        BY <2>1, <2>2, <2>4, <3>1
      <3> QED BY <2>1, <3>3, <3>4, <3>5 DEF Fits
    <2> QED BY <2>3, <2>4
  <1> QED BY <1>1, <1>3, <1>5, <1>8, <1>9 DEF Sound, next

(* A task that ends keeps a schedule sound.                                *)
LEMMA EndedSound ==
  ASSUME NEW item \in Items, NEW ts, Sound(item, ts), NEW us, DOMAIN us = DOMAIN ts,
         \A n \in DOMAIN ts : us[n] = ts[n] \/ us[n] # "open"
  PROVE  Sound(item, us)
  BY DEF Sound, Fits

(* The task of the next run, created by a tick that may yet be cut off,    *)
(* keeps the schedule sound.                                               *)
LEMMA LeftSound ==
  ASSUME NEW item \in Items, NEW ts, Sound(item, ts), NEW us,
         \A n \in Automation!Dispatched(item) : ts[n] # "open",
         DOMAIN us = DOMAIN ts \cup {Len(item.runs) + 1}, \A n \in DOMAIN ts : us[n] = ts[n]
  PROVE  Sound(item, us)
  <1>1. DOMAIN item.runs = 1..Len(item.runs) /\ Len(item.runs) \in Nat
    BY RunsCount
  <1>2. Fits(item, us)
    BY <1>1 DEF Sound, Fits, Automation!Dispatched
  <1> QED BY <1>2 DEF Sound

(* There is no schedule at first.                                          *)
LEMMA SchedulesStart == Init => AutomationInv
  <1> SUFFICES ASSUME Init PROVE AutomationInv
    OBVIOUS
  <1>1. autos = [a \in Automations |-> Automation!Absent] /\ tasks = [a \in Automations |-> <<>>]
        /\ tick = Automation!NoTick
    BY DEF Init, Automation!Init
  <1> DEFINE item == Automation!Absent
  <1>2. item \in Items /\ item.runs = <<>> /\ item.failures = 0 /\ item.status = "absent"
    BY EmptySeq DEF Automation!Absent, Items
  <1> HIDE DEF item
  <1>3. Len(item.runs) = 0 /\ DOMAIN item.runs = {}
    BY <1>2
  <1>4. Cardinality(Failed(item)) \in Nat
    BY <1>2, RunsCount
  <1>5. Counts(item)
    BY <1>2, <1>3, <1>4 DEF Counts, Good
  <1>6. Alone(item) /\ Fits(item, <<>>)
    BY <1>3 DEF Alone, Fits
  <1>7. Sound(item, <<>>)
    BY <1>2, <1>5, <1>6 DEF Sound
  <1> QED BY <1>1, <1>2, <1>7 DEF AutomationInv, item

(* A step of a tick that settles or records a schedule keeps the others.   *)
LEMMA PutSound ==
  ASSUME AutomationInv, NEW a \in Automations, Automation!Turn(a), tick # Automation!NoTick,
         NEW item, Automation!Put(a, item), DOMAIN tasks' = Automations,
         \A b \in Automations : b # a => tasks'[b] = tasks[b],
         Sound(item, tasks'[a]), Sound(autos[a], tasks'[a])
  PROVE  AutomationInv'
  <1>1. /\ tick' = [tick EXCEPT !.todo = @ \ {a}, !.copy[a] = item] /\ autos' = autos
        /\ tick \in Ticks /\ item \in Items
    BY DEF Automation!Put, AutomationInv, Sound
  <1>2. /\ tick'.at = tick.at /\ tick'.todo = tick.todo \ {a}
        /\ tick'.copy = [tick.copy EXCEPT ![a] = item]
    BY <1>1 DEF Ticks
  <1>3. tick' \in Ticks
    BY <1>1 DEF Ticks
  <1>4. \A b \in Automations : tick'.copy[b] = IF b = a THEN item ELSE tick.copy[b]
    BY <1>1, <1>2 DEF Ticks
  <1>5. \A b \in Automations : Sound(autos[b], tasks'[b]) /\ Sound(tick'.copy[b], tasks'[b])
    BY <1>4 DEF AutomationInv
  <1>6. \A b \in tick'.todo : tick'.copy[b] = autos[b]
    BY <1>1, <1>2, <1>4 DEF AutomationInv, Ticks
  <1> QED BY <1>1, <1>3, <1>5, <1>6 DEF AutomationInv

(* Every operation, tick step, cut and task keeps the invariant.           *)
LEMMA SchedulesKept == AutomationInv /\ [Automation!Next]_automationVars => AutomationInv'
  <1> SUFFICES ASSUME AutomationInv, [Automation!Next]_automationVars PROVE AutomationInv'
    OBVIOUS
  <1>1. /\ autos \in [Automations -> Items] /\ DOMAIN tasks = Automations
        /\ \A a \in Automations : Sound(autos[a], tasks[a]) /\ autos[a] \in Items
    BY DEF AutomationInv
  <1>2. ASSUME tick' = Automation!NoTick, tasks' = tasks, autos' \in [Automations -> Items],
               \A a \in Automations : Sound(autos'[a], tasks[a])
        PROVE  AutomationInv'
    BY <1>1, <1>2 DEF AutomationInv, Automation!NoTick
  <1>3. ASSUME NEW a \in Automations, NEW item \in Items, Sound(item, tasks[a]),
               Automation!Quiet, tick' = tick, tasks' = tasks, autos' = [autos EXCEPT ![a] = item]
        PROVE  AutomationInv'
    BY <1>1, <1>2, <1>3 DEF Automation!Quiet
  <1>4. CASE UNCHANGED automationVars
    BY <1>4 DEF automationVars, AutomationInv
  <1>5. ASSUME NEW a \in Automations, NEW start \in 0..LastTime, Automation!Create(a, start)
        PROVE  AutomationInv'
    <2> DEFINE item == [Automation!Absent EXCEPT !.status = "active", !.next = start]
    <2>1. item.runs = <<>> /\ item.failures = 0 /\ item.status = "active" /\ item \in Items
      <3>1. /\ Automation!Absent \in Items /\ Automation!Absent.runs = <<>>
            /\ Automation!Absent.failures = 0
        BY EmptySeq DEF Automation!Absent, Items
      <3>2. start \in Int
        OBVIOUS
      <3> DEFINE from == [Automation!Absent EXCEPT !.status = "active"]
      <3>3. from \in Items /\ from.runs = <<>> /\ from.failures = 0 /\ from.status = "active"
        BY <3>1 DEF Items
      <3>4. item = [from EXCEPT !.next = start]
        OBVIOUS
      <3> HIDE DEF from, item
      <3> QED BY <3>2, <3>3, <3>4 DEF Items
    <2>2. autos[a].runs = <<>> /\ Sound(autos[a], tasks[a]) /\ autos[a] \in Items
      BY <1>1, <1>5 DEF Automation!Create, Sound, Counts
    <2>3. autos' = [autos EXCEPT ![a] = item] /\ Automation!Quiet /\ tick' = tick /\ tasks' = tasks
      BY <1>5 DEF Automation!Create
    <2> HIDE DEF item
    <2>4. Fits(item, tasks[a]) /\ Alone(item)
      BY <2>1, <2>2 DEF Sound, Fits, Alone
    <2>5. Counts(item)
      <3>1. Cardinality(Failed(item)) \in Nat
        BY <2>1, RunsCount
      <3> QED BY <2>1, <3>1, SchedulesAssumption DEF Counts, Good
    <2> QED BY <1>3, <2>1, <2>3, <2>4, <2>5 DEF Sound
  <1>6. ASSUME NEW a \in Automations, NEW n \in DOMAIN autos[a].runs, NEW success \in BOOLEAN,
               Automation!Report(a, n, success)
        PROVE  AutomationInv'
    <2>1. n \in Automation!Dispatched(autos[a]) /\ tasks[a][n] # "open"
          /\ autos' = [autos EXCEPT ![a] = Automation!Settled(@, n, success)]
          /\ Automation!Quiet /\ tick' = tick /\ tasks' = tasks
      BY <1>6 DEF Automation!Report
    <2>2. Sound(Automation!Settled(autos[a], n, success), tasks[a])
      BY <1>1, <2>1, SettledSound
    <2> QED BY <1>1, <1>3, <2>1, <2>2 DEF Sound
  <1>7. ASSUME NEW a \in Automations, NEW status \in {"active", "paused"},
               Automation!SetStatus(a, status)
        PROVE  AutomationInv'
    <2> DEFINE item == [autos[a] EXCEPT !.status = status,
                                        !.failures = IF status = "active" THEN 0 ELSE @]
    <2>1. /\ item \in Items /\ item.runs = autos[a].runs /\ item.status = status
          /\ item.failures = IF status = "active" THEN 0 ELSE autos[a].failures
      BY <1>1 DEF Items
    <2>2. autos' = [autos EXCEPT ![a] = item] /\ Automation!Quiet /\ tick' = tick /\ tasks' = tasks
      BY <1>1, <1>7 DEF Automation!SetStatus
    <2> HIDE DEF item
    <2>3. Fits(item, tasks[a]) /\ Alone(item)
      BY <1>1, <2>1 DEF Sound, Fits, Alone
    <2>4. Counts(item)
      <3>1. Cardinality(Failed(item)) \in Nat
        BY <2>1, RunsCount
      <3>2. Failed(item) = Failed(autos[a]) /\ Good(item) = Good(autos[a])
        BY <2>1 DEF Failed, Good
      <3> QED BY <1>1, <2>1, <3>1, <3>2, SchedulesAssumption DEF Sound, Counts
    <2> QED BY <1>3, <2>1, <2>2, <2>3, <2>4 DEF Sound
  <1>8. ASSUME NEW a \in Automations, NEW n \in DOMAIN tasks[a], NEW state \in {"done", "closed"},
               Automation!TaskEnds(a, n, state)
        PROVE  AutomationInv'
    <2>1. tasks' = [tasks EXCEPT ![a][n] = state] /\ UNCHANGED <<autos, tick>>
      BY <1>8 DEF Automation!TaskEnds
    <2>2. /\ DOMAIN tasks' = Automations
          /\ \A b \in Automations :
                /\ DOMAIN tasks'[b] = DOMAIN tasks[b]
                /\ \A m \in DOMAIN tasks[b] : tasks'[b][m] = tasks[b][m] \/ tasks'[b][m] # "open"
      BY <1>1, <2>1
    <2>3. \A b \in Automations : \A item \in Items : Sound(item, tasks[b]) => Sound(item, tasks'[b])
      BY <2>2, EndedSound
    <2> QED BY <2>1, <2>2, <2>3 DEF AutomationInv, Ticks
  <1>9. ASSUME NEW at \in 0..LastTime, Automation!Tick(at) PROVE AutomationInv'
    <2> DEFINE due == {a \in Automations : Automation!Due(autos[a], at)}
    <2>1. tick' = [at |-> at, todo |-> due, copy |-> autos] /\ UNCHANGED <<autos, tasks>>
      BY <1>9 DEF Automation!Tick
    <2>2. tick' \in Ticks /\ tick'.copy = autos
      BY <1>1, <2>1 DEF Ticks
    <2> QED BY <1>1, <2>1, <2>2 DEF AutomationInv, Ticks
  <1>10. ASSUME NEW a \in Automations, Automation!TickStep(a) PROVE AutomationInv'
    <2> DEFINE tidy == Automation!Tidy(a)
    <2>1. Automation!Turn(a)
      BY <1>10 DEF Automation!TickStep, Automation!TickPauses, Automation!TickSkips,
          Automation!TickMisreads, Automation!TickDispatches
    <2>2. tick # Automation!NoTick
      BY <2>1 DEF Automation!Turn, Automation!NoTick
    <2>3. tick \in Ticks /\ tick.copy[a] = autos[a]
      BY <2>1, <2>2 DEF AutomationInv, Automation!Turn
    <2>4. tidy = Automation!Finalized(a, autos[a])
      BY <2>3 DEF Automation!Tidy
    <2>5. /\ Sound(tidy, tasks[a]) /\ tidy \in Items /\ Len(tidy.runs) = Len(autos[a].runs)
          /\ \A n \in Automation!Dispatched(tidy) : tasks[a][n] = "open"
          /\ Automation!Dispatched(tidy) = {} =>
                \A n \in Automation!Dispatched(autos[a]) : tasks[a][n] # "open"
      BY <1>1, <2>4, TidySound DEF Sound
    <2> HIDE DEF tidy
    <2>6. CASE Automation!TickPauses(a)
      <3>1. Automation!Put(a, tidy) /\ tasks' = tasks
        BY <2>6 DEF Automation!TickPauses, tidy
      <3> QED BY <1>1, <2>1, <2>2, <2>5, <3>1, PutSound
    <2>7. CASE Automation!TickSkips(a)
      <3> DEFINE item == Automation!Recorded(tidy, "skipped", tick.at)
      <3>1. /\ Automation!Put(a, item) /\ tasks' = tasks /\ tidy.status = "active"
            /\ Automation!Dispatched(tidy) # {}
        BY <2>7 DEF Automation!TickSkips, tidy
      <3>2. Sound(item, tasks[a])
        <4>1. "skipped" \in RunStates /\ tick.at \in Int
          BY <2>3 DEF RunStates, Ticks
        <4> QED BY <2>5, <3>1, <4>1, RecordedSound
      <3> HIDE DEF item
      <3> QED BY <1>1, <2>1, <2>2, <3>1, <3>2, PutSound
    <2>8. CASE Automation!TickMisreads(a)
      <3> DEFINE item == Automation!Recorded(autos[a], "skipped", tick.at)
      <3>1. /\ Automation!Put(a, item) /\ tasks' = tasks /\ Automation!Dispatched(autos[a]) # {}
        BY <2>3, <2>8 DEF Automation!TickMisreads
      <3>2. autos[a].status # "absent"
        <4>1. autos[a].runs # <<>>
          BY <3>1 DEF Automation!Dispatched
        <4> QED BY <1>1, <4>1 DEF Sound, Counts
      <3>3. Sound(item, tasks[a])
        <4>1. "skipped" \in RunStates /\ tick.at \in Int
          BY <2>3 DEF RunStates, Ticks
        <4> QED BY <1>1, <3>2, <4>1, RecordedSound
      <3> HIDE DEF item
      <3> QED BY <1>1, <2>1, <2>2, <3>1, <3>3, PutSound
    <2>9. CASE Automation!TickDispatches(a)
      <3> DEFINE item == Automation!Recorded(tidy, "dispatched", tick.at)
                 n == Len(tidy.runs) + 1
                 us == [m \in DOMAIN tasks[a] \cup {n} |->
                           IF m \in DOMAIN tasks[a] THEN tasks[a][m] ELSE "open"]
      <3>1. /\ Automation!Put(a, item) /\ tidy.status = "active" /\ Automation!Dispatched(tidy) = {}
            /\ tasks' = [tasks EXCEPT ![a] = us]
        BY <2>9 DEF Automation!TickDispatches, tidy
      <3>2. DOMAIN us = DOMAIN tasks[a] \cup {n} /\ \A m \in DOMAIN tasks[a] : us[m] = tasks[a][m]
        OBVIOUS
      <3> HIDE DEF us
      <3>3. Sound(item, us)
        <4>1. "dispatched" \in RunStates /\ tick.at \in Int
          BY <2>3 DEF RunStates, Ticks
        <4> QED BY <2>5, <3>1, <3>2, <4>1, RecordedSound
      <3>4. Sound(autos[a], us)
        <4> DEFINE old == autos[a]
                   ts == tasks[a]
        <4>1. \A m \in Automation!Dispatched(old) : ts[m] # "open"
          BY <2>5, <3>1
        <4>2. DOMAIN us = DOMAIN ts \cup {Len(old.runs) + 1}
          BY <2>5, <3>2
        <4>3. old \in Items /\ Sound(old, ts)
          BY <1>1
        <4>4. \A m \in DOMAIN ts : us[m] = ts[m]
          BY <3>2
        <4> HIDE DEF item, n, old, ts
        <4>5. Sound(old, us)
          BY <4>1, <4>2, <4>3, <4>4, LeftSound
        <4> QED BY <4>5 DEF old
      <3> HIDE DEF item, n
      <3>5. /\ DOMAIN tasks' = Automations /\ tasks'[a] = us
            /\ \A b \in Automations : b # a => tasks'[b] = tasks[b]
        BY <1>1, <3>1
      <3> QED BY <2>1, <2>2, <3>1, <3>3, <3>4, <3>5, PutSound
    <2> QED BY <1>10, <2>6, <2>7, <2>9, <2>8 DEF Automation!TickStep
  <1>11. CASE Automation!TickEnds
    BY <1>2, <1>11 DEF Automation!TickEnds, AutomationInv, Ticks
  <1>12. CASE Automation!TickIsCut
    BY <1>1, <1>2, <1>12 DEF Automation!TickIsCut
  <1> QED BY <1>4, <1>5, <1>6, <1>7, <1>8, <1>9, <1>10, <1>11, <1>12 DEF Automation!Next, Automation!Owner

(* The tasks of skipped runs, led astray by reads that failed.             *)
Strays(item, ts) == {n \in DOMAIN item.runs : n \in DOMAIN ts /\ item.runs[n] = "skipped"}

Few(item, ts, many) == Cardinality(Strays(item, ts)) <= many

StraysInv ==
    /\ misreads \in Nat /\ \A a \in Automations : Few(autos[a], tasks[a], misreads)
    /\ tick # Automation!NoTick => \A a \in Automations : Few(tick.copy[a], tasks[a], misreads)

(* The tasks led astray can be counted.                                    *)
LEMMA StraysCount ==
  ASSUME NEW item \in Items, NEW ts
  PROVE  IsFiniteSet(Strays(item, ts)) /\ Cardinality(Strays(item, ts)) \in Nat
  <1>1. DOMAIN item.runs = 1..Len(item.runs) /\ Len(item.runs) \in Nat
    BY RunsCount
  <1>2. IsFiniteSet(1..Len(item.runs))
    BY <1>1, FS_Interval
  <1>3. Strays(item, ts) \subseteq 1..Len(item.runs)
    BY <1>1 DEF Strays
  <1> QED BY <1>2, <1>3, FS_Subset, FS_CardinalityType

(* Settling a run that was under way, or tidying, leads no task astray.    *)
LEMMA TidyStrays ==
  ASSUME NEW item \in Items, NEW ts
  PROVE  /\ \A n \in Automation!Dispatched(item) : \A success \in BOOLEAN :
               Strays(Automation!Settled(item, n, success), ts) = Strays(item, ts)
         /\ \A a \in Automations : Sound(item, tasks[a]) =>
               Strays(Automation!Finalized(a, item), ts) = Strays(item, ts)
  <1>1. ASSUME NEW n \in Automation!Dispatched(item), NEW success \in BOOLEAN
        PROVE  Strays(Automation!Settled(item, n, success), ts) = Strays(item, ts)
    <2> DEFINE next == Automation!Settled(item, n, success)
               state == IF success THEN "succeeded" ELSE "failed"
    <2>1. next.runs = [item.runs EXCEPT ![n] = state]
      BY DEF Items, Automation!Settled
    <2>2. item.runs[n] = "dispatched" /\ state # "skipped" /\ n \in DOMAIN item.runs
      BY DEF Automation!Dispatched
    <2> HIDE DEF next, state
    <2>3. /\ DOMAIN next.runs = DOMAIN item.runs
          /\ \A m \in DOMAIN item.runs : next.runs[m] = "skipped" <=> item.runs[m] = "skipped"
      <3>1. item.runs \in Seq(RunStates)
        BY DEF Items
      <3>2. DOMAIN next.runs = DOMAIN item.runs
        BY <2>1
      <3>3. \A m \in DOMAIN item.runs : next.runs[m] = IF m = n THEN state ELSE item.runs[m]
        BY <2>1
      <3> QED BY <2>2, <3>2, <3>3
    <2> QED BY <2>3 DEF Strays, next
  <1>2. ASSUME NEW a \in Automations, Sound(item, tasks[a])
        PROVE  Strays(Automation!Finalized(a, item), ts) = Strays(item, ts)
    <2> DEFINE n == Automation!Latest(Automation!Dispatched(item))
               success == tasks[a][n] = "done"
    <2>1. \/ Automation!Finalized(a, item) = item
          \/ /\ Automation!Dispatched(item) # {}
             /\ Automation!Finalized(a, item) = Automation!Settled(item, n, success)
      BY DEF Automation!Finalized
    <2>2. Automation!Dispatched(item) # {} => n \in Automation!Dispatched(item)
      BY <1>2, LatestUnderWay DEF Sound
    <2>3. success \in BOOLEAN
      OBVIOUS
    <2> HIDE DEF n, success
    <2> QED BY <1>1, <2>1, <2>2, <2>3
  <1> QED BY <1>1, <1>2

(* An occurrence that is recorded leads no task astray, unless it is       *)
(* skipped with its own task there.                                        *)
LEMMA RecordedStrays ==
  ASSUME NEW item \in Items, NEW ts, NEW state \in RunStates, NEW at \in Int
  PROVE  LET top == Len(item.runs) + 1
             next == Strays(Automation!Recorded(item, state, at), ts)
         IN /\ state # "skipped" \/ top \notin DOMAIN ts => next = Strays(item, ts)
            /\ next \subseteq Strays(item, ts) \cup {top} /\ top \notin Strays(item, ts)
  <1> DEFINE top == Len(item.runs) + 1
             next == Automation!Recorded(item, state, at)
  <1>1. next.runs = Append(item.runs, state)
    BY DEF Automation!Recorded, Automation!Advanced, Items
  <1>2. item.runs \in Seq(RunStates) /\ DOMAIN item.runs = 1..Len(item.runs) /\ Len(item.runs) \in Nat
    BY RunsCount DEF Items
  <1> HIDE DEF next
  <1>3. /\ next.runs \in Seq(RunStates) /\ Len(next.runs) = Len(item.runs) + 1
        /\ next.runs[Len(item.runs) + 1] = state
        /\ \A n \in DOMAIN item.runs : next.runs[n] = item.runs[n]
    BY <1>1, <1>2, AppendProperties
  <1>4. /\ DOMAIN next.runs = DOMAIN item.runs \cup {top} /\ top \notin DOMAIN item.runs
        /\ next.runs[top] = state /\ \A n \in DOMAIN item.runs : next.runs[n] = item.runs[n]
    <2>1. DOMAIN next.runs = 1..(Len(item.runs) + 1)
      BY <1>3, LenProperties
    <2> QED BY <1>2, <1>3, <2>1
  <1> HIDE DEF top
  <1>5. \A n : n \in Strays(next, ts) <=>
           n \in Strays(item, ts) \/ (n = top /\ top \in DOMAIN ts /\ state = "skipped")
    BY <1>4 DEF Strays
  <1>6. top \notin Strays(item, ts)
    BY <1>4 DEF Strays
  <1> QED BY <1>5, <1>6 DEF top, next

(* A step of a tick that puts back a schedule counts what it led astray.   *)
LEMMA PutFew ==
  ASSUME AutomationInv, StraysInv, NEW a \in Automations, tick # Automation!NoTick, NEW item,
         Automation!Put(a, item), misreads' \in Nat, misreads <= misreads',
         \A b \in Automations : b # a => tasks'[b] = tasks[b],
         Few(item, tasks'[a], misreads'), Few(autos[a], tasks'[a], misreads')
  PROVE  StraysInv'
  <1>1. /\ tick' = [tick EXCEPT !.todo = @ \ {a}, !.copy[a] = item] /\ autos' = autos
        /\ tick \in Ticks /\ autos \in [Automations -> Items]
    BY DEF Automation!Put, AutomationInv
  <1>2. \A b \in Automations : tick'.copy[b] = IF b = a THEN item ELSE tick.copy[b]
    BY <1>1 DEF Ticks
  <1>3. \A b \in Automations : tick.copy[b] \in Items /\ autos[b] \in Items
    BY <1>1 DEF Ticks
  <1>4. ASSUME NEW b \in Automations, b # a
        PROVE  Few(autos[b], tasks'[b], misreads') /\ Few(tick.copy[b], tasks'[b], misreads')
    <2>1. Cardinality(Strays(autos[b], tasks[b])) \in Nat /\ Cardinality(Strays(tick.copy[b], tasks[b])) \in Nat
      BY <1>3, StraysCount
    <2>2. /\ Cardinality(Strays(autos[b], tasks[b])) <= misreads
          /\ Cardinality(Strays(tick.copy[b], tasks[b])) <= misreads
      BY DEF StraysInv, Few
    <2>3. misreads \in Nat
      BY DEF StraysInv
    <2>4. /\ Cardinality(Strays(autos[b], tasks[b])) <= misreads'
          /\ Cardinality(Strays(tick.copy[b], tasks[b])) <= misreads'
      BY <2>1, <2>2, <2>3
    <2> QED BY <1>4, <2>4 DEF Few
  <1> QED BY <1>1, <1>2, <1>4 DEF StraysInv

(* No step leads a task astray but a read that fails, and it leads one.    *)
LEMMA StraysKept == AutomationInv /\ StraysInv /\ [Automation!Next]_automationVars => StraysInv'
  <1> SUFFICES ASSUME AutomationInv, StraysInv, [Automation!Next]_automationVars PROVE StraysInv'
    OBVIOUS
  <1>1. /\ autos \in [Automations -> Items] /\ DOMAIN tasks = Automations /\ misreads \in Nat
        /\ \A a \in Automations : /\ Sound(autos[a], tasks[a]) /\ autos[a] \in Items
                                  /\ Few(autos[a], tasks[a], misreads)
    BY DEF AutomationInv, StraysInv
  <1>2. ASSUME NEW a \in Automations, NEW item, Strays(item, tasks[a]) = Strays(autos[a], tasks[a]),
               Automation!Quiet, tick' = tick, tasks' = tasks, misreads' = misreads,
               autos' = [autos EXCEPT ![a] = item]
        PROVE  StraysInv'
    BY <1>1, <1>2 DEF StraysInv, Few, Automation!Quiet
  <1>3. CASE UNCHANGED automationVars
    BY <1>3 DEF automationVars, StraysInv
  <1>4. ASSUME NEW a \in Automations, Automation!Owner(a) PROVE StraysInv'
    <2>1. ASSUME NEW start \in 0..LastTime, Automation!Create(a, start) PROVE StraysInv'
      <3> DEFINE item == [Automation!Absent EXCEPT !.status = "active", !.next = start]
      <3>1. item.runs = <<>>
        BY DEF Automation!Absent
      <3>2. autos[a].runs = <<>>
        BY <1>1, <2>1 DEF Automation!Create, Sound, Counts
      <3>3. /\ Automation!Quiet /\ tick' = tick /\ tasks' = tasks /\ misreads' = misreads
            /\ autos' = [autos EXCEPT ![a] = item]
        BY <2>1 DEF Automation!Create
      <3>4. Strays(item, tasks[a]) = Strays(autos[a], tasks[a])
        BY <3>1, <3>2 DEF Strays
      <3> HIDE DEF item
      <3> QED BY <1>2, <3>3, <3>4
    <2>2. ASSUME NEW n, NEW success \in BOOLEAN, Automation!Report(a, n, success) PROVE StraysInv'
      <3> DEFINE item == Automation!Settled(autos[a], n, success)
      <3>1. /\ Automation!Quiet /\ tick' = tick /\ tasks' = tasks /\ misreads' = misreads
            /\ autos' = [autos EXCEPT ![a] = item] /\ n \in Automation!Dispatched(autos[a])
        BY <2>2 DEF Automation!Report
      <3>2. Strays(item, tasks[a]) = Strays(autos[a], tasks[a])
        BY <1>1, <3>1, TidyStrays
      <3> HIDE DEF item
      <3> QED BY <1>2, <3>1, <3>2
    <2>3. ASSUME NEW status \in {"active", "paused"}, Automation!SetStatus(a, status) PROVE StraysInv'
      <3> DEFINE item == [autos[a] EXCEPT !.status = status,
                             !.failures = IF status = "active" THEN 0 ELSE @]
      <3>1. /\ Automation!Quiet /\ tick' = tick /\ tasks' = tasks /\ misreads' = misreads
            /\ autos' = [autos EXCEPT ![a] = item]
        BY <1>1, <2>3 DEF Automation!SetStatus
      <3>2. item.runs = autos[a].runs
        BY <1>1 DEF Items
      <3>3. Strays(item, tasks[a]) = Strays(autos[a], tasks[a])
        BY <3>2 DEF Strays
      <3> HIDE DEF item
      <3> QED BY <1>2, <3>1, <3>3
    <2> QED BY <1>4, <2>1, <2>2, <2>3 DEF Automation!Owner
  <1>5. ASSUME NEW a \in Automations, Automation!TickStep(a) PROVE StraysInv'
    <2> DEFINE tidy == Automation!Tidy(a)
    <2>1. Automation!Turn(a)
      BY <1>5 DEF Automation!TickStep, Automation!TickPauses, Automation!TickSkips,
          Automation!TickMisreads, Automation!TickDispatches
    <2>2. tick # Automation!NoTick
      BY <2>1 DEF Automation!Turn, Automation!NoTick
    <2>3. tick \in Ticks /\ tick.copy[a] = autos[a] /\ tick.at \in Int
      BY <2>1, <2>2 DEF AutomationInv, Automation!Turn, Ticks
    <2>4. tidy = Automation!Finalized(a, autos[a])
      BY <2>3 DEF Automation!Tidy
    <2>5. /\ Sound(tidy, tasks[a]) /\ tidy \in Items /\ Len(tidy.runs) = Len(autos[a].runs)
          /\ \A n \in Automation!Dispatched(tidy) : tasks[a][n] = "open"
      BY <1>1, <2>4, TidySound DEF Sound
    <2>6. \A ts : Strays(tidy, ts) = Strays(autos[a], ts)
      BY <1>1, <2>4, TidyStrays
    <2>7. Few(tidy, tasks[a], misreads)
      BY <1>1, <2>6 DEF Few
    <2> HIDE DEF tidy
    <2>8. CASE Automation!TickPauses(a)
      <3>1. Automation!Put(a, tidy) /\ tasks' = tasks /\ misreads' = misreads
        BY <2>8 DEF Automation!TickPauses, tidy
      <3> QED BY <1>1, <2>2, <2>7, <3>1, PutFew
    <2>9. CASE Automation!TickSkips(a)
      <3> DEFINE item == Automation!Recorded(tidy, "skipped", tick.at)
                 top == Len(tidy.runs) + 1
      <3>1. /\ Automation!Put(a, item) /\ tasks' = tasks /\ misreads' = misreads
            /\ Automation!Dispatched(tidy) # {}
        BY <2>9 DEF Automation!TickSkips, tidy
      <3>2. top \notin DOMAIN tasks[a]
        BY <2>5, <3>1 DEF Sound, Fits, Automation!Dispatched
      <3>3. Strays(item, tasks[a]) = Strays(tidy, tasks[a])
        <4>1. "skipped" \in RunStates
          BY DEF RunStates
        <4> QED BY <2>3, <2>5, <3>2, <4>1, RecordedStrays
      <3> HIDE DEF item
      <3>4. Few(item, tasks[a], misreads)
        BY <2>7, <3>3 DEF Few
      <3> QED BY <1>1, <2>2, <3>1, <3>4, PutFew
    <2>10. CASE Automation!TickMisreads(a)
      <3> DEFINE item == Automation!Recorded(autos[a], "skipped", tick.at)
                 top == Len(autos[a].runs) + 1
                 old == Strays(autos[a], tasks[a])
                 new == Strays(item, tasks[a])
      <3>1. Automation!Put(a, item) /\ tasks' = tasks /\ misreads' = misreads + 1
        BY <2>3, <2>10 DEF Automation!TickMisreads
      <3>2. new \subseteq old \cup {top} /\ top \notin old
        <4>1. "skipped" \in RunStates
          BY DEF RunStates
        <4> QED BY <1>1, <2>3, <4>1, RecordedStrays
      <3>3. IsFiniteSet(old) /\ Cardinality(old) \in Nat
        BY <1>1, StraysCount
      <3>4. Cardinality(old) <= misreads
        BY <1>1 DEF Few
      <3> HIDE DEF old, top
      <3>5. IsFiniteSet(old \cup {top}) /\ Cardinality(old \cup {top}) = Cardinality(old) + 1
        BY <3>2, <3>3, FS_AddElement
      <3>6. Cardinality(new) <= Cardinality(old) + 1 /\ Cardinality(new) \in Nat
        <4> HIDE DEF new
        <4> QED BY <3>2, <3>5, FS_Subset, FS_CardinalityType
      <3>7. Cardinality(new) <= misreads + 1 /\ Cardinality(old) <= misreads + 1
        <4> HIDE DEF new
        <4> QED BY <1>1, <3>3, <3>4, <3>6
      <3> HIDE DEF item
      <3>8. Few(item, tasks[a], misreads') /\ Few(autos[a], tasks[a], misreads')
        BY <3>1, <3>7 DEF Few, old
      <3> QED BY <1>1, <2>2, <3>1, <3>8, PutFew
    <2>11. CASE Automation!TickDispatches(a)
      <3> DEFINE item == Automation!Recorded(tidy, "dispatched", tick.at)
                 n == Len(tidy.runs) + 1
                 us == [m \in DOMAIN tasks[a] \cup {n} |->
                           IF m \in DOMAIN tasks[a] THEN tasks[a][m] ELSE "open"]
      <3>1. /\ Automation!Put(a, item) /\ misreads' = misreads /\ tasks' = [tasks EXCEPT ![a] = us]
        BY <2>11 DEF Automation!TickDispatches, tidy
      <3>2. DOMAIN us = DOMAIN tasks[a] \cup {n}
        OBVIOUS
      <3> HIDE DEF us
      <3>3. Strays(item, us) = Strays(tidy, us)
        <4>1. "dispatched" \in RunStates /\ "dispatched" # "skipped"
          BY DEF RunStates
        <4> QED BY <2>3, <2>5, <4>1, RecordedStrays
      <3>4. n \notin DOMAIN autos[a].runs
        BY <1>1, <2>5, RunsCount
      <3> HIDE DEF item, n
      <3>5. Strays(autos[a], us) = Strays(autos[a], tasks[a])
        BY <3>2, <3>4 DEF Strays
      <3>6. Few(item, us, misreads) /\ Few(autos[a], us, misreads)
        BY <1>1, <2>6, <3>3, <3>5 DEF Few
      <3>7. tasks'[a] = us /\ \A b \in Automations : b # a => tasks'[b] = tasks[b]
        BY <1>1, <3>1
      <3> QED BY <1>1, <2>2, <3>1, <3>6, <3>7, PutFew
    <2> QED BY <1>5, <2>8, <2>9, <2>10, <2>11 DEF Automation!TickStep
  <1>6. ASSUME NEW a \in Automations, NEW n \in DOMAIN tasks[a], NEW state,
               Automation!TaskEnds(a, n, state)
        PROVE  StraysInv'
    <2>1. tasks' = [tasks EXCEPT ![a][n] = state] /\ UNCHANGED <<autos, tick, misreads>>
      BY <1>6 DEF Automation!TaskEnds
    <2>2. \A b \in Automations : DOMAIN tasks'[b] = DOMAIN tasks[b]
      BY <1>1, <2>1
    <2>3. \A b \in Automations : \A item : Strays(item, tasks'[b]) = Strays(item, tasks[b])
      BY <2>2 DEF Strays
    <2> QED BY <2>1, <2>3 DEF StraysInv, Few
  <1>7. ASSUME NEW at, Automation!Tick(at) PROVE StraysInv'
    <2>1. tick'.copy = autos /\ UNCHANGED <<autos, tasks, misreads>>
      BY <1>7 DEF Automation!Tick
    <2> QED BY <1>1, <2>1 DEF StraysInv
  <1>8. CASE Automation!TickEnds
    BY <1>8 DEF Automation!TickEnds, StraysInv
  <1>9. CASE Automation!TickIsCut
    BY <1>9 DEF Automation!TickIsCut, StraysInv
  <1> QED BY <1>3, <1>4, <1>5, <1>6, <1>7, <1>8, <1>9 DEF Automation!Next

(* No task is astray at first.                                             *)
LEMMA StraysStart == Init => StraysInv
  <1> SUFFICES ASSUME Init PROVE StraysInv
    OBVIOUS
  <1>1. /\ autos = [a \in Automations |-> Automation!Absent] /\ tick = Automation!NoTick
        /\ misreads = 0
    BY DEF Init, Automation!Init
  <1>2. Automation!Absent \in Items /\ Automation!Absent.runs = <<>>
    BY EmptySeq DEF Automation!Absent, Items
  <1>3. \A a \in Automations : Strays(autos[a], tasks[a]) = {}
    BY <1>1, <1>2 DEF Strays
  <1>4. Cardinality({}) = 0
    BY FS_EmptySet
  <1> QED BY <1>1, <1>3, <1>4 DEF StraysInv, Few

(* A schedule never has two open tasks, nor two for one occurrence, unless *)
(* a read that failed led one astray, at most one for each such read; and  *)
(* consecutive failures pause it at the threshold, each run counted once,  *)
(* whatever ticks are cut off between the tasks and the schedules' file.   *)
THEOREM SchedulesAreKept == Spec => []SchedulesHold
  <1>1. AutomationInv /\ StraysInv => SchedulesHold
    <2> SUFFICES ASSUME AutomationInv, StraysInv, NEW a \in Automations
        PROVE /\ Automation!Cardinality(Automation!Unfinished(a) \ Automation!Astray(a)) <= 1
              /\ DOMAIN tasks[a] \subseteq 1..(Len(autos[a].runs) + 1)
              /\ \A n \in DOMAIN autos[a].runs : autos[a].runs[n] # "skipped" => n \in DOMAIN tasks[a]
              /\ Automation!Cardinality(Automation!Astray(a)) <= misreads
              /\ autos[a].status = "active" => autos[a].failures < Threshold
              /\ autos[a].failures <= Automation!Cardinality({n \in DOMAIN autos[a].runs :
                     n > Automation!LastGood(autos[a]) /\ autos[a].runs[n] = "failed"})
      BY DEF SchedulesHold, Automation!SchedulesDoNotOverlap, Automation!FailuresPause
    <2> DEFINE item == autos[a]
               open == Automation!Unfinished(a) \ Automation!Astray(a)
    <2>1. Sound(item, tasks[a]) /\ item \in Items
      BY DEF AutomationInv
    <2> HIDE DEF item
    <2>2. DOMAIN item.runs = 1..Len(item.runs) /\ Len(item.runs) \in Nat
      BY <2>1, RunsCount
    <2>3. Cardinality(open) <= 1
      <3>1. \A n \in open : n = Len(item.runs) + 1 \/ (n \in DOMAIN item.runs /\ item.runs[n] = "dispatched")
        <4>1. \A n \in open :
                 /\ n \in DOMAIN tasks[a] /\ tasks[a][n] = "open"
                 /\ n \in DOMAIN item.runs => item.runs[n] # "skipped"
          BY DEF Automation!Unfinished, Automation!Astray, item
        <4> QED BY <2>1, <2>2, <4>1 DEF Sound, Fits, Items, RunStates
      <3>2. \A n, m \in open : n = m
        <4>1. \A n \in open : n \in DOMAIN tasks[a] /\ tasks[a][n] = "open"
          BY DEF Automation!Unfinished
        <4> QED BY <2>1, <2>2, <3>1, <4>1 DEF Sound, Alone, Fits
      <3>3. CASE open = {}
        BY <3>3, FS_EmptySet
      <3>4. CASE open # {}
        <4>1. PICK n : open = {n}
          BY <3>2, <3>4
        <4> HIDE DEF open
        <4>2. Cardinality(open) = 1
          BY <4>1, FS_Singleton
        <4> QED BY <4>2
      <3> QED BY <3>3, <3>4
    <2>4. {n \in DOMAIN item.runs : n > Automation!LastGood(item) /\ item.runs[n] = "failed"} = Failed(item)
      <3>1. CASE Good(item) = {}
        <4>1. Automation!LastGood(item) = 0
          BY <3>1 DEF Automation!LastGood, Good
        <4> QED BY <2>2, <3>1, <4>1 DEF Failed
      <3>2. CASE Good(item) # {}
        <4>1. PICK n \in Good(item) : \A m \in Good(item) : m <= n
          BY <2>1, <3>2 DEF Sound, Counts
        <4>2. Automation!LastGood(item) = Automation!Latest(Good(item))
          BY <3>2 DEF Automation!LastGood, Good
        <4>3. Automation!Latest(Good(item)) \in Good(item)
              /\ \A m \in Good(item) : m <= Automation!Latest(Good(item))
          BY <4>1 DEF Automation!Latest
        <4>4. \A m \in Good(item) : m \in 1..Len(item.runs)
          BY <2>2 DEF Good
        <4> QED BY <2>2, <4>2, <4>3, <4>4 DEF Failed
      <3> QED BY <3>1, <3>2
    <2>5. Cardinality(Automation!Astray(a)) <= misreads
      <3>1. Automation!Astray(a) = Strays(item, tasks[a])
        BY DEF Automation!Astray, Strays, item
      <3> QED BY <3>1 DEF StraysInv, Few, item
    <2> QED BY <2>1, <2>3, <2>4, <2>5, SchedulesCount DEF Sound, Counts, Fits, item
  <1> QED BY <1>1, SchedulesStart, StraysStart, StepsOfParts, SchedulesKept, StraysKept, PTL DEF Spec

-----------------------------------------------------------------------------
(* Background jobs.  A delivery under way and a queued input carry the     *)
(* state their job ended in, one input for each job, and an input that was *)
(* acknowledged keeps the claim under which the parent's history took it   *)
(* in.                                                                     *)

JobRecords ==
    [state : {"absent", "queued"} \cup Jobs!Active \cup Jobs!Terminal, owner : Owners \cup {NoOwner},
     fresh : BOOLEAN, long : BOOLEAN, delivered : BOOLEAN, consumed : Nat]

Deliveries ==
    [job : JobIds, state : Jobs!Terminal, at : {"enqueue", "mark"}, by : Jobs!Callers]
Servers ==
    [up : BOOLEAN, stage : {"off", "rest", "lost", "deliver", "consume"}, todo : SUBSET JobIds]
Inputs == [input : JobIds \X Jobs!Terminal, claim : Nat \X Nat, ack : Nat]
Takes == [id : Nat \X Nat, rev : Nat \ {0}]
Parents ==
    [pc : {"idle", "claimed", "committed", "down"}, claim : Nat, rev : Nat, claims : SUBSET Takes]

JobTypes ==
    /\ jobs \in [JobIds -> JobRecords] /\ calls \subseteq Deliveries /\ server \in Servers
    /\ queue \in Seq(Inputs) /\ parent \in Parents

Final(js, q) ==
    \A k \in DOMAIN q :
        /\ js[q[k].input[1]].state = q[k].input[2]
        /\ \A l \in DOMAIN q : q[k].input[1] = q[l].input[1] => k = l

Taken(item, rev) == item.ack > 0 /\ [id |-> item.claim, rev |-> rev] \in parent.claims

ConsumedAsTaken ==
    /\ parent.pc = "committed" =>
          parent.rev > 0 /\ [id |-> <<parent.claim, 1>>, rev |-> parent.rev] \in parent.claims
    /\ \A c \in parent.claims : c.rev <= parent.rev
    /\ \A k \in DOMAIN queue : queue[k].ack > 0 => Taken(queue[k], queue[k].ack)
    /\ \A j \in JobIds : jobs[j].consumed > 0 =>
          \E k \in DOMAIN queue : queue[k].input[1] = j /\ Taken(queue[k], jobs[j].consumed)

(* What a round delivers again has ended.                                  *)
Deliverable == server.stage = "deliver" => \A j \in server.todo : jobs[j].state \in Jobs!Terminal

JobInv ==
    /\ JobTypes /\ Final(jobs, queue) /\ ConsumedAsTaken /\ Deliverable
    /\ \A c \in calls : jobs[c.job].state = c.state

(* The server stays as it is, or goes on with its round.                   *)
GoesOn ==
    /\ server' \in Servers
    /\ server'.stage = "deliver" => server.stage = "deliver" /\ server'.todo \subseteq server.todo

(* There is no job at first.                                               *)
LEMMA JobsStart == Init => JobInv
  <1> SUFFICES ASSUME Init PROVE JobInv
    OBVIOUS
  <1>1. /\ jobs = [j \in JobIds |-> Jobs!NoJob] /\ calls = {} /\ queue = <<>>
        /\ server = [up |-> TRUE, stage |-> "rest", todo |-> {}]
        /\ parent = [pc |-> "idle", claim |-> 0, rev |-> 0, claims |-> {}]
    BY DEF Init, Jobs!Init
  <1>2. Jobs!NoJob \in JobRecords /\ Jobs!NoJob.consumed = 0
    BY DEF Jobs!NoJob, JobRecords
  <1>3. parent \in Parents
    BY <1>1 DEF Parents
  <1>4. queue \in Seq(Inputs)
    BY <1>1, EmptySeq
  <1>5. server \in Servers /\ server.stage = "rest"
    BY <1>1 DEF Servers
  <1>6. JobTypes
    BY <1>1, <1>2, <1>3, <1>4, <1>5 DEF JobTypes
  <1> QED BY <1>1, <1>2, <1>5, <1>6 DEF JobInv, Final, ConsumedAsTaken, Deliverable

(* What the round has still to deliver has ended, whatever job changes.    *)
LEMMA RoundGoesOn ==
  ASSUME JobInv, GoesOn, NEW js, \A j \in JobIds : jobs[j].state \in Jobs!Terminal => js[j].state = jobs[j].state
  PROVE  server'.stage = "deliver" => \A j \in server'.todo : js[j].state \in Jobs!Terminal
  BY DEF JobInv, JobTypes, Servers, GoesOn, Deliverable

(* A server that is not touched goes on.                                   *)
LEMMA ServerWaits ==
  ASSUME JobInv, server' = server
  PROVE  GoesOn
  BY DEF JobInv, JobTypes, GoesOn

(* A job changes what is not about its result, or ends: what was told of   *)
(* jobs stays true.                                                        *)
LEMMA JobChanges ==
  ASSUME JobInv, NEW j \in JobIds, NEW job \in JobRecords, Jobs!Change(j, job),
         UNCHANGED <<queue, parent>>, GoesOn, NEW by \in Jobs!Callers,
         job.state = jobs[j].state \/ jobs[j].state \notin Jobs!Terminal,
         \/ job.consumed \in {0, jobs[j].consumed}
         \/ \E k \in DOMAIN queue : queue[k].input[1] = j /\ Taken(queue[k], job.consumed),
         calls' \subseteq calls \cup {Jobs!Call(j, job.state, by)},
         calls' \subseteq calls \/ job.state \in Jobs!Terminal
  PROVE  JobInv'
  <1>1. /\ \A i \in JobIds : jobs'[i] = IF i = j THEN job ELSE jobs[i]
        /\ jobs' \in [JobIds -> JobRecords]
    BY DEF Jobs!Change, JobInv, JobTypes
  <1>2. calls' \subseteq Deliveries
    BY DEF JobInv, JobTypes, Deliveries, Jobs!Call
  <1>3. JobTypes'
    BY <1>1, <1>2 DEF JobInv, JobTypes, GoesOn
  <1>4. \A c \in calls : c.job \in JobIds /\ c.state \in Jobs!Terminal /\ jobs[c.job].state = c.state
    BY DEF JobInv, JobTypes, Deliveries
  <1>5. \A c \in calls' : jobs'[c.job].state = c.state
    BY <1>1, <1>4 DEF Jobs!Call
  <1>6. \A k \in DOMAIN queue : queue[k].input[1] \in JobIds /\ queue[k].input[2] \in Jobs!Terminal
    <2>1. queue \in Seq(Inputs)
      BY DEF JobInv, JobTypes
    <2>2. \A k \in DOMAIN queue : queue[k] \in Inputs
      BY <2>1, LenProperties, ElementOfSeq
    <2> QED BY <2>2 DEF Inputs
  <1>7. Final(jobs', queue)
    BY <1>1, <1>6 DEF JobInv, Final
  <1>8. ConsumedAsTaken'
    BY <1>1 DEF JobInv, ConsumedAsTaken, Taken
  <1>9. Deliverable'
    <2>1. \A i \in JobIds : jobs[i].state \in Jobs!Terminal => jobs'[i].state = jobs[i].state
      BY <1>1
    <2> QED BY <2>1, RoundGoesOn DEF Deliverable
  <1> QED BY <1>3, <1>5, <1>7, <1>8, <1>9 DEF JobInv

(* The parts of a queued input.                                            *)
LEMMA InputClaimed ==
  ASSUME NEW item \in Inputs, NEW claim \in Nat \X Nat
  PROVE  /\ [item EXCEPT !.claim = claim] \in Inputs
         /\ [item EXCEPT !.claim = claim].input = item.input
         /\ [item EXCEPT !.claim = claim].ack = item.ack
  BY DEF Inputs

(* An input that is acknowledged keeps its text and its claim.             *)
LEMMA InputAcknowledged ==
  ASSUME NEW item \in Inputs, NEW ack \in Nat
  PROVE  /\ [item EXCEPT !.ack = ack] \in Inputs
         /\ [item EXCEPT !.ack = ack].input = item.input
         /\ [item EXCEPT !.ack = ack].claim = item.claim
         /\ [item EXCEPT !.ack = ack].ack = ack
  BY DEF Inputs

(* The parent claims, acknowledges or reconciles: its queue keeps its      *)
(* inputs, and what was acknowledged stays under its claim.                *)
LEMMA QueueChanges ==
  ASSUME JobInv, UNCHANGED <<jobs, calls, server>>, parent' \in Parents,
         parent.claims \subseteq parent'.claims, \A c \in parent'.claims : c.rev <= parent'.rev,
         parent'.pc = "committed" =>
            parent'.rev > 0 /\ [id |-> <<parent'.claim, 1>>, rev |-> parent'.rev] \in parent'.claims,
         DOMAIN queue' = DOMAIN queue, queue' \in [DOMAIN queue -> Inputs],
         \A k \in DOMAIN queue :
            /\ queue'[k].input = queue[k].input
            /\ queue[k].ack > 0 => queue'[k].ack > 0 /\ queue'[k].claim = queue[k].claim
            /\ queue'[k].ack > 0 => [id |-> queue'[k].claim, rev |-> queue'[k].ack] \in parent'.claims
  PROVE  JobInv'
  <1>1. queue \in Seq(Inputs)
    BY DEF JobInv, JobTypes
  <1>2. queue' \in Seq(Inputs)
    BY <1>1, Mapped
  <1>3. JobTypes'
    BY <1>2 DEF JobInv, JobTypes
  <1>4. Final(jobs, queue')
    BY DEF JobInv, Final
  <1>5. ConsumedAsTaken'
    <2>1. \A k \in DOMAIN queue' : queue'[k].ack > 0 => Taken(queue[k], queue[k].ack)'
      BY DEF Taken
    <2>2. ASSUME NEW j \in JobIds, jobs[j].consumed > 0
          PROVE  \E k \in DOMAIN queue' : queue'[k].input[1] = j /\ Taken(queue[k], jobs[j].consumed)'
      <3>1. PICK k \in DOMAIN queue : queue[k].input[1] = j /\ Taken(queue[k], jobs[j].consumed)
        BY <2>2 DEF JobInv, ConsumedAsTaken
      <3>2. queue'[k].input[1] = j /\ Taken(queue[k], jobs[j].consumed)'
        BY <3>1 DEF Taken
      <3> QED BY <3>2
    <2> QED BY <2>1, <2>2 DEF ConsumedAsTaken
  <1> QED BY <1>3, <1>4, <1>5 DEF JobInv, Deliverable

(* Every step keeps the invariant.                                         *)
LEMMA JobsKept == JobInv /\ [Jobs!Next]_jobVars => JobInv'
  <1> SUFFICES ASSUME JobInv, [Jobs!Next]_jobVars PROVE JobInv'
    OBVIOUS
  <1>1. /\ \A j \in JobIds : jobs[j] \in JobRecords
        /\ calls \subseteq Deliveries /\ server \in Servers
        /\ queue \in Seq(Inputs) /\ parent \in Parents
        /\ \A k \in DOMAIN queue : queue[k] \in Inputs
    <2>1. queue \in Seq(Inputs)
      BY DEF JobInv, JobTypes
    <2>2. \A k \in DOMAIN queue : queue[k] \in Inputs
      BY <2>1, LenProperties, ElementOfSeq
    <2> QED BY <2>1, <2>2 DEF JobInv, JobTypes
  <1>2. CASE UNCHANGED jobVars
    BY <1>2 DEF jobVars, JobInv, JobTypes, Final, ConsumedAsTaken, Taken, Deliverable
  <1>3. ASSUME NEW j \in JobIds, NEW state \in Jobs!Terminal, jobs[j].state \notin Jobs!Terminal,
               NEW by \in Jobs!Callers, Jobs!EndAs(j, state, by), UNCHANGED <<queue, parent>>, GoesOn
        PROVE  JobInv'
    <2>1. PICK long \in BOOLEAN :
             /\ Jobs!Change(j, [Jobs!NoJob EXCEPT !.state = state, !.long = long])
             /\ calls' = calls \cup Jobs!Delivery(j, [jobs[j] EXCEPT !.state = state], by)
      BY <1>3 DEF Jobs!EndAs
    <2> DEFINE job == [Jobs!NoJob EXCEPT !.state = state, !.long = long]
    <2>2. calls' \subseteq calls \cup {Jobs!Call(j, state, by)}
      <3>1. [jobs[j] EXCEPT !.state = state].state = state
        BY <1>1 DEF JobRecords
      <3> QED BY <2>1, <3>1 DEF Jobs!Delivery
    <2>3. job \in JobRecords /\ job.state = state /\ job.consumed = 0
      BY DEF Jobs!NoJob, JobRecords
    <2>4. Jobs!Change(j, job)
      BY <2>1
    <2> HIDE DEF job
    <2> QED BY <1>3, <2>2, <2>3, <2>4, JobChanges
  <1>4. ASSUME NEW j \in JobIds, NEW job \in JobRecords, Jobs!Change(j, job), Jobs!Quiet,
               UNCHANGED calls, job.state = jobs[j].state \/ jobs[j].state \notin Jobs!Terminal,
               job.consumed = jobs[j].consumed
        PROVE  JobInv'
    <2>1. GoesOn /\ "round" \in Jobs!Callers
      BY <1>4, ServerWaits DEF Jobs!Quiet, Jobs!Callers
    <2> QED BY <1>1, <1>4, <2>1, JobChanges DEF Jobs!Quiet
  <1>5. ASSUME NEW j \in JobIds, Jobs!ApiStep(j) PROVE JobInv'
    <2>1. CASE Jobs!Create(j)
      <3>1. [Jobs!NoJob EXCEPT !.state = "queued"] \in JobRecords
        BY DEF Jobs!NoJob, JobRecords
      <3>2. GoesOn /\ "round" \in Jobs!Callers
        BY <2>1, ServerWaits DEF Jobs!Create, Jobs!Quiet, Jobs!Callers
      <3> QED BY <1>1, <2>1, <3>1, <3>2, JobChanges DEF Jobs!Create, Jobs!Quiet, Jobs!NoJob, Jobs!Terminal
    <2>2. CASE Jobs!RequestStop(j)
      <3>1. /\ [jobs[j] EXCEPT !.state = "stopping"] \in JobRecords
            /\ [jobs[j] EXCEPT !.state = "stopping"].consumed = jobs[j].consumed
        BY <1>1 DEF JobRecords, Jobs!Active
      <3> QED BY <1>4, <2>2, <3>1 DEF Jobs!RequestStop, Jobs!Terminal
    <2>3. CASE Jobs!Cancel(j)
      <3>1. "canceled" \in Jobs!Terminal /\ jobs[j].state \notin Jobs!Terminal
        BY <2>3 DEF Jobs!Cancel, Jobs!Terminal, Jobs!Active
      <3>2. GoesOn /\ "request" \in Jobs!Callers
        BY <2>3, ServerWaits DEF Jobs!Cancel, Jobs!Quiet, Jobs!Callers
      <3> QED BY <1>1, <1>3, <2>3, <3>1, <3>2 DEF Jobs!Cancel, Jobs!Quiet
    <2>4. ASSUME NEW o \in Owners, Jobs!Start(j, o) PROVE JobInv'
      <3> DEFINE job == [jobs[j] EXCEPT !.state = "running", !.owner = o, !.fresh = TRUE]
      <3>1. job \in JobRecords /\ job.consumed = jobs[j].consumed
        BY <1>1 DEF JobRecords, Jobs!Active
      <3>2. Jobs!Change(j, job) /\ Jobs!Quiet /\ UNCHANGED calls /\ jobs[j].state \notin Jobs!Terminal
        BY <2>4 DEF Jobs!Start, Jobs!Terminal
      <3> HIDE DEF job
      <3> QED BY <1>4, <3>1, <3>2
    <2>5. ASSUME NEW o \in Owners, Jobs!Heartbeat(j, o) PROVE JobInv'
      <3>1. /\ [jobs[j] EXCEPT !.fresh = TRUE] \in JobRecords
            /\ [jobs[j] EXCEPT !.fresh = TRUE].consumed = jobs[j].consumed
            /\ [jobs[j] EXCEPT !.fresh = TRUE].state = jobs[j].state
        BY <1>1 DEF JobRecords
      <3> QED BY <1>4, <2>5, <3>1 DEF Jobs!Heartbeat
    <2>6. ASSUME NEW o \in Owners, Jobs!Finish(j, o) PROVE JobInv'
      <3>1. PICK state \in {"succeeded", "failed"} : Jobs!EndAs(j, state, "request")
        BY <2>6 DEF Jobs!Finish
      <3>2. state \in Jobs!Terminal /\ jobs[j].state \notin Jobs!Terminal
        BY <2>6 DEF Jobs!Finish, Jobs!MayFinish, Jobs!Terminal, Jobs!Active
      <3>3. GoesOn /\ "request" \in Jobs!Callers
        BY <2>6, ServerWaits DEF Jobs!Finish, Jobs!Quiet, Jobs!Callers
      <3> QED BY <1>1, <1>3, <2>6, <3>1, <3>2, <3>3 DEF Jobs!Finish, Jobs!Quiet
    <2> QED BY <1>5, <2>1, <2>2, <2>3, <2>4, <2>5, <2>6 DEF Jobs!ApiStep
  <1>6. ASSUME NEW j \in JobIds, Jobs!Lapse(j) PROVE JobInv'
    <2>1. /\ [jobs[j] EXCEPT !.fresh = FALSE] \in JobRecords
          /\ [jobs[j] EXCEPT !.fresh = FALSE].consumed = jobs[j].consumed
          /\ [jobs[j] EXCEPT !.fresh = FALSE].state = jobs[j].state
      BY <1>1 DEF JobRecords
    <2> QED BY <1>4, <1>6, <2>1 DEF Jobs!Lapse
  <1>7. ASSUME NEW j \in JobIds, NEW by \in Jobs!Callers, UNCHANGED <<jobs, queue, parent>>, GoesOn,
               calls' \subseteq calls \cup {Jobs!Call(j, jobs[j].state, by)},
               calls' \subseteq calls \/ jobs[j].state \in Jobs!Terminal
        PROVE  JobInv'
    <2>1. calls' \subseteq Deliveries
      BY <1>1, <1>7 DEF Deliveries, Jobs!Call
    <2>2. \A c \in calls' : jobs[c.job].state = c.state
      BY <1>7 DEF JobInv, Jobs!Call
    <2>3. JobTypes'
      BY <1>7, <2>1 DEF JobInv, JobTypes, GoesOn
    <2>4. Deliverable'
      BY <1>7, RoundGoesOn DEF Deliverable
    <2> QED BY <1>7, <2>2, <2>3, <2>4 DEF JobInv, Final, ConsumedAsTaken, Taken
  <1>8. ASSUME NEW j \in JobIds, NEW stage \in {"lost", "deliver", "consume"}, Jobs!Turn(stage, j),
               Jobs!Struck(j)
        PROVE  GoesOn /\ server.stage = stage /\ j \in server.todo /\ "round" \in Jobs!Callers
    BY <1>1, <1>8 DEF Jobs!Turn, Jobs!Struck, GoesOn, Servers, Jobs!Callers
  <1>9. ASSUME NEW j \in JobIds, Jobs!MarkLost(j) PROVE JobInv'
    <2>1. UNCHANGED <<queue, parent>> /\ GoesOn /\ "round" \in Jobs!Callers
      BY <1>8, <1>9 DEF Jobs!MarkLost
    <2>2. CASE jobs[j].state \in Jobs!Active
      <3>1. "lost" \in Jobs!Terminal /\ jobs[j].state \notin Jobs!Terminal
        BY <2>2 DEF Jobs!Terminal, Jobs!Active
      <3>2. Jobs!EndAs(j, "lost", "round")
        BY <1>9, <2>2 DEF Jobs!MarkLost
      <3> QED BY <1>3, <2>1, <3>1, <3>2
    <2>3. CASE jobs[j].state \notin Jobs!Active
      <3>1. calls' = calls \cup Jobs!Delivery(j, jobs[j], "round") /\ jobs' = jobs
        BY <1>9, <2>3 DEF Jobs!MarkLost
      <3>2. /\ calls' \subseteq calls \cup {Jobs!Call(j, jobs[j].state, "round")}
            /\ calls' \subseteq calls \/ jobs[j].state \in Jobs!Terminal
        BY <3>1 DEF Jobs!Delivery
      <3> QED BY <1>7, <2>1, <3>1, <3>2
    <2> QED BY <2>2, <2>3
  <1>10. ASSUME NEW j \in JobIds, Jobs!Redeliver(j) PROVE JobInv'
    <2>1. GoesOn /\ server.stage = "deliver" /\ j \in server.todo /\ "round" \in Jobs!Callers
      BY <1>8, <1>10 DEF Jobs!Redeliver
    <2>2. jobs[j].state \in Jobs!Terminal
      BY <2>1 DEF JobInv, Deliverable
    <2> QED BY <1>7, <1>10, <2>1, <2>2 DEF Jobs!Redeliver
  <1>11. ASSUME NEW j \in JobIds, Jobs!Consume(j) PROVE JobInv'
    <2> DEFINE items == {k \in DOMAIN queue : queue[k].input[1] = j}
               rev == Jobs!Acknowledgement(j)
               job == [jobs[j] EXCEPT !.consumed = rev]
    <2>1. /\ GoesOn /\ "round" \in Jobs!Callers /\ UNCHANGED <<calls, queue, parent>>
          /\ IF rev > 0 THEN Jobs!Change(j, job) ELSE UNCHANGED jobs
      BY <1>8, <1>11 DEF Jobs!Consume
    <2>2. CASE ~(rev > 0)
      <3>1. UNCHANGED jobs
        BY <2>1, <2>2
      <3>2. calls' \subseteq calls
        BY <2>1
      <3> HIDE DEF rev, job
      <3> QED BY <1>7, <2>1, <3>1, <3>2
    <2>3. CASE rev > 0
      <3>1. Jobs!Change(j, job)
        BY <2>1, <2>3
      <3>2. PICK k \in items : rev = queue[k].ack
        <4>1. rev = IF items = {} THEN 0 ELSE queue[CHOOSE k \in items : TRUE].ack
          BY DEF Jobs!Acknowledgement
        <4> HIDE DEF items, rev
        <4>2. items # {}
          BY <2>3, <4>1
        <4>3. (CHOOSE k \in items : TRUE) \in items
          BY <4>2
        <4> QED BY <4>1, <4>2, <4>3
      <3>3. Taken(queue[k], rev) /\ rev \in Nat
        BY <1>1, <2>3, <3>2 DEF JobInv, ConsumedAsTaken, Inputs
      <3> HIDE DEF rev
      <3>4. job \in JobRecords /\ job.state = jobs[j].state /\ job.consumed = rev
        BY <1>1, <3>3 DEF JobRecords
      <3> HIDE DEF job
      <3>5. \E l \in DOMAIN queue : queue[l].input[1] = j /\ Taken(queue[l], job.consumed)
        BY <3>2, <3>3, <3>4
      <3> QED BY <2>1, <3>1, <3>4, <3>5, JobChanges
    <2> QED BY <2>2, <2>3
  <1>12. ASSUME NEW from, NEW to \in {"lost", "consume"}, NEW list \in SUBSET JobIds,
                Jobs!Stage(from, to, list)
         PROVE  JobInv'
    <2>1. GoesOn
      BY <1>1, <1>12 DEF Jobs!Stage, GoesOn, Servers
    <2>2. UNCHANGED <<jobs, calls, queue, parent>>
      BY <1>12 DEF Jobs!Stage
    <2>3. JobTypes' /\ Deliverable'
      BY <2>1, <2>2, RoundGoesOn DEF JobInv, JobTypes, GoesOn, Deliverable
    <2> QED BY <2>2, <2>3 DEF JobInv, Final, ConsumedAsTaken, Taken
  <1>13. CASE Jobs!RoundStep
    <2>1. CASE Jobs!ListSilent
      BY <1>12, <2>1 DEF Jobs!ListSilent, Jobs!Silent
    <2>2. CASE Jobs!ListUnconsumed
      BY <1>12, <2>2 DEF Jobs!ListUnconsumed, Jobs!Unconsumed
    <2>3. CASE Jobs!ListOwed
      <3>1. UNCHANGED <<jobs, calls, queue, parent>> /\ server' = [server EXCEPT !.stage = "deliver", !.todo = Jobs!Owed]
        BY <2>3 DEF Jobs!ListOwed, Jobs!Stage
      <3>2. Jobs!Owed \subseteq JobIds /\ \A j \in Jobs!Owed : jobs[j].state \in Jobs!Terminal
        BY DEF Jobs!Owed
      <3>3. server' \in Servers /\ server'.todo = Jobs!Owed
        BY <1>1, <3>1, <3>2 DEF Servers
      <3>4. JobTypes' /\ Deliverable'
        BY <3>1, <3>2, <3>3 DEF JobInv, JobTypes, Deliverable
      <3> QED BY <3>1, <3>4 DEF JobInv, Final, ConsumedAsTaken, Taken
    <2>4. CASE Jobs!RoundEnds
      <3>1. UNCHANGED <<jobs, calls, queue, parent>> /\ server' = [server EXCEPT !.stage = "rest", !.up = TRUE]
        BY <2>4 DEF Jobs!RoundEnds
      <3>2. server' \in Servers /\ server'.stage # "deliver"
        BY <1>1, <3>1 DEF Servers
      <3>3. JobTypes' /\ Deliverable'
        BY <3>1, <3>2 DEF JobInv, JobTypes, Deliverable
      <3> QED BY <3>1, <3>3 DEF JobInv, Final, ConsumedAsTaken, Taken
    <2> QED BY <1>9, <1>10, <1>11, <1>13, <2>1, <2>2, <2>3, <2>4 DEF Jobs!RoundStep
  <1>14. ASSUME NEW c \in calls, Jobs!Enqueue(c) PROVE JobInv'
    <2> DEFINE item == [input |-> <<c.job, c.state>>, claim |-> <<0, 0>>, ack |-> 0]
               marked == [c EXCEPT !.at = "mark"]
    <2>1. /\ c.job \in JobIds /\ c.state \in Jobs!Terminal /\ jobs[c.job].state = c.state
          /\ marked \in Deliveries /\ marked.job = c.job /\ marked.state = c.state
      BY <1>1 DEF JobInv, Deliveries
    <2>2. /\ UNCHANGED <<jobs, parent>> /\ server' \in {server, Jobs!Rest}
          /\ \/ /\ calls' = calls \ {c} /\ queue' = queue
             \/ /\ ~Jobs!Refused(c) /\ calls' = (calls \ {c}) \cup {marked}
                /\ queue' = Jobs!Enqueued(queue, <<c.job, c.state>>)
      BY <1>14 DEF Jobs!Enqueue
    <2>3. server' \in Servers /\ Deliverable'
      <3>1. Jobs!Rest \in Servers /\ Jobs!Rest.stage # "deliver"
        BY <1>1 DEF Jobs!Rest, Servers
      <3> QED BY <1>1, <2>2, <3>1 DEF JobInv, Deliverable
    <2>4. \/ queue' = queue
          \/ /\ queue' = Append(queue, item)
             /\ \A k \in DOMAIN queue : queue[k].input[1] # c.job
      <3>1. CASE queue' = Jobs!Enqueued(queue, <<c.job, c.state>>) /\ ~Jobs!Refused(c)
        <4>1. CASE Jobs!Holds(queue, <<c.job, c.state>>)
          BY <3>1, <4>1 DEF Jobs!Enqueued
        <4>2. CASE ~Jobs!Holds(queue, <<c.job, c.state>>)
          <5>1. queue' = Append(queue, item)
            BY <3>1, <4>2 DEF Jobs!Enqueued, Jobs!Item, Jobs!NoClaim
          <5>2. \A k \in DOMAIN queue : queue[k].input \in JobIds \X Jobs!Terminal
            BY <1>1 DEF Inputs
          <5>3. \A k \in DOMAIN queue : queue[k].input = <<queue[k].input[1], queue[k].input[2]>>
            BY <5>2
          <5>4. \A k \in DOMAIN queue : queue[k].input[1] # c.job
            BY <3>1, <4>2, <5>3 DEF Jobs!Holds, Jobs!Refused
          <5> QED BY <5>1, <5>4
        <4> QED BY <4>1, <4>2
      <3> QED BY <2>2, <3>1
    <2>5. item \in Inputs /\ item.input[1] = c.job /\ item.input[2] = c.state /\ item.ack = 0
      BY <2>1 DEF Inputs
    <2>6. calls' \subseteq Deliveries /\ \A d \in calls' : jobs[d.job].state = d.state
      BY <1>1, <2>1, <2>2 DEF JobInv
    <2> HIDE DEF item, marked
    <2>7. CASE queue' = queue
      <3>1. JobTypes'
        BY <2>2, <2>3, <2>6, <2>7 DEF JobInv, JobTypes
      <3> QED BY <2>2, <2>3, <2>6, <2>7, <3>1 DEF JobInv, Final, ConsumedAsTaken, Taken
    <2>8. CASE queue' = Append(queue, item) /\ \A k \in DOMAIN queue : queue[k].input[1] # c.job
      <3>1. /\ queue' \in Seq(Inputs)
            /\ \A k \in DOMAIN queue : k \in DOMAIN queue' /\ queue'[k] = queue[k]
            /\ \A k \in DOMAIN queue' :
                  \/ k \in DOMAIN queue /\ queue'[k] = queue[k]
                  \/ k = Len(queue) + 1 /\ queue'[k] = item
        BY <1>1, <2>5, <2>8, AppendProperties, LenProperties
      <3>2. JobTypes'
        BY <2>2, <2>3, <2>6, <3>1 DEF JobInv, JobTypes
      <3>3. Final(jobs, queue')
        BY <2>1, <2>5, <2>8, <3>1 DEF JobInv, Final
      <3>4. ConsumedAsTaken'
        <4>1. UNCHANGED <<jobs, parent>>
          BY <2>2
        <4>2. \A k \in DOMAIN queue' : queue'[k].ack > 0 => Taken(queue[k], queue[k].ack)'
          BY <2>5, <3>1, <4>1 DEF JobInv, ConsumedAsTaken, Taken
        <4>3. ASSUME NEW j \in JobIds, jobs[j].consumed > 0
              PROVE  \E k \in DOMAIN queue' :
                        queue'[k].input[1] = j /\ Taken(queue[k], jobs[j].consumed)'
          <5>1. PICK k \in DOMAIN queue : queue[k].input[1] = j /\ Taken(queue[k], jobs[j].consumed)
            BY <4>3 DEF JobInv, ConsumedAsTaken
          <5> QED BY <3>1, <4>1, <5>1 DEF Taken
        <4> QED BY <4>1, <4>2, <4>3 DEF JobInv, ConsumedAsTaken
      <3> QED BY <2>2, <2>3, <2>6, <3>2, <3>3, <3>4 DEF JobInv
    <2> QED BY <2>4, <2>7, <2>8
  <1>15. ASSUME NEW c \in calls, Jobs!MarkDelivered(c) PROVE JobInv'
    <2> DEFINE job == [jobs[c.job] EXCEPT !.delivered = TRUE]
    <2>1. c.job \in JobIds
      BY <1>1 DEF Deliveries
    <2>2. /\ job \in JobRecords /\ job.state = jobs[c.job].state
          /\ job.consumed = jobs[c.job].consumed
      BY <1>1, <2>1 DEF JobRecords
    <2>3. Jobs!Change(c.job, job) /\ calls' \subseteq calls /\ Jobs!Quiet
      BY <1>15 DEF Jobs!MarkDelivered
    <2>4. GoesOn /\ "round" \in Jobs!Callers
      BY <2>3, ServerWaits DEF Jobs!Quiet, Jobs!Callers
    <2> HIDE DEF job
    <2> QED BY <1>1, <2>1, <2>2, <2>3, <2>4, JobChanges DEF Jobs!Quiet
  <1>16. CASE Jobs!Crash
    <2>1. parent' \in Parents /\ parent'.pc = "down" /\ parent'.claims = parent.claims /\ parent'.rev = parent.rev
      BY <1>1, <1>16 DEF Jobs!Crash, Parents
    <2>2. /\ calls' = {} /\ server' = [up |-> FALSE, stage |-> "off", todo |-> {}]
          /\ UNCHANGED <<jobs, queue>>
      BY <1>16 DEF Jobs!Crash
    <2>3. server' \in Servers /\ server'.stage = "off"
      BY <2>2 DEF Servers
    <2>4. JobTypes' /\ Deliverable'
      BY <2>1, <2>2, <2>3 DEF JobInv, JobTypes, Deliverable
    <2> QED BY <2>1, <2>2, <2>4 DEF JobInv, Final, ConsumedAsTaken, Taken
  <1>17. /\ parent.claim \in Nat /\ parent.rev \in Nat /\ parent.claims \subseteq Takes
         /\ \A c \in parent.claims : c.rev <= parent.rev
         /\ \A k \in DOMAIN queue : queue[k].ack > 0 =>
               [id |-> queue[k].claim, rev |-> queue[k].ack] \in parent.claims
    BY <1>1 DEF Parents, JobInv, ConsumedAsTaken, Taken
  <1>18. CASE Jobs!ParentClaims
    <2> DEFINE claim == <<parent.claim + 1, 1>>
    <2>1. /\ parent' \in Parents /\ parent'.claims = parent.claims /\ parent'.rev = parent.rev
          /\ parent'.pc = "claimed" /\ UNCHANGED <<jobs, calls, server>>
          /\ queue' = Jobs!Claimed(queue, claim, ClaimLimit)
      <3>1. /\ parent' = [parent EXCEPT !.pc = "claimed", !.claim = @ + 1]
            /\ UNCHANGED <<jobs, calls, server>> /\ queue' = Jobs!Claimed(queue, claim, ClaimLimit)
        BY <1>18 DEF Jobs!ParentClaims, Jobs!ParentMove, Jobs!JobsQuiet
      <3> HIDE DEF claim
      <3>2. parent \in Parents /\ parent.claim + 1 \in Nat
        BY <1>1, <1>17
      <3>3. /\ parent' \in Parents /\ parent'.claims = parent.claims /\ parent'.rev = parent.rev
            /\ parent'.pc = "claimed"
        BY <3>1, <3>2 DEF Parents
      <3> QED BY <3>1, <3>3
    <2>2. claim \in Nat \X Nat
      BY <1>17
    <2> HIDE DEF claim
    <2>3. DOMAIN queue' = DOMAIN queue
      BY <2>1 DEF Jobs!Claimed
    <2>4. \A k \in DOMAIN queue :
             \/ queue'[k] = queue[k]
             \/ queue'[k] = [queue[k] EXCEPT !.claim = claim] /\ queue[k].ack = 0
      BY <2>1 DEF Jobs!Claimed, Jobs!Batch, Jobs!Unclaimed
    <2>5. \A k \in DOMAIN queue :
             /\ queue'[k] \in Inputs /\ queue'[k].input = queue[k].input /\ queue'[k].ack = queue[k].ack
             /\ queue[k].ack > 0 => queue'[k].claim = queue[k].claim
      <3> SUFFICES ASSUME NEW k \in DOMAIN queue
                   PROVE  /\ queue'[k] \in Inputs /\ queue'[k].input = queue[k].input
                          /\ queue'[k].ack = queue[k].ack
                          /\ queue[k].ack > 0 => queue'[k].claim = queue[k].claim
        OBVIOUS
      <3>1. queue[k] \in Inputs
        BY <1>1
      <3>2. CASE queue'[k] = [queue[k] EXCEPT !.claim = claim] /\ queue[k].ack = 0
        <4>1. ~(queue[k].ack > 0)
          BY <3>2
        <4> QED BY <2>2, <3>1, <3>2, <4>1, InputClaimed
      <3> QED BY <2>4, <3>1, <3>2
    <2>6. queue' \in [DOMAIN queue -> Inputs]
      BY <2>1, <2>5 DEF Jobs!Claimed
    <2> QED BY <1>17, <2>1, <2>3, <2>5, <2>6, QueueChanges
  <1>19. CASE Jobs!ParentCommits
    <2> DEFINE take == [id |-> <<parent.claim, 1>>, rev |-> parent.rev + 1]
    <2>1. /\ parent'.claims = parent.claims \cup {take} /\ parent'.rev = parent.rev + 1
          /\ parent'.pc = "committed" /\ parent'.claim = parent.claim
          /\ UNCHANGED <<jobs, calls, server, queue>>
          /\ parent' = [parent EXCEPT !.pc = "committed", !.rev = @ + 1, !.claims = @ \cup {take}]
      BY <1>1, <1>19 DEF Jobs!ParentCommits, Jobs!ParentMove, Jobs!JobsQuiet, Parents
    <2>2. take \in Takes /\ take.rev = parent.rev + 1
      BY <1>17 DEF Takes
    <2>3. <<parent'.claim, 1>> = <<parent.claim, 1>>
      BY <2>1
    <2>4. [id |-> <<parent'.claim, 1>>, rev |-> parent'.rev] \in parent'.claims
      BY <2>1
    <2> HIDE DEF take
    <2>5. parent' \in Parents
      <3>1. parent.claims \cup {take} \in SUBSET Takes /\ parent.rev + 1 \in Nat
        BY <1>17, <2>2
      <3>2. parent' = [parent EXCEPT !.pc = "committed", !.rev = parent.rev + 1,
                                     !.claims = parent.claims \cup {take}]
        BY <2>1
      <3> QED BY <1>1, <3>1, <3>2 DEF Parents
    <2>6. parent'.rev > 0 /\ \A c \in parent'.claims : c.rev <= parent'.rev
      <3>1. \A c \in parent.claims : c.rev \in Nat
        BY <1>17 DEF Takes
      <3> QED BY <1>17, <2>1, <2>2, <3>1
    <2>7. queue' \in [DOMAIN queue -> Inputs]
      BY <1>1, <2>1, LenProperties
    <2> QED BY <1>17, <2>1, <2>4, <2>5, <2>6, <2>7, QueueChanges
  <1>20. CASE Jobs!ParentAcks
    <2> DEFINE claim == <<parent.claim, 1>>
    <2>1. /\ parent' \in Parents /\ parent'.claims = parent.claims /\ parent'.rev = parent.rev
          /\ parent'.pc = "idle" /\ UNCHANGED <<jobs, calls, server>>
          /\ queue' = Jobs!Acknowledged(queue, claim, parent.rev) /\ parent.pc = "committed"
      BY <1>1, <1>20 DEF Jobs!ParentAcks, Jobs!ParentMove, Jobs!JobsQuiet, Parents
    <2>2. parent.rev > 0 /\ [id |-> claim, rev |-> parent.rev] \in parent.claims
      BY <2>1 DEF JobInv, ConsumedAsTaken
    <2> HIDE DEF claim
    <2>3. DOMAIN queue' = DOMAIN queue
      BY <2>1 DEF Jobs!Acknowledged
    <2>4. \A k \in DOMAIN queue :
             \/ queue'[k] = queue[k]
             \/ queue'[k] = [queue[k] EXCEPT !.ack = parent.rev] /\ queue[k].claim = claim
      BY <2>1 DEF Jobs!Acknowledged
    <2>5. \A k \in DOMAIN queue :
             /\ queue'[k] \in Inputs /\ queue'[k].input = queue[k].input
             /\ queue'[k].claim = queue[k].claim
             /\ queue'[k].ack = queue[k].ack \/ (queue'[k].ack = parent.rev /\ queue[k].claim = claim)
      BY <1>1, <1>17, <2>4 DEF Inputs
    <2>6. queue' \in [DOMAIN queue -> Inputs]
      BY <2>1, <2>5 DEF Jobs!Acknowledged
    <2>7. \A k \in DOMAIN queue :
             /\ queue[k].ack > 0 => queue'[k].ack > 0
             /\ queue'[k].ack > 0 => [id |-> queue'[k].claim, rev |-> queue'[k].ack] \in parent.claims
      BY <1>17, <2>2, <2>5
    <2> QED BY <1>17, <2>1, <2>3, <2>5, <2>6, <2>7, QueueChanges
  <1>21. CASE Jobs!ParentResumes
    <2>1. /\ parent' \in Parents /\ parent'.claims = parent.claims /\ parent'.rev = parent.rev
          /\ parent'.pc = "idle" /\ UNCHANGED <<jobs, calls, server>>
          /\ queue' = Jobs!Reconciled(queue, parent.claims)
      BY <1>1, <1>21 DEF Jobs!ParentResumes, Jobs!ParentMove, Jobs!JobsQuiet, Parents
    <2>2. DOMAIN queue' = DOMAIN queue
      BY <2>1 DEF Jobs!Reconciled
    <2>3. \A k \in DOMAIN queue :
             \/ queue'[k] = queue[k]
             \/ queue[k].ack = 0 /\ \E c \in parent.claims :
                   c.id = queue[k].claim /\ queue'[k] = [queue[k] EXCEPT !.ack = c.rev]
             \/ queue[k].ack = 0 /\ queue'[k] = [queue[k] EXCEPT !.claim = <<0, 0>>]
      <3> SUFFICES ASSUME NEW k \in DOMAIN queue, queue'[k] # queue[k]
                   PROVE  /\ queue[k].ack = 0
                          /\ \/ \E c \in parent.claims :
                                   c.id = queue[k].claim /\ queue'[k] = [queue[k] EXCEPT !.ack = c.rev]
                             \/ queue'[k] = [queue[k] EXCEPT !.claim = <<0, 0>>]
        OBVIOUS
      <3> DEFINE known == \E c \in parent.claims : c.id = queue[k].claim
                 found == CHOOSE c \in parent.claims : c.id = queue[k].claim
      <3>1. known => found \in parent.claims /\ found.id = queue[k].claim
        OBVIOUS
      <3>2. /\ ~(queue[k].ack > 0)
            /\ queue'[k] = IF known THEN [queue[k] EXCEPT !.ack = found.rev]
                           ELSE [queue[k] EXCEPT !.claim = <<0, 0>>]
        BY <2>1 DEF Jobs!Reconciled, Jobs!NoClaim
      <3>3. queue[k].ack = 0
        BY <1>1, <3>2 DEF Inputs
      <3> HIDE DEF known, found
      <3>4. CASE known
        BY <3>1, <3>2, <3>3, <3>4
      <3>5. CASE ~known
        BY <3>2, <3>3, <3>5
      <3> QED BY <3>4, <3>5
    <2>4. \A k \in DOMAIN queue :
             /\ queue'[k] \in Inputs /\ queue'[k].input = queue[k].input
             /\ queue[k].ack > 0 => queue'[k].ack > 0 /\ queue'[k].claim = queue[k].claim
             /\ queue'[k].ack > 0 => [id |-> queue'[k].claim, rev |-> queue'[k].ack] \in parent.claims
      <3> SUFFICES ASSUME NEW k \in DOMAIN queue
            PROVE /\ queue'[k] \in Inputs /\ queue'[k].input = queue[k].input
                  /\ queue[k].ack > 0 => queue'[k].ack > 0 /\ queue'[k].claim = queue[k].claim
                  /\ queue'[k].ack > 0 =>
                        [id |-> queue'[k].claim, rev |-> queue'[k].ack] \in parent.claims
        OBVIOUS
      <3>1. CASE queue'[k] = queue[k]
        BY <1>1, <1>17, <3>1
      <3>2. ASSUME queue[k].ack = 0, NEW c \in parent.claims, c.id = queue[k].claim,
                   queue'[k] = [queue[k] EXCEPT !.ack = c.rev]
            PROVE  /\ queue'[k] \in Inputs /\ queue'[k].input = queue[k].input
                   /\ [id |-> queue'[k].claim, rev |-> queue'[k].ack] \in parent.claims
        <4>1. c \in Takes /\ queue[k] \in Inputs
          BY <1>1, <1>17
        <4>2. c = [id |-> c.id, rev |-> c.rev] /\ c.rev \in Nat
          BY <4>1 DEF Takes
        <4>3. queue'[k] \in Inputs /\ queue'[k].input = queue[k].input
              /\ queue'[k].claim = queue[k].claim /\ queue'[k].ack = c.rev
          BY <3>2, <4>1, <4>2, InputAcknowledged
        <4>4. [id |-> queue'[k].claim, rev |-> queue'[k].ack] = c
          BY <3>2, <4>2, <4>3
        <4> QED BY <4>3, <4>4
      <3>3. ASSUME queue[k].ack = 0, queue'[k] = [queue[k] EXCEPT !.claim = <<0, 0>>]
            PROVE  queue'[k] \in Inputs /\ queue'[k].input = queue[k].input /\ queue'[k].ack = 0
        <4>1. queue[k] \in Inputs /\ <<0, 0>> \in Nat \X Nat
          BY <1>1
        <4> QED BY <3>3, <4>1, InputClaimed
      <3>4. ~(0 > 0)
        OBVIOUS
      <3> QED BY <2>3, <3>1, <3>2, <3>3, <3>4
    <2>5. queue' \in [DOMAIN queue -> Inputs]
      BY <2>1, <2>4 DEF Jobs!Reconciled
    <2> QED BY <1>17, <2>1, <2>2, <2>4, <2>5, QueueChanges
  <1>22. ASSUME NEW j, NEW by, Jobs!EnqueueResult(j, by) \/ Jobs!MarkResult(j, by) PROVE JobInv'
    BY <1>14, <1>15, <1>22 DEF Jobs!EnqueueResult, Jobs!MarkResult
  <1> QED
    BY <1>2, <1>5, <1>6, <1>13, <1>16, <1>18, <1>19, <1>20, <1>21, <1>22
    DEF Jobs!Next, Jobs!ParentStep

(* A job whose result is queued for its parent never ends differently, is  *)
(* told once, and counts as consumed only at a revision of the parent's    *)
(* history that took its result in: EnqueueResult and ReconcileLost of     *)
(* internal/taskstore, over every crash.                                   *)
THEOREM FinalResults == Spec => []ResultsAreFinal
  <1>1. JobInv => ResultsAreFinal
    BY DEF JobInv, Final, ConsumedAsTaken, Taken, Jobs!ResultsAreFinal, ResultsAreFinal
  <1> QED BY <1>1, JobsStart, StepsOfParts, JobsKept, PTL DEF Spec

-----------------------------------------------------------------------------
(* A result is consumed at a revision that the parent's history has.       *)
LEMMA JobsAreTyped == JobInv => Jobs!TypeOK
  <1> SUFFICES ASSUME JobInv PROVE Jobs!TypeOK
    OBVIOUS
  <1>1. JobTypes /\ ConsumedAsTaken
    BY DEF JobInv
  <1>2. parent.rev \in Nat /\ parent.pc \in {"idle", "claimed", "committed", "down"}
    BY <1>1 DEF JobTypes, Parents
  <1>3. ASSUME NEW j \in JobIds PROVE jobs[j].consumed \in 0..parent.rev
    <2>1. jobs[j].consumed \in Nat
      BY <1>1 DEF JobTypes, JobRecords
    <2>2. CASE jobs[j].consumed > 0
      <3>1. PICK k \in DOMAIN queue : Taken(queue[k], jobs[j].consumed)
        BY <1>1, <2>2 DEF ConsumedAsTaken
      <3>2. jobs[j].consumed <= parent.rev
        BY <1>1, <3>1 DEF Taken, ConsumedAsTaken
      <3> QED BY <1>2, <2>1, <3>2
    <2> QED BY <1>2, <2>1, <2>2
  <1>4. \A j \in JobIds :
           /\ jobs[j].state \in {"absent", "queued"} \cup Jobs!Active \cup Jobs!Terminal
           /\ jobs[j].owner \in Owners \cup {NoOwner}
           /\ jobs[j].fresh \in BOOLEAN /\ jobs[j].long \in BOOLEAN /\ jobs[j].delivered \in BOOLEAN
    BY <1>1 DEF JobTypes, JobRecords
  <1>5. /\ server.up \in BOOLEAN /\ server.todo \subseteq JobIds
        /\ server.stage \in {"off", "rest", "lost", "deliver", "consume"}
        /\ \A c \in calls : /\ c.job \in JobIds /\ c.state \in Jobs!Terminal
                            /\ c.at \in {"enqueue", "mark"} /\ c.by \in Jobs!Callers
    BY <1>1 DEF JobTypes, Deliveries, Servers
  <1> QED BY <1>2, <1>3, <1>4, <1>5 DEF Jobs!TypeOK

-----------------------------------------------------------------------------
(* What only the types say of the schedules: their times, which lie within *)
(* an interval of the last tick, and the states of their tasks.            *)
Times == 0..(LastTime + Every)

TaskStates == \A a \in Automations : \A n \in DOMAIN tasks[a] : tasks[a][n] \in {"open", "done", "closed"}

TickTimed ==
    tick.at \in 0..LastTime /\ \A a \in Automations : tick.copy[a].next \in Times

Timed ==
    /\ \A a \in Automations : autos[a].next \in Times
    /\ TaskStates
    /\ tick # Automation!NoTick => TickTimed

(* The next time of a schedule is not after the tick's and an interval.    *)
LEMMA NextTime ==
  ASSUME NEW item \in Items, item.next \in Times, NEW at \in 0..LastTime
  PROVE  Automation!Advanced(item, at).next \in Times
  <1> DEFINE next == item.next
             far == at - next
             steps == far \div Every
             ahead == next + Every * (steps + 1)
  <1>1. Every \in Nat /\ Every > 0 /\ LastTime \in Nat /\ at \in Nat /\ at <= LastTime /\ next \in Nat
        /\ next <= LastTime + Every
    BY SchedulesAssumption, LimitsAssumption DEF Times
  <1>2. Automation!Advanced(item, at).next = IF next > at THEN next ELSE ahead
    BY DEF Automation!Advanced, Items
  <1>3. CASE ~(next > at)
    <2>1. far \in Nat
      BY <1>1, <1>3
    <2> HIDE DEF far
    <2>2. steps \in Nat /\ Every * steps \in Nat /\ Every * steps <= far
      BY <1>1, <2>1
    <2> HIDE DEF steps
    <2>3. Every * (steps + 1) = Every * steps + Every
      BY <1>1, <2>2
    <2> DEFINE product == Every * steps
    <2>4. product \in Nat /\ product <= far /\ ahead = next + (product + Every)
      BY <2>2, <2>3
    <2> HIDE DEF product
    <2>5. far = at - next
      BY DEF far
    <2>6. ahead \in 0..(LastTime + Every)
      <3> HIDE DEF ahead, next
      <3> QED BY <1>1, <2>1, <2>4, <2>5
    <2> QED BY <1>2, <1>3, <2>6 DEF Times
  <1> QED BY <1>2, <1>3

(* A settled or tidied schedule keeps its time.                            *)
LEMMA TimeKept ==
  ASSUME NEW item \in Items, NEW n, NEW success
  PROVE  Automation!Settled(item, n, success).next = item.next
  BY DEF Automation!Settled, Items

(* Closing the runs whose tasks ended leaves the next time alone.          *)
LEMMA TidyTime ==
  ASSUME NEW a \in Automations, NEW item \in Items
  PROVE  Automation!Finalized(a, item).next = item.next
  BY TimeKept DEF Automation!Finalized

(* The next times are times of the clock at first.                         *)
LEMMA TimesStart == Init => Timed
  <1> SUFFICES ASSUME Init PROVE Timed
    OBVIOUS
  <1>1. autos = [a \in Automations |-> Automation!Absent] /\ tasks = [a \in Automations |-> <<>>]
        /\ tick = Automation!NoTick
    BY DEF Init, Automation!Init
  <1>2. Automation!Absent.next \in Times
    BY SchedulesAssumption, LimitsAssumption DEF Automation!Absent, Times
  <1>3. TaskStates
    BY <1>1 DEF TaskStates
  <1> QED BY <1>1, <1>2, <1>3 DEF Timed

(* Recording a run sets the next time to one of the clock.                 *)
LEMMA RecordedTime ==
  ASSUME NEW item \in Items, NEW state \in RunStates, item.next \in Times, NEW at \in 0..LastTime
  PROVE  Automation!Recorded(item, state, at).next \in Times
  <1> DEFINE longer == [item EXCEPT !.runs = Append(@, state)]
  <1>1. Append(item.runs, state) \in Seq(RunStates)
    BY AppendProperties DEF Items
  <1>2. longer \in Items /\ longer.next = item.next
    BY <1>1 DEF Items
  <1>3. Automation!Recorded(item, state, at) = Automation!Advanced(longer, at)
    BY DEF Automation!Recorded
  <1> HIDE DEF longer
  <1> QED BY <1>2, <1>3, NextTime

(* A step of a tick puts back a schedule of the same or the next time.     *)
LEMMA PutTimed ==
  ASSUME AutomationInv, Timed, NEW a \in Automations, tick # Automation!NoTick, NEW item,
         item.next \in Times, Automation!Put(a, item), TaskStates'
  PROVE  Timed'
  <1>1. /\ tick' = [tick EXCEPT !.todo = @ \ {a}, !.copy[a] = item] /\ autos' = autos
        /\ tick \in Ticks /\ TickTimed
    BY DEF Automation!Put, AutomationInv, Timed
  <1>2. tick'.at = tick.at /\ tick'.copy = [tick.copy EXCEPT ![a] = item]
    BY <1>1 DEF Ticks
  <1>3. \A b \in Automations : tick'.copy[b].next \in Times
    BY <1>1, <1>2 DEF Ticks, TickTimed
  <1> QED BY <1>1, <1>2, <1>3 DEF Timed, TickTimed

(* Every step of a schedule keeps to its times.                            *)
LEMMA TimesKept == AutomationInv /\ Timed /\ [Automation!Next]_automationVars => Timed'
  <1> SUFFICES ASSUME AutomationInv, Timed, [Automation!Next]_automationVars PROVE Timed'
    OBVIOUS
  <1>1. /\ autos \in [Automations -> Items] /\ DOMAIN tasks = Automations /\ TaskStates
        /\ \A a \in Automations : autos[a].next \in Times
    BY DEF AutomationInv, Timed
  <1>2. ASSUME NEW a \in Automations, NEW item, item.next \in Times,
               tick' = tick, tasks' = tasks, autos' = [autos EXCEPT ![a] = item]
        PROVE  Timed'
    <2>1. \A b \in Automations : autos'[b].next \in Times
      BY <1>1, <1>2
    <2>2. TaskStates' /\ (tick' # Automation!NoTick => TickTimed')
      BY <1>2 DEF Timed, TaskStates, TickTimed
    <2> QED BY <2>1, <2>2 DEF Timed
  <1>3. CASE UNCHANGED automationVars
    BY <1>3 DEF automationVars, Timed, TaskStates, TickTimed
  <1>4. ASSUME NEW a \in Automations, Automation!Owner(a) PROVE Timed'
    <2>1. ASSUME NEW start \in 0..LastTime, Automation!Create(a, start) PROVE Timed'
      <3> DEFINE item == [Automation!Absent EXCEPT !.status = "active", !.next = start]
      <3>1. item.next = start
        BY DEF Automation!Absent
      <3>2. start \in Times
        BY SchedulesAssumption, LimitsAssumption DEF Times
      <3>3. tick' = tick /\ tasks' = tasks /\ autos' = [autos EXCEPT ![a] = item]
        BY <2>1 DEF Automation!Create
      <3> HIDE DEF item
      <3> QED BY <1>2, <3>1, <3>2, <3>3
    <2>2. ASSUME NEW n, NEW success \in BOOLEAN, Automation!Report(a, n, success) PROVE Timed'
      <3> DEFINE item == Automation!Settled(autos[a], n, success)
      <3>1. tick' = tick /\ tasks' = tasks /\ autos' = [autos EXCEPT ![a] = item]
        BY <2>2 DEF Automation!Report
      <3>2. item.next \in Times
        BY <1>1, TimeKept
      <3> HIDE DEF item
      <3> QED BY <1>2, <3>1, <3>2
    <2>3. ASSUME NEW status \in {"active", "paused"}, Automation!SetStatus(a, status) PROVE Timed'
      <3> DEFINE item == [autos[a] EXCEPT !.status = status,
                             !.failures = IF status = "active" THEN 0 ELSE @]
      <3>1. tick' = tick /\ tasks' = tasks /\ autos' = [autos EXCEPT ![a] = item]
        BY <1>1, <2>3 DEF Automation!SetStatus
      <3>2. item.next \in Times
        BY <1>1 DEF Items
      <3> HIDE DEF item
      <3> QED BY <1>2, <3>1, <3>2
    <2> QED BY <1>4, <2>1, <2>2, <2>3 DEF Automation!Owner
  <1>5. ASSUME NEW a \in Automations, Automation!TickStep(a) PROVE Timed'
    <2>1. Automation!Turn(a)
      BY <1>5 DEF Automation!TickStep, Automation!TickPauses, Automation!TickSkips,
          Automation!TickMisreads, Automation!TickDispatches
    <2>2. tick # Automation!NoTick
      BY <2>1 DEF Automation!Turn, Automation!NoTick
    <2> DEFINE tidy == Automation!Tidy(a)
    <2>3. /\ tick.copy[a] \in Items /\ tick.copy[a].next \in Times /\ tick.at \in 0..LastTime
      BY <2>2 DEF AutomationInv, Ticks, Timed, TickTimed
    <2>4. tidy \in Items /\ tidy.next \in Times
      <3>1. Sound(tick.copy[a], tasks[a])
        BY <2>2 DEF AutomationInv
      <3>2. Sound(tidy, tasks[a])
        BY <2>3, <3>1, TidySound DEF Automation!Tidy
      <3>3. tidy.next = tick.copy[a].next
        BY <2>3, TidyTime DEF Automation!Tidy
      <3> QED BY <2>3, <3>2, <3>3 DEF Sound
    <2> HIDE DEF tidy
    <2>5. CASE Automation!TickPauses(a)
      <3>1. Automation!Put(a, tidy) /\ tasks' = tasks
        BY <2>5 DEF Automation!TickPauses, tidy
      <3>2. TaskStates'
        BY <1>1, <3>1 DEF TaskStates
      <3> QED BY <2>2, <2>4, <3>1, <3>2, PutTimed
    <2>6. CASE Automation!TickSkips(a)
      <3>1. Automation!Put(a, Automation!Recorded(tidy, "skipped", tick.at)) /\ tasks' = tasks
        BY <2>6 DEF Automation!TickSkips, tidy
      <3>2. TaskStates'
        BY <1>1, <3>1 DEF TaskStates
      <3>3. Automation!Recorded(tidy, "skipped", tick.at).next \in Times
        BY <2>3, <2>4, RecordedTime DEF RunStates
      <3> QED BY <2>2, <3>1, <3>2, <3>3, PutTimed
    <2>7. CASE Automation!TickMisreads(a)
      <3>1. /\ Automation!Put(a, Automation!Recorded(tick.copy[a], "skipped", tick.at))
            /\ tasks' = tasks
        BY <2>7 DEF Automation!TickMisreads
      <3>2. TaskStates'
        BY <1>1, <3>1 DEF TaskStates
      <3>3. Automation!Recorded(tick.copy[a], "skipped", tick.at).next \in Times
        BY <2>3, RecordedTime DEF RunStates
      <3> QED BY <2>2, <3>1, <3>2, <3>3, PutTimed
    <2>8. CASE Automation!TickDispatches(a)
      <3> DEFINE n == Len(tidy.runs) + 1
      <3>1. /\ Automation!Put(a, Automation!Recorded(tidy, "dispatched", tick.at))
            /\ tasks' = [tasks EXCEPT ![a] =
                   [m \in DOMAIN @ \cup {n} |-> IF m \in DOMAIN @ THEN @[m] ELSE "open"]]
        BY <2>8 DEF Automation!TickDispatches, tidy
      <3> HIDE DEF n
      <3>2. TaskStates'
        BY <1>1, <3>1 DEF TaskStates
      <3>3. Automation!Recorded(tidy, "dispatched", tick.at).next \in Times
        BY <2>3, <2>4, RecordedTime DEF RunStates
      <3> QED BY <2>2, <3>1, <3>2, <3>3, PutTimed
    <2> QED BY <1>5, <2>5, <2>6, <2>8, <2>7 DEF Automation!TickStep
  <1>6. ASSUME NEW a \in Automations, NEW n \in DOMAIN tasks[a], NEW state \in {"done", "closed"},
               Automation!TaskEnds(a, n, state)
        PROVE  Timed'
    <2>1. /\ tasks' = [tasks EXCEPT ![a][n] = state] /\ UNCHANGED <<autos, tick>>
      BY <1>6 DEF Automation!TaskEnds
    <2>2. TaskStates'
      BY <1>1, <2>1 DEF TaskStates
    <2> QED BY <1>1, <2>1, <2>2 DEF Timed, TickTimed
  <1>7. ASSUME NEW at \in 0..LastTime, Automation!Tick(at) PROVE Timed'
    <2>1. /\ tick'.at = at /\ tick'.copy = autos /\ UNCHANGED <<autos, tasks>>
      BY <1>7 DEF Automation!Tick
    <2> QED BY <1>1, <2>1 DEF Timed, TickTimed, TaskStates
  <1>8. CASE Automation!TickEnds
    <2>1. tick # Automation!NoTick /\ autos' = tick.copy /\ tick' = Automation!NoTick /\ tasks' = tasks
      BY <1>8 DEF Automation!TickEnds
    <2> QED BY <1>1, <2>1 DEF Timed, TickTimed, TaskStates
  <1>9. CASE Automation!TickIsCut
    <2>1. autos' = autos /\ tick' = Automation!NoTick /\ tasks' = tasks
      BY <1>9 DEF Automation!TickIsCut
    <2> QED BY <1>1, <2>1 DEF Timed, TaskStates
  <1> QED BY <1>3, <1>4, <1>5, <1>6, <1>7, <1>8, <1>9 DEF Automation!Next

(* The invariants of the schedules hold their types.                       *)
LEMMA SchedulesAreTyped == AutomationInv /\ Timed => Automation!TypeOK
  <1> SUFFICES ASSUME AutomationInv, Timed PROVE Automation!TypeOK
    OBVIOUS
  <1> DEFINE Typed(item) == item \in Items /\ item.next \in Times
  <1>1. ASSUME NEW item, Typed(item) PROVE item \in Automation!Schedules
    BY <1>1 DEF Items, RunStates, Times, Automation!Schedules
  <1>2. autos \in [Automations -> Automation!Schedules]
    BY <1>1 DEF AutomationInv, Timed
  <1>3. ASSUME tick # Automation!NoTick
        PROVE  tick.at \in -1..LastTime /\ tick.copy \in [Automations -> Automation!Schedules]
    <2>1. tick \in Ticks /\ TickTimed
      BY <1>3 DEF AutomationInv, Timed
    <2>2. tick.copy \in [Automations -> Items]
      BY <2>1 DEF Ticks
    <2>3. tick.copy \in [Automations -> Automation!Schedules]
      BY <1>1, <2>1, <2>2 DEF TickTimed
    <2> QED BY <2>1, <2>3, LimitsAssumption DEF TickTimed
  <1>4. CASE tick = Automation!NoTick
    <2>1. tick.at = -1
      BY <1>4 DEF Automation!NoTick
    <2>2. tick.at \in -1..LastTime
      BY <2>1, LimitsAssumption
    <2> QED BY <1>2, <1>4, <2>2 DEF Timed, TaskStates, Automation!TypeOK, Automation!Quiet
  <1> QED BY <1>2, <1>3, <1>4 DEF Timed, TaskStates, Automation!TypeOK, Automation!Quiet
=============================================================================
