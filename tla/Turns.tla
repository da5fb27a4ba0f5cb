------------------------------- MODULE Turns --------------------------------
(***************************************************************************)
(* One session and the runs of its turns: the turn handler and the resume  *)
(* handler of internal/server/server.go, internal/sessionstore, and the    *)
(* query loop of internal/engine over the files of RunStore.               *)
(*                                                                         *)
(* A turn is named by its operation id, and so is its run: begin draws one *)
(* run id for an operation and keeps it until the turn is committed.  An   *)
(* admission is one execution of a run by the loop; what it keeps in       *)
(* memory is adm[r], and a crash of the server takes that away and leaves  *)
(* the files.  A step is one write of a file together with the events that *)
(* the loop appends before its next write; the events that follow a commit *)
(* of the history are a step of their own.                                 *)
(*                                                                         *)
(* The capability revision is the same all along, and a run has at most    *)
(* one admission at a time: nobody resumes a run that is still executing.  *)
(* Of the writes only a commit of the history may fail, and then it leaves *)
(* the history as it was.                                                  *)
(***************************************************************************)
EXTENDS RunStore, FiniteSetsExt

CONSTANTS
    Ops,            \* operation ids of the session's turns
    InputsOf,       \* Ops -> the inputs people and tools send to that run
    MaxTurns,       \* Config.MaxTurns of the engine
    ClaimLimit,     \* inputs one claim takes, 32 in the loop
    MaxConcurrent,  \* capacity of the handler's semaphore
    Thinking,       \* Config.EnableThinking
    MaxAdmissions,  \* bound: admissions of a run that clients ask for by resuming it
    Failing,        \* barriers whose commit may fail
    MaxFaults,      \* bound: crashes of the server and failed commits
    NoOp            \* no pending turn

ASSUME TurnsAssumption ==
    /\ NoOp \notin Ops
    /\ MaxTurns \in Nat /\ ClaimLimit \in Nat \ {0} /\ MaxConcurrent \in Nat \ {0}
    /\ MaxAdmissions \in Nat /\ MaxFaults \in Nat
    /\ Failing \subseteq {"admit", "take", "shrink", "reflect", "answer", "observe"}
    /\ Thinking \in BOOLEAN

VARIABLES
    session,        \* the session's canonical state
    history,        \* Ops -> canonical history of the run
    trace,          \* Ops -> its trace
    results,        \* Ops -> its result file
    inbox,          \* Ops -> its queue of inputs
    adm,            \* Ops -> the admission in memory
    faults          \* crashes and failed commits so far, for the bound

files == <<session, history, trace, results, inbox>>
vars == <<session, history, trace, results, inbox, adm, faults>>

-----------------------------------------------------------------------------
NoResult == [reason |-> "none", rev |-> 0, msgs |-> <<>>]

(* reason is "completed" or, for every other terminal reason, "stopped":   *)
(* the code distinguishes no others.  turn is the turn of the loop, done   *)
(* the one the result reports: 0 until this admission starts a turn.       *)
Idle ==
    [pc |-> "idle", via |-> "none", n |-> 0, turn |-> 0, done |-> 0, rev |-> 0, seq |-> 0,
     reason |-> "none", inputs |-> EmptyBag, claims |-> {}, claim |-> NoClaim,
     base |-> <<>>, reply |-> "none"]

At(r, pc) == adm[r].pc = pc
Running == {r \in Ops : ~At(r, "idle")}
TurnOpen == \E r \in Running : adm[r].via = "session"
Committed(o) == \E k \in DOMAIN session.turns : session.turns[k].op = o
HasResult(r) == results[r].reason # "none"

(* A new run starts from the session's messages and the prompt.            *)
FreshAdmission(o, messages) ==
    [Idle EXCEPT !.pc = "reconcile", !.via = "session", !.n = 1, !.base = Append(messages, o)]

(* Mutant: the numbers of the events go on from the checkpoint.            *)
ResumedAdmissionAtCheckpoint(r, via) ==
    [Idle EXCEPT !.pc = "reconcile", !.via = via, !.n = history[r].adm + 1,
        !.turn = history[r].turn, !.rev = history[r].rev,
        !.seq = history[r].seq,
        !.inputs = history[r].inputs, !.claims = history[r].claims, !.base = history[r].base]

(* A resumed run goes on from its checkpoint, and numbers its events after *)
(* the last one in the trace.                                              *)
ResumedAdmission(r, via) ==
    [Idle EXCEPT !.pc = "reconcile", !.via = via, !.n = history[r].adm + 1,
        !.turn = history[r].turn, !.rev = history[r].rev,
        !.seq = Max({history[r].seq, LastEventSequence(trace[r])}),
        !.inputs = history[r].inputs, !.claims = history[r].claims, !.base = history[r].base]

Resumable(r) == history[r].rev > 0 /\ history[r].reason # "completed"

-----------------------------------------------------------------------------
(* The handlers.  A request waits for the session's lane and needs a place *)
(* in the semaphore; a refused one changes nothing.                        *)

MayEnter == Cardinality(Running) < MaxConcurrent

(* Mutant: a committed operation is begun again.                           *)
OpenTurnAgain(o) ==
    /\ ~TurnOpen /\ MayEnter
    /\ session.pending = NoOp
    /\ session' = [session EXCEPT !.pending = o, !.rev = @ + 1]
    /\ adm' = [adm EXCEPT ![o] = FreshAdmission(o, session.msgs)]
    /\ UNCHANGED <<history, trace, results, inbox, faults>>

(* POST /v1/sessions/{id}/turns for a new operation.                       *)
OpenTurn(o) ==
    /\ ~TurnOpen /\ MayEnter
    /\ session.pending = NoOp /\ ~Committed(o)
    /\ session' = [session EXCEPT !.pending = o, !.rev = @ + 1]
    /\ adm' = [adm EXCEPT ![o] = FreshAdmission(o, session.msgs)]
    /\ UNCHANGED <<history, trace, results, inbox, faults>>

(* The same operation sent again while it is pending: from the result of   *)
(* its run if there is one, else from the checkpoint, else from nothing.   *)
PendingAdmission(o) ==
    IF HasResult(o) THEN [Idle EXCEPT !.pc = "session", !.via = "session"]
    ELSE IF history[o].rev > 0 THEN ResumedAdmission(o, "session")
    ELSE FreshAdmission(o, session.msgs)

(* Mutant: a result that was not taken over yet is passed over.            *)
RetryTurnFromCheckpoint(o) ==
    /\ ~TurnOpen /\ MayEnter /\ At(o, "idle")
    /\ session.pending = o
    /\ history[o].rev = 0 \/ Resumable(o)
    /\ adm' = [adm EXCEPT ![o] = PendingAdmission(o)]
    /\ UNCHANGED <<files, faults>>

RetryTurn(o) ==
    /\ ~TurnOpen /\ MayEnter /\ At(o, "idle")
    /\ session.pending = o
    /\ HasResult(o) \/ history[o].rev = 0 \/ Resumable(o)
    /\ adm' = [adm EXCEPT ![o] = PendingAdmission(o)]
    /\ UNCHANGED <<files, faults>>

(* POST /v1/runs with resume_run_id.                                       *)
ResumeRun(r) ==
    /\ MayEnter /\ At(r, "idle")
    /\ Resumable(r)
    /\ history[r].adm < MaxAdmissions
    /\ adm' = [adm EXCEPT ![r] = ResumedAdmission(r, "api")]
    /\ UNCHANGED <<files, faults>>

(* POST /v1/runs/{id}/inputs.  A run is known once its turn has begun.     *)
EnqueueInput(r, i) ==
    /\ i \in InputsOf[r] /\ ~Holds(inbox[r], i)
    /\ session.pending = r \/ Committed(r)
    /\ inbox' = [inbox EXCEPT ![r] = Enqueued(@, i)]
    /\ UNCHANGED <<session, history, trace, results, adm, faults>>

-----------------------------------------------------------------------------
(* The query loop.                                                         *)

(* Where a commit of the history sits in the loop: the step after it, how  *)
(* many turns the checkpoint stands back, the events it reserves.  The     *)
(* last commit takes the turns of the result.                              *)
Barriers ==
    [admit    |-> [next |-> "admitted",  back |-> 0, reserved |-> 1],
     take     |-> [next |-> "taken",     back |-> 1, reserved |-> 1],
     shrink   |-> [next |-> "shrunk",    back |-> 1, reserved |-> 1],
     reflect  |-> [next |-> "reflected", back |-> 1, reserved |-> 1],
     answer   |-> [next |-> "answered",  back |-> 1, reserved |-> 1],
     observe  |-> [next |-> "observed",  back |-> 0, reserved |-> 1],
     terminal |-> [next |-> "ended",     back |-> 0, reserved |-> 2]]

Checkpoint(a, barrier) ==
    [rev |-> a.rev, adm |-> a.n,
     turn |-> IF a.pc = "terminal" THEN a.done ELSE a.turn - barrier.back,
     seq |-> a.seq + barrier.reserved, reason |-> a.reason,
     inputs |-> a.inputs, claims |-> a.claims, base |-> a.base]

(* Mutant: the loop does not follow the revision.                          *)
CommitUnseen(r) ==
    /\ adm[r].pc \in DOMAIN Barriers
    /\ LET barrier == Barriers[adm[r].pc]
       IN /\ history' = [history EXCEPT
                 ![r] = CommitHistory(@, adm[r].rev, Checkpoint(adm[r], barrier))]
          /\ adm' = [adm EXCEPT ![r].pc = barrier.next]
    /\ UNCHANGED <<session, trace, results, inbox, faults>>

Commit(r) ==
    /\ adm[r].pc \in DOMAIN Barriers
    /\ LET barrier == Barriers[adm[r].pc]
       IN /\ history' = [history EXCEPT
                 ![r] = CommitHistory(@, adm[r].rev, Checkpoint(adm[r], barrier))]
          /\ adm' = [adm EXCEPT ![r].pc = barrier.next, ![r].rev = @ + 1]
    /\ UNCHANGED <<session, trace, results, inbox, faults>>

Finish(a, reason) == [a EXCEPT !.pc = "terminal", !.reason = reason]

(* A commit fails: the admission ends with a persistence error, and the    *)
(* inputs of a claim that was to be committed are released.                *)
CommitFails(r) ==
    /\ adm[r].pc \in Failing /\ faults < MaxFaults
    /\ faults' = faults + 1
    /\ LET a == adm[r]
       IN IF a.pc = "take"
          THEN /\ inbox' = [inbox EXCEPT ![r] = Released(@, a.claim)]
               /\ adm' = [adm EXCEPT ![r] =
                      [Finish(a, "stopped") EXCEPT !.claims = {c \in @ : c.id # a.claim}]]
          ELSE /\ adm' = [adm EXCEPT ![r] = Finish(a, "stopped")]
               /\ UNCHANGED inbox
    /\ UNCHANGED <<session, history, trace, results>>

(* Appends events to the trace, and goes on as next.                       *)
Emit(r, events, next) ==
    /\ trace' = [trace EXCEPT ![r].events = @ \o events]
    /\ adm' = [adm EXCEPT ![r] = [next EXCEPT !.seq = @ + Len(events)]]

Plain(a, k) == Event("step", a.seq + k)
CommittedEvent(a) == RevisionEvent(a.seq + 1, a.rev)

(* The start of an admission: claims left behind are settled first.        *)
Reconcile(r) ==
    /\ At(r, "reconcile")
    /\ inbox' = [inbox EXCEPT ![r] = Reconciled(@, adm[r].claims)]
    /\ adm' = [adm EXCEPT ![r].pc = "admit"]
    /\ UNCHANGED <<session, history, trace, results, faults>>

(* After the admission commit: history_committed, run_started, capability. *)
Admitted(r) ==
    /\ At(r, "admitted")
    /\ LET a == adm[r]
       IN Emit(r, <<CommittedEvent(a), Plain(a, 2), Plain(a, 3)>>, [a EXCEPT !.pc = "turn"])
    /\ UNCHANGED <<session, history, results, inbox, faults>>

AfterShrinking(a) == [a EXCEPT !.pc = IF Thinking THEN "think" ELSE "generate"]

(* The turn limit ends the admission, or a cancelled request or a deadline *)
(* found as a turn begins.                                                 *)
EndTurns(r) ==
    /\ At(r, "turn")
    /\ LET a == adm[r]
       IN \/ a.turn >= MaxTurns /\ adm' = [adm EXCEPT ![r] = Finish(a, "stopped")]
          \/ /\ a.turn < MaxTurns
             /\ adm' = [adm EXCEPT ![r] =
                    Finish([a EXCEPT !.turn = @ + 1, !.done = a.turn + 1], "stopped")]
    /\ UNCHANGED <<files, faults>>

(* A turn begins and claims what is queued; the claim enters the next      *)
(* commit with the revision that commit will have.                         *)
StartTurn(r) ==
    /\ At(r, "turn") /\ adm[r].turn < MaxTurns
    /\ LET a == [adm[r] EXCEPT !.turn = @ + 1, !.done = adm[r].turn + 1]
           claim == <<a.n, a.turn>>
           box == Claimed(inbox[r], claim, ClaimLimit)
       IN IF Unclaimed(inbox[r]) = {}
          THEN /\ Emit(r, <<Plain(a, 1)>>, [a EXCEPT !.pc = "compact"])
               /\ UNCHANGED inbox
          ELSE /\ inbox' = [inbox EXCEPT ![r] = box]
               /\ Emit(r, <<Plain(a, 1), ClaimEvent("claimed", a.seq + 2, claim, 0)>>,
                       [a EXCEPT !.pc = "take", !.claim = claim,
                           !.inputs = a.inputs (+) ClaimedInputs(box, claim),
                           !.claims = a.claims \cup {[id |-> claim, rev |-> a.rev + 1]}])
    /\ UNCHANGED <<session, history, results, faults>>

(* Mutant: the event of the commit is left out.                            *)
TakenQuietly(r) ==
    /\ At(r, "taken")
    /\ Emit(r, <<>>, [adm[r] EXCEPT !.pc = "ack"])
    /\ UNCHANGED <<session, history, results, inbox, faults>>

Taken(r) ==
    /\ At(r, "taken")
    /\ Emit(r, <<CommittedEvent(adm[r])>>, [adm[r] EXCEPT !.pc = "ack"])
    /\ UNCHANGED <<session, history, results, inbox, faults>>

(* The claim is acknowledged at the revision that holds its inputs.        *)
Ack(r) ==
    /\ At(r, "ack")
    /\ LET a == adm[r]
       IN /\ inbox' = [inbox EXCEPT ![r] = Acknowledged(@, a.claim, a.rev)]
          /\ Emit(r, <<ClaimEvent("acked", a.seq + 1, a.claim, a.rev)>>,
                  [a EXCEPT !.pc = "compact"])
    /\ UNCHANGED <<session, history, results, faults>>

(* The compactor shortens the messages, leaves them, or fails.             *)
Compact(r) ==
    /\ At(r, "compact")
    /\ \/ Emit(r, <<Plain(adm[r], 1)>>, [adm[r] EXCEPT !.pc = "shrink"])
       \/ Emit(r, <<>>, AfterShrinking(adm[r]))
       \/ Emit(r, <<>>, Finish(adm[r], "stopped"))
    /\ UNCHANGED <<session, history, results, inbox, faults>>

Shrunk(r) ==
    /\ At(r, "shrunk")
    /\ Emit(r, <<CommittedEvent(adm[r])>>, AfterShrinking(adm[r]))
    /\ UNCHANGED <<session, history, results, inbox, faults>>

(* The thinking phase: a model call without tools; what it says, if        *)
(* anything, is an event and a commit.                                     *)
Think(r) ==
    /\ At(r, "think")
    /\ \/ Emit(r, <<Plain(adm[r], 1)>>, [adm[r] EXCEPT !.pc = "reflect"])
       \/ Emit(r, <<>>, [adm[r] EXCEPT !.pc = "generate"])
       \/ Emit(r, <<>>, Finish(adm[r], "stopped"))
    /\ UNCHANGED <<session, history, results, inbox, faults>>

Reflected(r) ==
    /\ At(r, "reflected")
    /\ Emit(r, <<CommittedEvent(adm[r])>>, [adm[r] EXCEPT !.pc = "generate"])
    /\ UNCHANGED <<session, history, results, inbox, faults>>

(* The model answers, with tool calls or for good, or the provider fails.  *)
Generate(r) ==
    /\ At(r, "generate")
    /\ \/ \E reply \in {"calls", "final"} :
             Emit(r, <<Plain(adm[r], 1)>>, [adm[r] EXCEPT !.pc = "answer", !.reply = reply])
       \/ Emit(r, <<>>, Finish(adm[r], "stopped"))
    /\ UNCHANGED <<session, history, results, inbox, faults>>

(* The answer is committed: the budget is spent, the answer is final, or   *)
(* its calls are carried out unless one repeats too often.                 *)
Answered(r) ==
    /\ At(r, "answered")
    /\ LET a == adm[r]
       IN \/ Emit(r, <<CommittedEvent(a)>>, Finish(a, "stopped"))
          \/ /\ a.reply = "final"
             /\ Emit(r, <<CommittedEvent(a)>>, Finish(a, "completed"))
          \/ /\ a.reply = "calls"
             /\ Emit(r, <<CommittedEvent(a), ClaimEvent("call", a.seq + 2, <<a.n, a.turn>>, 0)>>,
                     [a EXCEPT !.pc = "execute"])
    /\ UNCHANGED <<session, history, results, inbox, faults>>

(* The batch returns; a fatal result ends the run.                         *)
Execute(r) ==
    /\ At(r, "execute")
    /\ LET a == adm[r]
       IN \E next \in {[a EXCEPT !.pc = "observe"], Finish(a, "stopped")} :
             Emit(r, <<ClaimEvent("observation", a.seq + 1, <<a.n, a.turn>>, 0)>>, next)
    /\ UNCHANGED <<session, history, results, inbox, faults>>

Observed(r) ==
    /\ At(r, "observed")
    /\ Emit(r, <<CommittedEvent(adm[r]), Plain(adm[r], 2)>>, [adm[r] EXCEPT !.pc = "turn"])
    /\ UNCHANGED <<session, history, results, inbox, faults>>

(* finish, after its commit: the last events and the result record.        *)
Ended(r) ==
    /\ At(r, "ended")
    /\ LET a == adm[r]
       IN /\ trace' = [trace EXCEPT ![r] =
                 [events |-> @.events \o <<CommittedEvent(a), Plain(a, 2)>>,
                  result |-> ResultRecord(a.reason, a.rev)]]
          /\ adm' = [adm EXCEPT ![r].pc = "result", ![r].seq = @ + 2]
    /\ UNCHANGED <<session, history, results, inbox, faults>>

WriteResult(r) ==
    /\ At(r, "result")
    /\ results' = [results EXCEPT
           ![r] = [reason |-> adm[r].reason, rev |-> adm[r].rev, msgs |-> adm[r].base]]
    /\ adm' = [adm EXCEPT ![r] = IF @.via = "session" THEN [@ EXCEPT !.pc = "session"] ELSE Idle]
    /\ UNCHANGED <<session, history, trace, inbox, faults>>

(* The session takes over the conversation of the run's result.            *)
CommitTurn(o) ==
    /\ At(o, "session") /\ session.pending = o
    /\ session' = [rev |-> session.rev + 1, pending |-> NoOp, msgs |-> results[o].msgs,
                   turns |-> Append(session.turns, [op |-> o, reason |-> results[o].reason])]
    /\ adm' = [adm EXCEPT ![o] = Idle]
    /\ UNCHANGED <<history, trace, results, inbox, faults>>

-----------------------------------------------------------------------------
(* The server stops and starts again: only the files remain.               *)
Crash ==
    /\ faults < MaxFaults /\ Running # {}
    /\ faults' = faults + 1
    /\ adm' = [r \in Ops |-> Idle]
    /\ UNCHANGED files

Init ==
    /\ session = [rev |-> 0, turns |-> <<>>, pending |-> NoOp, msgs |-> <<>>]
    /\ history = [r \in Ops |-> NoHistory]
    /\ trace = [r \in Ops |-> NoTrace]
    /\ results = [r \in Ops |-> NoResult]
    /\ inbox = [r \in Ops |-> <<>>]
    /\ adm = [r \in Ops |-> Idle]
    /\ faults = 0

LoopStep(r) ==
    \/ Reconcile(r) \/ Commit(r) \/ Admitted(r)
    \/ StartTurn(r) \/ EndTurns(r) \/ Taken(r) \/ Ack(r)
    \/ Compact(r) \/ Shrunk(r) \/ Think(r) \/ Reflected(r) \/ Generate(r) \/ Answered(r)
    \/ Execute(r) \/ Observed(r) \/ Ended(r) \/ WriteResult(r) \/ CommitTurn(r)

Next ==
    \/ \E o \in Ops : OpenTurn(o) \/ RetryTurn(o) \/ ResumeRun(o) \/ LoopStep(o)
    \/ \E r \in Ops : CommitFails(r) \/ \E i \in InputsOf[r] : EnqueueInput(r, i)
    \/ Crash

Spec == Init /\ [][Next]_vars

(* The loop goes on, and the client of a pending turn sends it again until *)
(* it is answered for good.                                                *)
Fairness ==
    \A o \in Ops : WF_vars(LoopStep(o)) /\ SF_vars(RetryTurn(o))

FairSpec == Spec /\ Fairness

-----------------------------------------------------------------------------
(* Type correctness of the files and of the admissions in memory.          *)
Reasons == {"none", "completed", "stopped"}
Claims == (0..(MaxAdmissions + MaxFaults + 2)) \X (0..MaxTurns)

TypeOK ==
    /\ session.rev \in Nat /\ session.pending \in Ops \cup {NoOp}
    /\ session.turns \in Seq([op : Ops, reason : Reasons])
    /\ session.msgs \in Seq(Ops)
    /\ \A r \in Ops :
          /\ history[r].rev \in Nat /\ history[r].turn \in 0..MaxTurns
          /\ history[r].reason \in Reasons
          /\ \A c \in history[r].claims : c.id \in Claims /\ c.rev \in 1..history[r].rev
          /\ \A k \in DOMAIN inbox[r] :
                inbox[r][k].claim \in Claims /\ inbox[r][k].ack \in 0..history[r].rev
          /\ results[r].reason \in Reasons
          /\ adm[r].turn \in 0..MaxTurns /\ adm[r].done \in {0, adm[r].turn}
          /\ At(r, "reconcile") \/ At(r, "idle") \/ At(r, "session")
             \/ adm[r].rev = history[r].rev

-----------------------------------------------------------------------------
(* Delivery of inputs, as the queue promises it.                           *)

TimesTaken(r, i) == Copies(history[r].inputs, i)
Settled(r, i) == \E k \in DOMAIN inbox[r] : inbox[r][k].input = i /\ inbox[r][k].ack > 0

DeliveryStatus(r, i) ==
    CASE TimesTaken(r, i) = 0 /\ ~Holds(inbox[r], i) -> "absent"
      [] TimesTaken(r, i) = 0 /\ Holds(inbox[r], i) /\ ~Settled(r, i) -> "queued"
      [] TimesTaken(r, i) = 1 /\ Holds(inbox[r], i) /\ ~Settled(r, i) -> "taken"
      [] TimesTaken(r, i) = 1 /\ Settled(r, i) -> "settled"
      [] OTHER -> "broken"

Deliveries == {d \in Ops \X UNION {InputsOf[r] : r \in Ops} : d[2] \in InputsOf[d[1]]}

Delivery == INSTANCE InputDelivery WITH
    Inputs <- Deliveries,
    status <- [d \in Deliveries |-> DeliveryStatus(d[1], d[2])]

(* Every queued input enters the history of its run exactly once, in spite *)
(* of crashes anywhere between claim, commit and acknowledgement, and it   *)
(* is acknowledged only after that: the loop and the queue implement the   *)
(* exactly-once delivery of InputDelivery.                                 *)
DeliversInputs == Delivery!Spec

(* Event numbers are never reused: every event that a step appends to a    *)
(* trace has a larger number than the one before it, also after crashes    *)
(* that cut the trace behind or ahead of the last commit.                  *)
EventNumbersRise ==
    [][\A r \in Ops :
          LET events == trace'[r].events
          IN \A k \in DOMAIN events :
                k > 1 /\ k > Len(trace[r].events) => events[k - 1].seq < events[k].seq]_vars

(* A run carried out in one admission leaves a trace that replay accepts:  *)
(* its commits, claims, acknowledgements and calls pair up in order.       *)
UncutRunsReplay ==
    \A r \in Ops : HasResult(r) /\ history[r].adm = 1 => Replay(trace[r])

(* The conversation of a session is the sequence of its committed turns,   *)
(* each operation once, and each has a durable result: a turn built on a   *)
(* conversation that another turn has left behind would break it.          *)
ConversationIsTurns ==
    /\ session.msgs = [k \in DOMAIN session.turns |-> session.turns[k].op]
    /\ \A j, k \in DOMAIN session.turns :
          session.turns[j].op = session.turns[k].op => j = k
    /\ \A o \in Ops : Committed(o) => HasResult(o)

(* The run of the pending turn was completed in its history but its result *)
(* was not written: a crash fell between the two writes.                   *)
Stranded(o) ==
    /\ session.pending = o
    /\ history[o].reason = "completed" /\ ~HasResult(o) /\ At(o, "idle")

(* A pending turn whose client retries is committed in the end, whatever   *)
(* crashes, unless it is stranded.                                         *)
TurnsEnd == \A o \in Ops : session.pending = o ~> (session.pending # o \/ Stranded(o))

(* Documented: on restart, committed claims are acknowledged and           *)
(* uncommitted claims are released (docs/architecture.md).  An input that  *)
(* the committed history holds is therefore never offered to a claim       *)
(* again, as the loop would take it in a second time.                      *)
CommittedInputsAreGone ==
    \A r \in Ops : \A k \in Unclaimed(inbox[r]) : TimesTaken(r, inbox[r][k].input) = 0
=============================================================================
