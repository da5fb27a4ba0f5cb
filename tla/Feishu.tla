------------------------------- MODULE Feishu --------------------------------
(***************************************************************************)
(* The chat bridge, internal/feishu: each message of a chat becomes a      *)
(* durable job; workers claim jobs, ask for a turn of the chat's session   *)
(* and send the answer.  A channel of ids only wakes the workers: it may   *)
(* be full, hold an id twice, and is lost with the process.  A crash       *)
(* leaves jobs in processing; a signal cancels what the workers do.        *)
(*                                                                         *)
(* Each change of a job is one write of its file under the store's mutex,  *)
(* and it succeeds.  The session API is what Turns shows: an operation     *)
(* sent again is answered from its committed turn, resumes the pending     *)
(* one, or is refused while another is pending; a response may be lost.    *)
(***************************************************************************)
EXTENDS Integers, Sequences, FiniteSets

CONSTANTS
    Events,
    Chats,
    Workers,
    QueueSize,
    MaxAttempts,
    MaxStops,       \* bound: stops of the process, by a signal or a crash
    None

VARIABLES
    jobs,           \* Events -> [state, chat, attempts]
    wake,           \* the channel of ids
    workers,        \* Workers -> [at, event]
    bridge,         \* "up", "stopping" after a signal, or "down"
    pending,        \* Chats -> the event whose turn is pending in the session
    turns,          \* Events -> "none", or how its turn was committed
    replied,        \* events whose answer was sent to the chat
    stops

vars == <<jobs, wake, workers, bridge, pending, turns, replied, stops>>
session == <<pending, turns>>

-----------------------------------------------------------------------------
NoJob == [state |-> "absent", chat |-> None, attempts |-> 0]
Free == [at |-> "idle", event |-> None]

Queued(e) == jobs[e].state = "queued"
Put(e, state) == jobs' = [jobs EXCEPT ![e].state = state]

(* schedule: a full channel drops the id.                                  *)
Scheduled(channel, e) == IF Len(channel) < QueueSize THEN Append(channel, e) ELSE channel

(* The callback of the chat service; an event may come again.              *)
HandleMessage(e, chat) ==
    /\ bridge # "down"
    /\ \/ /\ jobs[e] = NoJob
          /\ jobs' = [jobs EXCEPT ![e] = [state |-> "queued", chat |-> chat, attempts |-> 0]]
       \/ Queued(e) /\ jobs[e].chat = chat /\ UNCHANGED jobs
    /\ wake' = Scheduled(wake, e)
    /\ UNCHANGED <<workers, bridge, session, replied, stops>>

(* Mutant: only jobs that were never tried are woken again.                *)
WakeNew(e) ==
    /\ bridge # "down"
    /\ Queued(e) /\ jobs[e].attempts = 0
    /\ Len(wake) < QueueSize
    /\ wake' = Append(wake, e)
    /\ UNCHANGED <<jobs, workers, bridge, session, replied, stops>>

(* Start schedules what is queued, and the dispatcher every second.        *)
Wake(e) ==
    /\ bridge # "down"
    /\ Queued(e)
    /\ Len(wake) < QueueSize
    /\ wake' = Append(wake, e)
    /\ UNCHANGED <<jobs, workers, bridge, session, replied, stops>>

-----------------------------------------------------------------------------
(* A worker.                                                               *)

Event(w) == workers[w].event
At(w, at) == workers[w].at = at
Goto(w, at) == workers' = [workers EXCEPT ![w].at = at]
Rest(w) == workers' = [workers EXCEPT ![w] = Free]

(* Mutant: a job that another worker has in hand is claimed too.           *)
ClaimAgain(w) ==
    /\ At(w, "idle") /\ bridge # "down"
    /\ wake # <<>>
    /\ wake' = Tail(wake)
    /\ LET e == Head(wake)
       IN IF jobs[e].state \in {"queued", "processing"}
          THEN /\ jobs' = [jobs EXCEPT ![e].state = "processing", ![e].attempts = @ + 1]
               /\ workers' = [workers EXCEPT ![w] = [at |-> "turn", event |-> e]]
          ELSE UNCHANGED <<jobs, workers>>
    /\ UNCHANGED <<bridge, session, replied, stops>>

(* An id whose job is not queued any more is dropped.                      *)
Claim(w) ==
    /\ At(w, "idle") /\ bridge # "down"
    /\ wake # <<>>
    /\ wake' = Tail(wake)
    /\ LET e == Head(wake)
       IN IF Queued(e)
          THEN /\ jobs' = [jobs EXCEPT ![e].state = "processing", ![e].attempts = @ + 1]
               /\ workers' = [workers EXCEPT ![w] = [at |-> "turn", event |-> e]]
          ELSE UNCHANGED <<jobs, workers>>
    /\ UNCHANGED <<bridge, session, replied, stops>>

(* The server runs the turn: it answers, or ends without an answer, or its *)
(* run is left pending.                                                    *)
TurnRuns(w) ==
    LET e == Event(w)
        chat == jobs[e].chat
    IN  /\ At(w, "turn")
        /\ turns[e] = "none" /\ pending[chat] \in {None, e}
        /\ \E outcome \in {"answered", "empty", "none"} :
              /\ turns' = [turns EXCEPT ![e] = outcome]
              /\ pending' = [pending EXCEPT ![chat] = IF outcome = "none" THEN e ELSE None]
              /\ \/ outcome = "answered" /\ bridge = "up" /\ Goto(w, "reply")
                 \/ Goto(w, "fail")
        /\ UNCHANGED <<jobs, wake, bridge, replied, stops>>

TurnCached(w) ==
    /\ At(w, "turn") /\ bridge = "up"
    /\ turns[Event(w)] = "answered"
    /\ Goto(w, "reply")
    /\ UNCHANGED <<jobs, wake, bridge, session, replied, stops>>

(* Another turn is pending, or the server is full, busy or not there.      *)
TurnRefused(w) ==
    /\ At(w, "turn")
    /\ Goto(w, "fail")
    /\ UNCHANGED <<jobs, wake, bridge, session, replied, stops>>

(* The answer may arrive though sending it fails.                          *)
Reply(w) ==
    /\ At(w, "reply")
    /\ \/ replied' = replied \cup {Event(w)} /\ bridge = "up" /\ Goto(w, "complete")
       \/ replied' \in {replied, replied \cup {Event(w)}} /\ Goto(w, "fail")
    /\ UNCHANGED <<jobs, wake, bridge, session, stops>>

Complete(w) ==
    /\ At(w, "complete")
    /\ Put(Event(w), "succeeded")
    /\ Rest(w)
    /\ UNCHANGED <<wake, bridge, session, replied, stops>>

(* A stopping bridge does not retry: the job has failed.                   *)
Retried(e) == jobs[e].attempts < MaxAttempts /\ bridge = "up"

Fail(w) ==
    /\ At(w, "fail")
    /\ IF Retried(Event(w))
       THEN Put(Event(w), "queued") /\ Goto(w, "wait")
       ELSE Put(Event(w), "failed") /\ Rest(w)
    /\ UNCHANGED <<wake, bridge, session, replied, stops>>

(* The worker sleeps before it schedules the retry, or is told to stop.    *)
WaitEnds(w) ==
    /\ At(w, "wait")
    /\ \/ wake' = Scheduled(wake, Event(w))
       \/ bridge = "stopping" /\ UNCHANGED wake
    /\ Rest(w)
    /\ UNCHANGED <<jobs, bridge, session, replied, stops>>

Work(w) ==
    \/ Claim(w) \/ TurnRuns(w) \/ TurnCached(w) \/ TurnRefused(w)
    \/ Reply(w) \/ Complete(w) \/ Fail(w) \/ WaitEnds(w)

-----------------------------------------------------------------------------
(* The process.                                                            *)

Stop(next) ==
    /\ bridge = "up" /\ stops < MaxStops
    /\ stops' = stops + 1
    /\ bridge' = next

Signal ==
    /\ Stop("stopping")
    /\ UNCHANGED <<jobs, wake, workers, session, replied>>

Down ==
    /\ wake' = <<>>
    /\ workers' = [w \in Workers |-> Free]
    /\ UNCHANGED <<jobs, session, replied>>

Crash == Stop("down") /\ Down

Exit ==
    /\ bridge = "stopping"
    /\ \A w \in Workers : At(w, "idle")
    /\ bridge' = "down"
    /\ Down
    /\ UNCHANGED stops

Reconciled(job) == IF job.state = "processing" THEN [job EXCEPT !.state = "queued"] ELSE job

(* What is then queued is scheduled by Wake.                               *)
Start ==
    /\ bridge = "down"
    /\ bridge' = "up"
    /\ jobs' = [e \in Events |-> Reconciled(jobs[e])]
    /\ UNCHANGED <<wake, workers, session, replied, stops>>

Init ==
    /\ jobs = [e \in Events |-> NoJob]
    /\ wake = <<>>
    /\ workers = [w \in Workers |-> Free]
    /\ bridge = "down"
    /\ pending = [chat \in Chats |-> None]
    /\ turns = [e \in Events |-> "none"]
    /\ replied = {}
    /\ stops = 0

Next ==
    \/ \E e \in Events : Wake(e) \/ \E chat \in Chats : HandleMessage(e, chat)
    \/ \E w \in Workers : Work(w)
    \/ Signal \/ Crash \/ Exit \/ Start

Spec == Init /\ [][Next]_vars

-----------------------------------------------------------------------------
(* Type correctness.                                                       *)
TypeOK ==
    /\ jobs \in [Events -> [state : {"absent", "queued", "processing", "succeeded", "failed"},
                            chat : Chats \cup {None}, attempts : 0..(MaxAttempts + MaxStops)]]
    /\ Len(wake) <= QueueSize
    /\ \A w \in Workers : workers[w].at # "idle" => Event(w) \in Events

(* A job is in the hands of one worker, however often its id was woken and *)
(* the bridge restarted; only an answer of the session's own turn reaches  *)
(* the chat, and a job is done only when it has.                           *)
RepliesRestOnTurns ==
    /\ \A e \in Events :
          /\ e \in replied => turns[e] = "answered"
          /\ jobs[e].state = "succeeded" => e \in replied
          /\ jobs[e].state = "processing" /\ bridge # "down" =>
                Cardinality({w \in Workers : Event(w) = e /\ ~At(w, "wait")}) = 1

Unsettled == {e \in Events : jobs[e].state \in {"queued", "processing"}}

(* Accepted messages are to be answered or given up.                       *)
Pending == Unsettled # {}

(* "interrupted jobs are reconciled after restart" (README.md): a job is   *)
(* given up only when its attempts are used up.                            *)
GivenUpWhenExhausted ==
    \A e \in Events : jobs[e].state = "failed" => jobs[e].attempts >= MaxAttempts
=============================================================================
