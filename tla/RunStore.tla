------------------------------ MODULE RunStore ------------------------------
(***************************************************************************)
(* The files of one run, internal/runstore: the queue of inputs            *)
(* (inbox.go), the canonical history with its revisions, the trace of      *)
(* numbered events and the replay that validates it (store.go).  Every     *)
(* operation rewrites or appends to one file of the run under the store's  *)
(* mutex, so it is a function from the file's old contents to its new.     *)
(*                                                                         *)
(* A history keeps of the messages how often each input was taken in, and  *)
(* of the conversation it started from the turns.  Operation ids are left  *)
(* out: the engine numbers each commit and never repeats one, and the      *)
(* operation ledger is only consulted for repeated ids.                    *)
(***************************************************************************)
EXTENDS Naturals, Sequences, SequencesExt, FiniteSets

-----------------------------------------------------------------------------
(* The queue of inputs.  A claim is named by the admission and the turn    *)
(* that drew it.                                                           *)

NoClaim == <<0, 0>>

Item(i) == [input |-> i, claim |-> NoClaim, ack |-> 0]

Holds(box, i) == \E k \in DOMAIN box : box[k].input = i

(* An input sent again under its id is the input already queued.           *)
Enqueued(box, i) == IF Holds(box, i) THEN box ELSE Append(box, Item(i))

Unclaimed(box) == {k \in DOMAIN box : box[k].claim = NoClaim /\ box[k].ack = 0}

(* The oldest unclaimed inputs, at most limit of them.                     *)
Batch(box, limit) ==
    {k \in Unclaimed(box) : Cardinality({j \in Unclaimed(box) : j < k}) < limit}

Claimed(box, claim, limit) ==
    [k \in DOMAIN box |->
        IF k \in Batch(box, limit) THEN [box[k] EXCEPT !.claim = claim] ELSE box[k]]

ClaimedInputs(box, claim) ==
    SetToBag({box[k].input : k \in {j \in DOMAIN box : box[j].claim = claim}})

(* How often an input is in a bag of them.                                 *)
Copies(inputs, i) == IF BagIn(i, inputs) THEN inputs[i] ELSE 0

Acknowledged(box, claim, revision) ==
    [k \in DOMAIN box |->
        IF box[k].claim = claim THEN [box[k] EXCEPT !.ack = revision] ELSE box[k]]

(* Release: a claim whose commit failed is given back.                     *)
Released(box, claim) ==
    [k \in DOMAIN box |->
        IF box[k].claim = claim /\ box[k].ack = 0 THEN [box[k] EXCEPT !.claim = NoClaim]
        ELSE box[k]]

(* Mutant: every claim that was not acknowledged is released.              *)
ReconciledReleasing(box, committed) ==
    [k \in DOMAIN box |-> IF box[k].ack > 0 THEN box[k] ELSE [box[k] EXCEPT !.claim = NoClaim]]

(* After a restart: claims the history holds are acknowledged at their     *)
(* revision, the others are released for redelivery.                       *)
Reconciled(box, committed) ==
    [k \in DOMAIN box |->
        IF box[k].claim = NoClaim \/ box[k].ack > 0 THEN box[k]
        ELSE IF \E c \in committed : c.id = box[k].claim
             THEN [box[k] EXCEPT !.ack = (CHOOSE c \in committed : c.id = box[k].claim).rev]
             ELSE [box[k] EXCEPT !.claim = NoClaim]]

-----------------------------------------------------------------------------
(* The canonical history: the checkpoint of the last commit.               *)

NoHistory ==
    [rev |-> 0, adm |-> 0, turn |-> 0, seq |-> 0, reason |-> "none",
     inputs |-> EmptyBag, claims |-> {}, base |-> <<>>]

(* The next revision, or the old history when the writer has not seen it.  *)
Accepts(history, expected) == history.rev = expected

CommitHistory(history, expected, checkpoint) ==
    IF Accepts(history, expected) THEN [checkpoint EXCEPT !.rev = expected + 1]
    ELSE history

-----------------------------------------------------------------------------
(* The trace.  Events carry a number; the result record that closes an     *)
(* admission does not, and the last one counts.                            *)

Event(kind, seq) == [kind |-> kind, seq |-> seq, rev |-> 0, id |-> NoClaim]
RevisionEvent(seq, rev) == [Event("committed", seq) EXCEPT !.rev = rev]
ClaimEvent(kind, seq, claim, rev) == [Event(kind, seq) EXCEPT !.id = claim, !.rev = rev]
ResultRecord(reason, rev) == [reason |-> reason, rev |-> rev]

NoTrace == [events |-> <<>>, result |-> ResultRecord("none", 0)]

(* The number of the last event, 0 when there is none.                     *)
LastEventSequence(trace) == IF trace.events = <<>> THEN 0 ELSE Last(trace.events).seq

(* One event of a replay: what the summary of the events before it says,   *)
(* and whether the event may follow them.                                  *)
ReplayStart == [ok |-> TRUE, seq |-> 0, rev |-> 0, claims |-> {}, acked |-> {}, open |-> {}]

MayFollow(sum, e) ==
    /\ e.seq > sum.seq
    /\ e.kind = "committed" => e.rev = sum.rev + 1
    /\ e.kind = "claimed" => e.id \notin sum.claims
    /\ e.kind = "acked" => /\ e.id \in sum.claims \ sum.acked
                           /\ e.rev \in 1..sum.rev
    /\ e.kind = "observation" => e.id \in sum.open

ReplayEvent(sum, e) ==
    [ok |-> sum.ok /\ MayFollow(sum, e),
     seq |-> e.seq,
     rev |-> IF e.kind = "committed" THEN e.rev ELSE sum.rev,
     claims |-> IF e.kind = "claimed" THEN sum.claims \cup {e.id} ELSE sum.claims,
     acked |-> IF e.kind = "acked" THEN sum.acked \cup {e.id} ELSE sum.acked,
     open |-> CASE e.kind = "call" -> sum.open \cup {e.id}
                [] e.kind = "observation" -> sum.open \ {e.id}
                [] OTHER -> sum.open]

(* What the events say, after each of them.                                *)
Summaries(events) ==
    LET sum[k \in 0..Len(events)] ==
            IF k = 0 THEN ReplayStart ELSE ReplayEvent(sum[k - 1], events[k])
    IN sum

Summary(events) == Summaries(events)[Len(events)]

(* What a replay says of a closed trace: its events follow one another and *)
(* its last result record fits them.                                       *)
Replay(trace) ==
    LET sum == Summary(trace.events)
    IN /\ sum.ok
       /\ sum.rev > 0 => trace.result.rev = sum.rev
       /\ trace.result.reason = "completed" => sum.open = {}
=============================================================================
