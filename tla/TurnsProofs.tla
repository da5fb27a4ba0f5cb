----------------------------- MODULE TurnsProofs -----------------------------
(* Theorems about the turns of a session and their runs, for any number of *)
(* turns, inputs, admissions, crashes and failed commits: the types, the   *)
(* conversation, the event numbers, the delivery of inputs and the replay  *)
(* of an uncut run's events.  The invariant of one run is Held, and Told   *)
(* for what its events say; what a step does to one run is carried over to *)
(* all of them by Becomes and StepIsFine.                                  *)
EXTENDS Turns, SequenceTheorems, WellFoundedInduction, TLAPS

-----------------------------------------------------------------------------
(* The shape of the files and of the admissions.                           *)

AllInputs == UNION {InputsOf[r] : r \in Ops}
InputBags == UNION {[S -> Nat \ {0}] : S \in SUBSET AllInputs}
ClaimIds == Nat \X Nat
ClaimSets == SUBSET [id : ClaimIds, rev : Nat]

Histories ==
    [rev : Nat, adm : Nat, turn : 0..MaxTurns, seq : Nat, reason : Reasons,
     inputs : InputBags, claims : ClaimSets, base : Seq(Ops)]

Kinds == {"step", "committed", "claimed", "acked", "call", "observation"}
Events == [kind : Kinds, seq : Nat, rev : Nat, id : ClaimIds]
Traces == [events : Seq(Events), result : [reason : Reasons, rev : Nat]]
Results == [reason : Reasons, rev : Nat, msgs : Seq(Ops)]
Items == [input : AllInputs, claim : ClaimIds, ack : Nat]
Boxes == Seq(Items)

Opening == {"reconcile", "admit"}
Working ==
    {"take", "taken", "ack", "compact", "shrink", "shrunk", "think", "reflect", "reflected",
     "generate", "answer", "answered", "execute", "observe", "observed"}
Closing == {"terminal", "ended", "result"}
Looping == Opening \cup {"admitted", "turn"} \cup Working \cup Closing

Admissions ==
    [pc : Looping \cup {"idle", "session"}, via : {"none", "session", "api"},
     n : Nat, turn : 0..MaxTurns, done : 0..MaxTurns, rev : Nat, seq : Nat, reason : Reasons,
     inputs : InputBags, claims : ClaimSets, claim : ClaimIds, base : Seq(Ops),
     reply : {"none", "calls", "final"}]

Shapes ==
    /\ session \in [rev : Nat, turns : Seq([op : Ops, reason : Reasons]),
                    pending : Ops \cup {NoOp}, msgs : Seq(Ops)]
    /\ history \in [Ops -> Histories]
    /\ trace \in [Ops -> Traces]
    /\ results \in [Ops -> Results]
    /\ inbox \in [Ops -> Boxes]
    /\ adm \in [Ops -> Admissions]
    /\ faults \in 0..MaxFaults

-----------------------------------------------------------------------------
(* The invariant of one run: h its history, t its trace, res its result,   *)
(* box its queue, a its admission, f the faults so far.                    *)

IdsOf(claims) == {c.id : c \in claims}

(* The admission has seen the last commit, and the numbers of admissions   *)
(* stay within the bound.                                                  *)
Counted(h, res, a, f) ==
    /\ a.pc \in Looping => (a.rev = h.rev /\ a.n >= 1 /\ h.adm <= a.n)
    /\ a.pc \in Opening => h.adm < a.n
    /\ a.pc \in Looping \ (Opening \cup {"terminal"}) => h.rev >= 1
    /\ a.pc \in Working => a.turn >= 1
    /\ a.done \in {0, a.turn}
    /\ a.pc \in Closing => a.reason # "none"
    /\ a.n <= MaxAdmissions + f + 1 /\ h.adm <= MaxAdmissions + f + 1
    /\ a.pc = "idle" /\ res.reason = "none" => h.adm <= MaxAdmissions + f

(* The trace is not ahead of the admission's numbers.                      *)
Behind(h, t, a) ==
    /\ h.rev = 0 => t.events = <<>>
    /\ a.pc \in Looping => LastEventSequence(t) <= a.seq

(* Claims of the history are of admissions and turns past, and those of    *)
(* the queue are in the history, or stale, or about to be committed.       *)
HistoryClaims(h) ==
    /\ h.rev = 0 => h.claims = {} /\ h.inputs = EmptyBag /\ h.adm = 0
    /\ \A c \in h.claims :
          /\ c.rev \in 1..h.rev
          /\ c.id[1] \in 1..h.adm /\ c.id[2] \in 0..MaxTurns

AdmissionClaims(h, a) ==
    /\ a.pc \in Looping =>
          (\A c \in h.claims : c.id[1] < a.n \/ (c.id[1] = a.n /\ c.id[2] <= a.turn))
    /\ a.pc \in Looping \ {"take"} => a.claims = h.claims
    /\ a.pc = "take" =>
          /\ a.claim = <<a.n, a.turn>> /\ a.claim \notin IdsOf(h.claims)
          /\ a.claims = h.claims \cup {[id |-> a.claim, rev |-> h.rev + 1]}
    /\ a.pc \in {"taken", "ack"} => a.claim = <<a.n, a.turn>>

BoxClaims(h, box, a) ==
    /\ \A j, k \in DOMAIN box : box[j].input = box[k].input => j = k
    /\ \A k \in DOMAIN box :
          /\ box[k].ack \in 0..h.rev
          /\ box[k].ack > 0 => box[k].claim \in IdsOf(h.claims)
          /\ box[k].claim \in Claims
          /\ a.pc \in Looping \ {"reconcile"} =>
                \/ box[k].claim \in {NoClaim} \cup IdsOf(h.claims)
                \/ a.pc = "take" /\ box[k].claim = a.claim

(* How often the history took an input in.                                 *)
Took(h, box, i) == \E k \in DOMAIN box : box[k].input = i /\ box[k].claim \in IdsOf(h.claims)

InputsOnce(h, box, a) ==
    /\ \A i \in AllInputs : Copies(h.inputs, i) = IF Took(h, box, i) THEN 1 ELSE 0
    /\ a.pc \in Looping \ {"take"} => a.inputs = h.inputs
    /\ a.pc = "take" => a.inputs = h.inputs (+) ClaimedInputs(box, a.claim)

Held(h, t, res, box, a, f) ==
    /\ Counted(h, res, a, f) /\ Behind(h, t, a) /\ HistoryClaims(h)
    /\ AdmissionClaims(h, a) /\ BoxClaims(h, box, a)

(* The conversation: the run of the pending turn builds on the session's   *)
(* messages, and a turn that was never begun has no run.                   *)
Builds(o) ==
    LET conversation == Append(session.msgs, o)
    IN /\ adm[o].pc \in Looping => adm[o].base = conversation
       /\ history[o].rev > 0 => history[o].base = conversation
       /\ HasResult(o) => results[o].msgs = conversation

Unborn(o) == history[o].rev = 0 /\ ~HasResult(o) /\ At(o, "idle")

SessionHolds ==
    /\ ConversationIsTurns
    /\ session.pending # NoOp => ~Committed(session.pending) /\ Builds(session.pending)
    /\ \A o \in Ops : session.pending = o \/ Committed(o) \/ Unborn(o)
    /\ \A o \in Ops : adm[o].via = "session" => session.pending = o
    /\ \A o \in Ops : At(o, "session") => adm[o].via = "session" /\ HasResult(o)

RunsHold ==
    \A r \in Ops : Held(history[r], trace[r], results[r], inbox[r], adm[r], faults)
TakenOnce == \A r \in Ops : InputsOnce(history[r], inbox[r], adm[r])
Inv == Shapes /\ RunsHold /\ SessionHolds

-----------------------------------------------------------------------------
(* The trace.                                                              *)

(* Events that continue the numbers of an admission at n.                  *)
Follows(e, n) == e \in Seq(Events) /\ \A k \in DOMAIN e : e[k].seq = n + k

(* The events of the loop are events with the numbers given.               *)
LEMMA EventTypes ==
  ASSUME NEW n \in Nat, NEW v \in Nat, NEW c \in ClaimIds
  PROVE  /\ Event("step", n) \in Events /\ Event("step", n).seq = n
         /\ RevisionEvent(n, v) \in Events /\ RevisionEvent(n, v).seq = n
         /\ \A kind \in Kinds : /\ ClaimEvent(kind, n, c, v) \in Events
                                /\ ClaimEvent(kind, n, c, v).seq = n
  <1>1. <<0, 0>> \in ClaimIds
    BY DEF ClaimIds
  <1>2. \A kind \in Kinds : Event(kind, n) \in Events /\ Event(kind, n).seq = n
    BY <1>1 DEF Event, Events, NoClaim
  <1>3. "step" \in Kinds /\ "committed" \in Kinds
    BY DEF Kinds
  <1>4. RevisionEvent(n, v) \in Events /\ RevisionEvent(n, v).seq = n
    BY <1>2, <1>3 DEF RevisionEvent, Events
  <1>5. ASSUME NEW kind \in Kinds
        PROVE  ClaimEvent(kind, n, c, v) \in Events /\ ClaimEvent(kind, n, c, v).seq = n
    <2>1. PICK e : e = Event(kind, n)
      OBVIOUS
    <2>2. PICK g : g = [e EXCEPT !.id = c, !.rev = v]
      OBVIOUS
    <2>3. g = ClaimEvent(kind, n, c, v)
      BY <2>1, <2>2 DEF ClaimEvent
    <2>4. e \in Events /\ e.seq = n
      BY <1>2, <2>1
    <2>5. g \in Events /\ g.seq = n
      BY <2>2, <2>4 DEF Events
    <2> QED BY <2>3, <2>5
  <1> QED BY <1>2, <1>3, <1>4, <1>5

(* The short lists of events that the loop appends.                        *)
LEMMA ShortLists ==
  ASSUME NEW x \in Events, NEW y \in Events, NEW z \in Events, NEW n \in Nat,
         x.seq = n + 1, y.seq = n + 2, z.seq = n + 3
  PROVE  /\ Follows(<<>>, n) /\ Len(<<>>) = 0
         /\ Follows(<<x>>, n) /\ Len(<<x>>) = 1
         /\ Follows(<<x, y>>, n) /\ Len(<<x, y>>) = 2
         /\ Follows(<<x, y, z>>, n) /\ Len(<<x, y, z>>) = 3
  <1>1. Follows(<<>>, n) /\ Len(<<>>) = 0
    BY EmptySeq DEF Follows
  <1>2. Follows(<<x>>, n) /\ Len(<<x>>) = 1
    BY DEF Follows
  <1>3. Follows(<<x, y>>, n) /\ Len(<<x, y>>) = 2
    BY DEF Follows
  <1>4. Follows(<<x, y, z>>, n) /\ Len(<<x, y, z>>) = 3
    BY DEF Follows
  <1> QED BY <1>1, <1>2, <1>3, <1>4

(* The number of the last event is a number.                               *)
LEMMA LastType ==
  ASSUME NEW t \in Traces
  PROVE  /\ LastEventSequence(t) \in Nat
         /\ t.events \in Seq(Events) /\ Len(t.events) \in Nat
         /\ t.events = <<>> => LastEventSequence(t) = 0
         /\ t.events # <<>> => LastEventSequence(t) = t.events[Len(t.events)].seq
  <1>1. t.events \in Seq(Events) /\ Len(t.events) \in Nat
    BY LenProperties DEF Traces
  <1>2. CASE t.events = <<>>
    BY <1>1, <1>2 DEF LastEventSequence
  <1>3. CASE t.events # <<>>
    <2>1. Len(t.events) \in DOMAIN t.events
      BY <1>1, <1>3, EmptySeq, LenProperties
    <2>2. t.events[Len(t.events)] \in Events
      BY <1>1, <2>1, ElementOfSeq, LenProperties
    <2> QED BY <1>1, <1>3, <2>2 DEF LastEventSequence, Last, Events
  <1> QED BY <1>2, <1>3

(* Events that follow the last one rise, and the last of them is the last. *)
LEMMA Emitted ==
  ASSUME NEW t \in Traces, NEW u \in Traces, NEW e, NEW n \in Nat,
         LastEventSequence(t) <= n, Follows(e, n), u.events = t.events \o e
  PROVE  /\ LastEventSequence(u) <= n + Len(e)
         /\ \A k \in DOMAIN u.events :
               (k > 1 /\ k > Len(t.events)) => u.events[k - 1].seq < u.events[k].seq
  <1>1. /\ t.events \in Seq(Events) /\ e \in Seq(Events)
        /\ Len(t.events) \in Nat /\ Len(e) \in Nat
        /\ DOMAIN t.events = 1..Len(t.events) /\ DOMAIN e = 1..Len(e)
    BY LastType, LenProperties DEF Follows
  <1>2. /\ u.events \in Seq(Events) /\ Len(u.events) = Len(t.events) + Len(e)
        /\ DOMAIN u.events = 1..(Len(t.events) + Len(e))
        /\ \A k \in DOMAIN u.events :
              u.events[k] = IF k <= Len(t.events) THEN t.events[k] ELSE e[k - Len(t.events)]
    BY <1>1, ConcatProperties, LenProperties
  <1>3. \A k \in 1..Len(e) : e[k].seq = n + k
    BY <1>1 DEF Follows
  <1>4. ASSUME NEW k \in DOMAIN u.events, k > Len(t.events)
        PROVE  u.events[k].seq = n + (k - Len(t.events))
    <2>1. k \in Nat /\ k - Len(t.events) \in 1..Len(e) /\ ~(k <= Len(t.events))
      BY <1>1, <1>2, <1>4
    <2> QED BY <1>2, <1>3, <2>1
  <1>5. LastEventSequence(u) <= n + Len(e)
    <2>1. CASE Len(e) = 0
      <3>1. u.events = t.events
        BY <1>1, <2>1, EmptySeq, ConcatEmptySeq
      <3> QED BY <1>1, <2>1, <3>1, LastType DEF LastEventSequence
    <2>2. CASE Len(e) > 0
      <3>1. Len(u.events) \in DOMAIN u.events /\ Len(u.events) > Len(t.events)
            /\ u.events # <<>>
        BY <1>1, <1>2, <2>2
      <3>2. u.events[Len(u.events)].seq = n + (Len(u.events) - Len(t.events))
        BY <1>4, <3>1
      <3>3. Len(u.events) - Len(t.events) = Len(e)
        BY <1>1, <1>2
      <3>4. LastEventSequence(u) = u.events[Len(u.events)].seq
        BY <3>1, LastType
      <3>5. LastEventSequence(u) = n + Len(e)
        BY <3>2, <3>3, <3>4
      <3> QED BY <1>1, <3>5
    <2> QED BY <1>1, <2>1, <2>2
  <1>6. ASSUME NEW k \in DOMAIN u.events, k > 1, k > Len(t.events)
        PROVE  u.events[k - 1].seq < u.events[k].seq
    <2>1. u.events[k].seq = n + (k - Len(t.events))
      BY <1>4, <1>6
    <2>2. k - 1 \in DOMAIN u.events
      BY <1>1, <1>2, <1>6
    <2>3. CASE k - 1 > Len(t.events)
      <3>1. u.events[k - 1].seq = n + ((k - 1) - Len(t.events))
        BY <1>4, <2>2, <2>3
      <3>2. k \in Nat
        BY <1>1, <1>2
      <3> QED BY <1>1, <2>1, <3>1, <3>2
    <2>4. CASE k - 1 = Len(t.events)
      <3>1. u.events[k - 1] = t.events[Len(t.events)] /\ t.events # <<>>
        BY <1>1, <1>2, <1>6, <2>2, <2>4
      <3>2. u.events[k - 1].seq = LastEventSequence(t)
        BY <3>1, LastType
      <3>3. k - Len(t.events) = 1
        BY <1>1, <1>2, <2>4
      <3>4. u.events[k].seq = n + 1
        BY <2>1, <3>3
      <3>5. LastEventSequence(t) \in Nat
        BY LastType
      <3>6. LastEventSequence(t) < n + 1
        BY <1>1, <3>5
      <3> QED BY <3>2, <3>4, <3>6
    <2>5. k - 1 > Len(t.events) \/ k - 1 = Len(t.events)
      BY <1>1, <1>2, <1>6
    <2> QED BY <2>3, <2>4, <2>5
  <1> QED BY <1>5, <1>6

-----------------------------------------------------------------------------
(* Steps of one run that leave its history and its queue.                  *)

Emitting == Looping \ (Opening \cup {"take", "terminal"})
Rises(t, u) ==
    \A k \in DOMAIN u.events :
        (k > 1 /\ k > Len(t.events)) => u.events[k - 1].seq < u.events[k].seq

(* The admission goes on from a to b, with its claims and its turn.        *)
GoesOn(a, b) ==
    /\ a.pc \in Emitting /\ b.pc \in (Emitting \cup {"terminal"}) \ {"taken"}
    /\ b.pc = "ack" => a.pc = "taken"
    /\ b.pc \in Working => a.pc \in Working
    /\ b.pc \in Closing => b.reason # "none"
    /\ b.n = a.n /\ b.turn = a.turn /\ b.done = a.done /\ b.rev = a.rev
    /\ b.inputs = a.inputs /\ b.claims = a.claims /\ b.claim = a.claim
    /\ b.base = a.base /\ b.via = a.via

(* Events appended behind the others leave the run as it is.               *)
LEMMA EmitHolds ==
  ASSUME NEW h \in Histories, NEW t \in Traces, NEW res \in Results, NEW box \in Boxes,
         NEW a \in Admissions, NEW f \in Nat, Held(h, t, res, box, a, f),
         NEW e, Follows(e, a.seq), NEW u \in Traces, u.events = t.events \o e,
         NEW b \in Admissions, GoesOn(a, b), b.seq = a.seq + Len(e)
  PROVE  Held(h, u, res, box, b, f) /\ Rises(t, u)
  <1>1. a.pc \in Looping /\ b.pc \in Looping /\ b.pc \notin Opening /\ a.pc \notin Opening
        /\ b.pc # "take" /\ a.pc # "take" /\ b.pc # "taken" /\ b.pc # "idle" /\ a.pc # "terminal"
        /\ b.pc # "reconcile" /\ a.pc # "reconcile"
    BY DEF GoesOn, Emitting, Looping, Opening, Closing, Working
  <1>2. Counted(h, res, b, f)
    BY <1>1 DEF Held, Counted, GoesOn
  <1>3. h.rev >= 1
    BY <1>1 DEF Held, Counted
  <1>4. a.seq \in Nat /\ LastEventSequence(t) <= a.seq
    BY <1>1 DEF Held, Behind, Admissions
  <1>5. LastEventSequence(u) <= a.seq + Len(e) /\ Rises(t, u)
    BY <1>4, Emitted DEF Rises
  <1>6. Behind(h, u, b)
    BY <1>3, <1>5 DEF Behind
  <1>7. AdmissionClaims(h, b)
    BY <1>1 DEF Held, AdmissionClaims, GoesOn
  <1>8. BoxClaims(h, box, b)
    BY <1>1 DEF Held, BoxClaims, GoesOn
  <1> QED BY <1>2, <1>5, <1>6, <1>7, <1>8 DEF Held

(* A new admission of a run that committed nothing.                        *)
LEMMA FreshHolds ==
  ASSUME NEW h \in Histories, NEW t \in Traces, NEW res \in Results, NEW box \in Boxes,
         NEW a \in Admissions, NEW f \in Nat, Held(h, t, res, box, a, f), h.rev = 0,
         NEW b \in Admissions, b.pc = "reconcile", b.n = 1, b.turn = 0, b.done = 0, b.rev = 0,
         b.claims = {}
  PROVE  Held(h, t, res, box, b, f)
  <1>1. b.pc \notin Working /\ b.pc \notin Closing /\ b.pc \in Opening /\ b.pc \in Looping
    BY DEF Working, Closing, Opening, Looping
  <1>2. h.claims = {} /\ h.adm = 0 /\ t.events = <<>>
    BY DEF Held, HistoryClaims, Behind
  <1>3. Counted(h, res, b, f)
    BY <1>1, <1>2, TurnsAssumption DEF Counted
  <1>4. b.seq \in Nat /\ LastEventSequence(t) = 0
    BY <1>2, LastType DEF Admissions
  <1>5. Behind(h, t, b)
    BY <1>2, <1>4 DEF Behind
  <1>6. AdmissionClaims(h, b)
    BY <1>2 DEF AdmissionClaims
  <1>7. BoxClaims(h, box, b)
    BY DEF Held, BoxClaims
  <1> QED BY <1>3, <1>5, <1>6, <1>7 DEF Held

(* The larger of two numbers.                                              *)
LEMMA MaxOfTwo ==
  ASSUME NEW m \in Nat, NEW n \in Nat
  PROVE  Max({m, n}) \in Nat /\ Max({m, n}) >= n
  <1>1. \E x \in {m, n} : \A y \in {m, n} : x >= y
    <2>1. CASE m >= n
      BY <2>1
    <2>2. CASE n >= m
      BY <2>2
    <2> QED BY <2>1, <2>2
  <1>2. Max({m, n}) \in {m, n} /\ \A y \in {m, n} : Max({m, n}) >= y
    BY <1>1 DEF Max
  <1> QED BY <1>2

(* An admission that goes on from the checkpoint.                          *)
LEMMA ResumedHolds ==
  ASSUME NEW h \in Histories, NEW t \in Traces, NEW res \in Results, NEW box \in Boxes,
         NEW a \in Admissions, NEW f \in Nat, Held(h, t, res, box, a, f),
         a.pc = "idle", res.reason = "none" \/ h.adm < MaxAdmissions,
         NEW b \in Admissions, b.pc = "reconcile", b.n = h.adm + 1, b.done = 0, b.rev = h.rev,
         b.turn = h.turn, b.seq = Max({h.seq, LastEventSequence(t)}), b.claims = h.claims
  PROVE  Held(h, t, res, box, b, f)
  <1>1. b.pc \notin Working /\ b.pc \notin Closing /\ b.pc \in Opening /\ b.pc \in Looping
    BY DEF Working, Closing, Opening, Looping
  <1>2. h.adm \in Nat /\ h.seq \in Nat
    BY DEF Histories
  <1>3. h.adm <= MaxAdmissions + f
    BY <1>2, TurnsAssumption DEF Held, Counted
  <1>4. Counted(h, res, b, f)
    BY <1>1, <1>2, <1>3, TurnsAssumption DEF Held, Counted
  <1>5. Behind(h, t, b)
    BY <1>2, LastType, MaxOfTwo DEF Held, Behind
  <1>6. \A c \in h.claims : c.id[1] \in 1..h.adm
    BY DEF Held, HistoryClaims
  <1>7. AdmissionClaims(h, b)
    BY <1>2, <1>6 DEF AdmissionClaims
  <1>8. BoxClaims(h, box, b)
    BY DEF Held, BoxClaims
  <1> QED BY <1>4, <1>5, <1>7, <1>8 DEF Held

(* An admission that is over, and one the server lost.                     *)
LEMMA OverHolds ==
  ASSUME NEW h \in Histories, NEW t \in Traces, NEW res \in Results, NEW box \in Boxes,
         NEW a \in Admissions, NEW f \in Nat, Held(h, t, res, box, a, f),
         NEW out \in Results, NEW b \in Admissions, b.pc \in {"idle", "session"}, NEW g \in Nat,
         b.n = 0 \/ b.n = a.n, b.done = 0 \/ (b.done = a.done /\ b.turn = a.turn),
         g >= f, out.reason # "none" \/ g >= f + 1
  PROVE  Held(h, t, out, box, b, g)
  <1>1. /\ b.pc \notin Looping /\ b.pc \notin Working /\ b.pc \notin Closing
        /\ b.pc \notin Opening /\ b.pc # "take" /\ b.pc # "taken" /\ b.pc # "ack"
    BY DEF Working, Closing, Opening, Looping
  <1>2. h.adm \in Nat /\ a.n \in Nat
    BY DEF Histories, Admissions
  <1>3. Counted(h, out, b, g)
    BY <1>1, <1>2, TurnsAssumption DEF Held, Counted
  <1>4. Behind(h, t, b)
    BY <1>1 DEF Held, Behind
  <1>5. AdmissionClaims(h, b)
    BY <1>1 DEF AdmissionClaims
  <1>6. BoxClaims(h, box, b)
    BY <1>1 DEF Held, BoxClaims
  <1> QED BY <1>3, <1>4, <1>5, <1>6 DEF Held

(* More faults only widen the bounds.                                      *)
LEMMA MoreFaults ==
  ASSUME NEW h \in Histories, NEW t, NEW res, NEW box, NEW a \in Admissions, NEW f \in Nat,
         Held(h, t, res, box, a, f), NEW g \in Nat, g >= f
  PROVE  Held(h, t, res, box, a, g)
  <1>1. h.adm \in Nat /\ a.n \in Nat
    BY DEF Histories, Admissions
  <1>2. \A k \in Nat : k <= MaxAdmissions + f => k <= MaxAdmissions + g
    BY TurnsAssumption
  <1>3. \A k \in Nat : k <= MaxAdmissions + f + 1 => k <= MaxAdmissions + g + 1
    BY TurnsAssumption
  <1>4. Counted(h, res, a, f) => Counted(h, res, a, g)
    BY <1>1, <1>2, <1>3 DEF Counted
  <1> QED BY <1>4 DEF Held

-----------------------------------------------------------------------------
(* The queue of inputs.                                                    *)

(* A queue whose items are replaced one for one is a queue.                *)
LEMMA MapType ==
  ASSUME NEW box \in Boxes, NEW new, new = [k \in DOMAIN box |-> new[k]],
         \A k \in DOMAIN box : new[k] \in Items
  PROVE  new \in Boxes /\ DOMAIN new = DOMAIN box
  <1>1. Len(box) \in Nat /\ DOMAIN box = 1..Len(box)
    BY LenProperties DEF Boxes
  <1>2. DOMAIN new = DOMAIN box
    OBVIOUS
  <1>3. new \in [1..Len(box) -> Items]
    BY <1>1
  <1> QED BY <1>1, <1>2, <1>3, SeqDef DEF Boxes

(* The items of a queue.                                                   *)
LEMMA ItemTypes ==
  ASSUME NEW box \in Boxes, NEW k \in DOMAIN box
  PROVE  box[k] \in Items /\ k \in Nat
  BY LenProperties, ElementOfSeq DEF Boxes

(* The new item of an enqueue.                                             *)
LEMMA EnqueuedBox ==
  ASSUME NEW box \in Boxes, NEW i \in AllInputs, ~Holds(box, i)
  PROVE  /\ Enqueued(box, i) \in Boxes
         /\ \E n \in Nat :
               /\ n \notin DOMAIN box /\ DOMAIN Enqueued(box, i) = DOMAIN box \cup {n}
               /\ \A k \in DOMAIN box : Enqueued(box, i)[k] = box[k]
               /\ Enqueued(box, i)[n] = Item(i)
  <1>1. Item(i) \in Items
    BY DEF Item, Items, NoClaim, ClaimIds
  <1>2. Enqueued(box, i) = Append(box, Item(i))
    BY DEF Enqueued
  <1>3. Len(box) \in Nat /\ DOMAIN box = 1..Len(box)
    BY LenProperties DEF Boxes
  <1>4. /\ Append(box, Item(i)) \in Seq(Items)
        /\ Len(Append(box, Item(i))) = Len(box) + 1
        /\ \A k \in 1..Len(box) : Append(box, Item(i))[k] = box[k]
        /\ Append(box, Item(i))[Len(box) + 1] = Item(i)
    BY <1>1, AppendProperties DEF Boxes
  <1>5. DOMAIN Append(box, Item(i)) = 1..(Len(box) + 1)
    BY <1>4, LenProperties
  <1>6. Len(box) + 1 \notin DOMAIN box /\ 1..(Len(box) + 1) = DOMAIN box \cup {Len(box) + 1}
    BY <1>3
  <1>7. \A k \in DOMAIN box : Append(box, Item(i))[k] = box[k]
    BY <1>3, <1>4
  <1>8. Append(box, Item(i)) \in Boxes
    BY <1>4 DEF Boxes
  <1>9. Len(box) + 1 \in Nat
    BY <1>3
  <1> QED BY <1>2, <1>4, <1>5, <1>6, <1>7, <1>8, <1>9

(* What a claim changes.                                                   *)
LEMMA ClaimedBox ==
  ASSUME NEW box \in Boxes, NEW claim \in ClaimIds, NEW limit
  PROVE  /\ Claimed(box, claim, limit) \in Boxes
         /\ DOMAIN Claimed(box, claim, limit) = DOMAIN box
         /\ \A k \in DOMAIN box :
               /\ Claimed(box, claim, limit)[k].input = box[k].input
               /\ Claimed(box, claim, limit)[k].ack = box[k].ack
               /\ \/ Claimed(box, claim, limit)[k].claim = box[k].claim
                  \/ /\ box[k].claim = NoClaim /\ box[k].ack = 0
                     /\ Claimed(box, claim, limit)[k].claim = claim
  <1> DEFINE new == Claimed(box, claim, limit)
  <1>1. new = [k \in DOMAIN box |->
                  IF k \in Batch(box, limit) THEN [box[k] EXCEPT !.claim = claim] ELSE box[k]]
    BY DEF Claimed
  <1>2. DOMAIN new = DOMAIN box /\ new = [k \in DOMAIN box |-> new[k]]
    BY <1>1
  <1>3. ASSUME NEW k \in DOMAIN box
        PROVE  /\ new[k] \in Items /\ new[k].input = box[k].input /\ new[k].ack = box[k].ack
               /\ \/ new[k].claim = box[k].claim
                  \/ box[k].claim = NoClaim /\ box[k].ack = 0 /\ new[k].claim = claim
    <2>1. PICK x : x = box[k]
      OBVIOUS
    <2>2. x \in Items
      BY <2>1, ItemTypes
    <2>3. CASE k \in Batch(box, limit)
      <3>1. new[k] = [x EXCEPT !.claim = claim]
        BY <1>1, <2>1, <2>3
      <3>2. box[k].claim = NoClaim /\ box[k].ack = 0
        BY <2>3 DEF Batch, Unclaimed
      <3> HIDE DEF new
      <3>3. /\ new[k] \in Items /\ new[k].input = x.input /\ new[k].ack = x.ack
            /\ new[k].claim = claim
        BY <2>2, <3>1 DEF Items
      <3> QED BY <2>1, <3>2, <3>3
    <2>4. CASE k \notin Batch(box, limit)
      <3>1. new[k] = x
        BY <1>1, <2>1, <2>4
      <3> QED BY <2>1, <2>2, <3>1
    <2> QED BY <2>3, <2>4
  <1> HIDE DEF new
  <1>4. new \in Boxes
    BY <1>2, <1>3, MapType
  <1>5. /\ new \in Boxes /\ DOMAIN new = DOMAIN box
        /\ \A k \in DOMAIN box :
              /\ new[k].input = box[k].input /\ new[k].ack = box[k].ack
              /\ \/ new[k].claim = box[k].claim
                 \/ box[k].claim = NoClaim /\ box[k].ack = 0 /\ new[k].claim = claim
    BY <1>2, <1>3, <1>4
  <1> QED BY <1>5 DEF new

(* What an acknowledgement changes.                                        *)
LEMMA AcknowledgedBox ==
  ASSUME NEW box \in Boxes, NEW claim \in ClaimIds, NEW rev \in Nat
  PROVE  /\ Acknowledged(box, claim, rev) \in Boxes
         /\ DOMAIN Acknowledged(box, claim, rev) = DOMAIN box
         /\ \A k \in DOMAIN box :
               /\ Acknowledged(box, claim, rev)[k].input = box[k].input
               /\ Acknowledged(box, claim, rev)[k].claim = box[k].claim
               /\ Acknowledged(box, claim, rev)[k].ack
                     = IF box[k].claim = claim THEN rev ELSE box[k].ack
  <1> DEFINE new == Acknowledged(box, claim, rev)
  <1>1. new = [k \in DOMAIN box |->
                  IF box[k].claim = claim THEN [box[k] EXCEPT !.ack = rev] ELSE box[k]]
    BY DEF Acknowledged
  <1>2. DOMAIN new = DOMAIN box /\ new = [k \in DOMAIN box |-> new[k]]
    BY <1>1
  <1>3. ASSUME NEW k \in DOMAIN box
        PROVE  /\ new[k] \in Items /\ new[k].input = box[k].input /\ new[k].claim = box[k].claim
               /\ new[k].ack = IF box[k].claim = claim THEN rev ELSE box[k].ack
    <2>1. PICK x : x = box[k]
      OBVIOUS
    <2>2. x \in Items
      BY <2>1, ItemTypes
    <2>3. CASE x.claim = claim
      <3>1. new[k] = [x EXCEPT !.ack = rev]
        BY <1>1, <2>1, <2>3
      <3> HIDE DEF new
      <3>2. /\ new[k] \in Items /\ new[k].input = x.input /\ new[k].claim = x.claim
            /\ new[k].ack = rev
        BY <2>2, <3>1 DEF Items
      <3> QED BY <2>1, <2>3, <3>2
    <2>4. CASE x.claim # claim
      <3>1. new[k] = x
        BY <1>1, <2>1, <2>4
      <3> QED BY <2>1, <2>2, <2>4, <3>1
    <2> QED BY <2>3, <2>4
  <1> HIDE DEF new
  <1>4. new \in Boxes
    BY <1>2, <1>3, MapType
  <1>5. /\ new \in Boxes /\ DOMAIN new = DOMAIN box
        /\ \A k \in DOMAIN box :
              /\ new[k].input = box[k].input /\ new[k].claim = box[k].claim
              /\ new[k].ack = IF box[k].claim = claim THEN rev ELSE box[k].ack
    BY <1>2, <1>3, <1>4
  <1> QED BY <1>5 DEF new

(* What a release changes.                                                 *)
LEMMA ReleasedBox ==
  ASSUME NEW box \in Boxes, NEW claim \in ClaimIds
  PROVE  /\ Released(box, claim) \in Boxes
         /\ DOMAIN Released(box, claim) = DOMAIN box
         /\ \A k \in DOMAIN box :
               /\ Released(box, claim)[k].input = box[k].input
               /\ Released(box, claim)[k].ack = box[k].ack
               /\ Released(box, claim)[k].claim
                     = IF box[k].claim = claim /\ box[k].ack = 0 THEN NoClaim ELSE box[k].claim
  <1> DEFINE new == Released(box, claim)
  <1>1. new = [k \in DOMAIN box |->
                  IF box[k].claim = claim /\ box[k].ack = 0
                  THEN [box[k] EXCEPT !.claim = NoClaim] ELSE box[k]]
    BY DEF Released
  <1>2. DOMAIN new = DOMAIN box /\ new = [k \in DOMAIN box |-> new[k]]
    BY <1>1
  <1>3. ASSUME NEW k \in DOMAIN box
        PROVE  /\ new[k] \in Items /\ new[k].input = box[k].input /\ new[k].ack = box[k].ack
               /\ new[k].claim
                     = IF box[k].claim = claim /\ box[k].ack = 0 THEN NoClaim ELSE box[k].claim
    <2>1. PICK x : x = box[k]
      OBVIOUS
    <2>2. x \in Items /\ NoClaim \in ClaimIds
      BY <2>1, ItemTypes DEF NoClaim, ClaimIds
    <2>3. CASE x.claim = claim /\ x.ack = 0
      <3>1. new[k] = [x EXCEPT !.claim = NoClaim]
        BY <1>1, <2>1, <2>3
      <3> HIDE DEF new
      <3>2. /\ new[k] \in Items /\ new[k].input = x.input /\ new[k].ack = x.ack
            /\ new[k].claim = NoClaim
        BY <2>2, <3>1 DEF Items
      <3> QED BY <2>1, <2>3, <3>2
    <2>4. CASE ~(x.claim = claim /\ x.ack = 0)
      <3>1. new[k] = x
        BY <1>1, <2>1, <2>4
      <3> QED BY <2>1, <2>2, <2>4, <3>1
    <2> QED BY <2>3, <2>4
  <1> HIDE DEF new
  <1>4. new \in Boxes
    BY <1>2, <1>3, MapType
  <1>5. /\ new \in Boxes /\ DOMAIN new = DOMAIN box
        /\ \A k \in DOMAIN box :
              /\ new[k].input = box[k].input /\ new[k].ack = box[k].ack
              /\ new[k].claim
                    = IF box[k].claim = claim /\ box[k].ack = 0 THEN NoClaim ELSE box[k].claim
    BY <1>2, <1>3, <1>4
  <1> QED BY <1>5 DEF new

(* What a reconciliation with committed claims changes: an item keeps its  *)
(* claim if that was committed, and is acknowledged at its revision.       *)
LEMMA ReconciledBox ==
  ASSUME NEW box \in Boxes, NEW committed \in ClaimSets,
         NoClaim \notin IdsOf(committed),
         \A k \in DOMAIN box : box[k].ack > 0 => box[k].claim \in IdsOf(committed)
  PROVE  /\ Reconciled(box, committed) \in Boxes
         /\ DOMAIN Reconciled(box, committed) = DOMAIN box
         /\ \A k \in DOMAIN box :
               /\ Reconciled(box, committed)[k].input = box[k].input
               /\ Reconciled(box, committed)[k].claim
                     = IF box[k].claim \in IdsOf(committed) THEN box[k].claim ELSE NoClaim
               /\ IF box[k].claim \in IdsOf(committed) /\ box[k].ack = 0
                  THEN \E c \in committed : Reconciled(box, committed)[k].ack = c.rev
                  ELSE Reconciled(box, committed)[k].ack = box[k].ack
  <1> DEFINE new == Reconciled(box, committed)
             settled(k) == [box[k] EXCEPT !.ack =
                                (CHOOSE c \in committed : c.id = box[k].claim).rev]
  <1>1. new = [k \in DOMAIN box |->
                  IF box[k].claim = NoClaim \/ box[k].ack > 0 THEN box[k]
                  ELSE IF \E c \in committed : c.id = box[k].claim
                       THEN settled(k) ELSE [box[k] EXCEPT !.claim = NoClaim]]
    BY DEF Reconciled
  <1>2. DOMAIN new = DOMAIN box /\ new = [k \in DOMAIN box |-> new[k]]
    BY <1>1
  <1>3. ASSUME NEW k \in DOMAIN box
        PROVE  /\ new[k] \in Items /\ new[k].input = box[k].input
               /\ new[k].claim
                     = IF box[k].claim \in IdsOf(committed) THEN box[k].claim ELSE NoClaim
               /\ IF box[k].claim \in IdsOf(committed) /\ box[k].ack = 0
                  THEN \E c \in committed : new[k].ack = c.rev
                  ELSE new[k].ack = box[k].ack
    <2>1. PICK x : x = box[k]
      OBVIOUS
    <2>2. x \in Items /\ NoClaim \in ClaimIds /\ x.ack \in Nat
      BY <2>1, ItemTypes DEF NoClaim, ClaimIds, Items
    <2>3. (\E c \in committed : c.id = x.claim) <=> x.claim \in IdsOf(committed)
      BY DEF IdsOf
    <2>4. CASE x.claim = NoClaim \/ x.ack > 0
      <3>1. new[k] = x
        BY <1>1, <2>1, <2>4
      <3>2. CASE x.ack > 0
        <4>1. x.claim \in IdsOf(committed)
          BY <2>1, <3>2
        <4> QED BY <2>1, <2>2, <3>1, <3>2, <4>1
      <3>3. CASE x.claim = NoClaim
        BY <2>1, <2>2, <3>1, <3>3
      <3> QED BY <2>4, <3>2, <3>3
    <2>5. CASE x.claim # NoClaim /\ ~(x.ack > 0) /\ x.claim \in IdsOf(committed)
      <3>1. PICK d : d = CHOOSE c \in committed : c.id = x.claim
        OBVIOUS
      <3>2. d \in committed /\ d.rev \in Nat
        BY <2>3, <2>5, <3>1 DEF ClaimSets
      <3>3. settled(k) = [x EXCEPT !.ack = d.rev]
        BY <2>1, <3>1
      <3> HIDE DEF settled
      <3>4. new[k] = [x EXCEPT !.ack = d.rev]
        BY <1>1, <2>1, <2>3, <2>5, <3>3
      <3> HIDE DEF new
      <3>5. /\ new[k] \in Items /\ new[k].input = x.input /\ new[k].claim = x.claim
            /\ new[k].ack = d.rev
        BY <2>2, <3>2, <3>4 DEF Items
      <3> QED BY <2>1, <2>2, <2>5, <3>2, <3>5
    <2>6. CASE x.claim # NoClaim /\ ~(x.ack > 0) /\ x.claim \notin IdsOf(committed)
      <3> HIDE DEF settled
      <3>1. new[k] = [x EXCEPT !.claim = NoClaim]
        BY <1>1, <2>1, <2>3, <2>6
      <3> HIDE DEF new
      <3>2. /\ new[k] \in Items /\ new[k].input = x.input /\ new[k].claim = NoClaim
            /\ new[k].ack = x.ack
        BY <2>2, <3>1 DEF Items
      <3> QED BY <2>1, <2>6, <3>2
    <2> QED BY <2>4, <2>5, <2>6
  <1> HIDE DEF new
  <1>4. new \in Boxes
    BY <1>2, <1>3, MapType
  <1>5. /\ new \in Boxes /\ DOMAIN new = DOMAIN box
        /\ \A k \in DOMAIN box :
              /\ new[k].input = box[k].input
              /\ new[k].claim
                    = IF box[k].claim \in IdsOf(committed) THEN box[k].claim ELSE NoClaim
              /\ IF box[k].claim \in IdsOf(committed) /\ box[k].ack = 0
                 THEN \E c \in committed : new[k].ack = c.rev
                 ELSE new[k].ack = box[k].ack
    BY <1>2, <1>3, <1>4
  <1> QED BY <1>5 DEF new

-----------------------------------------------------------------------------
(* Steps of one run that write its history or its queue.                   *)

(* No claim of a history is the mark of an unclaimed item.                 *)
LEMMA NoClaimIsFree ==
  ASSUME NEW h \in Histories, HistoryClaims(h)
  PROVE  NoClaim \notin IdsOf(h.claims)
  BY DEF HistoryClaims, IdsOf, NoClaim, Histories

(* An input is queued.                                                     *)
LEMMA EnqueueHolds ==
  ASSUME NEW h \in Histories, NEW t, NEW res, NEW box \in Boxes,
         NEW a \in Admissions, NEW f, Held(h, t, res, box, a, f),
         NEW i \in AllInputs, ~Holds(box, i)
  PROVE  Held(h, t, res, Enqueued(box, i), a, f)
  <1> DEFINE new == Enqueued(box, i)
  <1>1. PICK n \in Nat : /\ n \notin DOMAIN box /\ DOMAIN new = DOMAIN box \cup {n}
                         /\ \A k \in DOMAIN box : new[k] = box[k]
                         /\ new[n] = Item(i)
    BY EnqueuedBox
  <1> HIDE DEF new
  <1>2. new[n].input = i /\ new[n].claim = NoClaim /\ new[n].ack = 0
    BY <1>1 DEF Item
  <1>3. NoClaim \in Claims /\ h.rev \in Nat
    BY TurnsAssumption DEF NoClaim, Claims, Histories
  <1>4. BoxClaims(h, box, a)
    BY DEF Held
  <1>5. \A j, k \in DOMAIN new : new[j].input = new[k].input => j = k
    <2>1. \A k \in DOMAIN box : box[k].input # i
      BY DEF Holds
    <2>2. \A j, k \in DOMAIN box : box[j].input = box[k].input => j = k
      BY <1>4 DEF BoxClaims
    <2> QED BY <1>1, <1>2, <2>1, <2>2
  <1>6. BoxClaims(h, new, a)
    BY <1>1, <1>2, <1>3, <1>4, <1>5 DEF BoxClaims
  <1>7. Held(h, t, res, new, a, f)
    BY <1>6 DEF Held
  <1> QED BY <1>7 DEF new

(* The claims that an earlier admission left are settled.                  *)
LEMMA ReconcileHolds ==
  ASSUME NEW h \in Histories, NEW t \in Traces, NEW res \in Results, NEW box \in Boxes,
         NEW a \in Admissions, NEW f \in Nat, Held(h, t, res, box, a, f), a.pc = "reconcile",
         NEW b \in Admissions, b.pc = "admit", b.n = a.n, b.turn = a.turn, b.done = a.done,
         b.rev = a.rev, b.seq = a.seq, b.claims = a.claims
  PROVE  /\ a.claims = h.claims
         /\ Held(h, t, res, Reconciled(box, h.claims), b, f)
  <1> DEFINE new == Reconciled(box, h.claims)
  <1>1. /\ a.pc \in Looping /\ b.pc \in Looping /\ a.pc \in Opening /\ b.pc \in Opening
        /\ b.pc \notin Working /\ b.pc \notin Closing
    BY DEF Looping, Opening, Working, Closing
  <1>2. Counted(h, res, b, f)
    BY <1>1 DEF Held, Counted
  <1>3. Behind(h, t, b)
    BY <1>1 DEF Held, Behind
  <1>4. AdmissionClaims(h, b) /\ a.claims = h.claims
    BY <1>1 DEF Held, AdmissionClaims
  <1>5. h.claims \in ClaimSets /\ NoClaim \notin IdsOf(h.claims) /\ h.rev \in Nat
    BY NoClaimIsFree DEF Held, Histories
  <1>6. BoxClaims(h, box, a)
    BY DEF Held
  <1>7. /\ DOMAIN new = DOMAIN box
        /\ \A k \in DOMAIN box :
              /\ new[k].input = box[k].input
              /\ new[k].claim = IF box[k].claim \in IdsOf(h.claims) THEN box[k].claim ELSE NoClaim
              /\ IF box[k].claim \in IdsOf(h.claims) /\ box[k].ack = 0
                 THEN \E c \in h.claims : new[k].ack = c.rev
                 ELSE new[k].ack = box[k].ack
    BY <1>5, <1>6, ReconciledBox DEF BoxClaims
  <1> HIDE DEF new
  <1>8. \A c \in h.claims : c.rev \in 1..h.rev
    BY DEF Held, HistoryClaims
  <1>9. NoClaim \in Claims
    BY TurnsAssumption DEF NoClaim, Claims
  <1>10. ASSUME NEW k \in DOMAIN new
         PROVE  /\ new[k].ack \in 0..h.rev
                /\ new[k].ack > 0 => new[k].claim \in IdsOf(h.claims)
                /\ new[k].claim \in Claims /\ new[k].claim \in {NoClaim} \cup IdsOf(h.claims)
    <2>1. /\ box[k].ack \in 0..h.rev /\ box[k].claim \in Claims
          /\ box[k].ack > 0 => box[k].claim \in IdsOf(h.claims)
      BY <1>6, <1>7 DEF BoxClaims
    <2>2. CASE box[k].claim \in IdsOf(h.claims) /\ box[k].ack = 0
      <3>1. PICK c \in h.claims : new[k].ack = c.rev
        BY <1>7, <2>2
      <3> QED BY <1>5, <1>7, <1>8, <2>1, <2>2, <3>1
    <2>3. CASE ~(box[k].claim \in IdsOf(h.claims) /\ box[k].ack = 0)
      BY <1>5, <1>7, <1>9, <2>1, <2>3
    <2> QED BY <2>2, <2>3
  <1>11. \A j, k \in DOMAIN new : new[j].input = new[k].input => j = k
    BY <1>6, <1>7 DEF BoxClaims
  <1>12. BoxClaims(h, new, b)
    BY <1>10, <1>11 DEF BoxClaims
  <1>13. Held(h, t, res, new, b, f)
    BY <1>2, <1>3, <1>4, <1>12 DEF Held
  <1> QED BY <1>4, <1>13 DEF new

(* The barriers of the loop.                                               *)
LEMMA BarrierTypes ==
  ASSUME NEW p \in DOMAIN Barriers
  PROVE  /\ p \in {"admit", "take", "shrink", "reflect", "answer", "observe", "terminal"}
         /\ Barriers[p].back \in {0, 1} /\ Barriers[p].reserved \in {1, 2}
         /\ Barriers[p].next \in {"admitted", "taken", "shrunk", "reflected", "answered",
                                  "observed", "ended"}
         /\ Barriers[p].back = 1 => p \in Working
         /\ Barriers[p].next = "taken" <=> p = "take"
         /\ Barriers[p].next = "admitted" <=> p = "admit"
         /\ Barriers[p].next = "ended" <=> p = "terminal"
  <1>1. p \in {"admit", "take", "shrink", "reflect", "answer", "observe", "terminal"}
    BY DEF Barriers
  <1> QED BY <1>1 DEF Barriers, Working

(* What a commit writes when the admission has seen the last revision.     *)
LEMMA CommitWrites ==
  ASSUME NEW h \in Histories, NEW a \in Admissions, a.pc \in DOMAIN Barriers, a.rev = h.rev,
         a.pc \in Working => a.turn >= 1,
         NEW out, out = CommitHistory(h, a.rev, Checkpoint(a, Barriers[a.pc]))
  PROVE  /\ out \in Histories
         /\ out.rev = h.rev + 1 /\ out.adm = a.n /\ out.reason = a.reason
         /\ out.inputs = a.inputs /\ out.claims = a.claims /\ out.base = a.base
  <1>1. PICK barrier : barrier = Barriers[a.pc]
    OBVIOUS
  <1>2. /\ barrier.back \in {0, 1} /\ barrier.reserved \in {1, 2}
        /\ barrier.back = 1 => a.pc \in Working
    BY <1>1, BarrierTypes
  <1>3. PICK point : point = Checkpoint(a, barrier)
    OBVIOUS
  <1>4. PICK turn : turn = IF a.pc = "terminal" THEN a.done ELSE a.turn - barrier.back
    OBVIOUS
  <1>5. turn \in 0..MaxTurns
    BY <1>2, <1>4, TurnsAssumption DEF Admissions
  <1>6. point = [rev |-> a.rev, adm |-> a.n, turn |-> turn,
                 seq |-> a.seq + barrier.reserved, reason |-> a.reason,
                 inputs |-> a.inputs, claims |-> a.claims, base |-> a.base]
    BY <1>3, <1>4 DEF Checkpoint
  <1>7. /\ a.rev \in Nat /\ a.n \in Nat /\ a.seq + barrier.reserved \in Nat
        /\ a.reason \in Reasons /\ a.inputs \in InputBags /\ a.claims \in ClaimSets
        /\ a.base \in Seq(Ops)
    BY <1>2 DEF Admissions
  <1>8. /\ point \in Histories /\ point.adm = a.n /\ point.reason = a.reason
        /\ point.inputs = a.inputs /\ point.claims = a.claims /\ point.base = a.base
    BY <1>5, <1>6, <1>7 DEF Histories
  <1>9. out = CommitHistory(h, a.rev, point)
    BY <1>1, <1>3
  <1>10. Accepts(h, a.rev)
    BY DEF Accepts
  <1>11. out = [point EXCEPT !.rev = a.rev + 1]
    BY <1>9, <1>10, Zenon DEF CommitHistory
  <1>12. PICK v \in Nat : v = a.rev + 1
    BY <1>7
  <1>13. ASSUME NEW x, x = [point EXCEPT !.rev = v]
         PROVE  /\ x \in Histories /\ x.rev = v /\ x.adm = point.adm
                /\ x.reason = point.reason /\ x.inputs = point.inputs
                /\ x.claims = point.claims /\ x.base = point.base
    BY <1>8, <1>13 DEF Histories
  <1>14. out = [point EXCEPT !.rev = v]
    BY <1>11, <1>12, Zenon
  <1> QED BY <1>8, <1>12, <1>13, <1>14

(* The history is committed.                                               *)
LEMMA CommitHolds ==
  ASSUME NEW h \in Histories, NEW t \in Traces, NEW res \in Results, NEW box \in Boxes,
         NEW a \in Admissions, NEW f \in Nat, Held(h, t, res, box, a, f),
         a.pc \in DOMAIN Barriers,
         NEW out, out = CommitHistory(h, a.rev, Checkpoint(a, Barriers[a.pc])),
         NEW b \in Admissions, b.pc = Barriers[a.pc].next, b.rev = a.rev + 1,
         b.n = a.n, b.turn = a.turn, b.done = a.done, b.seq = a.seq, b.reason = a.reason,
         b.claims = a.claims, b.claim = a.claim
  PROVE  out \in Histories /\ Held(out, t, res, box, b, f)
  <1>1. /\ a.pc \in Looping /\ a.pc # "reconcile" /\ b.pc \in Looping /\ b.pc \notin Opening
        /\ b.pc # "take" /\ b.pc # "ack" /\ b.pc # "idle" /\ b.pc # "reconcile"
        /\ b.pc \in Working => a.pc \in Working
        /\ b.pc \in Closing => a.pc \in Closing
        /\ b.pc = "taken" => a.pc = "take"
    BY BarrierTypes DEF Looping, Opening, Working, Closing
  <1>2. a.rev = h.rev /\ (a.pc \in Working => a.turn >= 1)
    BY <1>1 DEF Held, Counted
  <1>3. /\ out \in Histories /\ out.rev = h.rev + 1 /\ out.adm = a.n /\ out.claims = a.claims
    BY <1>2, CommitWrites
  <1>4. h.rev \in Nat /\ h.adm \in Nat /\ a.n \in Nat /\ a.turn \in 0..MaxTurns
    BY DEF Histories, Admissions
  <1>5. Counted(out, res, b, f)
    BY <1>1, <1>2, <1>3, <1>4 DEF Held, Counted
  <1>6. Behind(out, t, b)
    BY <1>1, <1>3, <1>4 DEF Held, Behind
  <1>7. \A c \in h.claims : /\ c.rev \in 1..h.rev
                            /\ c.id[1] \in 1..h.adm /\ c.id[2] \in 0..MaxTurns
                            /\ c.id[1] < a.n \/ (c.id[1] = a.n /\ c.id[2] <= a.turn)
    BY <1>1 DEF Held, HistoryClaims, AdmissionClaims
  <1>8. h.adm <= a.n /\ a.n >= 1
    BY <1>1 DEF Held, Counted
  <1>9. CASE a.pc # "take"
    <2>1. out.claims = h.claims
      BY <1>1, <1>3, <1>9 DEF Held, AdmissionClaims
    <2>2. HistoryClaims(out)
      BY <1>3, <1>4, <1>7, <1>8, <2>1 DEF HistoryClaims
    <2>3. AdmissionClaims(out, b)
      BY <1>1, <1>3, <1>7, <1>9, <2>1 DEF AdmissionClaims
    <2>4. BoxClaims(out, box, b)
      BY <1>1, <1>3, <1>4, <1>9, <2>1 DEF Held, BoxClaims
    <2> QED BY <1>3, <1>5, <1>6, <2>2, <2>3, <2>4 DEF Held
  <1>10. CASE a.pc = "take"
    <2>1. PICK c : c = [id |-> a.claim, rev |-> h.rev + 1]
      OBVIOUS
    <2>2. /\ a.claim = <<a.n, a.turn>> /\ out.claims = h.claims \cup {c}
          /\ c.id = a.claim /\ c.rev = h.rev + 1
      BY <1>3, <1>10, <2>1 DEF Held, AdmissionClaims
    <2>3. c.id[1] = a.n /\ c.id[2] = a.turn
      BY <2>2
    <2>4. HistoryClaims(out)
      BY <1>3, <1>4, <1>7, <1>8, <2>2, <2>3 DEF HistoryClaims
    <2>5. AdmissionClaims(out, b)
      BY <1>1, <1>3, <1>4, <1>7, <2>2, <2>3 DEF AdmissionClaims
    <2>6. /\ IdsOf(h.claims) \subseteq IdsOf(out.claims) /\ a.claim \in IdsOf(out.claims)
      BY <2>2 DEF IdsOf
    <2>7. BoxClaims(out, box, b)
      BY <1>1, <1>3, <1>4, <1>10, <2>6 DEF Held, BoxClaims
    <2> QED BY <1>3, <1>5, <1>6, <2>4, <2>5, <2>7 DEF Held
  <1> QED BY <1>9, <1>10

(* The loop ends the admission.                                            *)
LEMMA CloseHolds ==
  ASSUME NEW h \in Histories, NEW t \in Traces, NEW res \in Results, NEW box \in Boxes,
         NEW a \in Admissions, NEW f \in Nat, Held(h, t, res, box, a, f),
         a.pc \in Looping \ {"take", "reconcile"},
         NEW b \in Admissions, b.pc = "terminal", b.reason # "none", b.rev = a.rev,
         b.n = a.n, b.turn >= a.turn, b.done \in {0, b.turn}, b.seq = a.seq,
         b.claims = a.claims
  PROVE  Held(h, t, res, box, b, f)
  <1>1. /\ a.pc \in Looping /\ a.pc # "take" /\ a.pc # "reconcile" /\ b.pc \in Looping
        /\ b.pc \notin Opening /\ b.pc \notin Working /\ b.pc \in Closing
    BY DEF Looping, Opening, Working, Closing
  <1>2. Counted(h, res, b, f)
    BY <1>1 DEF Held, Counted
  <1>3. Behind(h, t, b)
    BY <1>1 DEF Held, Behind
  <1>4. /\ \A c \in h.claims : /\ c.id[2] \in 0..MaxTurns
                               /\ c.id[1] < a.n \/ (c.id[1] = a.n /\ c.id[2] <= a.turn)
        /\ a.turn \in Nat /\ b.turn \in Nat
    BY <1>1, TurnsAssumption DEF Held, AdmissionClaims, HistoryClaims, Admissions
  <1>5. AdmissionClaims(h, b)
    BY <1>1, <1>4 DEF Held, AdmissionClaims
  <1>6. BoxClaims(h, box, b)
    BY <1>1 DEF Held, BoxClaims
  <1> QED BY <1>2, <1>3, <1>5, <1>6 DEF Held

(* The commit that takes a claim in fails: the claim is released.          *)
LEMMA TakeFailsHolds ==
  ASSUME NEW h \in Histories, NEW t \in Traces, NEW res \in Results, NEW box \in Boxes,
         NEW a \in Admissions, NEW f \in Nat, Held(h, t, res, box, a, f), a.pc = "take",
         NEW b \in Admissions, b.pc = "terminal", b.reason # "none", b.rev = a.rev,
         b.n = a.n, b.turn = a.turn, b.done = a.done, b.seq = a.seq,
         b.claims = {c \in a.claims : c.id # a.claim}
  PROVE  Held(h, t, res, Released(box, a.claim), b, f)
  <1> DEFINE new == Released(box, a.claim)
  <1>1. /\ a.pc \in Looping /\ a.pc # "reconcile" /\ b.pc \in Looping
        /\ b.pc \notin Opening /\ b.pc \notin Working /\ b.pc \in Closing
    BY DEF Looping, Opening, Working, Closing
  <1>2. Counted(h, res, b, f)
    BY <1>1 DEF Held, Counted
  <1>3. Behind(h, t, b)
    BY <1>1 DEF Held, Behind
  <1>4. /\ a.claim \notin IdsOf(h.claims)
        /\ a.claims = h.claims \cup {[id |-> a.claim, rev |-> h.rev + 1]}
    BY DEF Held, AdmissionClaims
  <1>5. b.claims = h.claims
    BY <1>4 DEF IdsOf
  <1>6. AdmissionClaims(h, b)
    BY <1>1, <1>5 DEF Held, AdmissionClaims
  <1>7. BoxClaims(h, box, a)
    BY DEF Held
  <1>8. a.claim \in ClaimIds
    BY DEF Admissions
  <1>9. /\ DOMAIN new = DOMAIN box
        /\ \A k \in DOMAIN box :
              /\ new[k].input = box[k].input /\ new[k].ack = box[k].ack
              /\ new[k].claim
                    = IF box[k].claim = a.claim /\ box[k].ack = 0 THEN NoClaim ELSE box[k].claim
    BY <1>8, ReleasedBox
  <1> HIDE DEF new
  <1>10. NoClaim \in Claims /\ h.rev \in Nat
    BY TurnsAssumption DEF NoClaim, Claims, Histories
  <1>11. ASSUME NEW k \in DOMAIN new
         PROVE  /\ new[k].ack \in 0..h.rev
                /\ new[k].ack > 0 => new[k].claim \in IdsOf(h.claims)
                /\ new[k].claim \in Claims /\ new[k].claim \in {NoClaim} \cup IdsOf(h.claims)
    <2>1. /\ box[k].ack \in 0..h.rev /\ box[k].claim \in Claims
          /\ box[k].ack > 0 => box[k].claim \in IdsOf(h.claims)
          /\ box[k].claim \in {NoClaim, a.claim} \cup IdsOf(h.claims)
      BY <1>1, <1>7, <1>9 DEF BoxClaims
    <2> QED BY <1>4, <1>9, <1>10, <2>1
  <1>12. \A j, k \in DOMAIN new : new[j].input = new[k].input => j = k
    BY <1>7, <1>9 DEF BoxClaims
  <1>13. BoxClaims(h, new, b)
    BY <1>11, <1>12 DEF BoxClaims
  <1>14. Held(h, t, res, new, b, f)
    BY <1>2, <1>3, <1>6, <1>13 DEF Held
  <1> QED BY <1>14 DEF new

(* A turn begins without inputs.                                           *)
LEMMA StartHolds ==
  ASSUME NEW h \in Histories, NEW t \in Traces, NEW res \in Results, NEW box \in Boxes,
         NEW a \in Admissions, NEW f \in Nat, Held(h, t, res, box, a, f), a.pc = "turn",
         NEW e, Follows(e, a.seq), NEW u \in Traces, u.events = t.events \o e,
         NEW b \in Admissions, b.pc = "compact", b.rev = a.rev,
         b.n = a.n, b.turn = a.turn + 1, b.done = a.turn + 1, b.seq = a.seq + Len(e),
         b.claims = a.claims
  PROVE  Held(h, u, res, box, b, f) /\ Rises(t, u)
  <1>1. /\ a.pc \in Looping /\ b.pc \in Looping /\ b.pc \notin Opening /\ b.pc \notin Closing
        /\ b.pc \in Working /\ a.pc \notin Opening
    BY DEF Looping, Opening, Working, Closing
  <1>2. Counted(h, res, b, f)
    BY <1>1 DEF Held, Counted, Admissions
  <1>3. h.rev >= 1
    BY <1>1 DEF Held, Counted
  <1>4. a.seq \in Nat /\ LastEventSequence(t) <= a.seq
    BY <1>1 DEF Held, Behind, Admissions
  <1>5. LastEventSequence(u) <= a.seq + Len(e) /\ Rises(t, u)
    BY <1>4, Emitted DEF Rises
  <1>6. Behind(h, u, b)
    BY <1>3, <1>5 DEF Behind
  <1>7. /\ \A c \in h.claims : /\ c.id[2] \in 0..MaxTurns
                               /\ c.id[1] < a.n \/ (c.id[1] = a.n /\ c.id[2] <= a.turn)
        /\ a.turn \in Nat /\ b.turn \in Nat
    BY <1>1, TurnsAssumption DEF Held, AdmissionClaims, HistoryClaims, Admissions
  <1>8. AdmissionClaims(h, b)
    BY <1>1, <1>7 DEF Held, AdmissionClaims
  <1>9. BoxClaims(h, box, b)
    BY <1>1 DEF Held, BoxClaims
  <1> QED BY <1>2, <1>5, <1>6, <1>8, <1>9 DEF Held

(* The admission goes on from a to b, with a claim drawn for its new turn. *)
DrawsClaim(a, b) ==
    /\ a.pc = "turn" /\ a.turn < MaxTurns /\ b.pc = "take"
    /\ b.rev = a.rev /\ b.n = a.n /\ b.turn = a.turn + 1 /\ b.done = a.turn + 1
    /\ b.claim = <<a.n, a.turn + 1>>
    /\ b.claims = a.claims \cup {[id |-> b.claim, rev |-> a.rev + 1]}

(* A turn begins and claims inputs: the claim is one nobody drew before.   *)
LEMMA StartClaimsHolds ==
  ASSUME NEW h \in Histories, NEW t \in Traces, NEW res \in Results, NEW box \in Boxes,
         NEW a \in Admissions, NEW f \in 0..MaxFaults, Held(h, t, res, box, a, f),
         NEW e, Follows(e, a.seq), NEW u \in Traces, u.events = t.events \o e,
         NEW b \in Admissions, DrawsClaim(a, b), b.seq = a.seq + Len(e)
  PROVE  /\ Held(h, u, res, Claimed(box, b.claim, ClaimLimit), b, f) /\ Rises(t, u)
         /\ a.claims = h.claims
         /\ \A k \in DOMAIN box : box[k].claim # b.claim
  <1> DEFINE new == Claimed(box, b.claim, ClaimLimit)
  <1> USE DEF DrawsClaim
  <1>1. /\ a.pc \in Looping /\ b.pc \in Looping /\ b.pc \notin Opening /\ b.pc \notin Closing
        /\ b.pc \in Working /\ a.pc \notin Opening
    BY DEF Looping, Opening, Working, Closing
  <1>2. Counted(h, res, b, f)
    BY <1>1 DEF Held, Counted, Admissions
  <1>3. h.rev >= 1 /\ h.rev = a.rev /\ a.n >= 1 /\ a.n <= MaxAdmissions + f + 1
    BY <1>1 DEF Held, Counted
  <1>4. a.seq \in Nat /\ LastEventSequence(t) <= a.seq
    BY <1>1 DEF Held, Behind, Admissions
  <1>5. LastEventSequence(u) <= a.seq + Len(e) /\ Rises(t, u)
    BY <1>4, Emitted DEF Rises
  <1>6. Behind(h, u, b)
    BY <1>3, <1>5 DEF Behind
  <1>7. /\ \A c \in h.claims : /\ c.id[2] \in 0..MaxTurns /\ c.id \in ClaimIds
                               /\ c.id[1] < a.n \/ (c.id[1] = a.n /\ c.id[2] <= a.turn)
        /\ a.turn \in Nat /\ b.turn \in Nat /\ a.n \in Nat
        /\ a.claims = h.claims
    BY <1>1, TurnsAssumption DEF Held, AdmissionClaims, HistoryClaims, Admissions, Histories,
         ClaimSets
  <1>8. b.claim \notin IdsOf(h.claims)
    <2> SUFFICES ASSUME b.claim \in IdsOf(h.claims) PROVE FALSE
      OBVIOUS
    <2>1. PICK c \in h.claims : c.id = b.claim
      BY DEF IdsOf
    <2>2. c.id[1] = a.n /\ c.id[2] = a.turn + 1
      BY <2>1
    <2> QED BY <1>7, <2>2
  <1>9. AdmissionClaims(h, b)
    BY <1>1, <1>3, <1>7, <1>8 DEF Held, AdmissionClaims
  <1>10. b.claim \in ClaimIds /\ b.claim \in Claims /\ b.claim # NoClaim
    BY <1>3, <1>7, TurnsAssumption DEF ClaimIds, Claims, NoClaim
  <1>11. /\ DOMAIN new = DOMAIN box
         /\ \A k \in DOMAIN box :
               /\ new[k].input = box[k].input /\ new[k].ack = box[k].ack
               /\ \/ new[k].claim = box[k].claim
                  \/ box[k].claim = NoClaim /\ box[k].ack = 0 /\ new[k].claim = b.claim
    BY <1>10, ClaimedBox
  <1> HIDE DEF new
  <1>12. BoxClaims(h, box, a)
    BY DEF Held
  <1>13. h.rev \in Nat
    BY DEF Histories
  <1>14. ASSUME NEW k \in DOMAIN new
         PROVE  /\ new[k].ack \in 0..h.rev
                /\ new[k].ack > 0 => new[k].claim \in IdsOf(h.claims)
                /\ new[k].claim \in Claims
                /\ new[k].claim \in {NoClaim, b.claim} \cup IdsOf(h.claims)
    <2>1. /\ box[k].ack \in 0..h.rev /\ box[k].claim \in Claims
          /\ box[k].ack > 0 => box[k].claim \in IdsOf(h.claims)
          /\ box[k].claim \in {NoClaim} \cup IdsOf(h.claims)
      BY <1>1, <1>11, <1>12 DEF BoxClaims
    <2> QED BY <1>10, <1>11, <1>13, <2>1
  <1>15. \A j, k \in DOMAIN new : new[j].input = new[k].input => j = k
    BY <1>11, <1>12 DEF BoxClaims
  <1>16. BoxClaims(h, new, b)
    <2>1. \A k \in DOMAIN new : \/ new[k].claim \in {NoClaim} \cup IdsOf(h.claims)
                                \/ b.pc = "take" /\ new[k].claim = b.claim
      BY <1>14
    <2> QED BY <1>14, <1>15, <2>1 DEF BoxClaims
  <1>17. Held(h, u, res, new, b, f)
    BY <1>2, <1>6, <1>9, <1>16 DEF Held
  <1>18. \A k \in DOMAIN box : box[k].claim \in {NoClaim} \cup IdsOf(h.claims)
    BY <1>1, <1>12 DEF BoxClaims
  <1>19. \A k \in DOMAIN box : box[k].claim # b.claim
    BY <1>8, <1>10, <1>18
  <1> QED BY <1>5, <1>7, <1>17, <1>19 DEF new

(* The claim that was committed is acknowledged.                           *)
LEMMA AckHolds ==
  ASSUME NEW h \in Histories, NEW t \in Traces, NEW res \in Results, NEW box \in Boxes,
         NEW a \in Admissions, NEW f \in Nat, Held(h, t, res, box, a, f), a.pc = "ack",
         NEW u, NEW b \in Admissions, b.pc = "compact", Held(h, u, res, box, b, f)
  PROVE  /\ Held(h, u, res, Acknowledged(box, a.claim, a.rev), b, f)
         /\ a.rev \in Nat /\ a.rev >= 1
         /\ \A k \in DOMAIN box : box[k].claim = a.claim => a.claim \in IdsOf(h.claims)
  <1> DEFINE new == Acknowledged(box, a.claim, a.rev)
  <1>1. /\ a.pc \in Looping /\ b.pc \in Looping /\ a.pc # "reconcile" /\ b.pc # "take"
        /\ b.pc # "reconcile" /\ a.pc \notin Opening
    BY DEF Looping, Opening, Working, Closing
  <1>2. a.rev = h.rev /\ h.rev >= 1 /\ h.rev \in Nat /\ a.n >= 1 /\ a.n \in Nat
    BY <1>1 DEF Held, Counted, Histories, Admissions
  <1>3. a.claim = <<a.n, a.turn>> /\ a.claim \in ClaimIds
    BY DEF Held, AdmissionClaims, Admissions
  <1>4. a.claim # NoClaim
    BY <1>2, <1>3 DEF NoClaim
  <1>5. /\ DOMAIN new = DOMAIN box
        /\ \A k \in DOMAIN box :
              /\ new[k].input = box[k].input /\ new[k].claim = box[k].claim
              /\ new[k].ack = IF box[k].claim = a.claim THEN a.rev ELSE box[k].ack
    <2>1. a.claim \in ClaimIds /\ a.rev \in Nat
      BY <1>2, <1>3
    <2> QED BY <2>1, AcknowledgedBox
  <1> HIDE DEF new
  <1>6. BoxClaims(h, box, a)
    BY DEF Held
  <1>7. ASSUME NEW k \in DOMAIN new
        PROVE  /\ new[k].ack \in 0..h.rev
               /\ new[k].ack > 0 => new[k].claim \in IdsOf(h.claims)
               /\ new[k].claim \in Claims /\ new[k].claim \in {NoClaim} \cup IdsOf(h.claims)
    <2>1. /\ box[k].ack \in 0..h.rev /\ box[k].claim \in Claims
          /\ box[k].ack > 0 => box[k].claim \in IdsOf(h.claims)
          /\ box[k].claim \in {NoClaim} \cup IdsOf(h.claims)
      BY <1>1, <1>5, <1>6 DEF BoxClaims
    <2> QED BY <1>2, <1>4, <1>5, <2>1
  <1>8. \A j, k \in DOMAIN new : new[j].input = new[k].input => j = k
    BY <1>5, <1>6 DEF BoxClaims
  <1>9. BoxClaims(h, new, b)
    BY <1>7, <1>8 DEF BoxClaims
  <1>10. Held(h, u, res, new, b, f)
    BY <1>9 DEF Held
  <1>11. \A k \in DOMAIN box : box[k].claim \in {NoClaim} \cup IdsOf(h.claims)
    BY <1>1, <1>6 DEF BoxClaims
  <1> QED BY <1>2, <1>4, <1>10, <1>11 DEF new

-----------------------------------------------------------------------------
(* Inputs are taken in once.                                               *)

(* How far an input has come, by a history and a queue.                    *)
StatusOf(h, box, i) ==
    CASE Copies(h.inputs, i) = 0 /\ ~Holds(box, i) -> "absent"
      [] Copies(h.inputs, i) = 0 /\ Holds(box, i)
            /\ ~(\E k \in DOMAIN box : box[k].input = i /\ box[k].ack > 0) -> "queued"
      [] Copies(h.inputs, i) = 1 /\ Holds(box, i)
            /\ ~(\E k \in DOMAIN box : box[k].input = i /\ box[k].ack > 0) -> "taken"
      [] Copies(h.inputs, i) = 1
            /\ (\E k \in DOMAIN box : box[k].input = i /\ box[k].ack > 0) -> "settled"
      [] OTHER -> "broken"

(* One step forward of some inputs.                                        *)
Ways == {<<"absent", "queued">>, <<"queued", "taken">>, <<"taken", "settled">>}
Advances(h, box, next, new) ==
    \E T \in SUBSET AllInputs : \E way \in Ways :
        /\ way[1] = "absent" => \E i \in AllInputs : T = {i}
        /\ \A i \in AllInputs :
              IF i \in T THEN StatusOf(h, box, i) = way[1] /\ StatusOf(next, new, i) = way[2]
              ELSE StatusOf(next, new, i) = StatusOf(h, box, i)

(* The status of an input that is not queued, and of one that is.          *)
LEMMA StatusIs ==
  ASSUME NEW h \in Histories, NEW box \in Boxes, NEW a, NEW i \in AllInputs,
         BoxClaims(h, box, a), InputsOnce(h, box, a)
  PROVE  /\ ~Holds(box, i) => StatusOf(h, box, i) = "absent"
         /\ \A k \in DOMAIN box :
               box[k].input = i =>
                  StatusOf(h, box, i) = IF box[k].claim \notin IdsOf(h.claims) THEN "queued"
                                        ELSE IF box[k].ack > 0 THEN "settled" ELSE "taken"
  <1>1. Copies(h.inputs, i) = IF Took(h, box, i) THEN 1 ELSE 0
    BY DEF InputsOnce
  <1>2. ASSUME ~Holds(box, i) PROVE StatusOf(h, box, i) = "absent"
    <2>1. ~Took(h, box, i)
      BY <1>2 DEF Holds, Took
    <2> QED BY <1>1, <1>2, <2>1 DEF StatusOf
  <1>3. ASSUME NEW k \in DOMAIN box, box[k].input = i
        PROVE  StatusOf(h, box, i) = IF box[k].claim \notin IdsOf(h.claims) THEN "queued"
                                     ELSE IF box[k].ack > 0 THEN "settled" ELSE "taken"
    <2>1. Holds(box, i)
      BY <1>3 DEF Holds
    <2>2. \A j \in DOMAIN box : box[j].input = i => j = k
      BY <1>3 DEF BoxClaims
    <2>3. Took(h, box, i) <=> box[k].claim \in IdsOf(h.claims)
      BY <1>3, <2>2 DEF Took
    <2>4. (\E j \in DOMAIN box : box[j].input = i /\ box[j].ack > 0) <=> box[k].ack > 0
      BY <1>3, <2>2
    <2>5. box[k].ack > 0 => box[k].claim \in IdsOf(h.claims)
      BY <1>3 DEF BoxClaims
    <2>6. CASE box[k].claim \notin IdsOf(h.claims)
      BY <1>1, <2>1, <2>3, <2>4, <2>5, <2>6 DEF StatusOf
    <2>7. CASE box[k].claim \in IdsOf(h.claims) /\ box[k].ack > 0
      BY <1>1, <2>1, <2>3, <2>4, <2>5, <2>7 DEF StatusOf
    <2>8. CASE box[k].claim \in IdsOf(h.claims) /\ ~(box[k].ack > 0)
      BY <1>1, <2>1, <2>3, <2>4, <2>5, <2>8 DEF StatusOf
    <2> QED BY <2>6, <2>7, <2>8
  <1> QED BY <1>2, <1>3

(* What leaves the inputs of the history and the queue leaves the status.  *)
LEMMA StatusKept ==
  ASSUME NEW h, NEW box, NEW next, next.inputs = h.inputs
  PROVE  Advances(h, box, next, box)
  <1>1. \A i \in AllInputs : StatusOf(next, box, i) = StatusOf(h, box, i)
    BY DEF StatusOf
  <1>2. PICK way \in Ways : way[1] # "absent"
    BY DEF Ways
  <1>3. {} \in SUBSET AllInputs /\ \A i \in AllInputs : i \notin {}
    OBVIOUS
  <1> QED BY <1>1, <1>2, <1>3 DEF Advances

(* An admission that took nothing in.                                      *)
LEMMA OnceKept ==
  ASSUME NEW h, NEW box, NEW a, InputsOnce(h, box, a),
         NEW b, b.pc # "take", b.pc \in Looping => b.inputs = h.inputs
  PROVE  InputsOnce(h, box, b)
  BY DEF InputsOnce

(* A queue whose items keep their inputs, and their claims as far as they  *)
(* are in the history.                                                     *)
LEMMA TookKept ==
  ASSUME NEW h, NEW box, NEW new, DOMAIN new = DOMAIN box,
         \A k \in DOMAIN box :
            /\ new[k].input = box[k].input
            /\ new[k].claim \in IdsOf(h.claims) <=> box[k].claim \in IdsOf(h.claims)
  PROVE  /\ \A i : Took(h, new, i) <=> Took(h, box, i)
         /\ \A i : Holds(new, i) <=> Holds(box, i)
  BY DEF Took, Holds

(* An input is queued.                                                     *)
LEMMA EnqueueOnce ==
  ASSUME NEW h \in Histories, NEW box \in Boxes, NEW a \in Admissions,
         NEW t, NEW res, NEW f, Held(h, t, res, box, a, f), InputsOnce(h, box, a),
         NEW i \in AllInputs, ~Holds(box, i)
  PROVE  InputsOnce(h, Enqueued(box, i), a) /\ Advances(h, box, h, Enqueued(box, i))
  <1> DEFINE new == Enqueued(box, i)
  <1>1. PICK n \in Nat : /\ n \notin DOMAIN box /\ DOMAIN new = DOMAIN box \cup {n}
                         /\ \A k \in DOMAIN box : new[k] = box[k]
                         /\ new[n] = Item(i)
    BY EnqueuedBox
  <1>2. new \in Boxes
    BY EnqueuedBox
  <1>3. Held(h, t, res, new, a, f)
    BY EnqueueHolds
  <1> HIDE DEF new
  <1>4. new[n].input = i /\ new[n].claim = NoClaim /\ new[n].ack = 0
    BY <1>1 DEF Item
  <1>5. NoClaim \notin IdsOf(h.claims)
    BY NoClaimIsFree DEF Held
  <1>6. \A j \in AllInputs : Took(h, new, j) <=> Took(h, box, j)
    BY <1>1, <1>4, <1>5 DEF Took
  <1>7. a.pc = "take" => ClaimedInputs(new, a.claim) = ClaimedInputs(box, a.claim)
    <2> SUFFICES ASSUME a.pc = "take"
                 PROVE  ClaimedInputs(new, a.claim) = ClaimedInputs(box, a.claim)
      OBVIOUS
    <2>1. a.claim = <<a.n, a.turn>> /\ a.n >= 1
      BY DEF Held, AdmissionClaims, Counted, Looping, Working
    <2>2. a.claim # NoClaim
      BY <2>1 DEF NoClaim
    <2>3. {new[k].input : k \in {j \in DOMAIN new : new[j].claim = a.claim}}
          = {box[k].input : k \in {j \in DOMAIN box : box[j].claim = a.claim}}
      BY <1>1, <1>4, <2>2
    <2> QED BY <2>3 DEF ClaimedInputs
  <1>8. InputsOnce(h, new, a)
    BY <1>6, <1>7 DEF InputsOnce
  <1>9. BoxClaims(h, box, a) /\ BoxClaims(h, new, a)
    BY <1>3 DEF Held
  <1>10. StatusOf(h, box, i) = "absent" /\ StatusOf(h, new, i) = "queued"
    <2>1. n \in DOMAIN new
      BY <1>1
    <2> QED BY <1>2, <1>4, <1>5, <1>8, <1>9, <2>1, StatusIs
  <1>11. ASSUME NEW j \in AllInputs, j # i PROVE StatusOf(h, new, j) = StatusOf(h, box, j)
    <2>1. CASE Holds(box, j)
      <3>1. PICK k \in DOMAIN box : box[k].input = j
        BY <2>1 DEF Holds
      <3>2. k \in DOMAIN new /\ new[k] = box[k]
        BY <1>1
      <3> QED BY <1>2, <1>8, <1>9, <3>1, <3>2, StatusIs
    <2>2. CASE ~Holds(box, j)
      <3>1. ~Holds(new, j)
        BY <1>1, <1>4, <1>11, <2>2 DEF Holds
      <3> QED BY <1>2, <1>8, <1>9, <2>2, <3>1, StatusIs
    <2> QED BY <2>1, <2>2
  <1>12. <<"absent", "queued">> \in Ways
         /\ <<"absent", "queued">>[1] = "absent" /\ <<"absent", "queued">>[2] = "queued"
    BY DEF Ways
  <1>13. Advances(h, box, h, new)
    <2>1. PICK T : T = {i}
      OBVIOUS
    <2>2. T \in SUBSET AllInputs /\ \A j \in AllInputs : j \in T <=> j = i
      BY <2>1
    <2> QED BY <1>10, <1>11, <1>12, <2>1, <2>2 DEF Advances
  <1> QED BY <1>8, <1>13 DEF new

(* Items that keep their inputs move only by their claim and their mark.   *)
LEMMA ItemsAdvance ==
  ASSUME NEW h \in Histories, NEW next \in Histories, NEW box \in Boxes, NEW new \in Boxes,
         NEW a, NEW b, BoxClaims(h, box, a), InputsOnce(h, box, a),
         BoxClaims(next, new, b), InputsOnce(next, new, b),
         DOMAIN new = DOMAIN box, \A k \in DOMAIN box : new[k].input = box[k].input,
         NEW way \in Ways, way[1] # "absent",
         \A k \in DOMAIN box :
            LET was == IF box[k].claim \notin IdsOf(h.claims) THEN "queued"
                       ELSE IF box[k].ack > 0 THEN "settled" ELSE "taken"
                is == IF new[k].claim \notin IdsOf(next.claims) THEN "queued"
                      ELSE IF new[k].ack > 0 THEN "settled" ELSE "taken"
            IN is = was \/ (was = way[1] /\ is = way[2])
  PROVE  Advances(h, box, next, new)
  <1>1. PICK T : T = {i \in AllInputs : /\ StatusOf(h, box, i) = way[1]
                                        /\ StatusOf(next, new, i) = way[2]}
    OBVIOUS
  <1>2. ASSUME NEW i \in AllInputs
        PROVE  \/ StatusOf(next, new, i) = StatusOf(h, box, i)
               \/ StatusOf(h, box, i) = way[1] /\ StatusOf(next, new, i) = way[2]
    <2>1. CASE Holds(box, i)
      <3>1. PICK k \in DOMAIN box : box[k].input = i
        BY <2>1 DEF Holds
      <3>2. k \in DOMAIN new /\ new[k].input = i
        BY <3>1
      <3>3. StatusOf(h, box, i) = IF box[k].claim \notin IdsOf(h.claims) THEN "queued"
                                  ELSE IF box[k].ack > 0 THEN "settled" ELSE "taken"
        BY <3>1, StatusIs
      <3>4. StatusOf(next, new, i) = IF new[k].claim \notin IdsOf(next.claims) THEN "queued"
                                     ELSE IF new[k].ack > 0 THEN "settled" ELSE "taken"
        BY <3>2, StatusIs
      <3> QED BY <3>3, <3>4
    <2>2. CASE ~Holds(box, i)
      <3>1. ~Holds(new, i)
        BY <2>2 DEF Holds
      <3> QED BY <2>2, <3>1, StatusIs
    <2> QED BY <2>1, <2>2
  <1>3. T \in SUBSET AllInputs
    BY <1>1
  <1>4. \A i \in AllInputs :
           IF i \in T THEN StatusOf(h, box, i) = way[1] /\ StatusOf(next, new, i) = way[2]
           ELSE StatusOf(next, new, i) = StatusOf(h, box, i)
    BY <1>1, <1>2
  <1> QED BY <1>3, <1>4 DEF Advances

(* The claims that an earlier admission left are settled.                  *)
LEMMA ReconcileOnce ==
  ASSUME NEW h \in Histories, NEW box \in Boxes, NEW a \in Admissions, NEW b \in Admissions,
         NEW t, NEW res, NEW f, Held(h, t, res, box, a, f), InputsOnce(h, box, a),
         a.pc = "reconcile", b.pc = "admit", b.inputs = a.inputs,
         Held(h, t, res, Reconciled(box, h.claims), b, f)
  PROVE  /\ InputsOnce(h, Reconciled(box, h.claims), b)
         /\ Advances(h, box, h, Reconciled(box, h.claims))
  <1> DEFINE new == Reconciled(box, h.claims)
  <1>1. /\ h.claims \in ClaimSets /\ NoClaim \notin IdsOf(h.claims)
        /\ BoxClaims(h, box, a) /\ BoxClaims(h, new, b)
    BY NoClaimIsFree DEF Held, Histories
  <1>2. /\ new \in Boxes /\ DOMAIN new = DOMAIN box
        /\ \A k \in DOMAIN box :
              /\ new[k].input = box[k].input
              /\ new[k].claim = IF box[k].claim \in IdsOf(h.claims) THEN box[k].claim ELSE NoClaim
              /\ IF box[k].claim \in IdsOf(h.claims) /\ box[k].ack = 0
                 THEN \E c \in h.claims : new[k].ack = c.rev
                 ELSE new[k].ack = box[k].ack
    BY <1>1, ReconciledBox DEF BoxClaims
  <1> HIDE DEF new
  <1>3. \A k \in DOMAIN box : new[k].claim \in IdsOf(h.claims) <=> box[k].claim \in IdsOf(h.claims)
    BY <1>1, <1>2
  <1>4. \A i : Took(h, new, i) <=> Took(h, box, i)
    BY <1>2, <1>3, TookKept
  <1>5. a.inputs = h.inputs
    BY DEF InputsOnce, Looping, Opening
  <1>6. InputsOnce(h, new, b)
    BY <1>4, <1>5 DEF InputsOnce
  <1>7. PICK way \in Ways : way[1] = "taken" /\ way[2] = "settled"
    BY DEF Ways
  <1>8. \A c \in h.claims : c.rev >= 1
    BY DEF Held, HistoryClaims, Histories
  <1>9. ASSUME NEW k \in DOMAIN box
        PROVE  LET was == IF box[k].claim \notin IdsOf(h.claims) THEN "queued"
                          ELSE IF box[k].ack > 0 THEN "settled" ELSE "taken"
                   is == IF new[k].claim \notin IdsOf(h.claims) THEN "queued"
                         ELSE IF new[k].ack > 0 THEN "settled" ELSE "taken"
               IN is = was \/ (was = way[1] /\ is = way[2])
    <2>1. CASE box[k].claim \notin IdsOf(h.claims)
      BY <1>3, <2>1
    <2>2. CASE box[k].claim \in IdsOf(h.claims) /\ box[k].ack = 0
      <3>1. PICK c \in h.claims : new[k].ack = c.rev
        BY <1>2, <2>2
      <3>2. new[k].ack > 0 /\ ~(box[k].ack > 0)
        <4>1. c.rev \in Nat /\ c.rev >= 1
          BY <1>1, <1>8 DEF ClaimSets
        <4> QED BY <2>2, <3>1, <4>1
      <3> QED BY <1>3, <1>7, <2>2, <3>2
    <2>3. CASE box[k].claim \in IdsOf(h.claims) /\ box[k].ack # 0
      BY <1>2, <1>3, <2>3
    <2> QED BY <2>1, <2>2, <2>3
  <1>10. Advances(h, box, h, new)
    BY <1>1, <1>2, <1>6, <1>7, <1>9, ItemsAdvance
  <1> QED BY <1>6, <1>10 DEF new

(* Inputs are claimed: they stay queued.                                   *)
LEMMA StartOnce ==
  ASSUME NEW h \in Histories, NEW box \in Boxes, NEW a \in Admissions, NEW b \in Admissions,
         NEW t, NEW u, NEW res, NEW f, Held(h, t, res, box, a, f), InputsOnce(h, box, a),
         a.pc = "turn", b.pc = "take",
         b.inputs = a.inputs (+) ClaimedInputs(Claimed(box, b.claim, ClaimLimit), b.claim),
         Held(h, u, res, Claimed(box, b.claim, ClaimLimit), b, f)
  PROVE  /\ InputsOnce(h, Claimed(box, b.claim, ClaimLimit), b)
         /\ Advances(h, box, h, Claimed(box, b.claim, ClaimLimit))
  <1> DEFINE new == Claimed(box, b.claim, ClaimLimit)
  <1>1. /\ NoClaim \notin IdsOf(h.claims) /\ BoxClaims(h, box, a) /\ BoxClaims(h, new, b)
    BY NoClaimIsFree DEF Held
  <1>2. b.claim \notin IdsOf(h.claims) /\ b.claim \in ClaimIds
    BY DEF Held, AdmissionClaims, Admissions
  <1>3. /\ new \in Boxes /\ DOMAIN new = DOMAIN box
        /\ \A k \in DOMAIN box :
              /\ new[k].input = box[k].input /\ new[k].ack = box[k].ack
              /\ \/ new[k].claim = box[k].claim
                 \/ box[k].claim = NoClaim /\ box[k].ack = 0 /\ new[k].claim = b.claim
    BY <1>2, ClaimedBox
  <1>4. a.inputs = h.inputs /\ b.pc \notin Looping \ {"take"}
    BY DEF InputsOnce, Looping
  <1>5. b.inputs = h.inputs (+) ClaimedInputs(new, b.claim)
    BY <1>4
  <1> HIDE DEF new
  <1>6. \A k \in DOMAIN box : new[k].claim \in IdsOf(h.claims) <=> box[k].claim \in IdsOf(h.claims)
    BY <1>1, <1>2, <1>3
  <1>7. \A i : Took(h, new, i) <=> Took(h, box, i)
    BY <1>3, <1>6, TookKept
  <1>8. InputsOnce(h, new, b)
    BY <1>4, <1>5, <1>7 DEF InputsOnce
  <1>9. PICK way \in Ways : way[1] # "absent"
    BY DEF Ways
  <1>10. ASSUME NEW k \in DOMAIN box
         PROVE  LET was == IF box[k].claim \notin IdsOf(h.claims) THEN "queued"
                           ELSE IF box[k].ack > 0 THEN "settled" ELSE "taken"
                    is == IF new[k].claim \notin IdsOf(h.claims) THEN "queued"
                          ELSE IF new[k].ack > 0 THEN "settled" ELSE "taken"
                IN is = was \/ (was = way[1] /\ is = way[2])
    BY <1>3, <1>6
  <1>11. Advances(h, box, h, new)
    BY <1>1, <1>3, <1>8, <1>9, <1>10, ItemsAdvance
  <1> QED BY <1>8, <1>11 DEF new

(* The claim is acknowledged: its inputs are settled.                      *)
LEMMA AckOnce ==
  ASSUME NEW h \in Histories, NEW box \in Boxes, NEW a \in Admissions, NEW b \in Admissions,
         NEW t, NEW u, NEW res, NEW f, Held(h, t, res, box, a, f), InputsOnce(h, box, a),
         a.pc = "ack", b.pc = "compact", b.inputs = a.inputs, a.rev \in Nat, a.rev >= 1,
         \A k \in DOMAIN box : box[k].claim = a.claim => a.claim \in IdsOf(h.claims),
         Held(h, u, res, Acknowledged(box, a.claim, a.rev), b, f)
  PROVE  /\ InputsOnce(h, Acknowledged(box, a.claim, a.rev), b)
         /\ Advances(h, box, h, Acknowledged(box, a.claim, a.rev))
  <1> DEFINE new == Acknowledged(box, a.claim, a.rev)
  <1>1. BoxClaims(h, box, a) /\ BoxClaims(h, new, b) /\ a.claim \in ClaimIds
    BY DEF Held, Admissions
  <1>2. /\ new \in Boxes /\ DOMAIN new = DOMAIN box
        /\ \A k \in DOMAIN box :
              /\ new[k].input = box[k].input /\ new[k].claim = box[k].claim
              /\ new[k].ack = IF box[k].claim = a.claim THEN a.rev ELSE box[k].ack
    BY <1>1, AcknowledgedBox
  <1> HIDE DEF new
  <1>3. \A i : Took(h, new, i) <=> Took(h, box, i)
    BY <1>2, TookKept
  <1>4. a.inputs = h.inputs
    BY DEF InputsOnce, Looping, Working
  <1>5. InputsOnce(h, new, b)
    BY <1>3, <1>4 DEF InputsOnce
  <1>6. PICK way \in Ways : way[1] = "taken" /\ way[2] = "settled"
    BY DEF Ways
  <1>7. ASSUME NEW k \in DOMAIN box
        PROVE  LET was == IF box[k].claim \notin IdsOf(h.claims) THEN "queued"
                          ELSE IF box[k].ack > 0 THEN "settled" ELSE "taken"
                   is == IF new[k].claim \notin IdsOf(h.claims) THEN "queued"
                         ELSE IF new[k].ack > 0 THEN "settled" ELSE "taken"
               IN is = was \/ (was = way[1] /\ is = way[2])
    <2>1. CASE box[k].claim = a.claim
      <3>1. new[k].ack > 0 /\ new[k].claim \in IdsOf(h.claims) /\ box[k].claim \in IdsOf(h.claims)
        BY <1>2, <2>1
      <3> QED BY <1>6, <3>1
    <2>2. CASE box[k].claim # a.claim
      BY <1>2, <2>2
    <2> QED BY <2>1, <2>2
  <1>8. Advances(h, box, h, new)
    BY <1>1, <1>2, <1>5, <1>6, <1>7, ItemsAdvance
  <1> QED BY <1>5, <1>8 DEF new

(* One more copy of every input of a claim.                                *)
LEMMA CopiesAdd ==
  ASSUME NEW inputs, NEW S, NEW i
  PROVE  Copies(inputs (+) SetToBag(S), i) = Copies(inputs, i) + (IF i \in S THEN 1 ELSE 0)
  BY DEF (+), Copies, BagIn, BagToSet, SetToBag

(* The history is committed: the inputs of the claim are taken.            *)
LEMMA CommitOnce ==
  ASSUME NEW h \in Histories, NEW box \in Boxes, NEW a \in Admissions, NEW b \in Admissions,
         NEW t, NEW res, NEW f, Held(h, t, res, box, a, f), InputsOnce(h, box, a),
         a.pc \in Looping, b.pc \in Looping \ {"take"}, b.inputs = a.inputs,
         NEW out \in Histories, out.inputs = a.inputs, out.claims = a.claims,
         Held(out, t, res, box, b, f)
  PROVE  InputsOnce(out, box, b) /\ Advances(h, box, out, box)
  <1>1. BoxClaims(h, box, a) /\ BoxClaims(out, box, b)
    BY DEF Held
  <1>2. CASE a.pc # "take"
    <2>1. a.inputs = h.inputs /\ a.claims = h.claims
      BY <1>2 DEF InputsOnce, Held, AdmissionClaims
    <2>2. InputsOnce(out, box, b)
      BY <2>1 DEF InputsOnce, Took
    <2>3. Advances(h, box, out, box)
      BY <2>1, StatusKept
    <2> QED BY <2>2, <2>3
  <1>3. CASE a.pc = "take"
    <2>1. PICK c : c = [id |-> a.claim, rev |-> h.rev + 1]
      OBVIOUS
    <2>2. /\ a.claim \notin IdsOf(h.claims) /\ a.claims = h.claims \cup {c} /\ c.id = a.claim
      BY <1>3, <2>1 DEF Held, AdmissionClaims
    <2>3. \A x : x \in IdsOf(out.claims) <=> x \in IdsOf(h.claims) \/ x = a.claim
      BY <2>2 DEF IdsOf
    <2>4. PICK S : S = {box[k].input : k \in {j \in DOMAIN box : box[j].claim = a.claim}}
      OBVIOUS
    <2>5. out.inputs = h.inputs (+) SetToBag(S)
      BY <1>3, <2>4 DEF InputsOnce, ClaimedInputs
    <2>6. ASSUME NEW i \in AllInputs
          PROVE  Copies(out.inputs, i) = IF Took(out, box, i) THEN 1 ELSE 0
      <3>1. Copies(out.inputs, i) = Copies(h.inputs, i) + (IF i \in S THEN 1 ELSE 0)
        BY <2>5, CopiesAdd
      <3>2. Copies(h.inputs, i) = IF Took(h, box, i) THEN 1 ELSE 0
        BY DEF InputsOnce
      <3>3. i \in S <=> \E k \in DOMAIN box : box[k].input = i /\ box[k].claim = a.claim
        BY <2>4
      <3>4. Took(out, box, i) <=> (Took(h, box, i) \/ i \in S)
        BY <2>3, <3>3 DEF Took
      <3>5. ~(Took(h, box, i) /\ i \in S)
        <4>1. \A j, k \in DOMAIN box : box[j].input = box[k].input => j = k
          BY <1>1 DEF BoxClaims
        <4> QED BY <2>2, <3>3, <4>1 DEF Took
      <3> QED BY <3>1, <3>2, <3>4, <3>5
    <2>7. InputsOnce(out, box, b)
      BY <2>6 DEF InputsOnce
    <2>8. PICK way \in Ways : way[1] = "queued" /\ way[2] = "taken"
      BY DEF Ways
    <2>9. ASSUME NEW k \in DOMAIN box
          PROVE  LET was == IF box[k].claim \notin IdsOf(h.claims) THEN "queued"
                            ELSE IF box[k].ack > 0 THEN "settled" ELSE "taken"
                     is == IF box[k].claim \notin IdsOf(out.claims) THEN "queued"
                           ELSE IF box[k].ack > 0 THEN "settled" ELSE "taken"
                 IN is = was \/ (was = way[1] /\ is = way[2])
      <3>1. box[k].ack > 0 => box[k].claim \in IdsOf(h.claims)
        BY <1>1 DEF BoxClaims
      <3>2. CASE box[k].claim = a.claim
        BY <2>2, <2>3, <2>8, <3>1, <3>2
      <3>3. CASE box[k].claim # a.claim
        BY <2>3, <3>3
      <3> QED BY <3>2, <3>3
    <2>10. \A k \in DOMAIN box : box[k].input = box[k].input
      OBVIOUS
    <2>11. Advances(h, box, out, box)
      BY <1>1, <2>7, <2>8, <2>9, <2>10, ItemsAdvance
    <2> QED BY <2>7, <2>11
  <1> QED BY <1>2, <1>3

-----------------------------------------------------------------------------
(* From one run to all of them.                                            *)

(* The step changes what the program has of run r to h, t, res, box and a. *)
Becomes(r, h, t, res, box, a) ==
    /\ history' = [history EXCEPT ![r] = h]
    /\ trace' = [trace EXCEPT ![r] = t]
    /\ results' = [results EXCEPT ![r] = res]
    /\ inbox' = [inbox EXCEPT ![r] = box]
    /\ adm' = [adm EXCEPT ![r] = a]

Sessions ==
    [rev : Nat, turns : Seq([op : Ops, reason : Reasons]),
     pending : Ops \cup {NoOp}, msgs : Seq(Ops)]

EventsRise == \A s \in Ops : Rises(trace[s], trace'[s])

(* What the step leaves of the functions.                                  *)
LEMMA BecomesIs ==
  ASSUME Shapes, NEW r \in Ops, NEW h, NEW t, NEW res, NEW box, NEW a,
         Becomes(r, h, t, res, box, a)
  PROVE  /\ history'[r] = h /\ trace'[r] = t /\ results'[r] = res /\ inbox'[r] = box
         /\ adm'[r] = a
         /\ \A s \in Ops \ {r} :
               /\ history'[s] = history[s] /\ trace'[s] = trace[s] /\ results'[s] = results[s]
               /\ inbox'[s] = inbox[s] /\ adm'[s] = adm[s]
  BY DEF Shapes, Becomes

(* A trace that stays rises.                                               *)
LEMMA SameRises ==
  ASSUME NEW t \in Traces
  PROVE  Rises(t, t)
  <1>1. DOMAIN t.events = 1..Len(t.events) /\ Len(t.events) \in Nat
    BY LastType, LenProperties
  <1> QED BY <1>1 DEF Rises

(* A step of one run keeps the invariant of all runs.                      *)
LEMMA Lifted ==
  ASSUME Shapes, RunsHold, NEW r \in Ops, NEW h \in Histories, NEW t \in Traces,
         NEW res \in Results, NEW box \in Boxes, NEW a \in Admissions,
         Becomes(r, h, t, res, box, a), session' \in Sessions,
         faults' \in 0..MaxFaults, faults' >= faults,
         Held(h, t, res, box, a, faults'), Rises(trace[r], t)
  PROVE  Shapes' /\ RunsHold' /\ EventsRise
  <1>1. Shapes'
    BY DEF Shapes, Becomes, Sessions
  <1>2. ASSUME NEW s \in Ops, s # r
        PROVE  /\ Held(history'[s], trace'[s], results'[s], inbox'[s], adm'[s], faults')
               /\ Rises(trace[s], trace'[s])
    <2>1. /\ history'[s] = history[s] /\ trace'[s] = trace[s] /\ results'[s] = results[s]
          /\ inbox'[s] = inbox[s] /\ adm'[s] = adm[s]
      BY <1>2, BecomesIs
    <2>2. /\ Held(history[s], trace[s], results[s], inbox[s], adm[s], faults)
          /\ history[s] \in Histories /\ adm[s] \in Admissions /\ trace[s] \in Traces
      BY DEF RunsHold, Shapes
    <2>3. faults \in Nat /\ faults' \in Nat
      BY TurnsAssumption DEF Shapes
    <2>4. Held(history[s], trace[s], results[s], inbox[s], adm[s], faults')
      BY <2>2, <2>3, MoreFaults
    <2> QED BY <2>1, <2>2, <2>4, SameRises
  <1>3. /\ Held(history'[r], trace'[r], results'[r], inbox'[r], adm'[r], faults')
        /\ Rises(trace[r], trace'[r])
    BY BecomesIs
  <1>4. RunsHold'
    BY <1>2, <1>3 DEF RunsHold
  <1>5. EventsRise
    BY <1>2, <1>3 DEF EventsRise
  <1> QED BY <1>1, <1>4, <1>5

-----------------------------------------------------------------------------
(* The delivery of inputs, as seen from one run.                           *)

StatusMap == [d \in Deliveries |-> DeliveryStatus(d[1], d[2])]
Moves == StatusMap' = StatusMap \/ Delivery!Next

(* The status of an input is that of its history and queue.                *)
LEMMA StatusOfDelivery ==
  ASSUME NEW r, NEW i
  PROVE  DeliveryStatus(r, i) = StatusOf(history[r], inbox[r], i)
  BY DEF DeliveryStatus, StatusOf, TimesTaken, Settled

(* A step of one run that moves its inputs on is a step of InputDelivery.  *)
LEMMA LiftedOnce ==
  ASSUME Shapes, TakenOnce, NEW r \in Ops, NEW h, NEW t, NEW res, NEW box, NEW a,
         Becomes(r, h, t, res, box, a),
         InputsOnce(h, box, a), Advances(history[r], inbox[r], h, box)
  PROVE  TakenOnce' /\ Moves
  <1>1. TakenOnce'
    <2>1. \A s \in Ops : InputsOnce(history'[s], inbox'[s], adm'[s])
      BY BecomesIs DEF TakenOnce
    <2> QED BY <2>1 DEF TakenOnce
  <1>2. PICK T \in SUBSET AllInputs, way \in Ways :
           /\ way[1] = "absent" => \E i \in AllInputs : T = {i}
           /\ \A i \in AllInputs :
                 IF i \in T
                 THEN StatusOf(history[r], inbox[r], i) = way[1] /\ StatusOf(h, box, i) = way[2]
                 ELSE StatusOf(h, box, i) = StatusOf(history[r], inbox[r], i)
    BY DEF Advances
  <1>3. PICK S : S = {d \in Deliveries : d[1] = r /\ d[2] \in T}
    OBVIOUS
  <1>4. ASSUME NEW d \in Deliveries
        PROVE  IF d \in S
               THEN DeliveryStatus(d[1], d[2]) = way[1] /\ DeliveryStatus(d[1], d[2])' = way[2]
               ELSE DeliveryStatus(d[1], d[2])' = DeliveryStatus(d[1], d[2])
    <2>1. PICK s, i : s = d[1] /\ i = d[2]
      OBVIOUS
    <2>2. s \in Ops /\ i \in AllInputs
      BY <2>1 DEF Deliveries, AllInputs
    <2>3. /\ DeliveryStatus(s, i) = StatusOf(history[s], inbox[s], i)
          /\ DeliveryStatus(s, i)' = StatusOf(history'[s], inbox'[s], i)
      BY StatusOfDelivery DEF DeliveryStatus, StatusOf, TimesTaken, Settled
    <2>4. DeliveryStatus(d[1], d[2])' = DeliveryStatus(s, i)'
      BY <2>1
    <2>5. CASE s # r
      <3>1. history'[s] = history[s] /\ inbox'[s] = inbox[s]
        BY <2>2, <2>5, BecomesIs
      <3>2. d \notin S
        BY <1>3, <2>1, <2>5
      <3> QED BY <2>1, <2>3, <2>4, <3>1, <3>2
    <2>6. CASE s = r
      <3>1. history'[s] = h /\ inbox'[s] = box
        BY <2>6, BecomesIs
      <3>2. d \in S <=> i \in T
        BY <1>3, <2>1, <2>6
      <3> QED BY <1>2, <2>1, <2>2, <2>3, <2>4, <2>6, <3>1, <3>2
    <2> QED BY <2>5, <2>6
  <1>5. StatusMap' = [d \in Deliveries |-> IF d \in S THEN way[2] ELSE StatusMap[d]]
    BY <1>4 DEF StatusMap
  <1>6. S \in SUBSET Deliveries /\ \A d \in S : StatusMap[d] = way[1]
    BY <1>3, <1>4 DEF StatusMap
  <1>7. CASE S = {}
    BY <1>1, <1>5, <1>7 DEF Moves, StatusMap
  <1>8. CASE S # {} /\ way[1] = "absent"
    <2>1. way[2] = "queued"
      BY <1>8 DEF Ways
    <2>2. PICK i : T = {i}
      BY <1>2, <1>8
    <2>3. S = {<<r, i>>} /\ <<r, i>> \in Deliveries
      BY <1>3, <1>8, <2>2 DEF Deliveries
    <2>4. Delivery!Move({<<r, i>>}, "absent", "queued")
      BY <1>5, <1>6, <1>8, <2>1, <2>3 DEF Delivery!Move, StatusMap
    <2>5. Delivery!Next
      BY <2>3, <2>4 DEF Delivery!Next, Delivery!Queue
    <2> QED BY <1>1, <2>5 DEF Moves
  <1>9. CASE S # {} /\ way[1] = "queued"
    <2>1. way[2] = "taken"
      BY <1>9 DEF Ways
    <2>2. Delivery!Move(S, "queued", "taken")
      BY <1>5, <1>6, <1>9, <2>1 DEF Delivery!Move, StatusMap
    <2>3. Delivery!Next
      BY <1>6, <2>2 DEF Delivery!Next, Delivery!Take
    <2> QED BY <1>1, <2>3 DEF Moves
  <1>10. CASE S # {} /\ way[1] = "taken"
    <2>1. way[2] = "settled"
      BY <1>10 DEF Ways
    <2>2. Delivery!Move(S, "taken", "settled")
      BY <1>5, <1>6, <1>10, <2>1 DEF Delivery!Move, StatusMap
    <2>3. Delivery!Next
      BY <1>6, <2>2 DEF Delivery!Next, Delivery!Settle
    <2> QED BY <1>1, <2>3 DEF Moves
  <1>11. way[1] \in {"absent", "queued", "taken"}
    BY DEF Ways
  <1> QED BY <1>1, <1>7, <1>8, <1>9, <1>10, <1>11

-----------------------------------------------------------------------------
(* The conversation.                                                       *)

(* A step of one run that does not commit a turn keeps the conversation,   *)
(* when the run goes on building on it.                                    *)
LEMMA SessionKept ==
  ASSUME Shapes, SessionHolds, NEW r \in Ops, NEW h, NEW t, NEW res, NEW box, NEW a,
         Becomes(r, h, t, res, box, a), session' = session,
         \/ session.pending = r \/ Committed(r)
         \/ h.rev = 0 /\ res.reason = "none" /\ a.pc = "idle",
         session.pending = r =>
            LET conversation == Append(session.msgs, r)
            IN /\ a.pc \in Looping => a.base = conversation
               /\ h.rev > 0 => h.base = conversation
               /\ res.reason # "none" => res.msgs = conversation,
         a.via = "session" => session.pending = r,
         a.pc = "session" => a.via = "session" /\ res.reason # "none",
         Committed(r) => res.reason # "none"
  PROVE  SessionHolds'
  <1>1. /\ history'[r] = h /\ results'[r] = res /\ adm'[r] = a
        /\ \A s \in Ops \ {r} :
              /\ history'[s] = history[s] /\ results'[s] = results[s] /\ adm'[s] = adm[s]
    BY BecomesIs
  <1>2. \A o \in Ops : Committed(o)' <=> Committed(o)
    BY DEF Committed
  <1>3. /\ \A s \in Ops \ {r} : HasResult(s)' <=> HasResult(s)
        /\ HasResult(r)' <=> res.reason # "none"
    BY <1>1 DEF HasResult
  <1>4. ConversationIsTurns'
    BY <1>2, <1>3 DEF SessionHolds, ConversationIsTurns
  <1>5. ASSUME session.pending' # NoOp
        PROVE  ~Committed(session.pending)' /\ Builds(session.pending)'
    <2>1. PICK o \in Ops : o = session.pending
      BY <1>5 DEF Shapes, Sessions
    <2>2. session.pending' = o /\ o = session.pending
      BY <2>1
    <2>3. ~Committed(o) /\ Builds(o)
      BY <1>5, <2>1 DEF SessionHolds
    <2>4. ~Committed(o)'
      BY <1>2, <2>3
    <2>5. CASE o = r
      <3>1. Builds(o)'
        BY <1>1, <1>3, <2>2, <2>5 DEF Builds
      <3> QED BY <2>2, <2>4, <3>1
    <2>6. CASE o # r
      <3>1. Builds(o)'
        BY <1>1, <1>3, <2>3, <2>6 DEF Builds
      <3> QED BY <2>2, <2>4, <3>1
    <2> QED BY <2>5, <2>6
  <1>6. ASSUME NEW o \in Ops PROVE session.pending' = o \/ Committed(o)' \/ Unborn(o)'
    <2>1. CASE o = r
      <3>1. (h.rev = 0 /\ res.reason = "none" /\ a.pc = "idle") => Unborn(r)'
        BY <1>1, <1>3 DEF Unborn, At
      <3> QED BY <1>2, <2>1, <3>1
    <2>2. CASE o # r
      <3>1. Unborn(o)' <=> Unborn(o)
        BY <1>1, <1>3, <2>2 DEF Unborn, At
      <3> QED BY <1>2, <3>1 DEF SessionHolds
    <2> QED BY <2>1, <2>2
  <1>7. ASSUME NEW o \in Ops PROVE adm'[o].via = "session" => session.pending' = o
    BY <1>1 DEF SessionHolds
  <1>8. ASSUME NEW o \in Ops
        PROVE  At(o, "session")' => adm'[o].via = "session" /\ HasResult(o)'
    BY <1>1, <1>3 DEF SessionHolds, At
  <1> QED BY <1>4, <1>5, <1>6, <1>7, <1>8 DEF SessionHolds

(* A step of the loop keeps the conversation.                              *)
LEMMA LoopSession ==
  ASSUME Shapes, SessionHolds, NEW r \in Ops, NEW h, NEW t, NEW box, NEW a,
         Becomes(r, h, t, results[r], box, a), session' = session,
         adm[r].pc \in Looping, a.pc \in Looping, a.base = adm[r].base, a.via = adm[r].via,
         h = history[r] \/ h.base = adm[r].base
  PROVE  SessionHolds'
  <1>1. adm[r].pc # "idle" /\ a.pc # "session"
    BY DEF Looping, Opening, Working, Closing
  <1>2. session.pending = r \/ Committed(r)
    BY <1>1 DEF SessionHolds, Unborn, At
  <1>3. session.pending = r => Builds(r)
    BY TurnsAssumption DEF SessionHolds
  <1>4. Committed(r) => results[r].reason # "none"
    BY DEF SessionHolds, ConversationIsTurns, HasResult
  <1>5. a.via = "session" => session.pending = r
    BY DEF SessionHolds
  <1>6. session.pending = r =>
            LET conversation == Append(session.msgs, r)
            IN /\ a.pc \in Looping => a.base = conversation
               /\ h.rev > 0 => h.base = conversation
               /\ results[r].reason # "none" => results[r].msgs = conversation
    BY <1>3 DEF Builds, HasResult
  <1> QED BY <1>1, <1>2, <1>4, <1>5, <1>6, SessionKept

-----------------------------------------------------------------------------
(* What every step does.                                                   *)

Fine ==
    /\ Inv' /\ EventsRise
    /\ ("take" \notin Failing /\ TakenOnce) => (TakenOnce' /\ Moves)

(* What the invariant says of one run.                                     *)
LEMMA RunIs ==
  ASSUME Inv, NEW r \in Ops
  PROVE  /\ history[r] \in Histories /\ trace[r] \in Traces /\ results[r] \in Results
         /\ inbox[r] \in Boxes /\ adm[r] \in Admissions
         /\ faults \in 0..MaxFaults /\ faults \in Nat /\ session \in Sessions
         /\ Held(history[r], trace[r], results[r], inbox[r], adm[r], faults)
         /\ TakenOnce => InputsOnce(history[r], inbox[r], adm[r])
  BY TurnsAssumption DEF Inv, Shapes, RunsHold, Sessions, TakenOnce

(* The parts of a step of one run together.                                *)
LEMMA StepIsFine ==
  ASSUME Inv, NEW r \in Ops, NEW h \in Histories, NEW t \in Traces, NEW res \in Results,
         NEW box \in Boxes, NEW a \in Admissions,
         Becomes(r, h, t, res, box, a), session' \in Sessions,
         faults' \in 0..MaxFaults, faults' >= faults,
         Held(h, t, res, box, a, faults'), Rises(trace[r], t),
         ("take" \notin Failing /\ InputsOnce(history[r], inbox[r], adm[r])) =>
            (InputsOnce(h, box, a) /\ Advances(history[r], inbox[r], h, box)),
         SessionHolds'
  PROVE  Fine
  <1>1. Shapes' /\ RunsHold' /\ EventsRise
    BY Lifted DEF Inv
  <1>2. ASSUME "take" \notin Failing, TakenOnce PROVE TakenOnce' /\ Moves
    <2>1. InputsOnce(h, box, a) /\ Advances(history[r], inbox[r], h, box)
      BY <1>2, RunIs
    <2> QED BY <1>2, <2>1, LiftedOnce DEF Inv
  <1> QED BY <1>1, <1>2 DEF Fine, Inv

-----------------------------------------------------------------------------
(* The steps that append events and go on.                                 *)

(* The events of an admission continue its numbers.                        *)
LEMMA LoopEvents ==
  ASSUME NEW a \in Admissions
  PROVE  /\ a.seq \in Nat /\ a.n \in Nat /\ a.turn \in Nat /\ <<a.n, a.turn>> \in ClaimIds
         /\ Follows(<<>>, a.seq)
         /\ Follows(<<CommittedEvent(a)>>, a.seq)
         /\ Follows(<<CommittedEvent(a), Plain(a, 2)>>, a.seq)
         /\ Follows(<<CommittedEvent(a), Plain(a, 2), Plain(a, 3)>>, a.seq)
         /\ Follows(<<Plain(a, 1)>>, a.seq)
         /\ \A c \in ClaimIds : \A v \in Nat : \A kind \in Kinds :
               /\ Follows(<<ClaimEvent(kind, a.seq + 1, c, v)>>, a.seq)
               /\ Follows(<<CommittedEvent(a), ClaimEvent(kind, a.seq + 2, c, v)>>, a.seq)
               /\ Follows(<<Plain(a, 1), ClaimEvent(kind, a.seq + 2, c, v)>>, a.seq)
  <1>1. a.seq \in Nat /\ a.n \in Nat /\ a.turn \in Nat /\ a.rev \in Nat
    BY TurnsAssumption DEF Admissions
  <1>2. <<a.n, a.turn>> \in ClaimIds
    BY <1>1 DEF ClaimIds
  <1>3. PICK n1, n2, n3 : n1 = a.seq + 1 /\ n2 = a.seq + 2 /\ n3 = a.seq + 3
    OBVIOUS
  <1>4. n1 \in Nat /\ n2 \in Nat /\ n3 \in Nat
    BY <1>1, <1>3
  <1>5. /\ CommittedEvent(a) \in Events /\ CommittedEvent(a).seq = a.seq + 1
        /\ Plain(a, 1) \in Events /\ Plain(a, 1).seq = a.seq + 1
        /\ Plain(a, 2) \in Events /\ Plain(a, 2).seq = a.seq + 2
        /\ Plain(a, 3) \in Events /\ Plain(a, 3).seq = a.seq + 3
    BY <1>1, <1>2, <1>3, <1>4, EventTypes DEF CommittedEvent, Plain
  <1>6. /\ Follows(<<>>, a.seq)
        /\ Follows(<<CommittedEvent(a)>>, a.seq)
        /\ Follows(<<CommittedEvent(a), Plain(a, 2)>>, a.seq)
        /\ Follows(<<CommittedEvent(a), Plain(a, 2), Plain(a, 3)>>, a.seq)
        /\ Follows(<<Plain(a, 1)>>, a.seq)
    BY <1>1, <1>5, ShortLists
  <1>7. ASSUME NEW c \in ClaimIds, NEW v \in Nat, NEW kind \in Kinds
        PROVE  /\ Follows(<<ClaimEvent(kind, a.seq + 1, c, v)>>, a.seq)
               /\ Follows(<<CommittedEvent(a), ClaimEvent(kind, a.seq + 2, c, v)>>, a.seq)
               /\ Follows(<<Plain(a, 1), ClaimEvent(kind, a.seq + 2, c, v)>>, a.seq)
    <2>1. /\ ClaimEvent(kind, n1, c, v) \in Events /\ ClaimEvent(kind, n1, c, v).seq = n1
          /\ ClaimEvent(kind, n2, c, v) \in Events /\ ClaimEvent(kind, n2, c, v).seq = n2
      BY <1>4, EventTypes
    <2>2. PICK x \in Events : x = ClaimEvent(kind, a.seq + 1, c, v) /\ x.seq = a.seq + 1
      BY <1>3, <2>1
    <2>3. PICK y \in Events : y = ClaimEvent(kind, a.seq + 2, c, v) /\ y.seq = a.seq + 2
      BY <1>3, <2>1
    <2>4. Follows(<<x>>, a.seq)
      BY <1>1, <1>5, <2>2, ShortLists
    <2>5. Follows(<<CommittedEvent(a), y>>, a.seq)
      BY <1>1, <1>5, <2>3, ShortLists
    <2>6. Follows(<<Plain(a, 1), y>>, a.seq)
      BY <1>1, <1>5, <2>3, ShortLists
    <2> QED BY <2>2, <2>3, <2>4, <2>5, <2>6
  <1> QED BY <1>1, <1>2, <1>6, <1>7

(* Where a step goes on to, by its place alone, with a reply, or to the    *)
(* end of the admission.                                                   *)
LEMMA PlacesGoOn ==
  ASSUME NEW a \in Admissions, a.pc \in Emitting,
         NEW p \in {"turn", "ack", "compact", "shrink", "think", "reflect", "generate",
                    "answer", "execute", "observe"},
         p = "ack" => a.pc = "taken", p # "turn" => a.pc \in Working
  PROVE  /\ [a EXCEPT !.pc = p] \in Admissions /\ GoesOn(a, [a EXCEPT !.pc = p])
         /\ [a EXCEPT !.pc = p].seq = a.seq
         /\ \A reply \in {"calls", "final"} :
               /\ [a EXCEPT !.pc = p, !.reply = reply] \in Admissions
               /\ GoesOn(a, [a EXCEPT !.pc = p, !.reply = reply])
               /\ [a EXCEPT !.pc = p, !.reply = reply].seq = a.seq
  <1>1. /\ p \in Looping \cup {"idle", "session"} /\ p \in (Emitting \cup {"terminal"}) \ {"taken"}
        /\ p \notin Closing /\ (p \in Working => p # "turn")
    BY DEF Looping, Emitting, Opening, Working, Closing
  <1>2. PICK b : b = [a EXCEPT !.pc = p]
    OBVIOUS
  <1>3. /\ b \in Admissions /\ b.pc = p /\ b.seq = a.seq
        /\ b.n = a.n /\ b.turn = a.turn /\ b.done = a.done /\ b.rev = a.rev
        /\ b.inputs = a.inputs /\ b.claims = a.claims /\ b.claim = a.claim
        /\ b.base = a.base /\ b.via = a.via
    BY <1>1, <1>2 DEF Admissions
  <1>4. GoesOn(a, b)
    BY <1>1, <1>3 DEF GoesOn
  <1>5. ASSUME NEW reply \in {"calls", "final"}
        PROVE  /\ [a EXCEPT !.pc = p, !.reply = reply] \in Admissions
               /\ GoesOn(a, [a EXCEPT !.pc = p, !.reply = reply])
               /\ [a EXCEPT !.pc = p, !.reply = reply].seq = a.seq
    <2>1. PICK c : c = [a EXCEPT !.pc = p, !.reply = reply]
      OBVIOUS
    <2>2. reply \in {"none", "calls", "final"}
      OBVIOUS
    <2>3. /\ c \in Admissions /\ c.pc = p /\ c.seq = a.seq
          /\ c.n = a.n /\ c.turn = a.turn /\ c.done = a.done /\ c.rev = a.rev
          /\ c.inputs = a.inputs /\ c.claims = a.claims /\ c.claim = a.claim
          /\ c.base = a.base /\ c.via = a.via
      BY <1>1, <2>1, <2>2 DEF Admissions
    <2>4. GoesOn(a, c)
      BY <1>1, <2>3 DEF GoesOn
    <2> QED BY <2>1, <2>3, <2>4
  <1> QED BY <1>2, <1>3, <1>4, <1>5

(* The end of an admission.                                                *)
LEMMA FinishGoesOn ==
  ASSUME NEW a \in Admissions, NEW reason \in {"completed", "stopped"}
  PROVE  /\ Finish(a, reason) \in Admissions
         /\ Finish(a, reason).pc = "terminal" /\ Finish(a, reason).reason = reason
         /\ Finish(a, reason).seq = a.seq /\ Finish(a, reason).n = a.n
         /\ Finish(a, reason).turn = a.turn /\ Finish(a, reason).done = a.done
         /\ Finish(a, reason).rev = a.rev /\ Finish(a, reason).inputs = a.inputs
         /\ Finish(a, reason).claims = a.claims /\ Finish(a, reason).base = a.base
         /\ Finish(a, reason).via = a.via
         /\ a.pc \in Emitting => GoesOn(a, Finish(a, reason))
  <1>1. PICK b : b = [a EXCEPT !.pc = "terminal", !.reason = reason]
    OBVIOUS
  <1>2. "terminal" \in Looping \cup {"idle", "session"} /\ reason \in Reasons /\ reason # "none"
        /\ "terminal" \notin Working
    BY DEF Looping, Closing, Reasons, Working
  <1>3. /\ b \in Admissions /\ b.pc = "terminal" /\ b.seq = a.seq /\ b.reason = reason
        /\ b.n = a.n /\ b.turn = a.turn /\ b.done = a.done /\ b.rev = a.rev
        /\ b.inputs = a.inputs /\ b.claims = a.claims /\ b.claim = a.claim
        /\ b.base = a.base /\ b.via = a.via
    BY <1>1, <1>2 DEF Admissions
  <1>4. b = Finish(a, reason)
    BY <1>1 DEF Finish
  <1>5. a.pc \in Emitting => GoesOn(a, b)
    BY <1>2, <1>3 DEF GoesOn
  <1> QED BY <1>3, <1>4, <1>5

(* A step that appends events and goes on.                                 *)
LEMMA EmitIsFine ==
  ASSUME Inv, NEW r \in Ops, NEW e, NEW next \in Admissions, Emit(r, e, next),
         UNCHANGED <<session, history, results, inbox, faults>>,
         Follows(e, adm[r].seq), GoesOn(adm[r], next), next.seq = adm[r].seq
  PROVE  Fine
  <1>1. PICK h \in Histories, t \in Traces, res \in Results, box \in Boxes, a \in Admissions :
           /\ h = history[r] /\ t = trace[r] /\ res = results[r] /\ box = inbox[r] /\ a = adm[r]
    BY RunIs
  <1>2. /\ Held(h, t, res, box, a, faults) /\ faults \in Nat /\ faults \in 0..MaxFaults
        /\ session \in Sessions /\ Shapes /\ SessionHolds
    BY <1>1, RunIs DEF Inv
  <1>3. PICK u : u = [t EXCEPT !.events = t.events \o e]
    OBVIOUS
  <1>4. PICK b : b = [next EXCEPT !.seq = next.seq + Len(e)]
    OBVIOUS
  <1>5. e \in Seq(Events) /\ Len(e) \in Nat
    BY LenProperties DEF Follows
  <1>6. t.events \o e \in Seq(Events)
    BY <1>5, LastType, ConcatProperties
  <1>7. u \in Traces /\ u.events = t.events \o e
    BY <1>3, <1>6 DEF Traces
  <1>8. next.seq + Len(e) \in Nat
    BY <1>5 DEF Admissions
  <1>9. /\ b \in Admissions /\ b.seq = a.seq + Len(e) /\ b.pc = next.pc
        /\ b.n = next.n /\ b.turn = next.turn /\ b.done = next.done /\ b.rev = next.rev
        /\ b.inputs = next.inputs /\ b.claims = next.claims /\ b.claim = next.claim
        /\ b.base = next.base /\ b.via = next.via /\ b.reason = next.reason
    BY <1>1, <1>4, <1>8 DEF Admissions
  <1>10. GoesOn(a, b)
    BY <1>1, <1>9 DEF GoesOn
  <1>11. Held(h, u, res, box, b, faults) /\ Rises(t, u)
    <2>1. Held(h, t, res, box, a, faults) /\ faults \in Nat /\ Follows(e, a.seq)
      BY <1>1, <1>2
    <2>2. u \in Traces /\ u.events = t.events \o e /\ b \in Admissions /\ b.seq = a.seq + Len(e)
      BY <1>7, <1>9
    <2> QED BY <1>10, <2>1, <2>2, EmitHolds
  <1>12. trace' = [trace EXCEPT ![r] = u]
    BY <1>1, <1>3 DEF Emit, Inv, Shapes
  <1>13. adm' = [adm EXCEPT ![r] = b]
    BY <1>4 DEF Emit, Inv, Shapes
  <1>14. /\ history' = [history EXCEPT ![r] = h] /\ results' = [results EXCEPT ![r] = res]
         /\ inbox' = [inbox EXCEPT ![r] = box] /\ session' = session /\ faults' = faults
    BY <1>1, <1>2 DEF Shapes
  <1>15. Becomes(r, h, u, res, box, b)
    BY <1>12, <1>13, <1>14 DEF Becomes
  <1>16. /\ a.pc \in Looping /\ a.pc # "take" /\ b.pc \in Looping /\ b.pc # "take"
    BY <1>10 DEF GoesOn, Emitting, Looping, Closing, Opening
  <1>17. SessionHolds'
    BY <1>1, <1>2, <1>9, <1>10, <1>14, <1>15, <1>16, LoopSession DEF GoesOn
  <1>18. InputsOnce(h, box, a) => (InputsOnce(h, box, b) /\ Advances(h, box, h, box))
    <2>1. Advances(h, box, h, box)
      BY StatusKept
    <2>2. ASSUME InputsOnce(h, box, a) PROVE InputsOnce(h, box, b)
      <3>1. b.inputs = h.inputs
        BY <1>10, <1>16, <2>2 DEF GoesOn, InputsOnce
      <3> QED BY <1>16, <2>2, <3>1, OnceKept
    <2> QED BY <2>1, <2>2
  <1> QED BY <1>1, <1>2, <1>7, <1>9, <1>11, <1>14, <1>15, <1>17, <1>18, StepIsFine

(* The steps of the loop that append events and go on.                     *)
LEMMA EmitSteps ==
  ASSUME Inv, NEW r \in Ops,
         \/ Admitted(r) \/ Taken(r) \/ Compact(r) \/ Shrunk(r) \/ Think(r) \/ Reflected(r)
         \/ Generate(r) \/ Answered(r) \/ Execute(r) \/ Observed(r)
  PROVE  Fine
  <1>1. PICK a \in Admissions : a = adm[r]
    BY RunIs
  <1>2. /\ "turn" \notin Working
        /\ {"admitted", "taken", "compact", "shrunk", "think", "reflected", "generate",
            "answered", "execute", "observed"} \subseteq Emitting
        /\ {"taken", "compact", "shrunk", "think", "reflected", "generate", "answered",
            "execute", "observed"} \subseteq Working
    BY DEF Emitting, Looping, Opening, Working, Closing
  <1>3. ASSUME NEW e, NEW next \in Admissions, Emit(r, e, next),
               UNCHANGED <<session, history, results, inbox, faults>>,
               Follows(e, a.seq), GoesOn(a, next), next.seq = a.seq
        PROVE  Fine
    BY <1>1, <1>3, EmitIsFine
  <1>4. ASSUME NEW e, NEW p \in {"turn", "ack", "compact", "shrink", "think", "reflect",
                                 "generate", "answer", "execute", "observe"},
               Emit(r, e, [a EXCEPT !.pc = p]),
               UNCHANGED <<session, history, results, inbox, faults>>, Follows(e, a.seq),
               a.pc \in Emitting, p = "ack" => a.pc = "taken", p # "turn" => a.pc \in Working
        PROVE  Fine
    BY <1>3, <1>4, PlacesGoOn
  <1>5. ASSUME NEW e, NEW reason \in {"completed", "stopped"}, Emit(r, e, Finish(a, reason)),
               UNCHANGED <<session, history, results, inbox, faults>>, Follows(e, a.seq),
               a.pc \in Emitting
        PROVE  Fine
    BY <1>3, <1>5, FinishGoesOn
  <1>6. CASE Admitted(r)
    <2>1. /\ a.pc = "admitted"
          /\ Emit(r, <<CommittedEvent(a), Plain(a, 2), Plain(a, 3)>>, [a EXCEPT !.pc = "turn"])
          /\ UNCHANGED <<session, history, results, inbox, faults>>
      BY <1>1, <1>6 DEF Admitted, At
    <2> QED BY <1>2, <1>4, <2>1, LoopEvents
  <1>7. CASE Taken(r)
    <2>1. /\ a.pc = "taken" /\ Emit(r, <<CommittedEvent(a)>>, [a EXCEPT !.pc = "ack"])
          /\ UNCHANGED <<session, history, results, inbox, faults>>
      BY <1>1, <1>7 DEF Taken, At
    <2> QED BY <1>2, <1>4, <2>1, LoopEvents
  <1>8. ASSUME NEW e, Emit(r, e, AfterShrinking(a)), Follows(e, a.seq),
               a.pc \in {"compact", "shrunk"},
               UNCHANGED <<session, history, results, inbox, faults>>
        PROVE  Fine
    <2>1. PICK p : p = IF Thinking THEN "think" ELSE "generate"
      OBVIOUS
    <2>2. Emit(r, e, [a EXCEPT !.pc = p])
      BY <1>8, <2>1 DEF AfterShrinking
    <2>3. p \in {"think", "generate"}
      BY <2>1
    <2> QED BY <1>2, <1>4, <1>8, <2>2, <2>3
  <1>9. CASE Compact(r)
    <2>1. /\ a.pc = "compact" /\ UNCHANGED <<session, history, results, inbox, faults>>
          /\ \/ Emit(r, <<Plain(a, 1)>>, [a EXCEPT !.pc = "shrink"])
             \/ Emit(r, <<>>, AfterShrinking(a))
             \/ Emit(r, <<>>, Finish(a, "stopped"))
      BY <1>1, <1>9 DEF Compact, At
    <2>2. CASE Emit(r, <<Plain(a, 1)>>, [a EXCEPT !.pc = "shrink"])
      BY <1>2, <1>4, <2>1, <2>2, LoopEvents
    <2>3. CASE Emit(r, <<>>, AfterShrinking(a))
      BY <1>8, <2>1, <2>3, LoopEvents
    <2>4. CASE Emit(r, <<>>, Finish(a, "stopped"))
      BY <1>2, <1>5, <2>1, <2>4, LoopEvents
    <2> QED BY <2>1, <2>2, <2>3, <2>4
  <1>10. CASE Shrunk(r)
    <2>1. /\ a.pc = "shrunk" /\ UNCHANGED <<session, history, results, inbox, faults>>
          /\ Emit(r, <<CommittedEvent(a)>>, AfterShrinking(a))
      BY <1>1, <1>10 DEF Shrunk, At
    <2> QED BY <1>8, <2>1, LoopEvents
  <1>11. CASE Think(r)
    <2>1. /\ a.pc = "think" /\ UNCHANGED <<session, history, results, inbox, faults>>
          /\ \/ Emit(r, <<Plain(a, 1)>>, [a EXCEPT !.pc = "reflect"])
             \/ Emit(r, <<>>, [a EXCEPT !.pc = "generate"])
             \/ Emit(r, <<>>, Finish(a, "stopped"))
      BY <1>1, <1>11 DEF Think, At
    <2>2. CASE Emit(r, <<Plain(a, 1)>>, [a EXCEPT !.pc = "reflect"])
      BY <1>2, <1>4, <2>1, <2>2, LoopEvents
    <2>3. CASE Emit(r, <<>>, [a EXCEPT !.pc = "generate"])
      BY <1>2, <1>4, <2>1, <2>3, LoopEvents
    <2>4. CASE Emit(r, <<>>, Finish(a, "stopped"))
      BY <1>2, <1>5, <2>1, <2>4, LoopEvents
    <2> QED BY <2>1, <2>2, <2>3, <2>4
  <1>12. CASE Reflected(r)
    <2>1. /\ a.pc = "reflected" /\ UNCHANGED <<session, history, results, inbox, faults>>
          /\ Emit(r, <<CommittedEvent(a)>>, [a EXCEPT !.pc = "generate"])
      BY <1>1, <1>12 DEF Reflected, At
    <2> QED BY <1>2, <1>4, <2>1, LoopEvents
  <1>13. CASE Generate(r)
    <2>1. /\ a.pc = "generate" /\ UNCHANGED <<session, history, results, inbox, faults>>
          /\ \/ \E reply \in {"calls", "final"} :
                   Emit(r, <<Plain(a, 1)>>, [a EXCEPT !.pc = "answer", !.reply = reply])
             \/ Emit(r, <<>>, Finish(a, "stopped"))
      BY <1>1, <1>13 DEF Generate, At
    <2>2. ASSUME NEW reply \in {"calls", "final"},
                 Emit(r, <<Plain(a, 1)>>, [a EXCEPT !.pc = "answer", !.reply = reply])
          PROVE  Fine
      <3>1. PICK next : next = [a EXCEPT !.pc = "answer", !.reply = reply]
        OBVIOUS
      <3>2. next \in Admissions /\ GoesOn(a, next) /\ next.seq = a.seq
        BY <1>2, <2>1, <3>1, PlacesGoOn
      <3>3. Emit(r, <<Plain(a, 1)>>, next)
        BY <2>2, <3>1
      <3> QED BY <1>3, <2>1, <3>2, <3>3, LoopEvents
    <2>3. CASE Emit(r, <<>>, Finish(a, "stopped"))
      BY <1>2, <1>5, <2>1, <2>3, LoopEvents
    <2> QED BY <2>1, <2>2, <2>3
  <1>14. CASE Answered(r)
    <2>1. PICK call : call = ClaimEvent("call", a.seq + 2, <<a.n, a.turn>>, 0)
      OBVIOUS
    <2>2. /\ a.pc = "answered" /\ UNCHANGED <<session, history, results, inbox, faults>>
          /\ \/ Emit(r, <<CommittedEvent(a)>>, Finish(a, "stopped"))
             \/ Emit(r, <<CommittedEvent(a)>>, Finish(a, "completed"))
             \/ Emit(r, <<CommittedEvent(a), call>>, [a EXCEPT !.pc = "execute"])
      BY <1>1, <1>14, <2>1 DEF Answered, At
    <2>3. CASE Emit(r, <<CommittedEvent(a)>>, Finish(a, "stopped"))
      BY <1>2, <1>5, <2>2, <2>3, LoopEvents
    <2>4. CASE Emit(r, <<CommittedEvent(a)>>, Finish(a, "completed"))
      BY <1>2, <1>5, <2>2, <2>4, LoopEvents
    <2>5. CASE Emit(r, <<CommittedEvent(a), call>>, [a EXCEPT !.pc = "execute"])
      <3>1. "call" \in Kinds /\ 0 \in Nat
        BY DEF Kinds
      <3>2. Follows(<<CommittedEvent(a), call>>, a.seq)
        BY <2>1, <3>1, LoopEvents
      <3> QED BY <1>2, <1>4, <2>2, <2>5, <3>2
    <2> QED BY <2>2, <2>3, <2>4, <2>5
  <1>15. CASE Execute(r)
    <2>1. PICK seen : seen = ClaimEvent("observation", a.seq + 1, <<a.n, a.turn>>, 0)
      OBVIOUS
    <2>2. /\ a.pc = "execute" /\ UNCHANGED <<session, history, results, inbox, faults>>
          /\ \/ Emit(r, <<seen>>, [a EXCEPT !.pc = "observe"])
             \/ Emit(r, <<seen>>, Finish(a, "stopped"))
      BY <1>1, <1>15, <2>1 DEF Execute, At
    <2>3. "observation" \in Kinds /\ 0 \in Nat
      BY DEF Kinds
    <2>4. Follows(<<seen>>, a.seq)
      BY <2>1, <2>3, LoopEvents
    <2>5. CASE Emit(r, <<seen>>, [a EXCEPT !.pc = "observe"])
      BY <1>2, <1>4, <2>2, <2>4, <2>5
    <2>6. CASE Emit(r, <<seen>>, Finish(a, "stopped"))
      BY <1>2, <1>5, <2>2, <2>4, <2>6
    <2> QED BY <2>2, <2>5, <2>6
  <1>16. CASE Observed(r)
    <2>1. /\ a.pc = "observed" /\ UNCHANGED <<session, history, results, inbox, faults>>
          /\ Emit(r, <<CommittedEvent(a), Plain(a, 2)>>, [a EXCEPT !.pc = "turn"])
      BY <1>1, <1>16 DEF Observed, At
    <2> QED BY <1>2, <1>4, <2>1, LoopEvents
  <1> QED BY <1>6, <1>7, <1>9, <1>10, <1>11, <1>12, <1>13, <1>14, <1>15, <1>16

(* The last events and the result record.                                  *)
LEMMA EndedFine ==
  ASSUME Inv, NEW r \in Ops, Ended(r)
  PROVE  Fine
  <1>1. PICK h \in Histories, t \in Traces, res \in Results, box \in Boxes, a \in Admissions :
           /\ h = history[r] /\ t = trace[r] /\ res = results[r] /\ box = inbox[r] /\ a = adm[r]
    BY RunIs
  <1>2. /\ Held(h, t, res, box, a, faults) /\ faults \in Nat /\ faults \in 0..MaxFaults
        /\ session \in Sessions /\ Shapes /\ SessionHolds
    BY <1>1, RunIs DEF Inv
  <1>3. PICK e : e = <<CommittedEvent(a), Plain(a, 2)>>
    OBVIOUS
  <1>4. a.pc = "ended" /\ Follows(e, a.seq) /\ Len(e) = 2 /\ e \in Seq(Events)
    <2>1. Follows(e, a.seq) /\ Len(e) = 2
      BY <1>3, LoopEvents
    <2> QED BY <1>1, <2>1 DEF Ended, At, Follows
  <1>5. PICK u : u = [events |-> t.events \o e, result |-> ResultRecord(a.reason, a.rev)]
    OBVIOUS
  <1>6. t.events \o e \in Seq(Events)
    BY <1>4, LastType, ConcatProperties
  <1>7. ResultRecord(a.reason, a.rev) \in [reason : Reasons, rev : Nat]
    BY DEF ResultRecord, Admissions
  <1>8. u \in Traces /\ u.events = t.events \o e
    BY <1>5, <1>6, <1>7 DEF Traces
  <1>9. PICK b : b = [a EXCEPT !.pc = "result", !.seq = a.seq + 2]
    OBVIOUS
  <1>10. /\ "result" \in Looping \cup {"idle", "session"} /\ a.pc \in Emitting
         /\ "result" \in (Emitting \cup {"terminal"}) \ {"taken"} /\ "result" \notin Working
         /\ a.pc \in Looping /\ a.pc \in Closing /\ a.seq + 2 \in Nat
    BY <1>4 DEF Looping, Closing, Emitting, Opening, Working, Admissions
  <1>11. /\ b \in Admissions /\ b.seq = a.seq + 2 /\ b.pc = "result"
         /\ b.n = a.n /\ b.turn = a.turn /\ b.done = a.done /\ b.rev = a.rev
         /\ b.inputs = a.inputs /\ b.claims = a.claims /\ b.claim = a.claim
         /\ b.base = a.base /\ b.via = a.via /\ b.reason = a.reason
    BY <1>9, <1>10 DEF Admissions
  <1>12. a.reason # "none"
    BY <1>2, <1>10 DEF Held, Counted
  <1>13. GoesOn(a, b)
    BY <1>10, <1>11, <1>12 DEF GoesOn
  <1>14. Held(h, u, res, box, b, faults) /\ Rises(t, u)
    <2>1. Held(h, t, res, box, a, faults) /\ faults \in Nat /\ Follows(e, a.seq)
      BY <1>2, <1>4
    <2>2. u \in Traces /\ u.events = t.events \o e /\ b \in Admissions /\ b.seq = a.seq + Len(e)
      BY <1>4, <1>8, <1>11
    <2> QED BY <1>13, <2>1, <2>2, EmitHolds
  <1>15. trace' = [trace EXCEPT ![r] = u]
    BY <1>1, <1>3, <1>5 DEF Ended
  <1>16. adm' = [adm EXCEPT ![r] = b]
    BY <1>1, <1>9 DEF Ended, Inv, Shapes
  <1>17. /\ history' = [history EXCEPT ![r] = h] /\ results' = [results EXCEPT ![r] = res]
         /\ inbox' = [inbox EXCEPT ![r] = box] /\ session' = session /\ faults' = faults
    BY <1>1, <1>2 DEF Shapes, Ended
  <1>18. Becomes(r, h, u, res, box, b)
    BY <1>15, <1>16, <1>17 DEF Becomes
  <1>19. SessionHolds'
    <2>1. /\ adm[r].pc \in Looping /\ b.pc \in Looping /\ b.base = adm[r].base
          /\ b.via = adm[r].via
      BY <1>1, <1>10, <1>11 DEF Looping, Closing
    <2>2. Becomes(r, h, u, results[r], box, b) /\ h = history[r] /\ session' = session
      BY <1>1, <1>17, <1>18
    <2> QED BY <1>2, <2>1, <2>2, LoopSession
  <1>20. InputsOnce(h, box, a) => (InputsOnce(h, box, b) /\ Advances(h, box, h, box))
    <2>1. Advances(h, box, h, box)
      BY StatusKept
    <2>2. ASSUME InputsOnce(h, box, a) PROVE InputsOnce(h, box, b)
      <3>1. b.inputs = h.inputs
        BY <1>4, <1>10, <1>11, <2>2 DEF InputsOnce
      <3> QED BY <1>11, <2>2, <3>1, OnceKept
    <2> QED BY <2>1, <2>2
  <1> QED BY <1>1, <1>2, <1>8, <1>11, <1>14, <1>17, <1>18, <1>19, <1>20, StepIsFine

(* The inputs of a claim put into a bag make a bag.                        *)
LEMMA ClaimedBags ==
  ASSUME NEW box \in Boxes, NEW claim, NEW inputs \in InputBags
  PROVE  inputs (+) ClaimedInputs(box, claim) \in InputBags
  <1>1. PICK S : S = {box[k].input : k \in {j \in DOMAIN box : box[j].claim = claim}}
    OBVIOUS
  <1>2. \A k \in DOMAIN box : box[k].input \in AllInputs
    BY ItemTypes DEF Items
  <1>3. S \subseteq AllInputs
    BY <1>1, <1>2
  <1>4. PICK T \in SUBSET AllInputs : inputs \in [T -> Nat \ {0}]
    BY DEF InputBags
  <1>5. DOMAIN inputs = T /\ \A i \in T : inputs[i] \in Nat \ {0}
    BY <1>4
  <1>6. inputs (+) SetToBag(S)
        = [i \in T \cup S |-> (IF i \in T THEN inputs[i] ELSE 0) + (IF i \in S THEN 1 ELSE 0)]
    BY <1>5 DEF (+), SetToBag
  <1>7. inputs (+) SetToBag(S) \in [T \cup S -> Nat \ {0}]
    BY <1>5, <1>6
  <1>8. T \cup S \in SUBSET AllInputs
    BY <1>3, <1>4
  <1> QED BY <1>1, <1>7, <1>8 DEF InputBags, ClaimedInputs

-----------------------------------------------------------------------------
(* The steps that claim, commit and settle.                                *)

(* A step of the loop that leaves the session and the result.              *)
LEMMA LoopStepIsFine ==
  ASSUME Inv, NEW r \in Ops, NEW h \in Histories, NEW t \in Traces, NEW box \in Boxes,
         NEW a \in Admissions, Becomes(r, h, t, results[r], box, a),
         session' = session, faults' \in 0..MaxFaults, faults' >= faults,
         Held(h, t, results[r], box, a, faults'), Rises(trace[r], t),
         ("take" \notin Failing /\ InputsOnce(history[r], inbox[r], adm[r])) =>
            (InputsOnce(h, box, a) /\ Advances(history[r], inbox[r], h, box)),
         adm[r].pc \in Looping, a.pc \in Looping, a.base = adm[r].base, a.via = adm[r].via,
         h = history[r] \/ h.base = adm[r].base
  PROVE  Fine
  <1>1. SessionHolds'
    BY LoopSession DEF Inv
  <1>2. results[r] \in Results /\ session' \in Sessions
    BY RunIs
  <1> QED BY <1>1, <1>2, StepIsFine

(* An empty queue or not: a turn begins.                                   *)
LEMMA StartTurnFine ==
  ASSUME Inv, NEW r \in Ops, StartTurn(r)
  PROVE  Fine
  <1>1. PICK h \in Histories, t \in Traces, res \in Results, box \in Boxes, a \in Admissions :
           /\ h = history[r] /\ t = trace[r] /\ res = results[r] /\ box = inbox[r] /\ a = adm[r]
    BY RunIs
  <1>2. /\ Held(h, t, res, box, a, faults) /\ faults \in Nat /\ faults \in 0..MaxFaults
        /\ session \in Sessions /\ Shapes /\ SessionHolds
    BY <1>1, RunIs DEF Inv
  <1>3. /\ a.pc = "turn" /\ a.turn < MaxTurns /\ a.turn + 1 \in 0..MaxTurns /\ a.turn + 1 \in Nat
        /\ a.n \in Nat /\ a.rev \in Nat /\ a.seq \in Nat
    <2>1. a.pc = "turn" /\ a.turn < MaxTurns
      BY <1>1 DEF StartTurn, At
    <2>2. a.turn \in 0..MaxTurns /\ a.n \in Nat /\ a.rev \in Nat /\ a.seq \in Nat
      BY DEF Admissions
    <2> QED BY <2>1, <2>2, TurnsAssumption
  <1>4. PICK turn : turn = a.turn + 1
    OBVIOUS
  <1>5. PICK s : s = [a EXCEPT !.turn = turn, !.done = turn]
    OBVIOUS
  <1>6. /\ s \in Admissions /\ s.turn = turn /\ s.done = turn /\ s.pc = a.pc /\ s.n = a.n
        /\ s.rev = a.rev /\ s.seq = a.seq /\ s.inputs = a.inputs /\ s.claims = a.claims
        /\ s.claim = a.claim /\ s.base = a.base /\ s.via = a.via /\ s.reason = a.reason
    BY <1>3, <1>4, <1>5 DEF Admissions
  <1>7. PICK claim : claim = <<a.n, turn>>
    OBVIOUS
  <1>8. claim \in ClaimIds
    BY <1>3, <1>4, <1>7 DEF ClaimIds
  <1>9. s = [adm[r] EXCEPT !.turn = @ + 1, !.done = adm[r].turn + 1]
    BY <1>1, <1>4, <1>5 DEF Admissions
  <1>10. PICK new : new = Claimed(box, claim, ClaimLimit)
    OBVIOUS
  <1>11. UNCHANGED <<session, history, results, faults>>
    BY DEF StartTurn
  <1>12. \/ /\ Emit(r, <<Plain(s, 1)>>, [s EXCEPT !.pc = "compact"]) /\ UNCHANGED inbox
         \/ /\ inbox' = [inbox EXCEPT ![r] = new]
            /\ Emit(r, <<Plain(s, 1), ClaimEvent("claimed", s.seq + 2, claim, 0)>>,
                    [s EXCEPT !.pc = "take", !.claim = claim,
                        !.inputs = s.inputs (+) ClaimedInputs(new, claim),
                        !.claims = s.claims \cup {[id |-> claim, rev |-> s.rev + 1]}])
    BY <1>1, <1>5, <1>6, <1>7, <1>9, <1>10 DEF StartTurn
  <1>13. /\ history' = [history EXCEPT ![r] = h] /\ results' = [results EXCEPT ![r] = res]
         /\ session' = session /\ faults' = faults
    BY <1>1, <1>2, <1>11 DEF Shapes
  <1>14. "compact" \in Looping /\ "take" \in Looping /\ "turn" \in Looping
    BY DEF Looping, Working
  <1>15. CASE Emit(r, <<Plain(s, 1)>>, [s EXCEPT !.pc = "compact"]) /\ UNCHANGED inbox
    <2>1. PICK e : e = <<Plain(s, 1)>>
      OBVIOUS
    <2>2. Follows(e, a.seq) /\ Len(e) = 1 /\ e \in Seq(Events)
      <3>1. Follows(e, s.seq) /\ Len(e) = 1
        BY <1>6, <2>1, LoopEvents
      <3> QED BY <1>6, <3>1 DEF Follows
    <2>3. PICK u : u = [t EXCEPT !.events = t.events \o e]
      OBVIOUS
    <2>4. t.events \o e \in Seq(Events)
      BY <2>2, LastType, ConcatProperties
    <2>5. u \in Traces /\ u.events = t.events \o e
      BY <2>3, <2>4 DEF Traces
    <2>6. PICK next : next = [s EXCEPT !.pc = "compact"]
      OBVIOUS
    <2>7. /\ next \in Admissions /\ next.pc = "compact" /\ next.seq = a.seq
          /\ next.turn = turn /\ next.done = turn /\ next.n = a.n /\ next.rev = a.rev
          /\ next.inputs = a.inputs /\ next.claims = a.claims
          /\ next.base = a.base /\ next.via = a.via
      BY <1>6, <1>14, <2>6 DEF Admissions
    <2>8. PICK b : b = [next EXCEPT !.seq = next.seq + Len(e)]
      OBVIOUS
    <2>9. next.seq + Len(e) \in Nat
      BY <1>3, <2>2, <2>7
    <2>10. /\ b \in Admissions /\ b.pc = "compact" /\ b.seq = a.seq + Len(e)
           /\ b.turn = turn /\ b.done = turn /\ b.n = a.n /\ b.rev = a.rev
           /\ b.inputs = a.inputs /\ b.claims = a.claims
           /\ b.base = a.base /\ b.via = a.via
      BY <2>7, <2>8, <2>9 DEF Admissions
    <2>11. Held(h, u, res, box, b, faults) /\ Rises(t, u)
      <3>1. b.turn = a.turn + 1 /\ b.done = a.turn + 1
        BY <1>4, <2>10
      <3>2. a.pc = "turn" /\ Follows(e, a.seq)
        BY <1>3, <2>2
      <3> QED BY <1>2, <2>5, <2>10, <3>1, <3>2, StartHolds
    <2>12. Emit(r, e, next)
      BY <1>15, <2>1, <2>6
    <2>13. trace' = [trace EXCEPT ![r] = u]
      BY <1>1, <1>2, <2>3, <2>12 DEF Emit, Shapes
    <2>14. adm' = [adm EXCEPT ![r] = b]
      BY <1>2, <2>8, <2>12 DEF Emit, Shapes
    <2>15. Becomes(r, h, u, res, box, b)
      BY <1>1, <1>2, <1>13, <1>15, <2>13, <2>14 DEF Becomes, Shapes
    <2>16. InputsOnce(h, box, a) => (InputsOnce(h, box, b) /\ Advances(h, box, h, box))
      <3>1. Advances(h, box, h, box)
        BY StatusKept
      <3>2. ASSUME InputsOnce(h, box, a) PROVE InputsOnce(h, box, b)
        <4>1. b.inputs = h.inputs
          BY <1>3, <1>14, <2>10, <3>2 DEF InputsOnce
        <4> QED BY <2>10, <3>2, <4>1, OnceKept
      <3> QED BY <3>1, <3>2
    <2> QED BY <1>1, <1>2, <1>3, <1>13, <1>14, <2>5, <2>10, <2>11, <2>15, <2>16, LoopStepIsFine
  <1>16. CASE /\ inbox' = [inbox EXCEPT ![r] = new]
              /\ Emit(r, <<Plain(s, 1), ClaimEvent("claimed", s.seq + 2, claim, 0)>>,
                      [s EXCEPT !.pc = "take", !.claim = claim,
                          !.inputs = s.inputs (+) ClaimedInputs(new, claim),
                          !.claims = s.claims \cup {[id |-> claim, rev |-> s.rev + 1]}])
    <2>1. PICK e : e = <<Plain(s, 1), ClaimEvent("claimed", s.seq + 2, claim, 0)>>
      OBVIOUS
    <2>2. Follows(e, a.seq) /\ Len(e) = 2 /\ e \in Seq(Events)
      <3>1. "claimed" \in Kinds /\ 0 \in Nat
        BY DEF Kinds
      <3>2. Follows(e, s.seq)
        BY <1>6, <1>8, <2>1, <3>1, LoopEvents
      <3>3. Len(e) = 2
        BY <2>1
      <3> QED BY <1>6, <3>2, <3>3 DEF Follows
    <2>3. PICK u : u = [t EXCEPT !.events = t.events \o e]
      OBVIOUS
    <2>4. t.events \o e \in Seq(Events)
      BY <2>2, LastType, ConcatProperties
    <2>5. u \in Traces /\ u.events = t.events \o e
      BY <2>3, <2>4 DEF Traces
    <2>6. PICK inputs, claims :
             /\ inputs = a.inputs (+) ClaimedInputs(new, claim)
             /\ claims = a.claims \cup {[id |-> claim, rev |-> a.rev + 1]}
      OBVIOUS
    <2>7. claims \in ClaimSets
      <3>1. a.claims \in ClaimSets /\ a.rev + 1 \in Nat
        BY <1>3 DEF Admissions
      <3> QED BY <1>8, <2>6, <3>1 DEF ClaimSets
    <2>8. new \in Boxes
      BY <1>8, <1>10, ClaimedBox
    <2>9. inputs \in InputBags
      BY <1>8, <2>6, <2>8, ClaimedBags DEF Admissions
    <2>10. PICK next : next = [s EXCEPT !.pc = "take", !.claim = claim, !.inputs = inputs,
                                        !.claims = claims]
      OBVIOUS
    <2>11. /\ next \in Admissions /\ next.pc = "take" /\ next.seq = a.seq
           /\ next.turn = turn /\ next.done = turn /\ next.n = a.n /\ next.rev = a.rev
           /\ next.inputs = inputs /\ next.claims = claims /\ next.claim = claim
           /\ next.base = a.base /\ next.via = a.via
      BY <1>6, <1>8, <1>14, <2>7, <2>9, <2>10 DEF Admissions
    <2>12. PICK b : b = [next EXCEPT !.seq = next.seq + Len(e)]
      OBVIOUS
    <2>13. next.seq + Len(e) \in Nat
      BY <1>3, <2>2, <2>11
    <2>14. /\ b \in Admissions /\ b.pc = "take" /\ b.seq = a.seq + Len(e)
           /\ b.turn = turn /\ b.done = turn /\ b.n = a.n /\ b.rev = a.rev
           /\ b.inputs = inputs /\ b.claims = claims /\ b.claim = claim
           /\ b.base = a.base /\ b.via = a.via
      BY <2>11, <2>12, <2>13 DEF Admissions
    <2>15. new = Claimed(box, b.claim, ClaimLimit) /\ b.claim = <<a.n, a.turn + 1>>
           /\ b.claims = a.claims \cup {[id |-> b.claim, rev |-> a.rev + 1]}
      BY <1>4, <1>7, <1>10, <2>6, <2>14
    <2>16. Held(h, u, res, new, b, faults) /\ Rises(t, u)
      <3>1. b.turn = a.turn + 1 /\ b.done = a.turn + 1
        BY <1>4, <2>14
      <3>2. a.pc = "turn" /\ a.turn < MaxTurns /\ Follows(e, a.seq)
        BY <1>3, <2>2
      <3>3. b.pc = "take" /\ b.rev = a.rev /\ b.n = a.n /\ b.seq = a.seq + Len(e)
        BY <2>14
      <3>4. b \in Admissions
        BY <2>14
      <3>5. Held(h, u, res, Claimed(box, b.claim, ClaimLimit), b, faults) /\ Rises(t, u)
        <4>1. /\ h \in Histories /\ t \in Traces /\ res \in Results /\ box \in Boxes
              /\ a \in Admissions /\ faults \in 0..MaxFaults /\ Held(h, t, res, box, a, faults)
              /\ a.pc = "turn" /\ a.turn < MaxTurns
              /\ Follows(e, a.seq) /\ u \in Traces /\ u.events = t.events \o e
          BY <1>2, <2>5, <3>2
        <4>2. DrawsClaim(a, b) /\ b \in Admissions /\ b.seq = a.seq + Len(e)
          BY <2>15, <3>1, <3>2, <3>3, <3>4 DEF DrawsClaim
        <4> QED BY <4>1, <4>2, StartClaimsHolds
      <3> QED BY <2>15, <3>5
    <2>17. Emit(r, e, next)
      <3>1. inputs = s.inputs (+) ClaimedInputs(new, claim)
        BY <1>6, <2>6
      <3>2. claims = s.claims \cup {[id |-> claim, rev |-> s.rev + 1]}
        BY <1>6, <2>6
      <3> QED BY <1>16, <2>1, <2>10, <3>1, <3>2
    <2>18. trace' = [trace EXCEPT ![r] = u]
      BY <1>1, <1>2, <2>3, <2>17 DEF Emit, Shapes
    <2>19. adm' = [adm EXCEPT ![r] = b]
      BY <1>2, <2>12, <2>17 DEF Emit, Shapes
    <2>20. Becomes(r, h, u, res, new, b)
      BY <1>1, <1>2, <1>13, <1>16, <2>18, <2>19 DEF Becomes, Shapes
    <2>21. InputsOnce(h, box, a) => (InputsOnce(h, new, b) /\ Advances(h, box, h, new))
      BY <1>2, <1>3, <2>6, <2>14, <2>15, <2>16, StartOnce
    <2> QED BY <1>1, <1>2, <1>3, <1>13, <1>14, <2>5, <2>8, <2>14, <2>16, <2>20, <2>21,
            LoopStepIsFine
  <1> QED BY <1>12, <1>15, <1>16

(* The end of an admission at a turn: the limit, or a deadline found as a  *)
(* turn begins.                                                            *)
LEMMA EndTurnsFine ==
  ASSUME Inv, NEW r \in Ops, EndTurns(r)
  PROVE  Fine
  <1>1. PICK h \in Histories, t \in Traces, res \in Results, box \in Boxes, a \in Admissions :
           /\ h = history[r] /\ t = trace[r] /\ res = results[r] /\ box = inbox[r] /\ a = adm[r]
    BY RunIs
  <1>2. /\ Held(h, t, res, box, a, faults) /\ faults \in Nat /\ faults \in 0..MaxFaults
        /\ session \in Sessions /\ Shapes /\ SessionHolds
    BY <1>1, RunIs DEF Inv
  <1>3. a.pc = "turn" /\ UNCHANGED <<session, history, trace, results, inbox, faults>>
    BY <1>1 DEF EndTurns, At, files
  <1>4. a.pc \in Looping \ {"take", "reconcile"} /\ "terminal" \in Looping
    BY <1>3 DEF Looping, Closing
  <1>5. ASSUME NEW s \in Admissions, adm' = [adm EXCEPT ![r] = Finish(s, "stopped")],
               s.turn >= a.turn, s.done \in {0, s.turn}, s.n = a.n, s.rev = a.rev,
               s.seq = a.seq, s.claims = a.claims, s.inputs = a.inputs, s.base = a.base,
               s.via = a.via
        PROVE  Fine
    <2>1. PICK b : b = Finish(s, "stopped")
      OBVIOUS
    <2>2. /\ b \in Admissions /\ b.pc = "terminal" /\ b.reason = "stopped"
          /\ b.seq = a.seq /\ b.n = a.n /\ b.turn = s.turn /\ b.done = s.done
          /\ b.rev = a.rev /\ b.inputs = a.inputs /\ b.claims = a.claims
          /\ b.base = a.base /\ b.via = a.via
      BY <1>5, <2>1, FinishGoesOn
    <2>3. b.turn >= a.turn /\ b.done \in {0, b.turn} /\ b.reason # "none"
      BY <1>5, <2>2
    <2>4. Held(h, t, res, box, b, faults)
      BY <1>2, <1>4, <2>2, <2>3, CloseHolds
    <2>5. adm' = [adm EXCEPT ![r] = b]
      BY <1>5, <2>1
    <2>6. Becomes(r, h, t, res, box, b)
      BY <1>1, <1>2, <1>3, <2>5 DEF Becomes, Shapes
    <2>7. InputsOnce(h, box, a) => (InputsOnce(h, box, b) /\ Advances(h, box, h, box))
      <3>1. Advances(h, box, h, box)
        BY StatusKept
      <3>2. ASSUME InputsOnce(h, box, a) PROVE InputsOnce(h, box, b)
        <4>1. b.inputs = h.inputs
          BY <1>4, <2>2, <3>2 DEF InputsOnce
        <4> QED BY <2>2, <3>2, <4>1, OnceKept
      <3> QED BY <3>1, <3>2
    <2>8. Rises(t, t)
      BY SameRises
    <2> QED BY <1>1, <1>2, <1>3, <1>4, <2>2, <2>4, <2>6, <2>7, <2>8, LoopStepIsFine
  <1>6. CASE adm' = [adm EXCEPT ![r] = Finish(a, "stopped")]
    <2>1. a.turn >= a.turn /\ a.done \in {0, a.turn}
      BY <1>2, TurnsAssumption DEF Held, Counted, Admissions
    <2> QED BY <1>5, <1>6, <2>1
  <1>7. CASE a.turn < MaxTurns /\ adm' = [adm EXCEPT ![r] =
                    Finish([a EXCEPT !.turn = a.turn + 1, !.done = a.turn + 1], "stopped")]
    <2>1. PICK s : s = [a EXCEPT !.turn = a.turn + 1, !.done = a.turn + 1]
      OBVIOUS
    <2>2. a.turn + 1 \in 0..MaxTurns /\ a.turn + 1 >= a.turn
      BY <1>7, TurnsAssumption DEF Admissions
    <2>3. /\ s \in Admissions /\ s.turn = a.turn + 1 /\ s.done = s.turn /\ s.n = a.n
          /\ s.rev = a.rev /\ s.seq = a.seq /\ s.claims = a.claims /\ s.inputs = a.inputs
          /\ s.base = a.base /\ s.via = a.via
      BY <2>1, <2>2 DEF Admissions
    <2>4. adm' = [adm EXCEPT ![r] = Finish(s, "stopped")]
      BY <1>7, <2>1
    <2> QED BY <1>5, <2>2, <2>3, <2>4
  <1>8. \/ adm' = [adm EXCEPT ![r] = Finish(a, "stopped")]
        \/ a.turn < MaxTurns /\ adm' = [adm EXCEPT ![r] =
                    Finish([a EXCEPT !.turn = a.turn + 1, !.done = a.turn + 1], "stopped")]
    BY <1>1 DEF EndTurns, Admissions
  <1> QED BY <1>6, <1>7, <1>8

(* The claim is acknowledged.                                              *)
LEMMA AckFine ==
  ASSUME Inv, NEW r \in Ops, Ack(r)
  PROVE  Fine
  <1>1. PICK h \in Histories, t \in Traces, res \in Results, box \in Boxes, a \in Admissions :
           /\ h = history[r] /\ t = trace[r] /\ res = results[r] /\ box = inbox[r] /\ a = adm[r]
    BY RunIs
  <1>2. /\ Held(h, t, res, box, a, faults) /\ faults \in Nat /\ faults \in 0..MaxFaults
        /\ session \in Sessions /\ Shapes /\ SessionHolds
    BY <1>1, RunIs DEF Inv
  <1>3. PICK e : e = <<ClaimEvent("acked", a.seq + 1, a.claim, a.rev)>>
    OBVIOUS
  <1>4. /\ a.pc = "ack" /\ Emit(r, e, [a EXCEPT !.pc = "compact"])
        /\ inbox' = [inbox EXCEPT ![r] = Acknowledged(box, a.claim, a.rev)]
        /\ UNCHANGED <<session, history, results, faults>>
    BY <1>1, <1>2, <1>3 DEF Ack, At, Shapes
  <1>5. /\ a.pc \in Emitting /\ a.pc \in Working /\ a.pc \in Looping /\ "compact" \in Looping
    BY <1>4 DEF Emitting, Looping, Opening, Working, Closing
  <1>6. Follows(e, a.seq) /\ Len(e) = 1 /\ e \in Seq(Events)
    <2>1. "acked" \in Kinds /\ a.claim \in ClaimIds /\ a.rev \in Nat
      BY DEF Kinds, Admissions
    <2>2. Follows(e, a.seq)
      BY <1>3, <2>1, LoopEvents
    <2>3. Len(e) = 1
      BY <1>3
    <2> QED BY <2>2, <2>3 DEF Follows
  <1>7. PICK next : next = [a EXCEPT !.pc = "compact"]
    OBVIOUS
  <1>8. /\ next \in Admissions /\ GoesOn(a, next) /\ next.seq = a.seq /\ next.pc = "compact"
    <2>1. next.pc = "compact"
      BY <1>7 DEF Admissions
    <2> QED BY <1>5, <1>7, <2>1, PlacesGoOn
  <1>9. PICK b : b = [next EXCEPT !.seq = next.seq + Len(e)]
    OBVIOUS
  <1>10. next.seq + Len(e) \in Nat
    BY <1>6, <1>8 DEF Admissions
  <1>11. /\ b \in Admissions /\ b.seq = a.seq + Len(e) /\ b.pc = "compact"
         /\ b.n = next.n /\ b.turn = next.turn /\ b.done = next.done /\ b.rev = next.rev
         /\ b.inputs = next.inputs /\ b.claims = next.claims /\ b.claim = next.claim
         /\ b.base = next.base /\ b.via = next.via /\ b.reason = next.reason
    BY <1>8, <1>9, <1>10 DEF Admissions
  <1>12. GoesOn(a, b)
    BY <1>8, <1>11 DEF GoesOn
  <1>13. PICK u : u = [t EXCEPT !.events = t.events \o e]
    OBVIOUS
  <1>14. t.events \o e \in Seq(Events)
    BY <1>6, LastType, ConcatProperties
  <1>15. u \in Traces /\ u.events = t.events \o e
    BY <1>13, <1>14 DEF Traces
  <1>16. Held(h, u, res, box, b, faults) /\ Rises(t, u)
    BY <1>2, <1>6, <1>11, <1>12, <1>15, EmitHolds
  <1>17. PICK new : new = Acknowledged(box, a.claim, a.rev)
    OBVIOUS
  <1>18. /\ Held(h, u, res, new, b, faults) /\ a.rev \in Nat /\ a.rev >= 1
         /\ \A k \in DOMAIN box : box[k].claim = a.claim => a.claim \in IdsOf(h.claims)
    BY <1>2, <1>4, <1>11, <1>16, <1>17, AckHolds
  <1>19. new \in Boxes
    BY <1>17, <1>18, AcknowledgedBox DEF Admissions
  <1>20. trace' = [trace EXCEPT ![r] = u] /\ adm' = [adm EXCEPT ![r] = b]
    <2>1. trace' = [trace EXCEPT ![r] = u]
      BY <1>1, <1>2, <1>4, <1>13 DEF Emit, Shapes
    <2>2. adm' = [adm EXCEPT ![r] = b]
      BY <1>2, <1>4, <1>7, <1>9 DEF Emit, Shapes
    <2> QED BY <2>1, <2>2
  <1>21. Becomes(r, h, u, res, new, b)
    BY <1>1, <1>2, <1>4, <1>17, <1>20 DEF Becomes, Shapes
  <1>22. b.inputs = a.inputs /\ b.base = a.base /\ b.via = a.via
    BY <1>12 DEF GoesOn
  <1>23. InputsOnce(h, box, a) => (InputsOnce(h, new, b) /\ Advances(h, box, h, new))
    <2> SUFFICES ASSUME InputsOnce(h, box, a)
                 PROVE  InputsOnce(h, new, b) /\ Advances(h, box, h, new)
      OBVIOUS
    <2>1. a.pc = "ack" /\ b.pc = "compact" /\ b.inputs = a.inputs
      BY <1>4, <1>11, <1>22
    <2>2. Held(h, u, res, Acknowledged(box, a.claim, a.rev), b, faults)
      BY <1>17, <1>18
    <2> QED BY <1>2, <1>11, <1>17, <1>18, <2>1, <2>2, AckOnce
  <1> QED BY <1>1, <1>2, <1>4, <1>5, <1>11, <1>15, <1>18, <1>19, <1>21, <1>22, <1>23,
          <1>16, LoopStepIsFine

(* Claims left behind are settled.                                         *)
LEMMA ReconcileFine ==
  ASSUME Inv, NEW r \in Ops, Reconcile(r)
  PROVE  Fine
  <1>1. PICK h \in Histories, t \in Traces, res \in Results, box \in Boxes, a \in Admissions :
           /\ h = history[r] /\ t = trace[r] /\ res = results[r] /\ box = inbox[r] /\ a = adm[r]
    BY RunIs
  <1>2. /\ Held(h, t, res, box, a, faults) /\ faults \in Nat /\ faults \in 0..MaxFaults
        /\ session \in Sessions /\ Shapes /\ SessionHolds
    BY <1>1, RunIs DEF Inv
  <1>3. /\ a.pc = "reconcile" /\ "reconcile" \in Looping /\ "admit" \in Looping
        /\ UNCHANGED <<session, history, trace, results, faults>>
    BY <1>1 DEF Reconcile, At, Looping, Opening
  <1>4. PICK b : b = [a EXCEPT !.pc = "admit"]
    OBVIOUS
  <1>5. /\ b \in Admissions /\ b.pc = "admit" /\ b.seq = a.seq
        /\ b.n = a.n /\ b.turn = a.turn /\ b.done = a.done /\ b.rev = a.rev
        /\ b.inputs = a.inputs /\ b.claims = a.claims /\ b.base = a.base /\ b.via = a.via
    BY <1>3, <1>4 DEF Admissions
  <1>6. a.claims = h.claims /\ Held(h, t, res, Reconciled(box, h.claims), b, faults)
    BY <1>2, <1>3, <1>5, ReconcileHolds
  <1>7. PICK new : new = Reconciled(box, h.claims)
    OBVIOUS
  <1>8. new \in Boxes
    <2>1. h.claims \in ClaimSets /\ NoClaim \notin IdsOf(h.claims)
      BY <1>2, NoClaimIsFree DEF Held, Histories
    <2>2. \A k \in DOMAIN box : box[k].ack > 0 => box[k].claim \in IdsOf(h.claims)
      BY <1>2 DEF Held, BoxClaims
    <2> QED BY <1>7, <2>1, <2>2, ReconciledBox
  <1>9. inbox' = [inbox EXCEPT ![r] = new]
    BY <1>1, <1>2, <1>6, <1>7 DEF Reconcile, Shapes
  <1>10. adm' = [adm EXCEPT ![r] = b]
    BY <1>1, <1>2, <1>4 DEF Reconcile, Shapes
  <1>11. Becomes(r, h, t, res, new, b)
    BY <1>1, <1>2, <1>3, <1>9, <1>10 DEF Becomes, Shapes
  <1>12. InputsOnce(h, box, a) => (InputsOnce(h, new, b) /\ Advances(h, box, h, new))
    BY <1>2, <1>3, <1>5, <1>6, <1>7, ReconcileOnce
  <1>13. Rises(t, t)
    BY SameRises
  <1> QED BY <1>1, <1>2, <1>3, <1>5, <1>6, <1>7, <1>8, <1>11, <1>12, <1>13, LoopStepIsFine

(* The history is committed.                                               *)
LEMMA CommitFine ==
  ASSUME Inv, NEW r \in Ops, Commit(r)
  PROVE  Fine
  <1>1. PICK h \in Histories, t \in Traces, res \in Results, box \in Boxes, a \in Admissions :
           /\ h = history[r] /\ t = trace[r] /\ res = results[r] /\ box = inbox[r] /\ a = adm[r]
    BY RunIs
  <1>2. /\ Held(h, t, res, box, a, faults) /\ faults \in Nat /\ faults \in 0..MaxFaults
        /\ session \in Sessions /\ Shapes /\ SessionHolds
    BY <1>1, RunIs DEF Inv
  <1>3. PICK barrier, out, place :
           /\ barrier = Barriers[a.pc] /\ place = barrier.next
           /\ out = CommitHistory(h, a.rev, Checkpoint(a, barrier))
    OBVIOUS
  <1>4. /\ a.pc \in DOMAIN Barriers
        /\ history' = [history EXCEPT ![r] = out]
        /\ adm' = [adm EXCEPT ![r].pc = place, ![r].rev = @ + 1]
        /\ UNCHANGED <<session, trace, results, inbox, faults>>
    BY <1>1, <1>2, <1>3 DEF Commit, Shapes
  <1>5. /\ a.pc \in Looping /\ place \in Looping \ {"take"}
    BY <1>3, <1>4, BarrierTypes DEF Looping, Opening, Working, Closing
  <1>6. a.rev = h.rev /\ a.rev + 1 \in Nat /\ (a.pc \in Working => a.turn >= 1)
    BY <1>2, <1>5 DEF Held, Counted, Admissions
  <1>7. PICK b : b = [a EXCEPT !.pc = place, !.rev = a.rev + 1]
    OBVIOUS
  <1>8. /\ b \in Admissions /\ b.pc = place /\ b.rev = a.rev + 1 /\ b.seq = a.seq
        /\ b.n = a.n /\ b.turn = a.turn /\ b.done = a.done /\ b.reason = a.reason
        /\ b.inputs = a.inputs /\ b.claims = a.claims /\ b.claim = a.claim
        /\ b.base = a.base /\ b.via = a.via
    BY <1>5, <1>6, <1>7 DEF Admissions
  <1>9. /\ out \in Histories /\ out.inputs = a.inputs /\ out.claims = a.claims
        /\ out.base = a.base
    BY <1>3, <1>4, <1>6, CommitWrites
  <1>10. Held(out, t, res, box, b, faults)
    BY <1>2, <1>3, <1>4, <1>8, CommitHolds
  <1>11. adm' = [adm EXCEPT ![r] = b]
    BY <1>1, <1>2, <1>4, <1>7 DEF Shapes
  <1>12. Becomes(r, out, t, res, box, b)
    BY <1>1, <1>2, <1>4, <1>11 DEF Becomes, Shapes
  <1>13. InputsOnce(h, box, a) => (InputsOnce(out, box, b) /\ Advances(h, box, out, box))
    BY <1>2, <1>5, <1>8, <1>9, <1>10, CommitOnce
  <1>14. Rises(t, t)
    BY SameRises
  <1> QED BY <1>1, <1>2, <1>4, <1>5, <1>8, <1>9, <1>10, <1>12, <1>13, <1>14, LoopStepIsFine

(* A commit fails.                                                         *)
LEMMA CommitFailsFine ==
  ASSUME Inv, NEW r \in Ops, CommitFails(r)
  PROVE  Fine
  <1>1. PICK h \in Histories, t \in Traces, res \in Results, box \in Boxes, a \in Admissions :
           /\ h = history[r] /\ t = trace[r] /\ res = results[r] /\ box = inbox[r] /\ a = adm[r]
    BY RunIs
  <1>2. /\ Held(h, t, res, box, a, faults) /\ faults \in Nat /\ faults \in 0..MaxFaults
        /\ session \in Sessions /\ Shapes /\ SessionHolds
    BY <1>1, RunIs DEF Inv
  <1>3. /\ a.pc \in Failing /\ faults < MaxFaults /\ faults' = faults + 1
        /\ UNCHANGED <<session, history, trace, results>>
    BY <1>1 DEF CommitFails
  <1>4. a.pc \in Looping /\ a.pc # "reconcile" /\ "terminal" \in Looping
    BY <1>3, TurnsAssumption DEF Looping, Opening, Working, Closing
  <1>5. PICK g : g = faults'
    OBVIOUS
  <1>6. g \in 0..MaxFaults /\ g \in Nat /\ g >= faults
    BY <1>2, <1>3, <1>5, TurnsAssumption
  <1>7. PICK s : s = Finish(a, "stopped")
    OBVIOUS
  <1>8. /\ s \in Admissions /\ s.pc = "terminal" /\ s.reason = "stopped"
        /\ s.seq = a.seq /\ s.n = a.n /\ s.turn = a.turn /\ s.done = a.done
        /\ s.rev = a.rev /\ s.inputs = a.inputs /\ s.claims = a.claims
        /\ s.base = a.base /\ s.via = a.via
    BY <1>7, FinishGoesOn
  <1>9. Rises(t, t)
    BY SameRises
  <1>10. a.done \in {0, a.turn} /\ a.turn >= a.turn
    BY <1>2, TurnsAssumption DEF Held, Counted, Admissions
  <1>11. CASE a.pc = "take"
    <2>1. PICK new, claims : /\ new = Released(box, a.claim)
                             /\ claims = {c \in a.claims : c.id # a.claim}
      OBVIOUS
    <2>2. new \in Boxes /\ claims \in ClaimSets
      BY <2>1, ReleasedBox DEF Admissions, ClaimSets
    <2>3. PICK b : b = [s EXCEPT !.claims = claims]
      OBVIOUS
    <2>4. /\ b \in Admissions /\ b.pc = "terminal" /\ b.reason # "none"
          /\ b.seq = a.seq /\ b.n = a.n /\ b.turn = a.turn /\ b.done = a.done
          /\ b.rev = a.rev /\ b.claims = claims /\ b.base = a.base /\ b.via = a.via
      BY <1>8, <2>2, <2>3 DEF Admissions
    <2>5. Held(h, t, res, new, b, faults)
      BY <1>2, <1>11, <2>1, <2>4, TakeFailsHolds
    <2>6. Held(h, t, res, new, b, g)
      BY <1>2, <1>6, <2>4, <2>5, MoreFaults
    <2>7. inbox' = [inbox EXCEPT ![r] = new]
      BY <1>1, <1>2, <1>11, <2>1 DEF CommitFails, Shapes
    <2>8. adm' = [adm EXCEPT ![r] = [s EXCEPT !.claims = {c \in @ : c.id # a.claim}]]
      BY <1>1, <1>7, <1>11 DEF CommitFails
    <2>9. [s EXCEPT !.claims = {c \in @ : c.id # a.claim}] = b
      BY <1>8, <2>1, <2>3 DEF Admissions
    <2>10. Becomes(r, h, t, res, new, b)
      BY <1>1, <1>2, <1>3, <2>7, <2>8, <2>9 DEF Becomes, Shapes
    <2>11. "take" \in Failing
      BY <1>3, <1>11
    <2> QED BY <1>1, <1>3, <1>4, <1>5, <1>6, <1>9, <2>2, <2>4, <2>6, <2>10, <2>11,
            LoopStepIsFine
  <1>12. CASE a.pc # "take"
    <2>1. a.pc \in Looping \ {"take", "reconcile"} /\ s.reason # "none" /\ s.done \in {0, s.turn}
          /\ s.turn >= a.turn
      BY <1>4, <1>8, <1>10, <1>12
    <2>2. Held(h, t, res, box, s, faults)
      BY <1>2, <1>8, <2>1, CloseHolds
    <2>3. Held(h, t, res, box, s, g)
      BY <1>2, <1>6, <1>8, <2>2, MoreFaults
    <2>4. adm' = [adm EXCEPT ![r] = s] /\ UNCHANGED inbox
      BY <1>1, <1>7, <1>12 DEF CommitFails
    <2>5. Becomes(r, h, t, res, box, s)
      BY <1>1, <1>2, <1>3, <2>4 DEF Becomes, Shapes
    <2>6. InputsOnce(h, box, a) => (InputsOnce(h, box, s) /\ Advances(h, box, h, box))
      <3>1. Advances(h, box, h, box)
        BY StatusKept
      <3>2. ASSUME InputsOnce(h, box, a) PROVE InputsOnce(h, box, s)
        <4>1. s.inputs = h.inputs
          BY <2>1, <1>8, <3>2 DEF InputsOnce
        <4> QED BY <1>8, <3>2, <4>1, OnceKept
      <3> QED BY <3>1, <3>2
    <2> QED BY <1>1, <1>3, <1>4, <1>5, <1>6, <1>8, <1>9, <2>3, <2>5, <2>6, LoopStepIsFine
  <1> QED BY <1>11, <1>12

-----------------------------------------------------------------------------
(* The steps of the handlers.                                              *)

(* What there is of a run before it begins.                                *)
LEMMA IdleTypes ==
  /\ Idle \in Admissions /\ Idle.pc = "idle" /\ Idle.n = 0 /\ Idle.done = 0 /\ Idle.turn = 0
  /\ Idle.via = "none" /\ Idle.inputs = EmptyBag /\ Idle.claims = {} /\ Idle.rev = 0
  /\ Idle.seq = 0 /\ EmptyBag \in InputBags
  /\ NoHistory \in Histories /\ NoTrace \in Traces /\ NoResult \in Results /\ <<>> \in Boxes
  <1>1. EmptyBag \in InputBags
    <2>1. EmptyBag \in [{} -> Nat \ {0}]
      BY DEF EmptyBag, SetToBag
    <2>2. {} \in SUBSET AllInputs
      OBVIOUS
    <2> QED BY <2>1, <2>2 DEF InputBags
  <1>2. NoClaim \in ClaimIds /\ {} \in ClaimSets /\ <<>> \in Seq(Ops) /\ 0 \in 0..MaxTurns
        /\ "none" \in Reasons
    BY TurnsAssumption DEF NoClaim, ClaimIds, ClaimSets, Reasons
  <1>3. /\ Idle \in Admissions /\ Idle.pc = "idle" /\ Idle.n = 0 /\ Idle.done = 0
        /\ Idle.turn = 0 /\ Idle.via = "none" /\ Idle.inputs = EmptyBag /\ Idle.claims = {}
        /\ Idle.rev = 0 /\ Idle.seq = 0
    BY <1>1, <1>2 DEF Idle, Admissions
  <1>4. NoHistory \in Histories
    BY <1>1, <1>2 DEF NoHistory, Histories
  <1>5. NoTrace \in Traces
    BY <1>2 DEF NoTrace, ResultRecord, Traces
  <1>6. NoResult \in Results
    BY <1>2 DEF NoResult, Results
  <1>7. <<>> \in Boxes
    BY DEF Boxes
  <1> QED BY <1>1, <1>3, <1>4, <1>5, <1>6, <1>7

(* A new admission.                                                        *)
LEMMA FreshTypes ==
  ASSUME NEW o \in Ops, NEW messages \in Seq(Ops), NEW b, b = FreshAdmission(o, messages)
  PROVE  /\ b \in Admissions /\ b.pc = "reconcile" /\ b.via = "session" /\ b.n = 1
         /\ b.turn = 0 /\ b.done = 0 /\ b.rev = 0 /\ b.seq = 0 /\ b.claims = {} /\ b.inputs = EmptyBag
         /\ b.base = Append(messages, o)
  <1>1. PICK base : base = Append(messages, o)
    OBVIOUS
  <1>2. base \in Seq(Ops)
    BY <1>1, AppendProperties
  <1>3. b = [Idle EXCEPT !.pc = "reconcile", !.via = "session", !.n = 1, !.base = base]
    BY <1>1 DEF FreshAdmission
  <1>4. /\ "reconcile" \in Looping \cup {"idle", "session"} /\ 1 \in Nat
        /\ "session" \in {"none", "session", "api"}
    BY DEF Looping, Opening
  <1>5. PICK idle \in Admissions : idle = Idle
    BY IdleTypes
  <1>6. /\ idle.turn = 0 /\ idle.done = 0 /\ idle.rev = 0 /\ idle.seq = 0
        /\ idle.claims = {} /\ idle.inputs = EmptyBag
    BY <1>5, IdleTypes
  <1>7. b = [idle EXCEPT !.pc = "reconcile", !.via = "session", !.n = 1, !.base = base]
    BY <1>3, <1>5
  <1>8. b \in Admissions
    BY <1>2, <1>4, <1>7 DEF Admissions
  <1>9. b.pc = "reconcile" /\ b.via = "session" /\ b.n = 1 /\ b.base = base
    BY <1>7 DEF Admissions
  <1>10. /\ b.turn = idle.turn /\ b.done = idle.done /\ b.rev = idle.rev /\ b.seq = idle.seq
         /\ b.claims = idle.claims /\ b.inputs = idle.inputs
    BY <1>7 DEF Admissions
  <1> QED BY <1>1, <1>6, <1>8, <1>9, <1>10

(* An admission that goes on from the checkpoint.                          *)
Resumes(b, h, t, via) ==
    /\ b \in Admissions /\ b.pc = "reconcile" /\ b.via = via /\ b.n = h.adm + 1
    /\ b.turn = h.turn /\ b.done = 0 /\ b.rev = h.rev
    /\ b.seq = Max({h.seq, LastEventSequence(t)})
    /\ b.claims = h.claims /\ b.inputs = h.inputs /\ b.base = h.base

(* An admission that resumes a run goes on from what its files hold.       *)
LEMMA ResumedTypes ==
  ASSUME Shapes, NEW r \in Ops, NEW via \in {"session", "api"},
         NEW h, h = history[r], NEW t, t = trace[r], NEW b, b = ResumedAdmission(r, via)
  PROVE  Resumes(b, h, t, via)
  <1>1. h \in Histories /\ t \in Traces
    BY DEF Shapes
  <1>2. PICK n, seq : n = h.adm + 1 /\ seq = Max({h.seq, LastEventSequence(t)})
    OBVIOUS
  <1>3. /\ n \in Nat /\ h.turn \in 0..MaxTurns /\ h.rev \in Nat /\ h.seq \in Nat
        /\ h.inputs \in InputBags /\ h.claims \in ClaimSets /\ h.base \in Seq(Ops)
    BY <1>1, <1>2 DEF Histories
  <1>4. seq \in Nat
    BY <1>1, <1>2, <1>3, LastType, MaxOfTwo
  <1>5. b = [Idle EXCEPT !.pc = "reconcile", !.via = via, !.n = n,
                !.turn = h.turn, !.rev = h.rev, !.seq = seq,
                !.inputs = h.inputs, !.claims = h.claims, !.base = h.base]
    BY <1>2 DEF ResumedAdmission
  <1>6. "reconcile" \in Looping \cup {"idle", "session"} /\ via \in {"none", "session", "api"}
    BY DEF Looping, Opening
  <1>7. PICK idle \in Admissions : idle = Idle
    BY IdleTypes
  <1>8. idle.done = 0
    BY <1>7, IdleTypes
  <1>9. b = [idle EXCEPT !.pc = "reconcile", !.via = via, !.n = n,
                !.turn = h.turn, !.rev = h.rev, !.seq = seq,
                !.inputs = h.inputs, !.claims = h.claims, !.base = h.base]
    BY <1>5, <1>7
  <1>10. PICK x : x = [idle EXCEPT !.pc = "reconcile", !.via = via, !.n = n, !.turn = h.turn]
    OBVIOUS
  <1>11. PICK y : y = [x EXCEPT !.rev = h.rev, !.seq = seq]
    OBVIOUS
  <1>12. x \in Admissions
    BY <1>3, <1>6, <1>10 DEF Admissions
  <1>13. x.pc = "reconcile" /\ x.via = via /\ x.n = n /\ x.turn = h.turn /\ x.done = idle.done
    BY <1>10 DEF Admissions
  <1>14. /\ y \in Admissions /\ y.rev = h.rev /\ y.seq = seq
         /\ y.pc = x.pc /\ y.via = x.via /\ y.n = x.n /\ y.turn = x.turn /\ y.done = x.done
    BY <1>3, <1>4, <1>11, <1>12 DEF Admissions
  <1>15. b = [y EXCEPT !.inputs = h.inputs, !.claims = h.claims, !.base = h.base]
    BY <1>9, <1>10, <1>11 DEF Admissions
  <1>16. /\ b \in Admissions
         /\ b.claims = h.claims /\ b.inputs = h.inputs /\ b.base = h.base
         /\ b.rev = y.rev /\ b.seq = y.seq
         /\ b.pc = y.pc /\ b.via = y.via /\ b.n = y.n /\ b.turn = y.turn /\ b.done = y.done
    BY <1>3, <1>14, <1>15 DEF Admissions
  <1> QED BY <1>2, <1>8, <1>13, <1>14, <1>16 DEF Resumes

(* The result is written.                                                  *)
LEMMA WriteResultFine ==
  ASSUME Inv, NEW r \in Ops, WriteResult(r)
  PROVE  Fine
  <1>1. PICK h \in Histories, t \in Traces, res \in Results, box \in Boxes, a \in Admissions :
           /\ h = history[r] /\ t = trace[r] /\ res = results[r] /\ box = inbox[r] /\ a = adm[r]
    BY RunIs
  <1>2. /\ Held(h, t, res, box, a, faults) /\ faults \in Nat /\ faults \in 0..MaxFaults
        /\ session \in Sessions /\ Shapes /\ SessionHolds
    BY <1>1, RunIs DEF Inv
  <1>3. /\ a.pc = "result" /\ UNCHANGED <<session, history, trace, inbox, faults>>
        /\ a.pc \in Looping /\ a.pc \in Closing
    BY <1>1 DEF WriteResult, At, Looping, Closing
  <1>4. PICK out : out = [reason |-> a.reason, rev |-> a.rev, msgs |-> a.base]
    OBVIOUS
  <1>5. /\ out \in Results /\ out.reason = a.reason /\ out.msgs = a.base
        /\ out.reason # "none"
    <2>1. out \in Results /\ out.reason = a.reason /\ out.msgs = a.base
      BY <1>4 DEF Results, Admissions
    <2> QED BY <1>2, <1>3, <2>1 DEF Held, Counted
  <1>6. PICK b : b = IF a.via = "session" THEN [a EXCEPT !.pc = "session"] ELSE Idle
    OBVIOUS
  <1>7. /\ b \in Admissions /\ b.pc \in {"idle", "session"}
        /\ b.n = 0 \/ b.n = a.n
        /\ b.done = 0 \/ (b.done = a.done /\ b.turn = a.turn)
        /\ b.via = "session" => a.via = "session"
        /\ b.pc = "session" => b.via = "session"
    <2>1. CASE a.via = "session"
      <3>1. b = [a EXCEPT !.pc = "session"]
        BY <1>6, <2>1
      <3> QED BY <2>1, <3>1 DEF Admissions
    <2>2. CASE a.via # "session"
      BY <1>6, <2>2, IdleTypes
    <2> QED BY <2>1, <2>2
  <1>8. Held(h, t, out, box, b, faults)
    BY <1>2, <1>5, <1>7, OverHolds
  <1>9. results' = [results EXCEPT ![r] = out]
    BY <1>1, <1>4 DEF WriteResult
  <1>10. adm' = [adm EXCEPT ![r] = b]
    BY <1>1, <1>2, <1>6 DEF WriteResult, Shapes
  <1>11. Becomes(r, h, t, out, box, b)
    BY <1>1, <1>2, <1>3, <1>9, <1>10 DEF Becomes, Shapes
  <1>12. b.pc \notin Looping /\ b.pc # "take" /\ a.pc # "idle"
    BY <1>3, <1>7 DEF Looping, Opening, Working, Closing
  <1>13. session.pending = r \/ Committed(r)
    BY <1>1, <1>2, <1>12 DEF SessionHolds, Unborn, At
  <1>14. session.pending = r => Builds(r)
    BY <1>2, TurnsAssumption DEF SessionHolds
  <1>15. a.via = "session" => session.pending = r
    BY <1>1, <1>2 DEF SessionHolds
  <1>16. session.pending = r =>
            LET conversation == Append(session.msgs, r)
            IN /\ b.pc \in Looping => b.base = conversation
               /\ h.rev > 0 => h.base = conversation
               /\ out.reason # "none" => out.msgs = conversation
    BY <1>1, <1>3, <1>5, <1>12, <1>14 DEF Builds
  <1>17. SessionHolds'
    BY <1>2, <1>3, <1>5, <1>7, <1>11, <1>13, <1>15, <1>16, SessionKept
  <1>18. InputsOnce(h, box, a) => (InputsOnce(h, box, b) /\ Advances(h, box, h, box))
    BY <1>12, StatusKept, OnceKept
  <1>19. Rises(t, t)
    BY SameRises
  <1> QED BY <1>1, <1>2, <1>3, <1>5, <1>7, <1>8, <1>11, <1>17, <1>18, <1>19, StepIsFine

(* The same operation sent again while it is pending.                      *)
LEMMA RetryTurnFine ==
  ASSUME Inv, NEW r \in Ops, RetryTurn(r)
  PROVE  Fine
  <1>1. PICK h \in Histories, t \in Traces, res \in Results, box \in Boxes, a \in Admissions :
           /\ h = history[r] /\ t = trace[r] /\ res = results[r] /\ box = inbox[r] /\ a = adm[r]
    BY RunIs
  <1>2. /\ Held(h, t, res, box, a, faults) /\ faults \in Nat /\ faults \in 0..MaxFaults
        /\ session \in Sessions /\ Shapes /\ SessionHolds
    BY <1>1, RunIs DEF Inv
  <1>3. /\ a.pc = "idle" /\ session.pending = r
        /\ UNCHANGED <<session, history, trace, results, inbox, faults>>
    BY <1>1 DEF RetryTurn, At, files
  <1>4. PICK b : b = PendingAdmission(r)
    OBVIOUS
  <1>5. adm' = [adm EXCEPT ![r] = b]
    BY <1>4 DEF RetryTurn
  <1>6. Becomes(r, h, t, res, box, b)
    BY <1>1, <1>2, <1>3, <1>5 DEF Becomes, Shapes
  <1>7. ~Committed(r) /\ Builds(r)
    BY <1>2, <1>3, TurnsAssumption DEF SessionHolds
  <1>8. /\ h.rev > 0 => h.base = Append(session.msgs, r)
        /\ res.reason # "none" => res.msgs = Append(session.msgs, r)
    BY <1>1, <1>7 DEF Builds, HasResult
  <1>9. h.rev \in Nat /\ Rises(t, t)
    BY SameRises DEF Histories
  <1>10. ASSUME b \in Admissions, Held(h, t, res, box, b, faults),
                b.pc \in Looping => b.base = Append(session.msgs, r),
                b.pc = "session" => b.via = "session" /\ res.reason # "none",
                b.pc # "take", b.pc \in Looping => b.inputs = h.inputs
         PROVE  Fine
    <2>1. SessionHolds'
      BY <1>2, <1>3, <1>6, <1>7, <1>8, <1>10, SessionKept
    <2>2. InputsOnce(h, box, a) => (InputsOnce(h, box, b) /\ Advances(h, box, h, box))
      BY <1>10, StatusKept, OnceKept
    <2> QED BY <1>1, <1>2, <1>3, <1>6, <1>9, <1>10, <2>1, <2>2, StepIsFine
  <1>11. CASE HasResult(r)
    <2>1. b = [Idle EXCEPT !.pc = "session", !.via = "session"]
      BY <1>4, <1>11 DEF PendingAdmission
    <2>2. /\ b \in Admissions /\ b.pc = "session" /\ b.via = "session" /\ b.n = 0 /\ b.done = 0
      BY <2>1, IdleTypes DEF Admissions
    <2>3. res.reason # "none"
      BY <1>1, <1>11 DEF HasResult
    <2>4. Held(h, t, res, box, b, faults)
      BY <1>2, <2>2, <2>3, OverHolds
    <2>5. b.pc \notin Looping
      BY <2>2 DEF Looping, Opening, Working, Closing
    <2> QED BY <1>10, <2>2, <2>3, <2>4, <2>5
  <1>12. CASE ~HasResult(r) /\ h.rev > 0
    <2>1. b = ResumedAdmission(r, "session")
      BY <1>1, <1>4, <1>12 DEF PendingAdmission
    <2>2. /\ b \in Admissions /\ b.pc = "reconcile" /\ b.n = h.adm + 1
          /\ b.turn = h.turn /\ b.done = 0 /\ b.rev = h.rev
          /\ b.seq = Max({h.seq, LastEventSequence(t)})
          /\ b.claims = h.claims /\ b.inputs = h.inputs /\ b.base = h.base
      BY <1>1, <1>2, <2>1, ResumedTypes DEF Resumes
    <2>3. res.reason = "none"
      BY <1>1, <1>12 DEF HasResult
    <2>4. Held(h, t, res, box, b, faults)
      BY <1>2, <1>3, <2>2, <2>3, ResumedHolds
    <2> QED BY <1>8, <1>10, <1>12, <2>2, <2>4
  <1>13. CASE ~HasResult(r) /\ h.rev = 0
    <2>1. b = FreshAdmission(r, session.msgs) /\ session.msgs \in Seq(Ops)
      BY <1>1, <1>2, <1>4, <1>13 DEF PendingAdmission, Sessions
    <2>2. /\ b \in Admissions /\ b.pc = "reconcile" /\ b.n = 1
          /\ b.turn = 0 /\ b.done = 0 /\ b.rev = 0 /\ b.claims = {} /\ b.inputs = EmptyBag
          /\ b.base = Append(session.msgs, r)
      BY <2>1, FreshTypes
    <2>3. Held(h, t, res, box, b, faults)
      BY <1>2, <1>13, <2>2, FreshHolds
    <2>4. h.inputs = EmptyBag
      BY <1>2, <1>13 DEF Held, HistoryClaims
    <2> QED BY <1>10, <2>2, <2>3, <2>4
  <1> QED BY <1>9, <1>11, <1>12, <1>13

(* A run is resumed by its id.                                             *)
LEMMA ResumeRunFine ==
  ASSUME Inv, NEW r \in Ops, ResumeRun(r)
  PROVE  Fine
  <1>1. PICK h \in Histories, t \in Traces, res \in Results, box \in Boxes, a \in Admissions :
           /\ h = history[r] /\ t = trace[r] /\ res = results[r] /\ box = inbox[r] /\ a = adm[r]
    BY RunIs
  <1>2. /\ Held(h, t, res, box, a, faults) /\ faults \in Nat /\ faults \in 0..MaxFaults
        /\ session \in Sessions /\ Shapes /\ SessionHolds
    BY <1>1, RunIs DEF Inv
  <1>3. /\ a.pc = "idle" /\ h.rev > 0 /\ h.adm < MaxAdmissions
        /\ UNCHANGED <<session, history, trace, results, inbox, faults>>
    BY <1>1 DEF ResumeRun, Resumable, At, files
  <1>4. PICK b : b = ResumedAdmission(r, "api")
    OBVIOUS
  <1>5. /\ b \in Admissions /\ b.pc = "reconcile" /\ b.via = "api" /\ b.n = h.adm + 1
        /\ b.turn = h.turn /\ b.done = 0 /\ b.rev = h.rev
        /\ b.seq = Max({h.seq, LastEventSequence(t)})
        /\ b.claims = h.claims /\ b.inputs = h.inputs /\ b.base = h.base
    BY <1>1, <1>2, <1>4, ResumedTypes DEF Resumes
  <1>6. Held(h, t, res, box, b, faults)
    BY <1>2, <1>3, <1>5, ResumedHolds
  <1>7. adm' = [adm EXCEPT ![r] = b]
    BY <1>4 DEF ResumeRun
  <1>8. Becomes(r, h, t, res, box, b)
    BY <1>1, <1>2, <1>3, <1>7 DEF Becomes, Shapes
  <1>9. h.rev # 0 /\ h.rev \in Nat /\ Rises(t, t)
    BY <1>3, SameRises DEF Histories
  <1>10. session.pending = r \/ Committed(r)
    BY <1>1, <1>2, <1>9 DEF SessionHolds, Unborn
  <1>11. session.pending = r => Builds(r)
    BY <1>2, TurnsAssumption DEF SessionHolds
  <1>12. Committed(r) => res.reason # "none"
    BY <1>1, <1>2 DEF SessionHolds, ConversationIsTurns, HasResult
  <1>13. session.pending = r =>
            LET conversation == Append(session.msgs, r)
            IN /\ b.pc \in Looping => b.base = conversation
               /\ h.rev > 0 => h.base = conversation
               /\ res.reason # "none" => res.msgs = conversation
    BY <1>1, <1>3, <1>5, <1>11 DEF Builds, HasResult
  <1>14. SessionHolds'
    BY <1>2, <1>3, <1>5, <1>8, <1>10, <1>12, <1>13, SessionKept
  <1>15. InputsOnce(h, box, a) => (InputsOnce(h, box, b) /\ Advances(h, box, h, box))
    BY <1>5, StatusKept, OnceKept
  <1> QED BY <1>1, <1>2, <1>3, <1>5, <1>6, <1>8, <1>9, <1>14, <1>15, StepIsFine

(* An input is queued.                                                     *)
LEMMA EnqueueFine ==
  ASSUME Inv, NEW r \in Ops, NEW i, EnqueueInput(r, i)
  PROVE  Fine
  <1>1. PICK h \in Histories, t \in Traces, res \in Results, box \in Boxes, a \in Admissions :
           /\ h = history[r] /\ t = trace[r] /\ res = results[r] /\ box = inbox[r] /\ a = adm[r]
    BY RunIs
  <1>2. /\ Held(h, t, res, box, a, faults) /\ faults \in Nat /\ faults \in 0..MaxFaults
        /\ session \in Sessions /\ Shapes /\ SessionHolds
    BY <1>1, RunIs DEF Inv
  <1>3. /\ i \in AllInputs /\ ~Holds(box, i) /\ (session.pending = r \/ Committed(r))
        /\ UNCHANGED <<session, history, trace, results, adm, faults>>
    BY <1>1 DEF EnqueueInput, AllInputs
  <1>4. PICK new : new = Enqueued(box, i)
    OBVIOUS
  <1>5. new \in Boxes
    BY <1>3, <1>4, EnqueuedBox
  <1>6. Held(h, t, res, new, a, faults)
    BY <1>2, <1>3, <1>4, EnqueueHolds
  <1>7. inbox' = [inbox EXCEPT ![r] = new]
    BY <1>1, <1>2, <1>4 DEF EnqueueInput, Shapes
  <1>8. Becomes(r, h, t, res, new, a)
    BY <1>1, <1>2, <1>3, <1>7 DEF Becomes, Shapes
  <1>9. Rises(t, t)
    BY SameRises
  <1>10. session.pending = r => Builds(r)
    BY <1>2, TurnsAssumption DEF SessionHolds
  <1>11. Committed(r) => res.reason # "none"
    BY <1>1, <1>2 DEF SessionHolds, ConversationIsTurns, HasResult
  <1>12. session.pending = r =>
            LET conversation == Append(session.msgs, r)
            IN /\ a.pc \in Looping => a.base = conversation
               /\ h.rev > 0 => h.base = conversation
               /\ res.reason # "none" => res.msgs = conversation
    BY <1>1, <1>10 DEF Builds, HasResult
  <1>13. /\ a.via = "session" => session.pending = r
         /\ a.pc = "session" => a.via = "session" /\ res.reason # "none"
    BY <1>1, <1>2 DEF SessionHolds, At, HasResult
  <1>14. SessionHolds'
    BY <1>2, <1>3, <1>8, <1>11, <1>12, <1>13, SessionKept
  <1>15. InputsOnce(h, box, a) => (InputsOnce(h, new, a) /\ Advances(h, box, h, new))
    BY <1>2, <1>3, <1>4, EnqueueOnce
  <1> QED BY <1>1, <1>2, <1>3, <1>5, <1>6, <1>8, <1>9, <1>14, <1>15, StepIsFine

(* A turn begins: its run is a new one.                                    *)
LEMMA OpenTurnFine ==
  ASSUME Inv, NEW r \in Ops, OpenTurn(r)
  PROVE  Fine
  <1>1. PICK h \in Histories, t \in Traces, res \in Results, box \in Boxes, a \in Admissions :
           /\ h = history[r] /\ t = trace[r] /\ res = results[r] /\ box = inbox[r] /\ a = adm[r]
    BY RunIs
  <1>2. /\ Held(h, t, res, box, a, faults) /\ faults \in Nat /\ faults \in 0..MaxFaults
        /\ session \in Sessions /\ Shapes /\ SessionHolds
    BY <1>1, RunIs DEF Inv
  <1>3. /\ session.pending = NoOp /\ ~Committed(r)
        /\ session' = [session EXCEPT !.pending = r, !.rev = @ + 1]
        /\ UNCHANGED <<history, trace, results, inbox, faults>>
    BY DEF OpenTurn
  <1>4. /\ session' \in Sessions /\ session'.pending = r /\ session'.msgs = session.msgs
        /\ session'.turns = session.turns
    <2>1. session.rev + 1 \in Nat
      BY <1>2 DEF Sessions
    <2>2. PICK s : s = [session EXCEPT !.pending = r, !.rev = session.rev + 1]
      OBVIOUS
    <2>3. s \in Sessions /\ s.pending = r /\ s.msgs = session.msgs /\ s.turns = session.turns
      BY <1>2, <2>1, <2>2 DEF Sessions
    <2>4. session' = s
      BY <1>2, <1>3, <2>2 DEF Sessions
    <2> QED BY <2>3, <2>4
  <1>5. Unborn(r) /\ r # NoOp
    BY <1>2, <1>3, TurnsAssumption DEF SessionHolds
  <1>6. h.rev = 0 /\ res.reason = "none" /\ a.pc = "idle"
    BY <1>1, <1>5 DEF Unborn, HasResult, At
  <1>7. PICK b : b = FreshAdmission(r, session.msgs)
    OBVIOUS
  <1>8. session.msgs \in Seq(Ops)
    BY <1>2 DEF Sessions
  <1>9. /\ b \in Admissions /\ b.pc = "reconcile" /\ b.via = "session" /\ b.n = 1
        /\ b.turn = 0 /\ b.done = 0 /\ b.rev = 0 /\ b.claims = {} /\ b.inputs = EmptyBag
        /\ b.base = Append(session.msgs, r)
    BY <1>7, <1>8, FreshTypes
  <1>10. Held(h, t, res, box, b, faults)
    BY <1>2, <1>6, <1>9, FreshHolds
  <1>11. adm' = [adm EXCEPT ![r] = b]
    BY <1>7 DEF OpenTurn
  <1>12. Becomes(r, h, t, res, box, b)
    BY <1>1, <1>2, <1>3, <1>11 DEF Becomes, Shapes
  <1>13. \A o \in Ops : Committed(o)' <=> Committed(o)
    BY <1>4 DEF Committed
  <1>14. \A o \in Ops : HasResult(o)' <=> HasResult(o)
    BY <1>3 DEF HasResult
  <1>15. SessionHolds'
    <2>1. adm'[r] = b /\ \A o \in Ops \ {r} : adm'[o] = adm[o]
      BY <1>2, <1>12, BecomesIs
    <2>2. ConversationIsTurns'
      BY <1>2, <1>4, <1>13, <1>14 DEF SessionHolds, ConversationIsTurns
    <2>3. session'.pending # NoOp => ~Committed(session.pending)' /\ Builds(session.pending)'
      <3>1. ~Committed(r)'
        BY <1>3, <1>13
      <3>2. Builds(r)'
        BY <1>1, <1>3, <1>4, <1>6, <1>9, <2>1 DEF Builds, HasResult
      <3> QED BY <1>4, <3>1, <3>2
    <2>4. ASSUME NEW o \in Ops PROVE session'.pending = o \/ Committed(o)' \/ Unborn(o)'
      <3>1. o # r => (Committed(o) \/ Unborn(o))
        BY <1>2, <1>3, TurnsAssumption DEF SessionHolds
      <3>2. o # r => (Unborn(o)' <=> Unborn(o))
        BY <1>3, <1>14, <2>1 DEF Unborn, At
      <3> QED BY <1>4, <1>13, <3>1, <3>2
    <2>5. \A o \in Ops : adm'[o].via = "session" => session'.pending = o
      BY <1>2, <1>3, <1>4, <2>1, TurnsAssumption DEF SessionHolds
    <2>6. \A o \in Ops : At(o, "session")' => adm'[o].via = "session" /\ HasResult(o)'
      BY <1>2, <1>9, <1>14, <2>1 DEF SessionHolds, At
    <2> QED BY <2>2, <2>3, <2>4, <2>5, <2>6 DEF SessionHolds
  <1>16. InputsOnce(h, box, a) => (InputsOnce(h, box, b) /\ Advances(h, box, h, box))
    <2>1. h.inputs = EmptyBag
      BY <1>2, <1>6 DEF Held, HistoryClaims
    <2> QED BY <1>9, <2>1, StatusKept, OnceKept
  <1>17. Rises(t, t)
    BY SameRises
  <1> QED BY <1>1, <1>2, <1>3, <1>4, <1>9, <1>10, <1>12, <1>15, <1>16, <1>17, StepIsFine

(* The session takes a turn over: its run is the one that built on the     *)
(* conversation.                                                           *)
LEMMA TurnsAppend ==
  ASSUME NEW turns \in Seq([op : Ops, reason : Reasons]), NEW msgs \in Seq(Ops),
         msgs = [k \in DOMAIN turns |-> turns[k].op],
         NEW o \in Ops, NEW turn \in [op : Ops, reason : Reasons], turn.op = o
  PROVE  /\ Append(turns, turn) \in Seq([op : Ops, reason : Reasons])
         /\ Append(msgs, o) \in Seq(Ops)
         /\ \E n \in Nat :
               /\ DOMAIN turns = 1..n /\ DOMAIN Append(turns, turn) = 1..(n + 1)
               /\ \A k \in 1..n : Append(turns, turn)[k] = turns[k]
               /\ Append(turns, turn)[n + 1] = turn
         /\ Append(msgs, o) = [k \in DOMAIN Append(turns, turn) |-> Append(turns, turn)[k].op]
  <1>1. PICK n \in Nat : n = Len(turns)
    BY LenProperties
  <1>2. DOMAIN turns = 1..n /\ DOMAIN msgs = 1..n
    BY <1>1, LenProperties
  <1>3. Len(msgs) = n
    BY <1>1, <1>2, LenProperties
  <1>4. /\ Append(turns, turn) \in Seq([op : Ops, reason : Reasons])
        /\ Len(Append(turns, turn)) = n + 1
        /\ \A k \in 1..n : Append(turns, turn)[k] = turns[k]
        /\ Append(turns, turn)[n + 1] = turn
    BY <1>1, AppendProperties
  <1>5. /\ Append(msgs, o) \in Seq(Ops) /\ Len(Append(msgs, o)) = n + 1
        /\ \A k \in 1..n : Append(msgs, o)[k] = msgs[k]
        /\ Append(msgs, o)[n + 1] = o
    BY <1>3, AppendProperties
  <1>6. DOMAIN Append(turns, turn) = 1..(n + 1) /\ DOMAIN Append(msgs, o) = 1..(n + 1)
    BY <1>4, <1>5, LenProperties
  <1>7. ASSUME NEW k \in 1..(n + 1) PROVE Append(msgs, o)[k] = Append(turns, turn)[k].op
    <2>1. k = n + 1 \/ k \in 1..n
      OBVIOUS
    <2>2. CASE k = n + 1
      BY <1>4, <1>5, <2>2
    <2>3. CASE k \in 1..n
      <3>1. msgs[k] = turns[k].op
        BY <1>2, <2>3
      <3> QED BY <1>4, <1>5, <2>3, <3>1
    <2> QED BY <2>1, <2>2, <2>3
  <1>8. PICK m : m = Append(msgs, o)
    OBVIOUS
  <1>9. m = [k \in 1..(n + 1) |-> m[k]]
    <2>1. m \in [1..(n + 1) -> Ops]
      BY <1>5, <1>6, <1>8, LenProperties
    <2> QED BY <2>1
  <1>10. m = [k \in 1..(n + 1) |-> Append(turns, turn)[k].op]
    BY <1>7, <1>8, <1>9
  <1> QED BY <1>2, <1>4, <1>5, <1>6, <1>8, <1>10

(* The session takes over the conversation of the run's result.            *)
LEMMA CommitTurnFine ==
  ASSUME Inv, NEW r \in Ops, CommitTurn(r)
  PROVE  Fine
  <1>1. PICK h \in Histories, t \in Traces, res \in Results, box \in Boxes, a \in Admissions :
           /\ h = history[r] /\ t = trace[r] /\ res = results[r] /\ box = inbox[r] /\ a = adm[r]
    BY RunIs
  <1>2. /\ Held(h, t, res, box, a, faults) /\ faults \in Nat /\ faults \in 0..MaxFaults
        /\ session \in Sessions /\ Shapes /\ SessionHolds
    BY <1>1, RunIs DEF Inv
  <1>3. PICK turn, turns :
           turn = [op |-> r, reason |-> res.reason] /\ turns = Append(session.turns, turn)
    OBVIOUS
  <1>4. /\ a.pc = "session" /\ session.pending = r
        /\ session' = [rev |-> session.rev + 1, pending |-> NoOp, msgs |-> res.msgs,
                       turns |-> turns]
        /\ adm' = [adm EXCEPT ![r] = Idle]
        /\ UNCHANGED <<history, trace, results, inbox, faults>>
    BY <1>1, <1>3 DEF CommitTurn, At
  <1>5. ~Committed(r) /\ Builds(r) /\ HasResult(r)
    BY <1>1, <1>2, <1>4, TurnsAssumption DEF SessionHolds, At
  <1>6. res.msgs = Append(session.msgs, r)
    BY <1>1, <1>5 DEF Builds
  <1>7. /\ session.turns \in Seq([op : Ops, reason : Reasons]) /\ session.msgs \in Seq(Ops)
        /\ session.rev + 1 \in Nat
        /\ session.msgs = [k \in DOMAIN session.turns |-> session.turns[k].op]
    BY <1>2 DEF Sessions, SessionHolds, ConversationIsTurns
  <1>8. turn \in [op : Ops, reason : Reasons] /\ turn.op = r
    BY <1>3 DEF Results
  <1>9. PICK n \in Nat :
           /\ DOMAIN session.turns = 1..n /\ DOMAIN turns = 1..(n + 1)
           /\ \A k \in 1..n : turns[k] = session.turns[k]
           /\ turns[n + 1] = turn
    BY <1>3, <1>7, <1>8, TurnsAppend
  <1>10. /\ turns \in Seq([op : Ops, reason : Reasons]) /\ res.msgs \in Seq(Ops)
         /\ res.msgs = [k \in DOMAIN turns |-> turns[k].op]
    <2>1. PICK old, msgs : old = session.turns /\ msgs = session.msgs
      OBVIOUS
    <2>2. /\ old \in Seq([op : Ops, reason : Reasons]) /\ msgs \in Seq(Ops)
          /\ msgs = [k \in DOMAIN old |-> old[k].op]
      BY <1>7, <2>1
    <2>3. /\ Append(old, turn) \in Seq([op : Ops, reason : Reasons])
          /\ Append(msgs, r) \in Seq(Ops)
          /\ Append(msgs, r) = [k \in DOMAIN Append(old, turn) |-> Append(old, turn)[k].op]
      BY <1>8, <2>2, TurnsAppend
    <2> QED BY <1>3, <1>6, <2>1, <2>3
  <1>11. /\ session' \in Sessions /\ session'.pending = NoOp /\ session'.msgs = res.msgs
         /\ session'.turns = turns
    BY <1>4, <1>7, <1>10 DEF Sessions
  <1>12. Becomes(r, h, t, res, box, Idle)
    BY <1>1, <1>2, <1>4 DEF Becomes, Shapes
  <1>13. /\ \A o \in Ops : HasResult(o)' <=> HasResult(o)
         /\ adm'[r] = Idle /\ \A o \in Ops \ {r} : adm'[o] = adm[o]
    BY <1>2, <1>4, <1>12, BecomesIs DEF HasResult
  <1>14. \A o \in Ops : Committed(o)' <=> (Committed(o) \/ o = r)
    <2>1. ASSUME NEW o, Committed(o) PROVE Committed(o)'
      <3>1. PICK k \in 1..n : session.turns[k].op = o
        BY <1>9, <2>1 DEF Committed
      <3>2. k \in 1..(n + 1) /\ turns[k].op = o
        BY <1>9, <3>1
      <3> QED BY <1>9, <1>11, <3>2 DEF Committed
    <2>2. Committed(r)'
      <3>1. n + 1 \in 1..(n + 1) /\ turns[n + 1].op = r
        BY <1>8, <1>9
      <3> QED BY <1>9, <1>11, <3>1 DEF Committed
    <2>3. ASSUME NEW o, Committed(o)', o # r PROVE Committed(o)
      <3>1. PICK k \in 1..(n + 1) : turns[k].op = o
        BY <1>9, <1>11, <2>3 DEF Committed
      <3>2. k # n + 1
        BY <1>8, <1>9, <2>3, <3>1
      <3>3. k \in 1..n /\ session.turns[k].op = o
        BY <1>9, <3>1, <3>2
      <3> QED BY <1>9, <3>3 DEF Committed
    <2> QED BY <2>1, <2>2, <2>3
  <1>15. ASSUME NEW j \in 1..(n + 1), NEW k \in 1..(n + 1), turns[j].op = turns[k].op
         PROVE  j = k
    <2>1. \A i \in 1..n : turns[i].op = session.turns[i].op /\ turns[i].op # r
      BY <1>5, <1>9 DEF Committed
    <2>2. turns[n + 1].op = r
      BY <1>8, <1>9
    <2>3. CASE j = n + 1 \/ k = n + 1
      BY <1>15, <2>1, <2>2, <2>3
    <2>4. CASE j # n + 1 /\ k # n + 1
      <3>1. j \in 1..n /\ k \in 1..n
        BY <2>4
      <3>2. session.turns[j].op = session.turns[k].op
        BY <1>15, <2>1, <3>1
      <3> QED BY <1>2, <1>9, <3>1, <3>2 DEF SessionHolds, ConversationIsTurns
    <2> QED BY <2>3, <2>4
  <1>16. ConversationIsTurns'
    <2>1. \A o \in Ops : Committed(o)' => HasResult(o)'
      BY <1>2, <1>5, <1>13, <1>14 DEF SessionHolds, ConversationIsTurns
    <2>2. session'.msgs = [k \in DOMAIN session'.turns |-> session'.turns[k].op]
      BY <1>10, <1>11
    <2>3. \A j, k \in DOMAIN session'.turns :
             session'.turns[j].op = session'.turns[k].op => j = k
      BY <1>9, <1>11, <1>15
    <2> QED BY <2>1, <2>2, <2>3 DEF ConversationIsTurns
  <1>17. SessionHolds'
    <2>1. ASSUME NEW o \in Ops PROVE session'.pending = o \/ Committed(o)' \/ Unborn(o)'
      <3>1. o # r => (Committed(o) \/ Unborn(o))
        BY <1>2, <1>4 DEF SessionHolds
      <3>2. o # r => (Unborn(o)' <=> Unborn(o))
        BY <1>4, <1>13 DEF Unborn, At
      <3> QED BY <1>14, <3>1, <3>2
    <2>2. \A o \in Ops : adm'[o].via # "session"
      BY <1>2, <1>4, <1>13, IdleTypes DEF SessionHolds
    <2>3. \A o \in Ops : ~At(o, "session")'
      <3>1. \A o \in Ops \ {r} : ~At(o, "session")
        BY <1>2, <1>4 DEF SessionHolds
      <3> QED BY <1>13, <3>1, IdleTypes DEF At
    <2> QED BY <1>11, <1>16, <2>1, <2>2, <2>3 DEF SessionHolds
  <1>18. Held(h, t, res, box, Idle, faults)
    <2>1. res.reason # "none"
      BY <1>1, <1>5 DEF HasResult
    <2> QED BY <1>2, <2>1, IdleTypes, OverHolds
  <1>19. InputsOnce(h, box, a) => (InputsOnce(h, box, Idle) /\ Advances(h, box, h, box))
    <2>1. Idle.pc \notin Looping /\ Idle.pc # "take"
      BY IdleTypes DEF Looping, Opening, Working, Closing
    <2> QED BY <2>1, StatusKept, OnceKept
  <1>20. Rises(t, t) /\ Idle \in Admissions
    BY SameRises, IdleTypes
  <1> QED BY <1>1, <1>2, <1>4, <1>11, <1>12, <1>17, <1>18, <1>19, <1>20, StepIsFine

(* Nothing changes of the files: the status of every input stays.          *)
LEMMA FilesKept ==
  ASSUME UNCHANGED <<history, inbox>>
  PROVE  StatusMap' = StatusMap
  <1>1. ASSUME NEW r, NEW i PROVE DeliveryStatus(r, i)' = DeliveryStatus(r, i)
    BY DEF DeliveryStatus, TimesTaken, Settled
  <1> QED BY <1>1 DEF StatusMap

(* The server stops: every admission in memory is lost.                    *)
LEMMA CrashFine ==
  ASSUME Inv, Crash
  PROVE  Fine
  <1>1. /\ faults < MaxFaults /\ faults' = faults + 1 /\ adm' = [r \in Ops |-> Idle]
        /\ UNCHANGED <<session, history, trace, results, inbox>>
    BY DEF Crash, files
  <1>2. Shapes /\ SessionHolds /\ faults \in Nat /\ faults \in 0..MaxFaults
    BY TurnsAssumption DEF Inv, Shapes
  <1>3. PICK g : g = faults'
    OBVIOUS
  <1>4. g \in 0..MaxFaults /\ g \in Nat /\ g >= faults /\ g >= faults + 1
    BY <1>1, <1>2, <1>3, TurnsAssumption
  <1>5. \A r \in Ops : adm'[r] = Idle
    BY <1>1
  <1>6. Idle.pc \notin Looping /\ Idle.pc # "take"
    BY IdleTypes DEF Looping, Opening, Working, Closing
  <1>7. Shapes'
    <2>1. adm' \in [Ops -> Admissions]
      BY <1>1, IdleTypes
    <2> QED BY <1>1, <1>2, <1>3, <1>4, <2>1 DEF Shapes
  <1>8. ASSUME NEW r \in Ops
        PROVE  /\ Held(history'[r], trace'[r], results'[r], inbox'[r], adm'[r], faults')
               /\ Rises(trace[r], trace'[r])
    <2>1. PICK h \in Histories, t \in Traces, res \in Results, box \in Boxes, a \in Admissions :
             /\ h = history[r] /\ t = trace[r] /\ res = results[r] /\ box = inbox[r]
             /\ a = adm[r]
      BY RunIs
    <2>2. Held(h, t, res, box, a, faults)
      BY <2>1, RunIs
    <2>3. Held(h, t, res, box, Idle, g)
      BY <1>2, <1>4, <2>2, IdleTypes, OverHolds
    <2>4. /\ history'[r] = h /\ trace'[r] = t /\ results'[r] = res /\ inbox'[r] = box
          /\ adm'[r] = Idle /\ trace[r] = t
      BY <1>1, <1>5, <2>1
    <2> QED BY <1>3, <2>3, <2>4, SameRises
  <1>9. RunsHold' /\ EventsRise
    BY <1>8 DEF RunsHold, EventsRise
  <1>10. /\ \A o \in Ops : Committed(o)' <=> Committed(o)
         /\ \A o \in Ops : HasResult(o)' <=> HasResult(o)
    BY <1>1 DEF Committed, HasResult
  <1>11. SessionHolds'
    <2>1. ConversationIsTurns'
      BY <1>1, <1>2, <1>10 DEF SessionHolds, ConversationIsTurns
    <2>2. ASSUME session'.pending # NoOp
          PROVE  ~Committed(session.pending)' /\ Builds(session.pending)'
      <3>1. PICK o \in Ops : o = session.pending
        BY <1>1, <1>2, <2>2 DEF Shapes
      <3>2. session'.pending = o /\ ~Committed(o) /\ Builds(o)
        BY <1>1, <1>2, <2>2, <3>1 DEF SessionHolds
      <3>3. ~Committed(o)' /\ Builds(o)'
        BY <1>1, <1>5, <1>6, <1>10, <3>2 DEF Builds, HasResult
      <3> QED BY <3>2, <3>3
    <2>3. ASSUME NEW o \in Ops PROVE session'.pending = o \/ Committed(o)' \/ Unborn(o)'
      <3>1. Unborn(o) => Unborn(o)'
        BY <1>1, <1>5, <1>10, IdleTypes DEF Unborn, At
      <3> QED BY <1>1, <1>2, <1>10, <3>1 DEF SessionHolds
    <2>4. \A o \in Ops : adm'[o].via # "session" /\ ~At(o, "session")'
      BY <1>5, IdleTypes DEF At
    <2> QED BY <2>1, <2>2, <2>3, <2>4 DEF SessionHolds
  <1>12. ASSUME TakenOnce PROVE TakenOnce' /\ Moves
    <2>1. \A r \in Ops : InputsOnce(history'[r], inbox'[r], adm'[r])
      BY <1>1, <1>5, <1>6, <1>12, OnceKept DEF TakenOnce
    <2>2. TakenOnce'
      BY <2>1 DEF TakenOnce
    <2> QED BY <1>1, <2>2, FilesKept DEF Moves
  <1> QED BY <1>7, <1>9, <1>11, <1>12 DEF Fine, Inv

(* Nothing happens.                                                        *)
LEMMA StutterFine ==
  ASSUME Inv, UNCHANGED vars
  PROVE  Fine
  <1>1. UNCHANGED <<session, history, trace, results, inbox, adm, faults>>
    BY DEF vars
  <1>2. Shapes' /\ RunsHold'
    BY <1>1 DEF Inv, Shapes, RunsHold
  <1>3. SessionHolds'
    BY <1>1 DEF Inv, SessionHolds, ConversationIsTurns, Committed, HasResult, Builds, Unborn, At
  <1>4. EventsRise
    BY <1>1, SameRises DEF EventsRise, Inv, Shapes
  <1>5. TakenOnce => TakenOnce'
    BY <1>1 DEF TakenOnce
  <1> QED BY <1>1, <1>2, <1>3, <1>4, <1>5, FilesKept DEF Fine, Inv, Moves

-----------------------------------------------------------------------------
(* The replay of events, one at a time.                                    *)

(* A set of numbers that has an element has a least one: what an induction *)
(* over the length of a sequence comes down to.                            *)
LEMMA Least ==
  ASSUME NEW T, T \subseteq Nat, T # {}
  PROVE  \E n \in T : \A m \in T : n <= m
  <1> DEFINE R == {z \in Nat \X Nat : z[1] < z[2]}
  <1>1. OpToRel(<, Nat) = R
    BY DEF OpToRel
  <1>2. IsWellFoundedOn(R, Nat)
    BY <1>1, NatLessThanWellFounded
  <1> HIDE DEF R
  <1>3. PICK n \in T : \A m \in T : ~(<<m, n>> \in R)
    BY <1>2, WFMin
  <1>4. \A m \in T : n <= m
    <2> SUFFICES ASSUME NEW m \in T, ~(n <= m) PROVE FALSE
      OBVIOUS
    <2>1. m \in Nat /\ n \in Nat /\ m < n
      OBVIOUS
    <2>2. <<m, n>> \in R
      BY <2>1 DEF R
    <2> QED BY <1>3, <2>2
  <1> QED BY <1>4

(* The summaries of some events exist and are what the recursion says.     *)
LEMMA SummariesUnfold ==
  ASSUME NEW s, NEW len \in Nat, len = Len(s)
  PROVE  /\ Summaries(s)[0] = ReplayStart
         /\ \A k \in 1..len : Summaries(s)[k] = ReplayEvent(Summaries(s)[k - 1], s[k])
  <1> DEFINE Step(f, k) == IF k = 0 THEN ReplayStart ELSE ReplayEvent(f[k - 1], s[k])
             Solves(f, n) == f = [k \in 0..n |-> Step(f, k)]
             T == {n \in Nat : n <= len /\ ~\E f : Solves(f, n)}
  <1>1. T = {}
    <2> SUFFICES ASSUME T # {} PROVE FALSE
      OBVIOUS
    <2>1. T \subseteq Nat
      OBVIOUS
    <2> HIDE DEF T
    <2>2. PICK n \in T : \A m \in T : n <= m
      BY <2>1, Least
    <2>3. n \in Nat /\ n <= len /\ ~\E f : Solves(f, n)
      BY DEF T
    <2>4. n # 0
      <3>1. SUFFICES ASSUME n = 0 PROVE Solves([k \in 0..0 |-> ReplayStart], n)
        BY <2>3
      <3> QED BY <3>1
    <2>5. n - 1 \in Nat /\ n - 1 <= len /\ n - 1 \notin T
      BY <2>2, <2>3, <2>4
    <2>6. PICK g : Solves(g, n - 1)
      BY <2>5 DEF T
    <2> DEFINE f == [k \in 0..n |-> IF k = n THEN ReplayEvent(g[n - 1], s[n]) ELSE g[k]]
    <2>7. \A k \in 0..n : f[k] = Step(f, k)
      <3> SUFFICES ASSUME NEW k \in 0..n PROVE f[k] = Step(f, k)
        OBVIOUS
      <3>1. CASE k = n
        <4>1. f[k - 1] = g[n - 1]
          BY <2>3, <2>4, <3>1
        <4> QED BY <2>4, <3>1, <4>1
      <3>2. CASE k # n
        <4>1. k \in 0..(n - 1) /\ f[k] = g[k]
          BY <2>3, <3>2
        <4>2. g[k] = Step(g, k)
          BY <2>6, <4>1
        <4>3. k # 0 => f[k - 1] = g[k - 1]
          BY <2>3, <4>1
        <4> QED BY <4>1, <4>2, <4>3
      <3> QED BY <3>1, <3>2
    <2>8. Solves(f, n)
      <3> HIDE DEF Step
      <3> QED BY <2>7
    <2> QED BY <2>3, <2>8
  <1>2. PICK g : Solves(g, len)
    BY <1>1
  <1>3. Solves(Summaries(s), len)
    <2>1. Summaries(s) = CHOOSE f : Solves(f, len)
      BY DEF Summaries
    <2> HIDE DEF Solves
    <2> QED BY <1>2, <2>1
  <1>4. Summaries(s) = [k \in 0..len |-> Step(Summaries(s), k)]
    BY <1>3
  <1>5. \A k \in 0..len : Summaries(s)[k] = Step(Summaries(s), k)
    <2> HIDE DEF Step
    <2> QED BY <1>4
  <1> QED BY <1>5

(* One more event is replayed after the others.                            *)
LEMMA SummaryAppend ==
  ASSUME NEW S, NEW s \in Seq(S), NEW x \in S
  PROVE  Summary(Append(s, x)) = ReplayEvent(Summary(s), x)
  <1> DEFINE u == Append(s, x)
             T == {k \in Nat : k <= Len(s) /\ Summaries(u)[k] # Summaries(s)[k]}
  <1>1. /\ Len(s) \in Nat /\ Len(u) = Len(s) + 1 /\ u[Len(s) + 1] = x
        /\ \A k \in 1..Len(s) : u[k] = s[k]
    BY AppendProperties, LenProperties
  <1>2. /\ Summaries(s)[0] = ReplayStart
        /\ \A k \in 1..Len(s) : Summaries(s)[k] = ReplayEvent(Summaries(s)[k - 1], s[k])
    BY <1>1, SummariesUnfold
  <1>3. /\ Summaries(u)[0] = ReplayStart
        /\ \A k \in 1..(Len(s) + 1) : Summaries(u)[k] = ReplayEvent(Summaries(u)[k - 1], u[k])
    <2>1. PICK m \in Nat : m = Len(s) + 1
      BY <1>1
    <2>2. m = Len(u)
      BY <1>1, <2>1
    <2> HIDE DEF u
    <2>3. /\ Summaries(u)[0] = ReplayStart
          /\ \A k \in 1..m : Summaries(u)[k] = ReplayEvent(Summaries(u)[k - 1], u[k])
      BY <2>2, SummariesUnfold
    <2> QED BY <2>1, <2>3
  <1> HIDE DEF u
  <1>4. T = {}
    <2> SUFFICES ASSUME T # {} PROVE FALSE
      OBVIOUS
    <2>1. T \subseteq Nat
      OBVIOUS
    <2> HIDE DEF T
    <2>2. PICK k \in T : \A m \in T : k <= m
      BY <2>1, Least
    <2>3. k \in Nat /\ k <= Len(s) /\ Summaries(u)[k] # Summaries(s)[k]
      BY DEF T
    <2>4. k # 0
      BY <1>2, <1>3, <2>3
    <2>5. k - 1 \in Nat /\ k - 1 <= Len(s) /\ k - 1 \notin T
      BY <1>1, <2>2, <2>3, <2>4
    <2>6. Summaries(u)[k - 1] = Summaries(s)[k - 1]
      BY <2>5 DEF T
    <2>7. k \in 1..Len(s) /\ k \in 1..(Len(s) + 1) /\ u[k] = s[k]
      BY <1>1, <2>3, <2>4
    <2> QED BY <1>2, <1>3, <2>3, <2>6, <2>7
  <1>5. Summaries(u)[Len(s)] = Summaries(s)[Len(s)]
    BY <1>1, <1>4
  <1>6. Summaries(u)[Len(s) + 1] = ReplayEvent(Summaries(u)[Len(s)], x)
    <2>1. Len(s) + 1 \in 1..(Len(s) + 1) /\ (Len(s) + 1) - 1 = Len(s)
      BY <1>1
    <2> QED BY <1>1, <1>3, <2>1
  <1> QED BY <1>1, <1>5, <1>6 DEF Summary, u

(* No event has been replayed at first.                                    *)
LEMMA SummaryStart == Summary(<<>>) = ReplayStart
  <1>1. Len(<<>>) = 0 /\ 0 \in Nat
    OBVIOUS
  <1>2. Summaries(<<>>)[0] = ReplayStart
    BY <1>1, SummariesUnfold
  <1> QED BY <1>1, <1>2 DEF Summary

(* Events that are emitted behind others are replayed behind them.         *)
LEMMA SummaryEmitted ==
  ASSUME NEW s \in Seq(Events)
  PROVE  /\ Summary(s \o <<>>) = Summary(s)
         /\ \A x \in Events : Summary(s \o <<x>>) = ReplayEvent(Summary(s), x)
         /\ \A x, y \in Events :
               Summary(s \o <<x, y>>) = ReplayEvent(ReplayEvent(Summary(s), x), y)
         /\ \A x, y, z \in Events :
               Summary(s \o <<x, y, z>>)
                  = ReplayEvent(ReplayEvent(ReplayEvent(Summary(s), x), y), z)
  <1>1. s \o <<>> = s
    BY ConcatEmptySeq
  <1>2. ASSUME NEW x \in Events PROVE Summary(s \o <<x>>) = ReplayEvent(Summary(s), x)
    <2>1. PICK u \in Seq(Events) : u = Append(s, x)
      BY AppendProperties
    <2>2. s \o <<x>> = u
      BY <2>1
    <2> QED BY <2>1, <2>2, SummaryAppend
  <1>3. ASSUME NEW x \in Events, NEW y \in Events
        PROVE  Summary(s \o <<x, y>>) = ReplayEvent(ReplayEvent(Summary(s), x), y)
    <2>1. PICK u \in Seq(Events) : u = Append(s, x)
      BY AppendProperties
    <2>2. PICK v \in Seq(Events) : v = Append(u, y)
      BY AppendProperties
    <2>3. s \o <<x, y>> = v
      BY <2>1, <2>2
    <2>4. Summary(u) = ReplayEvent(Summary(s), x)
      BY <2>1, SummaryAppend
    <2>5. Summary(v) = ReplayEvent(Summary(u), y)
      BY <2>2, SummaryAppend
    <2> QED BY <2>3, <2>4, <2>5
  <1>4. ASSUME NEW x \in Events, NEW y \in Events, NEW z \in Events
        PROVE  Summary(s \o <<x, y, z>>)
                  = ReplayEvent(ReplayEvent(ReplayEvent(Summary(s), x), y), z)
    <2>1. PICK v \in Seq(Events) : v = s \o <<x, y>>
      <3>1. <<x, y>> \in Seq(Events)
        OBVIOUS
      <3> QED BY <3>1, ConcatProperties
    <2>2. PICK w \in Seq(Events) : w = Append(v, z)
      BY AppendProperties
    <2>3. s \o <<x, y, z>> = w
      BY <2>1, <2>2
    <2>4. Summary(w) = ReplayEvent(Summary(v), z)
      BY <2>2, SummaryAppend
    <2>5. Summary(v) = ReplayEvent(ReplayEvent(Summary(s), x), y)
      BY <1>3, <2>1
    <2> QED BY <2>3, <2>4, <2>5
  <1> QED BY <1>1, <1>2, <1>3, <1>4

(* A summary that accepted every event so far, none numbered above n.      *)
Says(s, n, rev, claims, acked, open) ==
    /\ s.ok /\ s.seq \in Nat /\ s.seq <= n
    /\ s.rev = rev /\ s.claims = claims /\ s.acked = acked /\ s.open = open

(* What is in an event.                                                    *)
LEMMA EventIs ==
  ASSUME NEW m, NEW v, NEW c, NEW kind
  PROVE  /\ Event(kind, m).kind = kind /\ Event(kind, m).seq = m
         /\ RevisionEvent(m, v).kind = "committed" /\ RevisionEvent(m, v).seq = m
         /\ RevisionEvent(m, v).rev = v
         /\ ClaimEvent(kind, m, c, v).kind = kind /\ ClaimEvent(kind, m, c, v).seq = m
         /\ ClaimEvent(kind, m, c, v).id = c /\ ClaimEvent(kind, m, c, v).rev = v
  <1>1. PICK e : e = Event(kind, m)
    OBVIOUS
  <1>2. PICK g : g = Event("committed", m)
    OBVIOUS
  <1>3. /\ e = [kind |-> kind, seq |-> m, rev |-> 0, id |-> NoClaim]
        /\ g = [kind |-> "committed", seq |-> m, rev |-> 0, id |-> NoClaim]
    BY <1>1, <1>2 DEF Event
  <1>4. e.kind = kind /\ e.seq = m
    BY <1>3
  <1>5. [g EXCEPT !.rev = v].kind = "committed" /\ [g EXCEPT !.rev = v].seq = m
        /\ [g EXCEPT !.rev = v].rev = v
    BY <1>3
  <1>6. /\ [e EXCEPT !.id = c, !.rev = v].kind = kind /\ [e EXCEPT !.id = c, !.rev = v].seq = m
        /\ [e EXCEPT !.id = c, !.rev = v].id = c /\ [e EXCEPT !.id = c, !.rev = v].rev = v
    BY <1>3
  <1> QED BY <1>1, <1>2, <1>4, <1>5, <1>6 DEF RevisionEvent, ClaimEvent

(* What an event e does to a summary s besides the check.                  *)
Adds(s, e, u) ==
    /\ u.seq = e.seq
    /\ u.rev = IF e.kind = "committed" THEN e.rev ELSE s.rev
    /\ u.claims = IF e.kind = "claimed" THEN s.claims \cup {e.id} ELSE s.claims
    /\ u.acked = IF e.kind = "acked" THEN s.acked \cup {e.id} ELSE s.acked
    /\ e.kind = "call" => u.open = s.open \cup {e.id}
    /\ e.kind = "observation" => u.open = s.open \ {e.id}
    /\ e.kind \notin {"call", "observation"} => u.open = s.open

(* The summary after an event that may follow.                             *)
LEMMA ReplayIs ==
  ASSUME NEW s, NEW e, s.ok, MayFollow(s, e), NEW u, u = ReplayEvent(s, e)
  PROVE  u.ok /\ Adds(s, e, u)
  <1>1. PICK ok : ok = (s.ok /\ MayFollow(s, e))
    OBVIOUS
  <1>2. ok
    BY <1>1
  <1>3. PICK open : open = CASE e.kind = "call" -> s.open \cup {e.id}
                             [] e.kind = "observation" -> s.open \ {e.id}
                             [] OTHER -> s.open
    OBVIOUS
  <1>4. /\ e.kind = "call" => open = s.open \cup {e.id}
        /\ e.kind = "observation" => open = s.open \ {e.id}
        /\ e.kind \notin {"call", "observation"} => open = s.open
    BY <1>3
  <1>5. u = [ok |-> ok, seq |-> e.seq,
             rev |-> IF e.kind = "committed" THEN e.rev ELSE s.rev,
             claims |-> IF e.kind = "claimed" THEN s.claims \cup {e.id} ELSE s.claims,
             acked |-> IF e.kind = "acked" THEN s.acked \cup {e.id} ELSE s.acked,
             open |-> open]
    BY <1>1, <1>3, Zenon DEF ReplayEvent
  <1>6. u.ok
    BY <1>2, <1>5
  <1>7. Adds(s, e, u)
    BY <1>4, <1>5 DEF Adds
  <1> QED BY <1>6, <1>7

(* What each kind of event adds to a summary that lets it follow.          *)
LEMMA PlainAdds ==
  ASSUME NEW s, NEW n \in Nat, NEW v, NEW C, NEW A, NEW O, Says(s, n, v, C, A, O),
         NEW m \in Nat, m > n
  PROVE  Says(ReplayEvent(s, Event("step", m)), m, v, C, A, O)
  <1>1. PICK e : e = Event("step", m)
    OBVIOUS
  <1>2. e.kind = "step" /\ e.seq = m
    BY <1>1, EventIs
  <1>3. MayFollow(s, e)
    BY <1>2 DEF MayFollow, Says
  <1>4. PICK u : u = ReplayEvent(s, e)
    OBVIOUS
  <1>5. s.ok
    BY DEF Says
  <1>6. u.ok /\ Adds(s, e, u)
    BY <1>3, <1>4, <1>5, ReplayIs
  <1>7. Says(u, m, v, C, A, O)
    BY <1>2, <1>6 DEF Says, Adds
  <1> QED BY <1>1, <1>4, <1>7

(* Replaying a committed revision.                                         *)
LEMMA CommittedAdds ==
  ASSUME NEW s, NEW n \in Nat, NEW v \in Nat, NEW C, NEW A, NEW O, Says(s, n, v - 1, C, A, O),
         NEW m \in Nat, m > n
  PROVE  Says(ReplayEvent(s, RevisionEvent(m, v)), m, v, C, A, O)
  <1>1. PICK e : e = RevisionEvent(m, v)
    OBVIOUS
  <1>2. e.kind = "committed" /\ e.seq = m /\ e.rev = v
    BY <1>1, EventIs
  <1>3. MayFollow(s, e)
    BY <1>2 DEF MayFollow, Says
  <1>4. PICK u : u = ReplayEvent(s, e)
    OBVIOUS
  <1>5. s.ok
    BY DEF Says
  <1>6. u.ok /\ Adds(s, e, u)
    BY <1>3, <1>4, <1>5, ReplayIs
  <1>7. Says(u, m, v, C, A, O)
    BY <1>2, <1>6 DEF Says, Adds
  <1> QED BY <1>1, <1>4, <1>7

(* Replaying the claim of an input.                                        *)
LEMMA ClaimedAdds ==
  ASSUME NEW s, NEW n \in Nat, NEW v, NEW C, NEW A, NEW O, Says(s, n, v, C, A, O),
         NEW m \in Nat, m > n, NEW c, c \notin C
  PROVE  Says(ReplayEvent(s, ClaimEvent("claimed", m, c, 0)), m, v, C \cup {c}, A, O)
  <1>1. PICK e : e = ClaimEvent("claimed", m, c, 0)
    OBVIOUS
  <1>2. e.kind = "claimed" /\ e.seq = m /\ e.id = c
    BY <1>1, EventIs
  <1>3. MayFollow(s, e)
    BY <1>2 DEF MayFollow, Says
  <1>4. PICK u : u = ReplayEvent(s, e)
    OBVIOUS
  <1>5. s.ok
    BY DEF Says
  <1>6. u.ok /\ Adds(s, e, u)
    BY <1>3, <1>4, <1>5, ReplayIs
  <1>7. Says(u, m, v, C \cup {c}, A, O)
    BY <1>2, <1>6 DEF Says, Adds
  <1> QED BY <1>1, <1>4, <1>7

(* Replaying the acknowledgement of a claim.                               *)
LEMMA AckedAdds ==
  ASSUME NEW s, NEW n \in Nat, NEW v \in Nat, NEW C, NEW A, NEW O, Says(s, n, v, C, A, O),
         NEW m \in Nat, m > n, NEW c, c \in C \ A, v >= 1
  PROVE  Says(ReplayEvent(s, ClaimEvent("acked", m, c, v)), m, v, C, A \cup {c}, O)
  <1>1. PICK e : e = ClaimEvent("acked", m, c, v)
    OBVIOUS
  <1>2. e.kind = "acked" /\ e.seq = m /\ e.id = c /\ e.rev = v
    BY <1>1, EventIs
  <1>3. MayFollow(s, e)
    BY <1>2 DEF MayFollow, Says
  <1>4. PICK u : u = ReplayEvent(s, e)
    OBVIOUS
  <1>5. s.ok
    BY DEF Says
  <1>6. u.ok /\ Adds(s, e, u)
    BY <1>3, <1>4, <1>5, ReplayIs
  <1>7. Says(u, m, v, C, A \cup {c}, O)
    BY <1>2, <1>6 DEF Says, Adds
  <1> QED BY <1>1, <1>4, <1>7

(* Replaying the call of an operation.                                     *)
LEMMA CallAdds ==
  ASSUME NEW s, NEW n \in Nat, NEW v, NEW C, NEW A, NEW O, Says(s, n, v, C, A, O),
         NEW m \in Nat, m > n, NEW c
  PROVE  Says(ReplayEvent(s, ClaimEvent("call", m, c, 0)), m, v, C, A, O \cup {c})
  <1>1. PICK e : e = ClaimEvent("call", m, c, 0)
    OBVIOUS
  <1>2. e.kind = "call" /\ e.seq = m /\ e.id = c
    BY <1>1, EventIs
  <1>3. MayFollow(s, e)
    BY <1>2 DEF MayFollow, Says
  <1>4. PICK u : u = ReplayEvent(s, e)
    OBVIOUS
  <1>5. s.ok
    BY DEF Says
  <1>6. u.ok /\ Adds(s, e, u)
    BY <1>3, <1>4, <1>5, ReplayIs
  <1>7. Says(u, m, v, C, A, O \cup {c})
    BY <1>2, <1>6 DEF Says, Adds
  <1> QED BY <1>1, <1>4, <1>7

(* Replaying the result of the call that is open.                          *)
LEMMA ObservationAdds ==
  ASSUME NEW s, NEW n \in Nat, NEW v, NEW C, NEW A, NEW c, Says(s, n, v, C, A, {c}),
         NEW m \in Nat, m > n
  PROVE  Says(ReplayEvent(s, ClaimEvent("observation", m, c, 0)), m, v, C, A, {})
  <1>1. PICK e : e = ClaimEvent("observation", m, c, 0)
    OBVIOUS
  <1>2. e.kind = "observation" /\ e.seq = m /\ e.id = c
    BY <1>1, EventIs
  <1>3. MayFollow(s, e)
    BY <1>2 DEF MayFollow, Says
  <1>4. PICK u : u = ReplayEvent(s, e)
    OBVIOUS
  <1>5. s.ok
    BY DEF Says
  <1>6. u.ok /\ Adds(s, e, u)
    BY <1>3, <1>4, <1>5, ReplayIs
  <1>7. Says(u, m, v, C, A, {})
    BY <1>2, <1>6 DEF Says, Adds
  <1> QED BY <1>1, <1>4, <1>7

-----------------------------------------------------------------------------
(* The replay of a run that needed one admission.                          *)

(* Where the event of the last commit is not in the trace yet.             *)
Unreported == {"admitted", "taken", "shrunk", "reflected", "answered", "observed", "ended"}
Marked == Unreported \cup {"take", "ack", "execute"}

(* The summary s of the trace is as far as the admission a.                *)
Along(s, a) ==
    /\ Says(s, a.seq, IF a.pc \in Unreported THEN a.rev - 1 ELSE a.rev, s.claims, s.acked,
            IF a.pc = "execute" THEN {<<a.n, a.turn>>} ELSE {})
    /\ \A c \in s.claims : c[2] \in Nat /\ c[2] <= a.turn
    /\ s.acked \subseteq s.claims
    /\ a.pc \in {"take", "taken", "ack"} => a.claim \in s.claims \ s.acked

(* In its first admission a run has no result and its trace is replayed as *)
(* far as the admission is; a result of a first admission has its replay.  *)
Told(h, t, res, a) ==
    /\ h.rev >= 1 => h.adm >= 1
    /\ a.pc \in Looping \ (Opening \cup {"terminal"}) => h.adm = a.n
    /\ a.pc \in Looping /\ a.n = 1 => res.reason = "none" /\ Along(Summary(t.events), a)
    /\ a.pc = "result" => t.result = ResultRecord(a.reason, a.rev)
    /\ res.reason # "none" /\ h.adm = 1 => Replay(t)

Replayed == \A r \in Ops : Told(history[r], trace[r], results[r], adm[r])

(* The admission goes on, maybe in a later turn.                           *)
Carried(a, b) == b.n = a.n /\ b.rev = a.rev /\ b.turn >= a.turn

(* A summary that says what it should is along with the admission.         *)
LEMMA SaysAlong ==
  ASSUME NEW u, NEW b, NEW C, NEW A, Says(u, b.seq, b.rev, C, A, {}),
         \A c \in C : c[2] \in Nat /\ c[2] <= b.turn, A \subseteq C,
         b.pc \notin Unreported, b.pc # "execute",
         b.pc \in {"take", "ack"} => b.claim \in C \ A
  PROVE  Along(u, b)
  <1>1. u.claims = C /\ u.acked = A
    BY DEF Says
  <1>2. b.pc # "taken"
    BY DEF Unreported
  <1> QED BY <1>1, <1>2 DEF Along

(* What the events say at each point of an admission.                      *)
LEMMA AlongSays ==
  ASSUME NEW s, NEW a, NEW b, Along(s, a), Carried(a, b), a.turn \in Nat, b.turn \in Nat
  PROVE  /\ a.pc \in Unreported => Says(s, a.seq, a.rev - 1, s.claims, s.acked, {})
         /\ a.pc \notin Unreported \cup {"execute"}
               => Says(s, a.seq, a.rev, s.claims, s.acked, {})
         /\ a.pc = "execute" => Says(s, a.seq, a.rev, s.claims, s.acked, {<<a.n, a.turn>>})
         /\ \A c \in s.claims : c[2] \in Nat /\ c[2] <= b.turn
         /\ s.acked \subseteq s.claims
         /\ a.pc \in {"take", "taken", "ack"} => a.claim \in s.claims \ s.acked
  <1>1. "execute" \notin Unreported
    BY DEF Unreported
  <1>2. \A c \in s.claims : c[2] \in Nat /\ c[2] <= b.turn
    <2> SUFFICES ASSUME NEW c \in s.claims PROVE c[2] \in Nat /\ c[2] <= b.turn
      OBVIOUS
    <2>1. c[2] \in Nat /\ c[2] <= a.turn
      BY DEF Along
    <2> QED BY <2>1 DEF Carried
  <1> QED BY <1>1, <1>2 DEF Along

(* The lists of events that the loop appends, but for those that draw,     *)
(* settle, or answer something.                                            *)
LEMMA ListsAlong ==
  ASSUME NEW t \in Traces, NEW a \in Admissions, NEW b \in Admissions, Carried(a, b),
         Along(Summary(t.events), a)
  PROVE  /\ /\ a.pc \notin Unreported \cup {"execute"} /\ b.pc \notin Marked
            /\ b.seq = a.seq
            => Along(Summary(t.events \o <<>>), b)
         /\ /\ a.pc \notin Unreported \cup {"execute"} /\ b.pc \notin Marked
            /\ b.seq = a.seq + 1
            => Along(Summary(t.events \o <<Plain(a, 1)>>), b)
         /\ /\ a.pc \in Unreported /\ b.pc \notin Marked /\ b.seq = a.seq + 1
            => Along(Summary(t.events \o <<CommittedEvent(a)>>), b)
         /\ /\ a.pc = "taken" /\ b.pc = "ack" /\ b.claim = a.claim /\ b.seq = a.seq + 1
            => Along(Summary(t.events \o <<CommittedEvent(a)>>), b)
         /\ /\ a.pc \in Unreported /\ b.pc \notin Marked /\ b.seq = a.seq + 2
            => Along(Summary(t.events \o <<CommittedEvent(a), Plain(a, 2)>>), b)
         /\ /\ a.pc \in Unreported /\ b.pc \notin Marked /\ b.seq = a.seq + 3
            => Along(Summary(t.events \o <<CommittedEvent(a), Plain(a, 2), Plain(a, 3)>>), b)
  <1>1. /\ a.seq \in Nat /\ b.seq \in Nat /\ a.rev \in Nat /\ a.turn \in Nat /\ b.turn \in Nat
        /\ b.rev = a.rev
    BY TurnsAssumption DEF Admissions, Carried
  <1>2. PICK s, C, A : s = Summary(t.events) /\ C = s.claims /\ A = s.acked
    OBVIOUS
  <1>3. /\ a.pc \in Unreported => Says(s, a.seq, a.rev - 1, C, A, {})
        /\ a.pc \notin Unreported \cup {"execute"} => Says(s, a.seq, a.rev, C, A, {})
        /\ \A c \in C : c[2] \in Nat /\ c[2] <= b.turn
        /\ A \subseteq C
        /\ a.pc = "taken" => a.claim \in C \ A
    BY <1>1, <1>2, AlongSays
  <1>4. PICK m1, m2, m3 \in Nat : m1 = a.seq + 1 /\ m2 = a.seq + 2 /\ m3 = a.seq + 3
    BY <1>1
  <1>5. m1 > a.seq /\ m2 > m1 /\ m3 > m2
    BY <1>1, <1>4
  <1>6. PICK x, y, z, p :
           /\ x = RevisionEvent(m1, a.rev) /\ y = Event("step", m2) /\ z = Event("step", m3)
           /\ p = Event("step", m1)
    OBVIOUS
  <1>7. /\ x = CommittedEvent(a) /\ y = Plain(a, 2) /\ z = Plain(a, 3) /\ p = Plain(a, 1)
    BY <1>4, <1>6 DEF CommittedEvent, Plain
  <1>8. /\ x \in Events /\ y \in Events /\ z \in Events /\ p \in Events
    <2>1. a.claim \in ClaimIds
      BY DEF Admissions
    <2> QED BY <1>1, <1>6, <2>1, EventTypes
  <1>9. PICK u, v, w, q : /\ u = ReplayEvent(s, x) /\ v = ReplayEvent(u, y)
                          /\ w = ReplayEvent(v, z) /\ q = ReplayEvent(s, p)
    OBVIOUS
  <1>10. t.events \in Seq(Events)
    BY LastType
  <1>11. /\ Summary(t.events \o <<>>) = s
         /\ Summary(t.events \o <<x>>) = u
         /\ Summary(t.events \o <<x, y>>) = v
         /\ Summary(t.events \o <<x, y, z>>) = w
         /\ Summary(t.events \o <<p>>) = q
    BY <1>2, <1>8, <1>9, <1>10, SummaryEmitted
  <1>12. ASSUME a.pc \in Unreported
         PROVE  /\ Says(u, m1, a.rev, C, A, {}) /\ Says(v, m2, a.rev, C, A, {})
                /\ Says(w, m3, a.rev, C, A, {})
    <2>1. Says(s, a.seq, a.rev - 1, C, A, {})
      BY <1>3, <1>12
    <2>2. Says(u, m1, a.rev, C, A, {})
      BY <1>1, <1>5, <1>6, <1>9, <2>1, CommittedAdds
    <2>3. Says(v, m2, a.rev, C, A, {})
      BY <1>5, <1>6, <1>9, <2>2, PlainAdds
    <2>4. Says(w, m3, a.rev, C, A, {})
      BY <1>5, <1>6, <1>9, <2>3, PlainAdds
    <2> QED BY <2>2, <2>3, <2>4
  <1>13. ASSUME a.pc \notin Unreported \cup {"execute"}
         PROVE  Says(q, m1, a.rev, C, A, {})
    <2>1. Says(s, a.seq, a.rev, C, A, {})
      BY <1>3, <1>13
    <2> QED BY <1>1, <1>5, <1>6, <1>9, <2>1, PlainAdds
  <1>14. ASSUME NEW g, b.pc \notin Marked, Says(g, b.seq, a.rev, C, A, {})
         PROVE  Along(g, b)
    <2>1. /\ b.pc \notin Unreported /\ b.pc # "execute" /\ b.pc \notin {"take", "ack"}
      BY <1>14 DEF Marked
    <2> QED BY <1>1, <1>3, <1>14, <2>1, SaysAlong
  <1>15. ASSUME a.pc = "taken", b.pc = "ack", b.claim = a.claim, b.seq = a.seq + 1
         PROVE  Along(u, b)
    <2>1. a.pc \in Unreported /\ b.pc \notin Unreported /\ b.pc # "execute"
      BY <1>15 DEF Unreported
    <2>2. Says(u, b.seq, b.rev, C, A, {}) /\ b.claim \in C \ A
      BY <1>1, <1>3, <1>4, <1>12, <1>15, <2>1
    <2> QED BY <1>3, <1>15, <2>1, <2>2, SaysAlong
  <1>16. /\ a.pc \notin Unreported \cup {"execute"} /\ b.pc \notin Marked /\ b.seq = a.seq
            => Along(s, b)
         /\ a.pc \notin Unreported \cup {"execute"} /\ b.pc \notin Marked /\ b.seq = a.seq + 1
            => Along(q, b)
    BY <1>3, <1>4, <1>13, <1>14
  <1>17. /\ a.pc \in Unreported /\ b.pc \notin Marked /\ b.seq = a.seq + 1 => Along(u, b)
         /\ a.pc \in Unreported /\ b.pc \notin Marked /\ b.seq = a.seq + 2 => Along(v, b)
         /\ a.pc \in Unreported /\ b.pc \notin Marked /\ b.seq = a.seq + 3 => Along(w, b)
    BY <1>4, <1>12, <1>14
  <1> QED BY <1>7, <1>11, <1>15, <1>16, <1>17

(* The events that draw and settle a claim.                                *)
LEMMA ClaimsAlong ==
  ASSUME NEW t \in Traces, NEW a \in Admissions, NEW b \in Admissions, Carried(a, b),
         Along(Summary(t.events), a)
  PROVE  /\ /\ a.pc = "turn" /\ b.pc = "take" /\ b.seq = a.seq + 2 /\ b.turn = a.turn + 1
            /\ b.claim = <<a.n, b.turn>>
            => Along(Summary(t.events \o <<Plain(a, 1),
                        ClaimEvent("claimed", a.seq + 2, b.claim, 0)>>), b)
         /\ /\ a.pc = "ack" /\ b.pc = "compact" /\ b.seq = a.seq + 1 /\ a.rev >= 1
            => Along(Summary(t.events \o <<ClaimEvent("acked", a.seq + 1, a.claim, a.rev)>>), b)
  <1>1. /\ a.seq \in Nat /\ b.seq \in Nat /\ a.rev \in Nat /\ a.turn \in Nat /\ b.turn \in Nat
        /\ b.rev = a.rev /\ a.claim \in ClaimIds /\ b.claim \in ClaimIds
    BY TurnsAssumption DEF Admissions, Carried
  <1>2. PICK s, C, A : s = Summary(t.events) /\ C = s.claims /\ A = s.acked
    OBVIOUS
  <1>3. /\ a.pc \notin Unreported \cup {"execute"} => Says(s, a.seq, a.rev, C, A, {})
        /\ \A c \in C : c[2] \in Nat /\ c[2] <= b.turn
        /\ A \subseteq C
        /\ a.pc = "ack" => a.claim \in C \ A
    BY <1>1, <1>2, AlongSays
  <1>4. \A c \in C : c[2] \in Nat /\ c[2] <= a.turn
    BY <1>2 DEF Along
  <1>5. PICK m1, m2 \in Nat : m1 = a.seq + 1 /\ m2 = a.seq + 2
    BY <1>1
  <1>6. m1 > a.seq /\ m2 > m1
    BY <1>1, <1>5
  <1>7. t.events \in Seq(Events)
    BY LastType
  <1>8. ASSUME a.pc = "turn", b.pc = "take", b.seq = a.seq + 2, b.turn = a.turn + 1,
               b.claim = <<a.n, b.turn>>
        PROVE  Along(Summary(t.events \o <<Plain(a, 1),
                        ClaimEvent("claimed", a.seq + 2, b.claim, 0)>>), b)
    <2>1. a.pc \notin Unreported \cup {"execute"} /\ b.pc \notin Unreported /\ b.pc # "execute"
      BY <1>8 DEF Unreported
    <2>2. PICK p, q : p = Event("step", m1) /\ q = ClaimEvent("claimed", m2, b.claim, 0)
      OBVIOUS
    <2>3. p = Plain(a, 1) /\ q = ClaimEvent("claimed", a.seq + 2, b.claim, 0)
      BY <1>5, <2>2 DEF Plain
    <2>4. p \in Events /\ q \in Events
      <3>1. "claimed" \in Kinds /\ 0 \in Nat
        BY DEF Kinds
      <3> QED BY <1>1, <2>2, <3>1, EventTypes
    <2>5. PICK u, v : u = ReplayEvent(s, p) /\ v = ReplayEvent(u, q)
      OBVIOUS
    <2>6. Summary(t.events \o <<p, q>>) = v
      BY <1>2, <1>7, <2>4, <2>5, SummaryEmitted
    <2>7. Says(s, a.seq, a.rev, C, A, {})
      BY <1>3, <2>1
    <2>8. Says(u, m1, a.rev, C, A, {})
      BY <1>1, <1>6, <2>2, <2>5, <2>7, PlainAdds
    <2>9. b.claim[2] = a.turn + 1
      BY <1>8
    <2>10. b.claim \notin C
      BY <1>1, <1>4, <2>9
    <2>11. Says(v, m2, a.rev, C \cup {b.claim}, A, {})
      BY <1>6, <2>2, <2>5, <2>8, <2>10, ClaimedAdds
    <2>12. \A c \in C \cup {b.claim} : c[2] \in Nat /\ c[2] <= b.turn
      BY <1>1, <1>3, <1>8, <2>9
    <2>13. b.claim \in (C \cup {b.claim}) \ A /\ A \subseteq C \cup {b.claim}
      BY <1>3, <2>10
    <2>14. Says(v, b.seq, b.rev, C \cup {b.claim}, A, {})
      BY <1>1, <1>5, <1>8, <2>11
    <2>15. Along(v, b)
      BY <2>1, <2>12, <2>13, <2>14, SaysAlong
    <2> QED BY <2>3, <2>6, <2>15
  <1>9. ASSUME a.pc = "ack", b.pc = "compact", b.seq = a.seq + 1, a.rev >= 1
        PROVE  Along(Summary(t.events \o <<ClaimEvent("acked", a.seq + 1, a.claim, a.rev)>>), b)
    <2>1. /\ a.pc \notin Unreported \cup {"execute"} /\ b.pc \notin Unreported
          /\ b.pc # "execute" /\ b.pc \notin {"take", "ack"}
      BY <1>9 DEF Unreported
    <2>2. PICK q : q = ClaimEvent("acked", m1, a.claim, a.rev)
      OBVIOUS
    <2>3. q \in Events
      <3>1. "acked" \in Kinds
        BY DEF Kinds
      <3> QED BY <1>1, <2>2, <3>1, EventTypes
    <2>4. PICK u : u = ReplayEvent(s, q)
      OBVIOUS
    <2>5. Summary(t.events \o <<q>>) = u
      BY <1>2, <1>7, <2>3, <2>4, SummaryEmitted
    <2>6. Says(s, a.seq, a.rev, C, A, {}) /\ a.claim \in C \ A
      BY <1>3, <1>9, <2>1
    <2>7. Says(u, m1, a.rev, C, A \cup {a.claim}, {})
      BY <1>1, <1>6, <1>9, <2>2, <2>4, <2>6, AckedAdds
    <2>8. A \cup {a.claim} \subseteq C
      BY <1>3, <2>6
    <2>9. Says(u, b.seq, b.rev, C, A \cup {a.claim}, {})
      BY <1>1, <1>5, <1>9, <2>7
    <2>10. Along(u, b)
      BY <1>3, <2>1, <2>8, <2>9, SaysAlong
    <2> QED BY <1>5, <2>2, <2>5, <2>10
  <1> QED BY <1>8, <1>9

(* The events of a batch of calls and of its observations.                 *)
LEMMA CallsAlong ==
  ASSUME NEW t \in Traces, NEW a \in Admissions, NEW b \in Admissions, Carried(a, b),
         b.turn = a.turn, Along(Summary(t.events), a)
  PROVE  /\ /\ a.pc = "answered" /\ b.pc = "execute" /\ b.seq = a.seq + 2
            => Along(Summary(t.events \o <<CommittedEvent(a),
                        ClaimEvent("call", a.seq + 2, <<a.n, a.turn>>, 0)>>), b)
         /\ /\ a.pc = "execute" /\ b.pc \notin Marked /\ b.seq = a.seq + 1
            => Along(Summary(t.events \o
                        <<ClaimEvent("observation", a.seq + 1, <<a.n, a.turn>>, 0)>>), b)
  <1>1. /\ a.seq \in Nat /\ b.seq \in Nat /\ a.rev \in Nat /\ a.turn \in Nat /\ b.turn \in Nat
        /\ a.n \in Nat /\ b.rev = a.rev /\ b.n = a.n
    BY TurnsAssumption DEF Admissions, Carried
  <1>2. PICK s, C, A, c : s = Summary(t.events) /\ C = s.claims /\ A = s.acked /\ c = <<a.n, a.turn>>
    OBVIOUS
  <1>3. /\ a.pc \in Unreported => Says(s, a.seq, a.rev - 1, C, A, {})
        /\ a.pc = "execute" => Says(s, a.seq, a.rev, C, A, {c})
        /\ \A d \in C : d[2] \in Nat /\ d[2] <= b.turn
        /\ A \subseteq C
    BY <1>1, <1>2, AlongSays
  <1>4. PICK m1, m2 \in Nat : m1 = a.seq + 1 /\ m2 = a.seq + 2
    BY <1>1
  <1>5. m1 > a.seq /\ m2 > m1
    BY <1>1, <1>4
  <1>6. t.events \in Seq(Events) /\ c \in ClaimIds /\ "call" \in Kinds /\ "observation" \in Kinds
    BY <1>1, <1>2, LastType DEF ClaimIds, Kinds
  <1>7. ASSUME a.pc = "answered", b.pc = "execute", b.seq = a.seq + 2
        PROVE  Along(Summary(t.events \o <<CommittedEvent(a),
                        ClaimEvent("call", a.seq + 2, <<a.n, a.turn>>, 0)>>), b)
    <2>1. a.pc \in Unreported /\ b.pc \notin Unreported
      BY <1>7 DEF Unreported
    <2>2. PICK x, q : x = RevisionEvent(m1, a.rev) /\ q = ClaimEvent("call", m2, c, 0)
      OBVIOUS
    <2>3. x = CommittedEvent(a) /\ q = ClaimEvent("call", a.seq + 2, <<a.n, a.turn>>, 0)
      BY <1>2, <1>4, <2>2 DEF CommittedEvent
    <2>4. x \in Events /\ q \in Events
      BY <1>1, <1>6, <2>2, EventTypes
    <2>5. PICK u, v : u = ReplayEvent(s, x) /\ v = ReplayEvent(u, q)
      OBVIOUS
    <2>6. Summary(t.events \o <<x, q>>) = v
      BY <1>2, <1>6, <2>4, <2>5, SummaryEmitted
    <2>7. Says(u, m1, a.rev, C, A, {})
      BY <1>1, <1>3, <1>5, <2>1, <2>2, <2>5, CommittedAdds
    <2>8. Says(v, m2, a.rev, C, A, {} \cup {c})
      BY <1>5, <2>2, <2>5, <2>7, CallAdds
    <2>9. {} \cup {c} = {<<b.n, b.turn>>}
      BY <1>1, <1>2
    <2>10. Says(v, b.seq, b.rev, C, A, {<<b.n, b.turn>>}) /\ v.claims = C /\ v.acked = A
      BY <1>1, <1>4, <1>7, <2>8, <2>9 DEF Says
    <2>11. b.pc \notin {"take", "taken", "ack"}
      BY <1>7
    <2>12. Along(v, b)
      BY <1>3, <1>7, <2>1, <2>10, <2>11 DEF Along
    <2> QED BY <2>3, <2>6, <2>12
  <1>8. ASSUME a.pc = "execute", b.pc \notin Marked, b.seq = a.seq + 1
        PROVE  Along(Summary(t.events \o
                        <<ClaimEvent("observation", a.seq + 1, <<a.n, a.turn>>, 0)>>), b)
    <2>1. b.pc \notin Unreported /\ b.pc # "execute" /\ b.pc \notin {"take", "ack"}
      BY <1>8 DEF Marked
    <2>2. PICK q : q = ClaimEvent("observation", m1, c, 0)
      OBVIOUS
    <2>3. q \in Events
      BY <1>6, <2>2, EventTypes
    <2>4. PICK u : u = ReplayEvent(s, q)
      OBVIOUS
    <2>5. Summary(t.events \o <<q>>) = u
      BY <1>2, <1>6, <2>3, <2>4, SummaryEmitted
    <2>6. Says(s, a.seq, a.rev, C, A, {c})
      BY <1>3, <1>8
    <2>7. Says(u, m1, a.rev, C, A, {})
      BY <1>1, <1>5, <2>2, <2>4, <2>6, ObservationAdds
    <2>8. Says(u, b.seq, b.rev, C, A, {})
      BY <1>1, <1>4, <1>8, <2>7
    <2>9. Along(u, b)
      BY <1>3, <2>1, <2>8, SaysAlong
    <2> QED BY <1>2, <1>4, <2>2, <2>5, <2>9
  <1> QED BY <1>7, <1>8

(* The step changes what is told of run r: h, t, res and a.                *)
Leaves(r, h, t, res, a) ==
    /\ history' = [history EXCEPT ![r] = h]
    /\ trace' = [trace EXCEPT ![r] = t]
    /\ results' = [results EXCEPT ![r] = res]
    /\ adm' = [adm EXCEPT ![r] = a]

(* What is told of one run is told of all when the others stay.            *)
LEMMA Retold ==
  ASSUME Shapes, Replayed, NEW r \in Ops, NEW h, NEW t, NEW res, NEW a,
         Leaves(r, h, t, res, a), Told(h, t, res, a)
  PROVE  Replayed'
  <1>1. /\ history'[r] = h /\ trace'[r] = t /\ results'[r] = res /\ adm'[r] = a
        /\ \A s \in Ops \ {r} :
              /\ history'[s] = history[s] /\ trace'[s] = trace[s] /\ results'[s] = results[s]
              /\ adm'[s] = adm[s]
    BY DEF Shapes, Leaves
  <1>2. Told(history'[r], trace'[r], results'[r], adm'[r])
    BY <1>1
  <1>3. ASSUME NEW s \in Ops, s # r
        PROVE  Told(history'[s], trace'[s], results'[s], adm'[s])
    BY <1>1, <1>3 DEF Replayed
  <1> QED BY <1>2, <1>3 DEF Replayed

(* What is known of a run as a step begins.                                *)
LEMMA ToldIs ==
  ASSUME Inv, Replayed, NEW r \in Ops
  PROVE  /\ Told(history[r], trace[r], results[r], adm[r])
         /\ adm[r].pc \in Looping => adm[r].rev = history[r].rev /\ adm[r].n >= 1
         /\ adm[r].pc \in Looping \ (Opening \cup {"terminal"}) => history[r].rev >= 1
         /\ history[r].rev = 0 => trace[r].events = <<>>
  BY RunIs DEF Replayed, Held, Counted, Behind

(* An admission that has committed goes on: what was told of the run stays *)
(* when its replay, if it is the first admission, keeps up.                *)
LEMMA GoesOnTold ==
  ASSUME NEW h \in Histories, NEW t, NEW res, NEW a \in Admissions, Told(h, t, res, a),
         a.pc \in Looping \ (Opening \cup {"terminal"}),
         NEW u, NEW b, b.n = a.n, b.pc \in Looping \ Opening,
         Along(Summary(t.events), a) => Along(Summary(u.events), b),
         b.pc = "result" => u.result = ResultRecord(b.reason, b.rev)
  PROVE  Told(h, u, res, b)
  <1>1. h.adm = a.n /\ a.pc \in Looping
    BY DEF Told
  <1>2. a.n = 1 => res.reason = "none" /\ Along(Summary(u.events), b)
    BY <1>1 DEF Told
  <1> QED BY <1>1, <1>2 DEF Told

(* With len more events e the summary keeps up with what goes on as next.  *)
Keeps(t, a, e, next, len) ==
    \A b \in Admissions :
       /\ b.pc = next.pc /\ b.n = next.n /\ b.rev = next.rev /\ b.turn = next.turn
       /\ b.claim = next.claim /\ b.seq = next.seq + len
       /\ Along(Summary(t.events), a)
       => Along(Summary(t.events \o e), b)

(* A step that appends events and goes on.                                 *)
LEMMA EmitTold ==
  ASSUME Inv, Replayed, NEW r \in Ops, NEW e, NEW next \in Admissions, Emit(r, e, next),
         UNCHANGED <<history, results>>, NEW len \in Nat, Len(e) = len,
         NEW t, t = trace[r], NEW a, a = adm[r],
         a.pc \in Looping \ (Opening \cup {"terminal"}),
         next.pc \in Looping \ (Opening \cup {"result"}), next.n = a.n,
         Keeps(t, a, e, next, len)
  PROVE  Replayed'
  <1>1. /\ history[r] \in Histories /\ t \in Traces /\ a \in Admissions /\ Shapes
        /\ Told(history[r], t, results[r], a)
    BY RunIs, ToldIs DEF Inv
  <1>2. PICK u, b : /\ u = [t EXCEPT !.events = t.events \o e]
                    /\ b = [next EXCEPT !.seq = next.seq + len]
    OBVIOUS
  <1>3. next.seq + len \in Nat
    BY DEF Admissions
  <1>4. /\ b \in Admissions /\ b.pc = next.pc /\ b.n = next.n /\ b.rev = next.rev
        /\ b.turn = next.turn /\ b.claim = next.claim /\ b.seq = next.seq + len
    BY <1>2, <1>3 DEF Admissions
  <1>5. u.events = t.events \o e
    BY <1>1, <1>2 DEF Traces
  <1>6. Along(Summary(t.events), a) => Along(Summary(u.events), b)
    BY <1>4, <1>5 DEF Keeps
  <1>7. Told(history[r], u, results[r], b)
    BY <1>1, <1>4, <1>6, GoesOnTold
  <1>8. trace' = [trace EXCEPT ![r] = u] /\ adm' = [adm EXCEPT ![r] = b]
    <2>1. trace' = [trace EXCEPT ![r] = u]
      BY <1>1, <1>2 DEF Emit, Shapes
    <2>2. adm' = [adm EXCEPT ![r] = b]
      BY <1>1, <1>2 DEF Emit, Shapes
    <2> QED BY <2>1, <2>2
  <1>9. /\ history' = history /\ results' = results
        /\ \A s \in Ops : /\ trace'[s] = IF s = r THEN u ELSE trace[s]
                          /\ adm'[s] = IF s = r THEN b ELSE adm[s]
    BY <1>1, <1>8 DEF Shapes
  <1>10. ASSUME NEW s \in Ops
         PROVE  Told(history'[s], trace'[s], results'[s], adm'[s])
    <2>1. CASE s = r
      BY <1>7, <1>9, <2>1
    <2>2. CASE s # r
      BY <1>9, <2>2 DEF Replayed
    <2> QED BY <2>1, <2>2
  <1> QED BY <1>10 DEF Replayed

(* The places that an admission passes.                                    *)
LEMMA Places ==
  /\ {"admitted", "turn", "take", "taken", "ack", "compact", "shrunk", "think", "reflected",
      "generate", "answered", "execute", "observed", "ended", "result"}
        \subseteq Looping \ (Opening \cup {"terminal"})
  /\ {"turn", "take", "ack", "compact", "shrink", "think", "reflect", "generate", "answer",
      "execute", "observe", "terminal"} \subseteq Looping \ (Opening \cup {"result"})
  /\ {"turn", "compact", "shrink", "think", "reflect", "generate", "answer", "observe",
      "terminal", "result"} \cap Marked = {}
  /\ {"turn", "compact", "think", "generate"} \cap (Unreported \cup {"execute"}) = {}
  /\ {"admitted", "taken", "shrunk", "reflected", "answered", "observed", "ended"}
        \subseteq Unreported
  <1>1. {"admitted", "turn", "take", "taken", "ack", "compact", "shrunk", "think", "reflected",
      "generate", "answered", "execute", "observed", "ended", "result"}
        \subseteq Looping \ (Opening \cup {"terminal"})
    BY DEF Looping, Opening, Working, Closing
  <1>2. {"turn", "take", "ack", "compact", "shrink", "think", "reflect", "generate", "answer",
      "execute", "observe", "terminal"} \subseteq Looping \ (Opening \cup {"result"})
    BY DEF Looping, Opening, Working, Closing
  <1>3. {"turn", "compact", "shrink", "think", "reflect", "generate", "answer", "observe",
      "terminal", "result"} \cap Marked = {}
    BY DEF Marked, Unreported
  <1>4. {"turn", "compact", "think", "generate"} \cap (Unreported \cup {"execute"}) = {}
    BY DEF Unreported
  <1> QED BY <1>1, <1>2, <1>3, <1>4 DEF Unreported

(* The steps that append events and go on, by their lists of events.       *)
LEMMA EmitStepsTold ==
  ASSUME Inv, Replayed, NEW r \in Ops,
         \/ Admitted(r) \/ Taken(r) \/ Compact(r) \/ Shrunk(r) \/ Think(r) \/ Reflected(r)
         \/ Generate(r) \/ Answered(r) \/ Execute(r) \/ Observed(r)
  PROVE  Replayed'
  <1>1. PICK a \in Admissions, t \in Traces : a = adm[r] /\ t = trace[r]
    BY RunIs
  <1>2. a.turn \in Nat /\ a.turn >= a.turn
    BY TurnsAssumption DEF Admissions
  <1> DEFINE Left(next) ==
               /\ next \in Admissions /\ next.n = a.n /\ next.rev = a.rev
               /\ next.turn = a.turn /\ next.seq = a.seq /\ next.claim = a.claim
             Free == {"turn", "compact", "shrink", "think", "reflect", "generate", "answer",
                      "observe", "terminal"}
  <1>3. /\ \A p \in Free \cup {"ack", "execute"} :
              Left([a EXCEPT !.pc = p]) /\ [a EXCEPT !.pc = p].pc = p
        /\ \A reply \in {"calls", "final"} :
              /\ Left([a EXCEPT !.pc = "answer", !.reply = reply])
              /\ [a EXCEPT !.pc = "answer", !.reply = reply].pc = "answer"
        /\ \A reason \in {"completed", "stopped"} :
              Left(Finish(a, reason)) /\ Finish(a, reason).pc = "terminal"
    <2>1. ASSUME NEW p \in Free \cup {"ack", "execute"}
          PROVE  Left([a EXCEPT !.pc = p]) /\ [a EXCEPT !.pc = p].pc = p
      <3>1. p \in Looping \cup {"idle", "session"}
        BY Places
      <3>2. PICK b : b = [a EXCEPT !.pc = p]
        OBVIOUS
      <3>3. Left(b) /\ b.pc = p
        BY <3>1, <3>2 DEF Admissions
      <3> QED BY <3>2, <3>3
    <2>2. ASSUME NEW reply \in {"calls", "final"}
          PROVE  /\ Left([a EXCEPT !.pc = "answer", !.reply = reply])
                 /\ [a EXCEPT !.pc = "answer", !.reply = reply].pc = "answer"
      <3>1. "answer" \in Looping \cup {"idle", "session"} /\ reply \in {"none", "calls", "final"}
        BY Places
      <3>2. PICK b : b = [a EXCEPT !.pc = "answer", !.reply = reply]
        OBVIOUS
      <3>3. Left(b) /\ b.pc = "answer"
        BY <3>1, <3>2 DEF Admissions
      <3> QED BY <3>2, <3>3
    <2>3. ASSUME NEW reason \in {"completed", "stopped"}
          PROVE  Left(Finish(a, reason)) /\ Finish(a, reason).pc = "terminal"
      <3>1. "terminal" \in Looping \cup {"idle", "session"} /\ reason \in Reasons
        BY Places DEF Reasons
      <3>2. PICK b : b = [a EXCEPT !.pc = "terminal", !.reason = reason]
        OBVIOUS
      <3>3. Left(b) /\ b.pc = "terminal"
        BY <3>1, <3>2 DEF Admissions
      <3> QED BY <3>2, <3>3 DEF Finish
    <2> QED BY <2>1, <2>2, <2>3
  <1>4. ASSUME NEW b \in Admissions, NEW next, Left(next), b.pc = next.pc, b.n = next.n,
               b.rev = next.rev, b.turn = next.turn, b.claim = next.claim
        PROVE  Carried(a, b) /\ b.turn = a.turn /\ b.claim = a.claim
    BY <1>2, <1>4 DEF Carried
  <1> HIDE DEF Left
  <1>5. ASSUME NEW next, Left(next), UNCHANGED <<history, results>>,
               NEW e, NEW len \in Nat, Len(e) = len, Emit(r, e, next),
               a.pc \in Looping \ (Opening \cup {"terminal"}),
               next.pc \in Looping \ (Opening \cup {"result"}),
               \A b \in Admissions :
                  /\ Carried(a, b) /\ b.turn = a.turn /\ b.claim = a.claim /\ b.pc = next.pc
                  /\ b.seq = a.seq + len /\ Along(Summary(t.events), a)
                  => Along(Summary(t.events \o e), b)
        PROVE  Replayed'
    <2>1. next \in Admissions /\ next.n = a.n /\ next.seq = a.seq
      BY <1>5 DEF Left
    <2>2. Keeps(t, a, e, next, len)
      BY <1>4, <1>5, <2>1 DEF Keeps
    <2> QED BY <1>1, <1>5, <2>1, <2>2, EmitTold
  <1>6. ASSUME NEW next, Left(next), next.pc \in Free, UNCHANGED <<history, results>>
        PROVE  /\ a.pc \in {"compact", "think", "generate"} /\ Emit(r, <<>>, next) => Replayed'
               /\ a.pc \in {"compact", "think", "generate"} /\ Emit(r, <<Plain(a, 1)>>, next)
                     => Replayed'
               /\ a.pc \in Unreported /\ Emit(r, <<CommittedEvent(a)>>, next) => Replayed'
               /\ a.pc \in Unreported /\ Emit(r, <<CommittedEvent(a), Plain(a, 2)>>, next)
                     => Replayed'
               /\ a.pc \in Unreported
                  /\ Emit(r, <<CommittedEvent(a), Plain(a, 2), Plain(a, 3)>>, next)
                     => Replayed'
               /\ /\ a.pc = "execute"
                  /\ Emit(r, <<ClaimEvent("observation", a.seq + 1, <<a.n, a.turn>>, 0)>>, next)
                  => Replayed'
    <2>1. /\ next \in Admissions /\ next.n = a.n /\ next.seq = a.seq
          /\ next.pc \in Looping \ (Opening \cup {"result"}) /\ next.pc \notin Marked
      BY <1>6, Places DEF Left
    <2>2. ASSUME NEW e, NEW len \in Nat, Len(e) = len, Emit(r, e, next),
                 a.pc \in Looping \ (Opening \cup {"terminal"}),
                 \A b \in Admissions :
                    /\ Carried(a, b) /\ b.turn = a.turn /\ b.pc = next.pc
                    /\ b.seq = a.seq + len /\ Along(Summary(t.events), a)
                    => Along(Summary(t.events \o e), b)
          PROVE  Replayed'
      BY <1>6, <1>5, <2>1, <2>2
    <2>3. ASSUME a.pc \in {"compact", "think", "generate"}, Emit(r, <<>>, next)
          PROVE  Replayed'
      <3>1. a.pc \notin Unreported \cup {"execute"} /\ a.pc \in Looping \ (Opening \cup {"terminal"})
        BY <2>3, Places
      <3>2. Len(<<>>) = 0 /\ a.seq + 0 = a.seq
        BY DEF Admissions
      <3>3. \A b \in Admissions :
               /\ Carried(a, b) /\ b.turn = a.turn /\ b.pc = next.pc
               /\ b.seq = a.seq + 0 /\ Along(Summary(t.events), a)
               => Along(Summary(t.events \o <<>>), b)
        BY <2>1, <3>1, <3>2, ListsAlong
      <3> QED BY <2>2, <2>3, <3>1, <3>2, <3>3
    <2>4. ASSUME a.pc \in {"compact", "think", "generate"}, Emit(r, <<Plain(a, 1)>>, next)
          PROVE  Replayed'
      <3>1. a.pc \notin Unreported \cup {"execute"} /\ a.pc \in Looping \ (Opening \cup {"terminal"})
        BY <2>4, Places
      <3>2. PICK e : e = <<Plain(a, 1)>>
        OBVIOUS
      <3>3. Len(e) = 1
        BY <3>2
      <3>4. \A b \in Admissions :
               /\ Carried(a, b) /\ b.turn = a.turn /\ b.pc = next.pc
               /\ b.seq = a.seq + 1 /\ Along(Summary(t.events), a)
               => Along(Summary(t.events \o e), b)
        BY <2>1, <3>1, <3>2, ListsAlong
      <3>5. Emit(r, e, next)
        BY <2>4, <3>2
      <3> QED BY <2>2, <3>1, <3>3, <3>4, <3>5
    <2>5. ASSUME a.pc \in Unreported
          PROVE  /\ Emit(r, <<CommittedEvent(a)>>, next) => Replayed'
                 /\ Emit(r, <<CommittedEvent(a), Plain(a, 2)>>, next) => Replayed'
                 /\ Emit(r, <<CommittedEvent(a), Plain(a, 2), Plain(a, 3)>>, next) => Replayed'
      <3>1. a.pc \in Looping \ (Opening \cup {"terminal"})
        BY <2>5, Places DEF Unreported
      <3>2. PICK e, f, g : /\ e = <<CommittedEvent(a)>> /\ f = <<CommittedEvent(a), Plain(a, 2)>>
                           /\ g = <<CommittedEvent(a), Plain(a, 2), Plain(a, 3)>>
        OBVIOUS
      <3>3. Len(e) = 1 /\ Len(f) = 2 /\ Len(g) = 3
        BY <3>2
      <3>4. \A b \in Admissions :
               /\ Carried(a, b) /\ b.turn = a.turn /\ b.pc = next.pc
               /\ b.seq = a.seq + 1 /\ Along(Summary(t.events), a)
               => Along(Summary(t.events \o e), b)
        BY <2>1, <2>5, <3>2, ListsAlong
      <3>5. \A b \in Admissions :
               /\ Carried(a, b) /\ b.turn = a.turn /\ b.pc = next.pc
               /\ b.seq = a.seq + 2 /\ Along(Summary(t.events), a)
               => Along(Summary(t.events \o f), b)
        BY <2>1, <2>5, <3>2, ListsAlong
      <3>6. \A b \in Admissions :
               /\ Carried(a, b) /\ b.turn = a.turn /\ b.pc = next.pc
               /\ b.seq = a.seq + 3 /\ Along(Summary(t.events), a)
               => Along(Summary(t.events \o g), b)
        BY <2>1, <2>5, <3>2, ListsAlong
      <3>7. Emit(r, e, next) => Replayed'
        BY <2>2, <3>1, <3>3, <3>4
      <3>8. Emit(r, f, next) => Replayed'
        BY <2>2, <3>1, <3>3, <3>5
      <3>9. Emit(r, g, next) => Replayed'
        BY <2>2, <3>1, <3>3, <3>6
      <3> QED BY <3>2, <3>7, <3>8, <3>9
    <2>6. ASSUME a.pc = "execute",
                 Emit(r, <<ClaimEvent("observation", a.seq + 1, <<a.n, a.turn>>, 0)>>, next)
          PROVE  Replayed'
      <3>1. a.pc \in Looping \ (Opening \cup {"terminal"})
        BY <2>6, Places
      <3>2. PICK e : e = <<ClaimEvent("observation", a.seq + 1, <<a.n, a.turn>>, 0)>>
        OBVIOUS
      <3>3. Len(e) = 1
        BY <3>2
      <3>4. \A b \in Admissions :
               /\ Carried(a, b) /\ b.turn = a.turn /\ b.pc = next.pc
               /\ b.seq = a.seq + 1 /\ Along(Summary(t.events), a)
               => Along(Summary(t.events \o e), b)
        BY <2>1, <2>6, <3>2, CallsAlong
      <3>5. Emit(r, e, next)
        BY <2>6, <3>2
      <3> QED BY <2>2, <3>1, <3>3, <3>4, <3>5
    <2> QED BY <2>3, <2>4, <2>5, <2>6
  <1>7. CASE Admitted(r)
    <2>1. /\ a.pc = "admitted" /\ UNCHANGED <<history, results>>
          /\ Emit(r, <<CommittedEvent(a), Plain(a, 2), Plain(a, 3)>>, [a EXCEPT !.pc = "turn"])
      BY <1>1, <1>7 DEF Admitted, At
    <2>2. PICK next : next = [a EXCEPT !.pc = "turn"]
      OBVIOUS
    <2>3. Left(next) /\ next.pc \in Free
      BY <1>3, <2>2
    <2> QED BY <1>6, <2>1, <2>2, <2>3, Places
  <1>8. CASE Taken(r)
    <2>1. /\ a.pc = "taken" /\ UNCHANGED <<history, results>>
          /\ Emit(r, <<CommittedEvent(a)>>, [a EXCEPT !.pc = "ack"])
      BY <1>1, <1>8 DEF Taken, At
    <2>2. PICK next, e : next = [a EXCEPT !.pc = "ack"] /\ e = <<CommittedEvent(a)>>
      OBVIOUS
    <2>3. /\ next \in Admissions /\ next.pc = "ack" /\ next.n = a.n /\ next.claim = a.claim
          /\ next.seq = a.seq /\ Left(next)
      BY <1>3, <2>2 DEF Left
    <2>4. Len(e) = 1
      BY <2>2
    <2>5. \A b \in Admissions :
             /\ Carried(a, b) /\ b.turn = a.turn /\ b.claim = a.claim /\ b.pc = next.pc
             /\ b.seq = a.seq + 1 /\ Along(Summary(t.events), a)
             => Along(Summary(t.events \o e), b)
      BY <2>1, <2>2, <2>3, ListsAlong
    <2>6. /\ a.pc \in Looping \ (Opening \cup {"terminal"})
          /\ next.pc \in Looping \ (Opening \cup {"result"})
      BY <2>1, <2>3, Places
    <2>7. Emit(r, e, next)
      BY <2>1, <2>2
    <2> QED BY <1>5, <2>1, <2>3, <2>4, <2>5, <2>6, <2>7
  <1>9. ASSUME NEW p, p = IF Thinking THEN "think" ELSE "generate"
        PROVE  /\ AfterShrinking(a) = [a EXCEPT !.pc = p]
               /\ Left([a EXCEPT !.pc = p]) /\ [a EXCEPT !.pc = p].pc \in Free
    <2>1. p \in Free
      BY <1>9
    <2>2. Left([a EXCEPT !.pc = p]) /\ [a EXCEPT !.pc = p].pc = p
      BY <1>3, <2>1
    <2> QED BY <1>9, <2>1, <2>2 DEF AfterShrinking
  <1>10. Left(AfterShrinking(a)) /\ AfterShrinking(a).pc \in Free
    BY <1>9
  <1>11. Left(Finish(a, "stopped")) /\ Finish(a, "stopped").pc \in Free
    BY <1>3
  <1>12. CASE Compact(r)
    <2>1. /\ a.pc = "compact" /\ UNCHANGED <<history, results>>
          /\ \/ Emit(r, <<Plain(a, 1)>>, [a EXCEPT !.pc = "shrink"])
             \/ Emit(r, <<>>, AfterShrinking(a))
             \/ Emit(r, <<>>, Finish(a, "stopped"))
      BY <1>1, <1>12 DEF Compact, At
    <2>2. PICK x, y, z : /\ x = [a EXCEPT !.pc = "shrink"] /\ y = AfterShrinking(a)
                         /\ z = Finish(a, "stopped")
      OBVIOUS
    <2>3. /\ Left(x) /\ x.pc \in Free /\ Left(y) /\ y.pc \in Free /\ Left(z) /\ z.pc \in Free
      BY <1>3, <1>10, <1>11, <2>2
    <2>4. CASE Emit(r, <<Plain(a, 1)>>, x)
      BY <1>6, <2>1, <2>3, <2>4
    <2>5. CASE Emit(r, <<>>, y)
      BY <1>6, <2>1, <2>3, <2>5
    <2>6. CASE Emit(r, <<>>, z)
      BY <1>6, <2>1, <2>3, <2>6
    <2> QED BY <2>1, <2>2, <2>4, <2>5, <2>6
  <1>13. CASE Shrunk(r)
    <2>1. /\ a.pc = "shrunk" /\ UNCHANGED <<history, results>>
          /\ Emit(r, <<CommittedEvent(a)>>, AfterShrinking(a))
      BY <1>1, <1>13 DEF Shrunk, At
    <2> QED BY <1>6, <1>10, <2>1, Places
  <1>14. CASE Think(r)
    <2>1. /\ a.pc = "think" /\ UNCHANGED <<history, results>>
          /\ \/ Emit(r, <<Plain(a, 1)>>, [a EXCEPT !.pc = "reflect"])
             \/ Emit(r, <<>>, [a EXCEPT !.pc = "generate"])
             \/ Emit(r, <<>>, Finish(a, "stopped"))
      BY <1>1, <1>14 DEF Think, At
    <2>2. PICK x, y, z : /\ x = [a EXCEPT !.pc = "reflect"] /\ y = [a EXCEPT !.pc = "generate"]
                         /\ z = Finish(a, "stopped")
      OBVIOUS
    <2>3. /\ Left(x) /\ x.pc \in Free /\ Left(y) /\ y.pc \in Free /\ Left(z) /\ z.pc \in Free
      BY <1>3, <1>11, <2>2
    <2>4. CASE Emit(r, <<Plain(a, 1)>>, x)
      BY <1>6, <2>1, <2>3, <2>4
    <2>5. CASE Emit(r, <<>>, y)
      BY <1>6, <2>1, <2>3, <2>5
    <2>6. CASE Emit(r, <<>>, z)
      BY <1>6, <2>1, <2>3, <2>6
    <2> QED BY <2>1, <2>2, <2>4, <2>5, <2>6
  <1>15. CASE Reflected(r)
    <2>1. /\ a.pc = "reflected" /\ UNCHANGED <<history, results>>
          /\ Emit(r, <<CommittedEvent(a)>>, [a EXCEPT !.pc = "generate"])
      BY <1>1, <1>15 DEF Reflected, At
    <2>2. PICK next : next = [a EXCEPT !.pc = "generate"]
      OBVIOUS
    <2>3. Left(next) /\ next.pc \in Free
      BY <1>3, <2>2
    <2> QED BY <1>6, <2>1, <2>2, <2>3, Places
  <1>16. CASE Generate(r)
    <2>1. /\ a.pc = "generate" /\ UNCHANGED <<history, results>>
          /\ \/ \E reply \in {"calls", "final"} :
                   Emit(r, <<Plain(a, 1)>>, [a EXCEPT !.pc = "answer", !.reply = reply])
             \/ Emit(r, <<>>, Finish(a, "stopped"))
      BY <1>1, <1>16 DEF Generate, At
    <2>2. ASSUME NEW reply \in {"calls", "final"},
                 Emit(r, <<Plain(a, 1)>>, [a EXCEPT !.pc = "answer", !.reply = reply])
          PROVE  Replayed'
      <3>1. PICK next : next = [a EXCEPT !.pc = "answer", !.reply = reply]
        OBVIOUS
      <3>2. Left(next) /\ next.pc \in Free
        BY <1>3, <3>1
      <3>3. Emit(r, <<Plain(a, 1)>>, next)
        BY <2>2, <3>1
      <3> QED BY <1>6, <2>1, <3>2, <3>3
    <2>3. CASE Emit(r, <<>>, Finish(a, "stopped"))
      BY <1>6, <1>11, <2>1, <2>3
    <2> QED BY <2>1, <2>2, <2>3
  <1>17. CASE Answered(r)
    <2>1. PICK call, x, y, next :
             /\ call = ClaimEvent("call", a.seq + 2, <<a.n, a.turn>>, 0)
             /\ x = Finish(a, "stopped") /\ y = Finish(a, "completed")
             /\ next = [a EXCEPT !.pc = "execute"]
      OBVIOUS
    <2>2. /\ a.pc = "answered" /\ UNCHANGED <<history, results>>
          /\ \/ Emit(r, <<CommittedEvent(a)>>, x) \/ Emit(r, <<CommittedEvent(a)>>, y)
             \/ Emit(r, <<CommittedEvent(a), call>>, next)
      BY <1>1, <1>17, <2>1 DEF Answered, At
    <2>3. /\ Left(x) /\ x.pc \in Free /\ Left(y) /\ y.pc \in Free
          /\ Left(next) /\ next.pc = "execute"
      BY <1>3, <2>1
    <2>4. CASE Emit(r, <<CommittedEvent(a)>>, x)
      BY <1>6, <2>2, <2>3, <2>4, Places
    <2>5. CASE Emit(r, <<CommittedEvent(a)>>, y)
      BY <1>6, <2>2, <2>3, <2>5, Places
    <2>6. CASE Emit(r, <<CommittedEvent(a), call>>, next)
      <3>1. PICK e : e = <<CommittedEvent(a), call>>
        OBVIOUS
      <3>2. Len(e) = 2 /\ Emit(r, e, next)
        BY <2>6, <3>1
      <3>3. \A b \in Admissions :
               /\ Carried(a, b) /\ b.turn = a.turn /\ b.claim = a.claim /\ b.pc = next.pc
               /\ b.seq = a.seq + 2 /\ Along(Summary(t.events), a)
               => Along(Summary(t.events \o e), b)
        BY <2>1, <2>2, <2>3, <3>1, CallsAlong
      <3>4. /\ a.pc \in Looping \ (Opening \cup {"terminal"})
            /\ next.pc \in Looping \ (Opening \cup {"result"})
        BY <2>2, <2>3, Places
      <3>5. UNCHANGED <<history, results>> /\ 2 \in Nat
        BY <2>2
      <3> HIDE <2>2
      <3> QED BY <1>5, <2>3, <3>2, <3>3, <3>4, <3>5
    <2> QED BY <2>2, <2>4, <2>5, <2>6
  <1>18. CASE Execute(r)
    <2>1. PICK seen, x, y :
             /\ seen = ClaimEvent("observation", a.seq + 1, <<a.n, a.turn>>, 0)
             /\ x = [a EXCEPT !.pc = "observe"] /\ y = Finish(a, "stopped")
      OBVIOUS
    <2>2. /\ a.pc = "execute" /\ UNCHANGED <<history, results>>
          /\ Emit(r, <<seen>>, x) \/ Emit(r, <<seen>>, y)
      BY <1>1, <1>18, <2>1 DEF Execute, At
    <2>3. Left(x) /\ x.pc \in Free /\ Left(y) /\ y.pc \in Free
      BY <1>3, <2>1
    <2>4. CASE Emit(r, <<seen>>, x)
      BY <1>6, <2>1, <2>2, <2>3, <2>4
    <2>5. CASE Emit(r, <<seen>>, y)
      BY <1>6, <2>1, <2>2, <2>3, <2>5
    <2> QED BY <2>2, <2>4, <2>5
  <1>19. CASE Observed(r)
    <2>1. /\ a.pc = "observed" /\ UNCHANGED <<history, results>>
          /\ Emit(r, <<CommittedEvent(a), Plain(a, 2)>>, [a EXCEPT !.pc = "turn"])
      BY <1>1, <1>19 DEF Observed, At
    <2>2. PICK next : next = [a EXCEPT !.pc = "turn"]
      OBVIOUS
    <2>3. Left(next) /\ next.pc \in Free
      BY <1>3, <2>2
    <2> QED BY <1>6, <2>1, <2>2, <2>3, Places
  <1> QED BY <1>7, <1>8, <1>12, <1>13, <1>14, <1>15, <1>16, <1>17, <1>18, <1>19

(* What is in memory of an admission goes where it is carried.             *)
LEMMA StandsTold ==
  ASSUME NEW h \in Histories, NEW t \in Traces, NEW res, NEW a \in Admissions,
         Told(h, t, res, a), a.pc \in Looping, h.rev >= 1 => h.adm >= 1,
         NEW b \in Admissions, b.pc \in Opening \cup {"terminal"}, b.n = a.n, b.rev = a.rev,
         b.turn >= a.turn, b.seq = a.seq, a.pc \notin Unreported \cup {"execute"}
  PROVE  Told(h, t, res, b)
  <1>1. /\ b.pc \notin Marked /\ b.pc # "result" /\ b.pc \in Looping
        /\ b.pc \notin Looping \ (Opening \cup {"terminal"})
    BY DEF Opening, Marked, Unreported, Looping, Closing
  <1>2. t.events \o <<>> = t.events
    BY LastType, ConcatEmptySeq
  <1>3. Carried(a, b)
    BY DEF Carried
  <1>4. Along(Summary(t.events), a) => Along(Summary(t.events), b)
    BY <1>1, <1>2, <1>3, ListsAlong
  <1>5. a.n = 1 => res.reason = "none" /\ Along(Summary(t.events), a)
    BY DEF Told
  <1> QED BY <1>1, <1>4, <1>5 DEF Told

(* The last events and the result record.                                  *)
LEMMA EndedTold ==
  ASSUME Inv, Replayed, NEW r \in Ops, Ended(r)
  PROVE  Replayed'
  <1>1. PICK h \in Histories, t \in Traces, res \in Results, a \in Admissions :
           h = history[r] /\ t = trace[r] /\ res = results[r] /\ a = adm[r]
    BY RunIs
  <1>2. Shapes /\ Told(h, t, res, a) /\ a.pc = "ended"
    BY <1>1, ToldIs DEF Inv, Ended, At
  <1>3. PICK e : e = <<CommittedEvent(a), Plain(a, 2)>>
    OBVIOUS
  <1>4. PICK u, b : /\ u = [events |-> t.events \o e, result |-> ResultRecord(a.reason, a.rev)]
                    /\ b = [a EXCEPT !.pc = "result", !.seq = a.seq + 2]
    OBVIOUS
  <1>5. /\ a.pc \in Looping \ (Opening \cup {"terminal"}) /\ a.pc \in Unreported
        /\ "result" \in Looping \ Opening /\ "result" \notin Marked
        /\ "result" \in Looping \cup {"idle", "session"}
    BY <1>2, Places DEF Opening
  <1>6. a.seq + 2 \in Nat
    BY DEF Admissions
  <1>7. /\ b \in Admissions /\ b.pc = "result" /\ b.n = a.n /\ b.rev = a.rev /\ b.turn = a.turn
        /\ b.seq = a.seq + 2 /\ b.reason = a.reason
    BY <1>4, <1>5, <1>6 DEF Admissions
  <1>8. u.events = t.events \o e /\ u.result = ResultRecord(b.reason, b.rev)
    BY <1>4, <1>7
  <1>9. Carried(a, b)
    BY <1>7, TurnsAssumption DEF Carried, Admissions
  <1>10. Along(Summary(t.events), a) => Along(Summary(u.events), b)
    BY <1>3, <1>5, <1>7, <1>8, <1>9, ListsAlong
  <1>11. Told(h, u, res, b)
    BY <1>2, <1>5, <1>7, <1>8, <1>10, GoesOnTold
  <1>12. trace' = [trace EXCEPT ![r] = u]
    BY <1>1, <1>3, <1>4 DEF Ended
  <1>13. adm' = [adm EXCEPT ![r] = b]
    BY <1>1, <1>2, <1>4 DEF Ended, Shapes
  <1>14. history' = history /\ results' = results
    BY DEF Ended
  <1>15. Leaves(r, h, u, res, b)
    BY <1>1, <1>2, <1>12, <1>13, <1>14 DEF Leaves, Shapes
  <1> QED BY <1>2, <1>11, <1>15, Retold

(* A turn begins.                                                          *)
LEMMA StartTurnTold ==
  ASSUME Inv, Replayed, NEW r \in Ops, StartTurn(r)
  PROVE  Replayed'
  <1>1. PICK t \in Traces, box \in Boxes, a \in Admissions :
           t = trace[r] /\ box = inbox[r] /\ a = adm[r]
    BY RunIs
  <1>2. /\ a.pc = "turn" /\ a.turn < MaxTurns /\ a.turn + 1 \in 0..MaxTurns /\ a.turn + 1 \in Nat
        /\ a.n \in Nat /\ a.rev \in Nat /\ a.seq \in Nat /\ a.turn \in Nat
    <2>1. a.pc = "turn" /\ a.turn < MaxTurns
      BY <1>1 DEF StartTurn, At
    <2>2. a.turn \in 0..MaxTurns /\ a.n \in Nat /\ a.rev \in Nat /\ a.seq \in Nat
      BY DEF Admissions
    <2> QED BY <2>1, <2>2, TurnsAssumption
  <1>3. PICK turn : turn = a.turn + 1
    OBVIOUS
  <1>4. PICK s : s = [a EXCEPT !.turn = turn, !.done = turn]
    OBVIOUS
  <1>5. /\ s \in Admissions /\ s.turn = turn /\ s.n = a.n /\ s.rev = a.rev /\ s.seq = a.seq
        /\ s.inputs = a.inputs /\ s.claims = a.claims
    BY <1>2, <1>3, <1>4 DEF Admissions
  <1>6. s = [adm[r] EXCEPT !.turn = @ + 1, !.done = adm[r].turn + 1]
    BY <1>1, <1>3, <1>4 DEF Admissions
  <1>7. PICK claim : claim = <<a.n, turn>>
    OBVIOUS
  <1>8. PICK new : new = Claimed(box, claim, ClaimLimit)
    OBVIOUS
  <1>9. UNCHANGED <<history, results>>
    BY DEF StartTurn
  <1>10. \/ Emit(r, <<Plain(s, 1)>>, [s EXCEPT !.pc = "compact"])
         \/ Emit(r, <<Plain(s, 1), ClaimEvent("claimed", s.seq + 2, claim, 0)>>,
                    [s EXCEPT !.pc = "take", !.claim = claim,
                        !.inputs = s.inputs (+) ClaimedInputs(new, claim),
                        !.claims = s.claims \cup {[id |-> claim, rev |-> s.rev + 1]}])
    BY <1>1, <1>4, <1>5, <1>6, <1>7, <1>8 DEF StartTurn
  <1>11. Plain(s, 1) = Plain(a, 1) /\ s.seq + 2 = a.seq + 2
    BY <1>5 DEF Plain
  <1>12. /\ a.pc \in Looping \ (Opening \cup {"terminal"})
         /\ a.pc \notin Unreported \cup {"execute"} /\ "compact" \notin Marked
         /\ {"compact", "take"} \subseteq Looping \ (Opening \cup {"result"})
         /\ {"compact", "take"} \subseteq Looping \cup {"idle", "session"}
    BY <1>2, Places
  <1>13. CASE Emit(r, <<Plain(s, 1)>>, [s EXCEPT !.pc = "compact"])
    <2>1. PICK e, next : e = <<Plain(a, 1)>> /\ next = [s EXCEPT !.pc = "compact"]
      OBVIOUS
    <2>2. /\ next \in Admissions /\ next.pc = "compact" /\ next.n = a.n /\ next.rev = a.rev
          /\ next.turn = turn /\ next.seq = a.seq
      BY <1>5, <1>12, <2>1 DEF Admissions
    <2>3. PICK len \in Nat : len = 1 /\ Len(e) = len
      BY <2>1
    <2>4. Emit(r, e, next)
      BY <1>11, <1>13, <2>1
    <2>5. Keeps(t, a, e, next, len)
      <3> SUFFICES ASSUME NEW b \in Admissions, b.pc = "compact", b.n = a.n, b.rev = a.rev,
                          b.turn = turn, b.seq = a.seq + 1, Along(Summary(t.events), a)
                   PROVE  Along(Summary(t.events \o e), b)
        BY <2>2, <2>3 DEF Keeps
      <3>1. Carried(a, b)
        BY <1>2, <1>3 DEF Carried
      <3> QED BY <1>12, <2>1, <3>1, ListsAlong
    <2>6. next.pc \in Looping \ (Opening \cup {"result"})
      BY <1>12, <2>2
    <2> QED BY <1>1, <1>9, <1>12, <2>2, <2>3, <2>4, <2>5, <2>6, EmitTold
  <1>14. CASE Emit(r, <<Plain(s, 1), ClaimEvent("claimed", s.seq + 2, claim, 0)>>,
                    [s EXCEPT !.pc = "take", !.claim = claim,
                        !.inputs = s.inputs (+) ClaimedInputs(new, claim),
                        !.claims = s.claims \cup {[id |-> claim, rev |-> s.rev + 1]}])
    <2>1. PICK e, inputs, claims :
             /\ e = <<Plain(a, 1), ClaimEvent("claimed", a.seq + 2, claim, 0)>>
             /\ inputs = s.inputs (+) ClaimedInputs(new, claim)
             /\ claims = s.claims \cup {[id |-> claim, rev |-> s.rev + 1]}
      OBVIOUS
    <2>2. PICK next : next = [s EXCEPT !.pc = "take", !.claim = claim, !.inputs = inputs,
                                       !.claims = claims]
      OBVIOUS
    <2>3. claim \in ClaimIds /\ inputs \in InputBags /\ claims \in ClaimSets
      <3>1. claim \in ClaimIds
        BY <1>2, <1>3, <1>7 DEF ClaimIds
      <3>2. new \in Boxes
        BY <1>1, <1>8, <3>1, RunIs, ClaimedBox
      <3>3. inputs \in InputBags
        BY <1>5, <2>1, <3>2, ClaimedBags DEF Admissions
      <3>4. s.claims \in ClaimSets /\ s.rev + 1 \in Nat
        BY <1>5 DEF Admissions
      <3>5. claims \in ClaimSets
        BY <2>1, <3>1, <3>4 DEF ClaimSets
      <3> QED BY <3>1, <3>3, <3>5
    <2>4. /\ next \in Admissions /\ next.pc = "take" /\ next.n = a.n /\ next.rev = a.rev
          /\ next.turn = turn /\ next.seq = a.seq /\ next.claim = claim
      BY <1>5, <1>12, <2>2, <2>3 DEF Admissions
    <2>5. Emit(r, e, next)
      BY <1>11, <1>14, <2>1, <2>2
    <2>6. PICK len \in Nat : len = 2 /\ Len(e) = len
      BY <2>1
    <2>7. Keeps(t, a, e, next, len)
      <3> SUFFICES ASSUME NEW b \in Admissions, b.pc = "take", b.n = a.n, b.rev = a.rev,
                          b.turn = turn, b.claim = claim, b.seq = a.seq + 2,
                          Along(Summary(t.events), a)
                   PROVE  Along(Summary(t.events \o e), b)
        BY <2>4, <2>6 DEF Keeps
      <3>1. Carried(a, b)
        BY <1>2, <1>3 DEF Carried
      <3>2. b.turn = a.turn + 1 /\ b.claim = <<a.n, b.turn>>
        BY <1>3, <1>7
      <3>3. e = <<Plain(a, 1), ClaimEvent("claimed", a.seq + 2, b.claim, 0)>>
        BY <2>1
      <3> QED BY <1>2, <3>1, <3>2, <3>3, ClaimsAlong
    <2>8. next.pc \in Looping \ (Opening \cup {"result"})
      BY <1>12, <2>4
    <2> QED BY <1>1, <1>9, <1>12, <2>4, <2>5, <2>6, <2>7, <2>8, EmitTold
  <1> QED BY <1>10, <1>13, <1>14

(* No more turns.                                                          *)
LEMMA EndTurnsTold ==
  ASSUME Inv, Replayed, NEW r \in Ops, EndTurns(r)
  PROVE  Replayed'
  <1>1. PICK h \in Histories, t \in Traces, res \in Results, a \in Admissions :
           h = history[r] /\ t = trace[r] /\ res = results[r] /\ a = adm[r]
    BY RunIs
  <1>2. Shapes /\ Told(h, t, res, a) /\ a.pc = "turn" /\ a.turn \in Nat
    BY <1>1, ToldIs, TurnsAssumption DEF Inv, EndTurns, At, Admissions
  <1>3. /\ a.pc \in Looping /\ a.pc \notin Unreported \cup {"execute"}
        /\ "terminal" \in Looping \cup {"idle", "session"} /\ "stopped" \in Reasons
    BY <1>2, Places DEF Reasons
  <1>4. PICK turn : turn = a.turn + 1
    OBVIOUS
  <1>5. PICK b, s : /\ b = [a EXCEPT !.pc = "terminal", !.reason = "stopped"]
                    /\ s = [a EXCEPT !.turn = turn, !.done = turn]
    OBVIOUS
  <1>6. PICK c : c = [s EXCEPT !.pc = "terminal", !.reason = "stopped"]
    OBVIOUS
  <1>7. \/ adm' = [adm EXCEPT ![r] = b]
        \/ a.turn < MaxTurns /\ adm' = [adm EXCEPT ![r] = c]
    <2>1. s = [a EXCEPT !.turn = @ + 1, !.done = a.turn + 1]
      BY <1>4, <1>5 DEF Admissions
    <2> QED BY <1>1, <1>5, <1>6, <2>1 DEF EndTurns, Finish
  <1>8. UNCHANGED <<history, trace, results>>
    BY DEF EndTurns, files
  <1>9. ASSUME NEW x \in Admissions, adm' = [adm EXCEPT ![r] = x], x.pc = "terminal",
               x.n = a.n, x.rev = a.rev, x.turn >= a.turn, x.seq = a.seq
        PROVE  Replayed'
    <2>1. Told(h, t, res, x)
      BY <1>2, <1>3, <1>9, StandsTold DEF Told
    <2>2. Leaves(r, h, t, res, x)
      BY <1>1, <1>2, <1>8, <1>9 DEF Leaves, Shapes
    <2> QED BY <1>2, <2>1, <2>2, Retold
  <1>10. /\ b \in Admissions /\ b.pc = "terminal" /\ b.n = a.n /\ b.rev = a.rev
         /\ b.turn = a.turn /\ b.seq = a.seq
    BY <1>3, <1>5 DEF Admissions
  <1>11. ASSUME a.turn < MaxTurns
         PROVE  /\ c \in Admissions /\ c.pc = "terminal" /\ c.n = a.n /\ c.rev = a.rev
                /\ c.turn = turn /\ c.seq = a.seq
    <2>1. turn \in 0..MaxTurns
      BY <1>2, <1>4, <1>11, TurnsAssumption
    <2>2. s \in Admissions /\ s.n = a.n /\ s.rev = a.rev /\ s.turn = turn /\ s.seq = a.seq
      BY <1>5, <2>1 DEF Admissions
    <2>3. /\ c \in Admissions /\ c.pc = "terminal" /\ c.n = s.n /\ c.rev = s.rev
          /\ c.turn = s.turn /\ c.seq = s.seq
      BY <1>3, <1>6, <2>2 DEF Admissions
    <2> QED BY <2>2, <2>3
  <1>12. CASE adm' = [adm EXCEPT ![r] = b]
    <2>1. b.turn >= a.turn
      BY <1>2, <1>10
    <2> QED BY <1>9, <1>10, <1>12, <2>1
  <1>13. CASE a.turn < MaxTurns /\ adm' = [adm EXCEPT ![r] = c]
    <2>1. c.turn >= a.turn
      BY <1>2, <1>4, <1>11, <1>13
    <2> QED BY <1>9, <1>11, <1>13, <2>1
  <1> QED BY <1>7, <1>12, <1>13

(* The claim is acknowledged.                                              *)
LEMMA AckTold ==
  ASSUME Inv, Replayed, NEW r \in Ops, Ack(r)
  PROVE  Replayed'
  <1>1. PICK t \in Traces, a \in Admissions : t = trace[r] /\ a = adm[r]
    BY RunIs
  <1>2. PICK e, next : /\ e = <<ClaimEvent("acked", a.seq + 1, a.claim, a.rev)>>
                       /\ next = [a EXCEPT !.pc = "compact"]
    OBVIOUS
  <1>3. a.pc = "ack" /\ Emit(r, e, next) /\ UNCHANGED <<history, results>>
    BY <1>1, <1>2 DEF Ack, At
  <1>4. /\ a.pc \in Looping \ (Opening \cup {"terminal"})
        /\ "compact" \in Looping \ (Opening \cup {"result"})
        /\ "compact" \in Looping \cup {"idle", "session"}
    BY <1>3, Places
  <1>5. a.rev >= 1 /\ a.turn \in Nat
    BY <1>1, <1>4, ToldIs, TurnsAssumption DEF Admissions
  <1>6. /\ next \in Admissions /\ next.pc = "compact" /\ next.n = a.n /\ next.rev = a.rev
        /\ next.turn = a.turn /\ next.seq = a.seq
    BY <1>2, <1>4 DEF Admissions
  <1>7. PICK len \in Nat : len = 1 /\ Len(e) = len
    BY <1>2
  <1>8. Keeps(t, a, e, next, len)
    <2> SUFFICES ASSUME NEW b \in Admissions, b.pc = "compact", b.n = a.n, b.rev = a.rev,
                        b.turn = a.turn, b.seq = a.seq + 1, Along(Summary(t.events), a)
                 PROVE  Along(Summary(t.events \o e), b)
      BY <1>6, <1>7 DEF Keeps
    <2>1. Carried(a, b)
      BY <1>5 DEF Carried
    <2> QED BY <1>2, <1>3, <1>5, <2>1, ClaimsAlong
  <1>9. next.pc \in Looping \ (Opening \cup {"result"})
    BY <1>4, <1>6
  <1> QED BY <1>1, <1>3, <1>4, <1>6, <1>7, <1>8, <1>9, EmitTold

(* Claims left behind are settled.                                         *)
LEMMA ReconcileTold ==
  ASSUME Inv, Replayed, NEW r \in Ops, Reconcile(r)
  PROVE  Replayed'
  <1>1. PICK h \in Histories, t \in Traces, res \in Results, a \in Admissions :
           h = history[r] /\ t = trace[r] /\ res = results[r] /\ a = adm[r]
    BY RunIs
  <1>2. Shapes /\ Told(h, t, res, a) /\ a.pc = "reconcile" /\ a.turn \in Nat
    BY <1>1, ToldIs, TurnsAssumption DEF Inv, Reconcile, At, Admissions
  <1>3. /\ a.pc \in Looping /\ a.pc \notin Unreported \cup {"execute"} /\ "admit" \in Opening
        /\ "admit" \in Looping \cup {"idle", "session"}
    BY <1>2 DEF Looping, Opening, Unreported
  <1>4. PICK b : b = [a EXCEPT !.pc = "admit"]
    OBVIOUS
  <1>5. /\ b \in Admissions /\ b.pc = "admit" /\ b.n = a.n /\ b.rev = a.rev
        /\ b.turn = a.turn /\ b.seq = a.seq
    BY <1>3, <1>4 DEF Admissions
  <1>6. Told(h, t, res, b)
    BY <1>2, <1>3, <1>5, StandsTold DEF Told
  <1>7. adm' = [adm EXCEPT ![r] = b] /\ UNCHANGED <<history, trace, results>>
    BY <1>1, <1>2, <1>4 DEF Reconcile, Shapes
  <1>8. Leaves(r, h, t, res, b)
    BY <1>1, <1>2, <1>7 DEF Leaves, Shapes
  <1> QED BY <1>2, <1>6, <1>8, Retold

(* A summary is along after the commit that its next event will tell of.   *)
LEMMA CommitAlong ==
  ASSUME NEW s, NEW a \in Admissions, Along(s, a), a.pc \in DOMAIN Barriers,
         NEW b, b.pc = Barriers[a.pc].next, b.n = a.n, b.rev = a.rev + 1, b.turn = a.turn,
         b.seq = a.seq, b.claim = a.claim
  PROVE  Along(s, b)
  <1>1. /\ a.pc \notin Unreported \cup {"execute"} /\ b.pc \in Unreported /\ b.pc # "execute"
        /\ b.pc \notin {"take", "ack"} /\ (b.pc = "taken" => a.pc = "take")
    BY BarrierTypes DEF Unreported
  <1>2. a.turn \in Nat /\ a.rev \in Nat /\ b.rev - 1 = a.rev /\ Carried(a, a)
    BY TurnsAssumption DEF Admissions, Carried
  <1>3. /\ Says(s, a.seq, a.rev, s.claims, s.acked, {})
        /\ \A c \in s.claims : c[2] \in Nat /\ c[2] <= a.turn
        /\ s.acked \subseteq s.claims
        /\ a.pc = "take" => a.claim \in s.claims \ s.acked
    BY <1>1, <1>2, AlongSays
  <1>4. Says(s, b.seq, b.rev - 1, s.claims, s.acked, {})
    BY <1>2, <1>3
  <1> QED BY <1>1, <1>3, <1>4 DEF Along

(* The history is committed.                                               *)
LEMMA CommitTold ==
  ASSUME Inv, Replayed, NEW r \in Ops, Commit(r)
  PROVE  Replayed'
  <1>1. PICK h \in Histories, t \in Traces, res \in Results, a \in Admissions :
           h = history[r] /\ t = trace[r] /\ res = results[r] /\ a = adm[r]
    BY RunIs
  <1>2. PICK barrier, out, place :
           /\ barrier = Barriers[a.pc] /\ place = barrier.next
           /\ out = CommitHistory(h, a.rev, Checkpoint(a, barrier))
    OBVIOUS
  <1>3. /\ a.pc \in DOMAIN Barriers /\ Shapes /\ Told(h, t, res, a)
        /\ history' = [history EXCEPT ![r] = out]
        /\ adm' = [adm EXCEPT ![r].pc = place, ![r].rev = @ + 1]
        /\ UNCHANGED <<trace, results>>
    BY <1>1, <1>2, ToldIs DEF Commit, Inv, Shapes
  <1>4. /\ a.pc \in Looping /\ place \in Looping \ Opening /\ place # "result"
        /\ a.pc # "result"
    BY <1>2, <1>3, BarrierTypes DEF Looping, Opening, Working, Closing
  <1>5. /\ a.rev = h.rev /\ a.rev + 1 \in Nat /\ (a.pc \in Working => a.turn >= 1) /\ a.n >= 1
        /\ a.n \in Nat
    BY <1>1, <1>4, RunIs DEF Held, Counted, Admissions
  <1>6. PICK b : b = [a EXCEPT !.pc = place, !.rev = a.rev + 1]
    OBVIOUS
  <1>7. /\ b.pc = place /\ b.rev = a.rev + 1 /\ b.seq = a.seq
        /\ b.n = a.n /\ b.turn = a.turn /\ b.claim = a.claim
    BY <1>6 DEF Admissions
  <1>8. out.adm = a.n
    BY <1>2, <1>3, <1>5, CommitWrites
  <1>9. a.n = 1 => res.reason = "none" /\ Along(Summary(t.events), a)
    BY <1>3, <1>4 DEF Told
  <1>10. a.n = 1 => res.reason = "none" /\ Along(Summary(t.events), b)
    BY <1>2, <1>3, <1>7, <1>9, CommitAlong
  <1>11. Told(out, t, res, b)
    BY <1>4, <1>5, <1>7, <1>8, <1>10 DEF Told
  <1>12. adm' = [adm EXCEPT ![r] = b]
    BY <1>1, <1>3, <1>6 DEF Shapes
  <1>13. Leaves(r, out, t, res, b)
    BY <1>1, <1>3, <1>12 DEF Leaves, Shapes
  <1> QED BY <1>3, <1>11, <1>13, Retold

(* A commit fails.                                                         *)
LEMMA CommitFailsTold ==
  ASSUME Inv, Replayed, NEW r \in Ops, CommitFails(r)
  PROVE  Replayed'
  <1>1. PICK h \in Histories, t \in Traces, res \in Results, a \in Admissions :
           h = history[r] /\ t = trace[r] /\ res = results[r] /\ a = adm[r]
    BY RunIs
  <1>2. /\ Shapes /\ Told(h, t, res, a) /\ a.pc \in Failing /\ a.turn \in Nat
        /\ UNCHANGED <<history, trace, results>>
    BY <1>1, ToldIs, TurnsAssumption DEF Inv, CommitFails, Admissions
  <1>3. /\ a.pc \in Looping /\ a.pc \notin Unreported \cup {"execute"}
        /\ "terminal" \in Looping \cup {"idle", "session"} /\ "stopped" \in Reasons
    <2>1. a.pc \in {"admit", "take", "shrink", "reflect", "answer", "observe"}
      BY <1>2, TurnsAssumption
    <2>2. a.pc \in Looping /\ a.pc \notin Unreported \cup {"execute"}
      BY <2>1 DEF Looping, Opening, Working, Unreported
    <2>3. "terminal" \in Looping \cup {"idle", "session"} /\ "stopped" \in Reasons
      BY DEF Looping, Closing, Reasons
    <2> QED BY <2>2, <2>3
  <1>4. PICK s, claims : /\ s = [a EXCEPT !.pc = "terminal", !.reason = "stopped"]
                         /\ claims = {c \in a.claims : c.id # a.claim}
    OBVIOUS
  <1>5. PICK b : b = [s EXCEPT !.claims = claims]
    OBVIOUS
  <1>6. /\ s \in Admissions /\ s.pc = "terminal" /\ s.n = a.n /\ s.rev = a.rev
        /\ s.turn = a.turn /\ s.seq = a.seq /\ s.claims = a.claims
    BY <1>3, <1>4 DEF Admissions
  <1>7. /\ b \in Admissions /\ b.pc = "terminal" /\ b.n = a.n /\ b.rev = a.rev
        /\ b.turn = a.turn /\ b.seq = a.seq
    <2>1. claims \in ClaimSets
      BY <1>4 DEF Admissions, ClaimSets
    <2> QED BY <1>5, <1>6, <2>1 DEF Admissions
  <1>8. adm' = [adm EXCEPT ![r] = b] \/ adm' = [adm EXCEPT ![r] = s]
    <2>1. [s EXCEPT !.claims = {c \in @ : c.id # a.claim}] = b
      BY <1>4, <1>5, <1>6 DEF Admissions
    <2> QED BY <1>1, <1>4, <2>1 DEF CommitFails, Finish
  <1>9. ASSUME NEW x \in Admissions, adm' = [adm EXCEPT ![r] = x], x.pc = "terminal",
               x.n = a.n, x.rev = a.rev, x.turn = a.turn, x.seq = a.seq
        PROVE  Replayed'
    <2>1. Told(h, t, res, x)
      BY <1>2, <1>3, <1>9, StandsTold DEF Told
    <2>2. Leaves(r, h, t, res, x)
      BY <1>1, <1>2, <1>9 DEF Leaves, Shapes
    <2> QED BY <1>2, <2>1, <2>2, Retold
  <1> QED BY <1>6, <1>7, <1>8, <1>9

(* The result is written: its trace is replayed to its end.                *)
LEMMA WriteResultTold ==
  ASSUME Inv, Replayed, NEW r \in Ops, WriteResult(r)
  PROVE  Replayed'
  <1>1. PICK h \in Histories, t \in Traces, res \in Results, a \in Admissions :
           h = history[r] /\ t = trace[r] /\ res = results[r] /\ a = adm[r]
    BY RunIs
  <1>2. /\ Shapes /\ Told(h, t, res, a) /\ a.pc = "result" /\ UNCHANGED <<history, trace>>
    BY <1>1, ToldIs DEF Inv, WriteResult, At
  <1>3. /\ a.pc \in Looping \ (Opening \cup {"terminal"}) /\ a.pc \notin Marked
        /\ {"idle", "session"} \cap Looping = {}
    BY <1>2, Places DEF Looping, Opening, Working, Closing
  <1>4. PICK out, b : /\ out = [reason |-> a.reason, rev |-> a.rev, msgs |-> a.base]
                      /\ b = IF a.via = "session" THEN [a EXCEPT !.pc = "session"] ELSE Idle
    OBVIOUS
  <1>5. results' = [results EXCEPT ![r] = out] /\ adm' = [adm EXCEPT ![r] = b]
    <2>1. results' = [results EXCEPT ![r] = out]
      BY <1>1, <1>4 DEF WriteResult
    <2>2. adm' = [adm EXCEPT ![r] = b]
      BY <1>1, <1>2, <1>4 DEF WriteResult, Shapes
    <2> QED BY <2>1, <2>2
  <1>6. b.pc \in {"idle", "session"}
    BY <1>4, IdleTypes DEF Admissions
  <1>7. h.adm = a.n /\ t.result = ResultRecord(a.reason, a.rev)
    BY <1>2, <1>3 DEF Told
  <1>8. ASSUME h.adm = 1 PROVE Replay(t)
    <2>1. Along(Summary(t.events), a)
      BY <1>2, <1>3, <1>7, <1>8 DEF Told
    <2>2. PICK s : s = Summary(t.events)
      OBVIOUS
    <2>3. s.ok /\ s.rev = a.rev /\ s.open = {}
      BY <1>2, <1>3, <2>1, <2>2 DEF Along, Says, Marked
    <2>4. t.result.rev = a.rev
      BY <1>7 DEF ResultRecord
    <2> QED BY <2>2, <2>3, <2>4 DEF Replay
  <1>9. b.pc # "result" /\ b.pc \notin Looping
    BY <1>3, <1>6
  <1>10. Told(h, t, out, b)
    BY <1>2, <1>8, <1>9 DEF Told
  <1>11. Leaves(r, h, t, out, b)
    BY <1>1, <1>2, <1>5 DEF Leaves, Shapes
  <1> QED BY <1>2, <1>10, <1>11, Retold

(* An admission that begins: the first of a run with nothing behind it, or *)
(* a later one.                                                            *)
LEMMA BeginsTold ==
  ASSUME Inv, Replayed, NEW r \in Ops, UNCHANGED <<history, trace, results>>,
         NEW b \in Admissions, adm' = [adm EXCEPT ![r] = b],
         \/ b.pc \in {"idle", "session"}
         \/ /\ b.pc = "reconcile" /\ b.n = history[r].adm + 1 /\ history[r].rev > 0
         \/ /\ b.pc = "reconcile" /\ b.n = 1 /\ b.rev = 0 /\ b.seq = 0 /\ b.turn = 0
            /\ history[r].rev = 0 /\ ~HasResult(r)
  PROVE  Replayed'
  <1>1. PICK h \in Histories, t \in Traces, res \in Results, a \in Admissions :
           h = history[r] /\ t = trace[r] /\ res = results[r] /\ a = adm[r]
    BY RunIs
  <1>2. Shapes /\ Told(h, t, res, a) /\ (h.rev = 0 => t.events = <<>>)
    BY <1>1, ToldIs DEF Inv
  <1>3. Leaves(r, h, t, res, b)
    BY <1>1, <1>2 DEF Leaves, Shapes
  <1>4. h.rev \in Nat /\ h.adm \in Nat /\ b.n \in Nat
    BY DEF Histories, Admissions
  <1>5. /\ b.pc # "result" /\ b.pc \notin Looping \ (Opening \cup {"terminal"})
        /\ b.pc \in Looping => b.pc = "reconcile"
    BY DEF Looping, Opening, Working, Closing
  <1>6. CASE b.pc \in {"idle", "session"}
    <2>1. b.pc # "reconcile"
      BY <1>6
    <2>2. Told(h, t, res, b)
      BY <1>2, <1>5, <2>1 DEF Told
    <2> QED BY <1>2, <1>3, <2>2, Retold
  <1>7. CASE b.pc = "reconcile" /\ b.n = history[r].adm + 1 /\ history[r].rev > 0
    <2>1. h.adm >= 1
      BY <1>1, <1>2, <1>4, <1>7 DEF Told
    <2>2. b.n # 1
      BY <1>1, <1>4, <1>7, <2>1
    <2>3. Told(h, t, res, b)
      BY <1>2, <1>5, <2>2 DEF Told
    <2> QED BY <1>2, <1>3, <2>3, Retold
  <1>8. CASE /\ b.pc = "reconcile" /\ b.n = 1 /\ b.rev = 0 /\ b.seq = 0 /\ b.turn = 0
             /\ history[r].rev = 0 /\ ~HasResult(r)
    <2>1. t.events = <<>> /\ res.reason = "none"
      BY <1>1, <1>2, <1>8 DEF HasResult
    <2>2. PICK s : s = ReplayStart
      OBVIOUS
    <2>3. Summary(t.events) = s
      BY <2>1, <2>2, SummaryStart
    <2>4. Says(s, 0, 0, {}, {}, {})
      BY <2>2 DEF ReplayStart, Says
    <2>5. /\ b.pc \notin Unreported /\ b.pc # "execute" /\ b.pc \notin {"take", "ack"}
      BY <1>8 DEF Unreported
    <2>6. Along(s, b)
      BY <1>8, <2>4, <2>5, SaysAlong
    <2>7. Told(h, t, res, b)
      BY <1>2, <1>5, <2>1, <2>3, <2>6 DEF Told
    <2> QED BY <1>2, <1>3, <2>7, Retold
  <1> QED BY <1>6, <1>7, <1>8

(* A later admission of a run.                                             *)
LEMMA ResumedIs ==
  ASSUME Shapes, NEW r \in Ops, NEW via \in {"session", "api"},
         NEW b, b = ResumedAdmission(r, via)
  PROVE  b \in Admissions /\ b.pc = "reconcile" /\ b.n = history[r].adm + 1
  <1>1. PICK h, t : h = history[r] /\ t = trace[r]
    OBVIOUS
  <1>2. Resumes(b, h, t, via)
    BY <1>1, ResumedTypes
  <1> QED BY <1>1, <1>2 DEF Resumes


(* The steps of the handlers.                                              *)
LEMMA HandlersTold ==
  ASSUME Inv, Replayed, NEW r \in Ops,
         OpenTurn(r) \/ RetryTurn(r) \/ ResumeRun(r) \/ CommitTurn(r)
  PROVE  Replayed'
  <1>1. UNCHANGED <<history, trace, results>> /\ Shapes /\ session.msgs \in Seq(Ops)
    BY DEF OpenTurn, RetryTurn, ResumeRun, CommitTurn, files, Inv, Shapes
  <1>2. PICK b : b = FreshAdmission(r, session.msgs)
    OBVIOUS
  <1>3. /\ b \in Admissions /\ b.pc = "reconcile" /\ b.n = 1 /\ b.turn = 0 /\ b.rev = 0
        /\ b.seq = 0
    BY <1>1, <1>2, FreshTypes
  <1>4. ASSUME NEW via \in {"session", "api"}, NEW c, c = ResumedAdmission(r, via)
        PROVE  c \in Admissions /\ c.pc = "reconcile" /\ c.n = history[r].adm + 1
    BY <1>1, <1>4, ResumedIs
  <1>5. CASE OpenTurn(r)
    <2>1. Unborn(r) /\ adm' = [adm EXCEPT ![r] = b]
      BY <1>2, <1>5, TurnsAssumption DEF OpenTurn, Inv, SessionHolds
    <2>2. history[r].rev = 0 /\ ~HasResult(r)
      BY <2>1 DEF Unborn
    <2> QED BY <1>1, <1>3, <2>1, <2>2, BeginsTold
  <1>6. CASE RetryTurn(r)
    <2>1. PICK c : c = PendingAdmission(r)
      OBVIOUS
    <2>2. adm' = [adm EXCEPT ![r] = c]
      BY <1>6, <2>1 DEF RetryTurn
    <2>3. CASE HasResult(r)
      <3>1. c = [Idle EXCEPT !.pc = "session", !.via = "session"]
        BY <2>1, <2>3 DEF PendingAdmission
      <3>2. c \in Admissions /\ c.pc = "session"
        BY <3>1, IdleTypes DEF Admissions
      <3> QED BY <1>1, <2>2, <3>2, BeginsTold
    <2>4. CASE ~HasResult(r) /\ history[r].rev > 0
      <3>1. c = ResumedAdmission(r, "session")
        BY <2>1, <2>4 DEF PendingAdmission
      <3>2. c \in Admissions /\ c.pc = "reconcile" /\ c.n = history[r].adm + 1
        BY <1>4, <3>1
      <3> QED BY <1>1, <2>2, <2>4, <3>2, BeginsTold
    <2>5. CASE ~HasResult(r) /\ ~(history[r].rev > 0)
      <3>1. c = b /\ history[r].rev = 0
        BY <1>2, <2>1, <2>5, RunIs DEF PendingAdmission, Histories
      <3> QED BY <1>1, <1>3, <2>2, <2>5, <3>1, BeginsTold
    <2> QED BY <2>3, <2>4, <2>5
  <1>7. CASE ResumeRun(r)
    <2>1. PICK c : c = ResumedAdmission(r, "api")
      OBVIOUS
    <2>2. adm' = [adm EXCEPT ![r] = c] /\ history[r].rev > 0
      BY <1>7, <2>1 DEF ResumeRun, Resumable
    <2>3. c \in Admissions /\ c.pc = "reconcile" /\ c.n = history[r].adm + 1
      BY <1>4, <2>1
    <2> QED BY <1>1, <2>2, <2>3, BeginsTold
  <1>8. CASE CommitTurn(r)
    <2>1. adm' = [adm EXCEPT ![r] = Idle]
      BY <1>8 DEF CommitTurn
    <2>2. Idle \in Admissions /\ Idle.pc = "idle"
      BY IdleTypes
    <2> QED BY <1>1, <2>1, <2>2, BeginsTold
  <1> QED BY <1>5, <1>6, <1>7, <1>8

(* The server stops: no admission is left to be told of.                   *)
LEMMA CrashTold ==
  ASSUME Inv, Replayed, Crash
  PROVE  Replayed'
  <1>1. UNCHANGED <<history, trace, results>> /\ \A r \in Ops : adm'[r] = Idle
    BY DEF Crash, files
  <1>2. Idle.pc \notin Looping /\ Idle.pc # "result"
    BY IdleTypes DEF Looping, Opening, Working, Closing
  <1>3. ASSUME NEW r \in Ops PROVE Told(history'[r], trace'[r], results'[r], adm'[r])
    <2>1. Told(history[r], trace[r], results[r], adm[r])
      BY DEF Replayed
    <2>2. Told(history[r], trace[r], results[r], Idle)
      BY <1>2, <2>1 DEF Told
    <2> QED BY <1>1, <2>2
  <1> QED BY <1>3 DEF Replayed

(* Every step.                                                             *)
LEMMA NextTold ==
  ASSUME Inv, Replayed, [Next]_vars
  PROVE  Replayed'
  <1>1. ASSUME NEW o \in Ops, LoopStep(o) PROVE Replayed'
    <2>1. CASE \/ Admitted(o) \/ Taken(o) \/ Compact(o) \/ Shrunk(o) \/ Think(o)
               \/ Reflected(o) \/ Generate(o) \/ Answered(o) \/ Execute(o) \/ Observed(o)
      BY <2>1, EmitStepsTold
    <2>2. CASE Reconcile(o) \/ Commit(o)
      BY <2>2, ReconcileTold, CommitTold
    <2>3. CASE StartTurn(o) \/ EndTurns(o)
      BY <2>3, StartTurnTold, EndTurnsTold
    <2>4. CASE Ack(o) \/ Ended(o)
      BY <2>4, AckTold, EndedTold
    <2>5. CASE WriteResult(o) \/ CommitTurn(o)
      BY <2>5, WriteResultTold, HandlersTold
    <2> QED BY <1>1, <2>1, <2>2, <2>3, <2>4, <2>5 DEF LoopStep
  <1>2. ASSUME NEW o \in Ops, OpenTurn(o) \/ RetryTurn(o) \/ ResumeRun(o) PROVE Replayed'
    BY <1>2, HandlersTold
  <1>3. ASSUME NEW r \in Ops, NEW i \in InputsOf[r], EnqueueInput(r, i) PROVE Replayed'
    <2>1. UNCHANGED <<history, trace, results, adm>>
      BY <1>3 DEF EnqueueInput
    <2> QED BY <2>1 DEF Replayed
  <1>4. ASSUME UNCHANGED vars PROVE Replayed'
    <2>1. UNCHANGED <<history, trace, results, adm>>
      BY <1>4 DEF vars
    <2> QED BY <2>1 DEF Replayed
  <1> QED BY <1>1, <1>2, <1>3, <1>4, CommitFailsTold, CrashTold DEF Next

(* At first there is nothing to be told.                                   *)
LEMMA StartsTold ==
  ASSUME Init
  PROVE  Replayed
  <1>1. \A r \in Ops : /\ history[r] = NoHistory /\ trace[r] = NoTrace
                       /\ results[r] = NoResult /\ adm[r] = Idle
    BY DEF Init
  <1>2. Idle.pc \notin Looping /\ Idle.pc # "result"
    BY IdleTypes DEF Looping, Opening, Working, Closing
  <1>3. NoHistory.rev = 0 /\ NoResult.reason = "none"
    BY DEF NoHistory, NoResult
  <1>4. Told(NoHistory, NoTrace, NoResult, Idle)
    BY <1>2, <1>3 DEF Told
  <1> QED BY <1>1, <1>4 DEF Replayed

-----------------------------------------------------------------------------
(* The theorems.                                                           *)

(* Every step keeps the invariant, appends rising numbers, and moves       *)
(* inputs on as InputDelivery has it.                                      *)
LEMMA NextIsFine ==
  ASSUME Inv, [Next]_vars
  PROVE  Fine
  <1>1. ASSUME NEW o \in Ops, LoopStep(o) PROVE Fine
    <2>1. CASE \/ Admitted(o) \/ Taken(o) \/ Compact(o) \/ Shrunk(o) \/ Think(o)
               \/ Reflected(o) \/ Generate(o) \/ Answered(o) \/ Execute(o) \/ Observed(o)
      BY <2>1, EmitSteps
    <2>2. CASE Reconcile(o) \/ Commit(o)
      BY <2>2, ReconcileFine, CommitFine
    <2>3. CASE StartTurn(o) \/ EndTurns(o)
      BY <2>3, StartTurnFine, EndTurnsFine
    <2>4. CASE Ack(o) \/ Ended(o)
      BY <2>4, AckFine, EndedFine
    <2>5. CASE WriteResult(o) \/ CommitTurn(o)
      BY <2>5, WriteResultFine, CommitTurnFine
    <2> QED BY <1>1, <2>1, <2>2, <2>3, <2>4, <2>5 DEF LoopStep
  <1>2. ASSUME NEW o \in Ops, OpenTurn(o) \/ RetryTurn(o) \/ ResumeRun(o) PROVE Fine
    BY <1>2, OpenTurnFine, RetryTurnFine, ResumeRunFine
  <1>3. ASSUME NEW r \in Ops, CommitFails(r) \/ \E i \in InputsOf[r] : EnqueueInput(r, i)
        PROVE  Fine
    BY <1>3, CommitFailsFine, EnqueueFine
  <1> QED BY <1>1, <1>2, <1>3, CrashFine, StutterFine DEF Next

(* Initially nothing has been done.                                        *)
LEMMA Starts ==
  ASSUME Init
  PROVE  Inv /\ TakenOnce /\ StatusMap = [d \in Deliveries |-> "absent"]
  <1>1. /\ session = [rev |-> 0, turns |-> <<>>, pending |-> NoOp, msgs |-> <<>>]
        /\ faults = 0
        /\ \A r \in Ops : /\ history[r] = NoHistory /\ trace[r] = NoTrace
                          /\ results[r] = NoResult /\ inbox[r] = <<>> /\ adm[r] = Idle
    BY DEF Init
  <1>2. /\ NoHistory.rev = 0 /\ NoHistory.adm = 0 /\ NoHistory.claims = {}
        /\ NoHistory.inputs = EmptyBag /\ NoTrace.events = <<>> /\ NoResult.reason = "none"
    BY DEF NoHistory, NoTrace, NoResult
  <1>3. /\ Idle.pc \notin Looping /\ Idle.pc \notin Opening /\ Idle.pc \notin Working
        /\ Idle.pc \notin Closing /\ Idle.pc \notin {"take", "taken", "ack", "session"}
    BY IdleTypes DEF Looping, Opening, Working, Closing
  <1>4. Shapes
    <2>1. session \in [rev : Nat, turns : Seq([op : Ops, reason : Reasons]),
                       pending : Ops \cup {NoOp}, msgs : Seq(Ops)]
      BY <1>1
    <2>2. faults \in 0..MaxFaults
      BY <1>1, TurnsAssumption
    <2> QED BY <2>1, <2>2, IdleTypes DEF Shapes, Init
  <1>5. Held(NoHistory, NoTrace, NoResult, <<>>, Idle, 0)
    <2>1. Counted(NoHistory, NoResult, Idle, 0)
      BY <1>2, <1>3, IdleTypes, TurnsAssumption DEF Counted
    <2>2. Behind(NoHistory, NoTrace, Idle) /\ HistoryClaims(NoHistory)
      BY <1>2, <1>3 DEF Behind, HistoryClaims
    <2>3. AdmissionClaims(NoHistory, Idle)
      BY <1>3 DEF AdmissionClaims
    <2>4. BoxClaims(NoHistory, <<>>, Idle)
      BY DEF BoxClaims
    <2> QED BY <2>1, <2>2, <2>3, <2>4 DEF Held
  <1>6. RunsHold
    BY <1>1, <1>5 DEF RunsHold
  <1>7. SessionHolds
    <2>1. DOMAIN session.turns = {} /\ session.msgs = <<>> /\ session.pending = NoOp
      BY <1>1
    <2>2. \A o \in Ops : ~Committed(o)
      BY <2>1 DEF Committed
    <2>3. ConversationIsTurns
      <3>1. session.msgs = [k \in DOMAIN session.turns |-> session.turns[k].op]
        BY <2>1
      <3> QED BY <2>1, <2>2, <3>1 DEF ConversationIsTurns
    <2>4. \A o \in Ops : Unborn(o) /\ adm[o].via # "session" /\ ~At(o, "session")
      BY <1>1, <1>2, IdleTypes DEF Unborn, HasResult, At
    <2> QED BY <2>1, <2>3, <2>4 DEF SessionHolds
  <1>8. \A i : Copies(EmptyBag, i) = 0
    BY DEF Copies, BagIn, BagToSet, EmptyBag, SetToBag
  <1>9. InputsOnce(NoHistory, <<>>, Idle)
    <2>1. \A i : ~Took(NoHistory, <<>>, i)
      BY DEF Took
    <2> QED BY <1>2, <1>3, <1>8, <2>1 DEF InputsOnce
  <1>10. TakenOnce
    BY <1>1, <1>9 DEF TakenOnce
  <1>11. ASSUME NEW d \in Deliveries PROVE DeliveryStatus(d[1], d[2]) = "absent"
    <2>1. PICK r, i : r = d[1] /\ i = d[2]
      OBVIOUS
    <2>2. r \in Ops /\ i \in AllInputs
      BY <2>1 DEF Deliveries, AllInputs
    <2>3. ~Holds(<<>>, i)
      BY DEF Holds
    <2>4. BoxClaims(NoHistory, <<>>, Idle)
      BY <1>5 DEF Held
    <2>5. StatusOf(NoHistory, <<>>, i) = "absent"
      BY <1>9, <2>2, <2>3, <2>4, IdleTypes, StatusIs
    <2>6. DeliveryStatus(r, i) = "absent"
      BY <1>1, <2>2, <2>5, StatusOfDelivery
    <2> QED BY <2>1, <2>6
  <1>12. StatusMap = [d \in Deliveries |-> "absent"]
    BY <1>11 DEF StatusMap
  <1> QED BY <1>4, <1>6, <1>7, <1>10, <1>12 DEF Inv

(* The files of internal/runstore and internal/sessionstore and the        *)
(* admissions in memory have their types; claims stay within the           *)
(* admissions and turns there were, and an admission that has settled its  *)
(* claims follows the last revision of its history (engine.go, commit).    *)
THEOREM TurnsAreTyped == Spec => []TypeOK
  <1>1. Inv => TypeOK
    <2> SUFFICES ASSUME Inv PROVE TypeOK
      OBVIOUS
    <2>1. /\ session.rev \in Nat /\ session.pending \in Ops \cup {NoOp}
          /\ session.turns \in Seq([op : Ops, reason : Reasons])
          /\ session.msgs \in Seq(Ops)
      BY DEF Inv, Shapes
    <2>2. ASSUME NEW r \in Ops
          PROVE  /\ history[r].rev \in Nat /\ history[r].turn \in 0..MaxTurns
                 /\ history[r].reason \in Reasons
                 /\ \A c \in history[r].claims : c.id \in Claims /\ c.rev \in 1..history[r].rev
                 /\ \A k \in DOMAIN inbox[r] :
                       inbox[r][k].claim \in Claims /\ inbox[r][k].ack \in 0..history[r].rev
                 /\ results[r].reason \in Reasons
                 /\ adm[r].turn \in 0..MaxTurns /\ adm[r].done \in {0, adm[r].turn}
                 /\ At(r, "reconcile") \/ At(r, "idle") \/ At(r, "session")
                    \/ adm[r].rev = history[r].rev
      <3>1. PICK h \in Histories, t \in Traces, res \in Results, box \in Boxes,
                 a \in Admissions :
               /\ h = history[r] /\ t = trace[r] /\ res = results[r] /\ box = inbox[r]
               /\ a = adm[r]
        BY RunIs
      <3>2. Held(h, t, res, box, a, faults) /\ faults \in Nat /\ faults <= MaxFaults
        BY <3>1, RunIs, TurnsAssumption
      <3>3. h.rev \in Nat /\ h.turn \in 0..MaxTurns /\ h.reason \in Reasons /\ h.adm \in Nat
            /\ h.claims \in ClaimSets /\ res.reason \in Reasons
        BY DEF Histories, Results
      <3>4. h.adm <= MaxAdmissions + MaxFaults + 2
        BY <3>2, <3>3, TurnsAssumption DEF Held, Counted
      <3>5. ASSUME NEW c \in h.claims PROVE c.id \in Claims /\ c.rev \in 1..h.rev
        <4>1. c.id \in ClaimIds
          BY <3>3 DEF ClaimSets
        <4>2. c.rev \in 1..h.rev /\ c.id[1] \in 1..h.adm /\ c.id[2] \in 0..MaxTurns
          BY <3>2 DEF Held, HistoryClaims
        <4>3. c.id[1] \in 0..(MaxAdmissions + MaxFaults + 2)
          BY <3>3, <3>4, <4>2, TurnsAssumption
        <4> QED BY <4>1, <4>2, <4>3 DEF ClaimIds, Claims
      <3>6. \A k \in DOMAIN box : box[k].claim \in Claims /\ box[k].ack \in 0..h.rev
        BY <3>2 DEF Held, BoxClaims
      <3>7. /\ a.turn \in 0..MaxTurns /\ a.done \in {0, a.turn}
            /\ a.pc \in Looping => a.rev = h.rev
        BY <3>2 DEF Held, Counted, Admissions
      <3>8. a.pc \in Looping \cup {"idle", "session"}
        BY DEF Admissions
      <3> QED BY <3>1, <3>3, <3>5, <3>6, <3>7, <3>8 DEF At
    <2> QED BY <2>1, <2>2 DEF TypeOK
  <1>2. Inv /\ [Next]_vars => Inv'
    BY NextIsFine DEF Fine
  <1> QED BY <1>1, <1>2, Starts, PTL DEF Spec

(* The conversation of a session is the sequence of its committed turns,   *)
(* each operation once and each with a durable result, whatever crashes    *)
(* fall between begin and Commit of internal/sessionstore.                 *)
THEOREM ConversationsHold == Spec => []ConversationIsTurns
  <1>1. Inv => ConversationIsTurns
    BY DEF Inv, SessionHolds
  <1>2. Inv /\ [Next]_vars => Inv'
    BY NextIsFine DEF Fine
  <1> QED BY <1>1, <1>2, Starts, PTL DEF Spec

(* Event numbers of a run are never reused: an admission that resumes      *)
(* numbers on from the trace and from the checkpoint, whichever is ahead   *)
(* (internal/engine, Resume).                                              *)
THEOREM EventNumbersAreFresh == Spec => EventNumbersRise
  <1> DEFINE Body == \A r \in Ops :
                        LET events == trace'[r].events
                        IN \A k \in DOMAIN events :
                              k > 1 /\ k > Len(trace[r].events)
                                 => events[k - 1].seq < events[k].seq
  <1>1. Inv /\ [Next]_vars => Inv' /\ [Body]_vars
    <2>1. ASSUME Inv, [Next]_vars PROVE Inv' /\ EventsRise
      BY <2>1, NextIsFine DEF Fine
    <2>2. EventsRise => Body
      BY DEF EventsRise, Rises
    <2> QED BY <2>1, <2>2
  <1> HIDE DEF Body
  <1>2. Spec => [][Body]_vars
    BY <1>1, Starts, PTL DEF Spec
  <1> QED BY <1>2 DEF Body, EventNumbersRise

(* The engine's loop and the queue of internal/runstore implement the      *)
(* exactly-once delivery of InputDelivery, through any crashes, retries,   *)
(* resumptions and failing commits except of the commit that takes a       *)
(* claim's inputs in: when that one fails, they are in the admission's     *)
(* messages already and the claim is released, and the run may take them   *)
(* in again (see CommittedInputsAreGone).                                  *)
THEOREM InputsAreDelivered ==
  ASSUME "take" \notin Failing
  PROVE  Spec => DeliversInputs
  <1>1. Inv /\ TakenOnce /\ [Next]_vars
           => (Inv /\ TakenOnce)' /\ [Delivery!Next]_StatusMap
    BY NextIsFine DEF Fine, Moves
  <1>2. Init => Delivery!Init
    BY Starts DEF Delivery!Init, StatusMap
  <1>3. Init => Inv /\ TakenOnce
    BY Starts
  <1>4. Spec => Delivery!Init /\ [][Delivery!Next]_StatusMap
    BY <1>1, <1>2, <1>3, PTL DEF Spec
  <1> QED BY <1>4, PTL DEF DeliversInputs, Delivery!Spec, StatusMap

(* A run that needed one admission and has a result leaves a trace that    *)
(* the replay of internal/runstore accepts: commits, claims,               *)
(* acknowledgements and calls pair up in order, and the result record has  *)
(* the last revision.                                                      *)
THEOREM UncutRunsAreReplayed == Spec => []UncutRunsReplay
  <1>1. Inv /\ Replayed /\ [Next]_vars => (Inv /\ Replayed)'
    BY NextIsFine, NextTold DEF Fine
  <1>2. Init => Inv /\ Replayed
    BY Starts, StartsTold
  <1>3. Replayed => UncutRunsReplay
    BY DEF Replayed, Told, UncutRunsReplay, HasResult
  <1> QED BY <1>1, <1>2, <1>3, PTL DEF Spec
=============================================================================
