------------------------------ MODULE MCTurns -------------------------------
(* Instances of the session's turns for TLC.                               *)
EXTENDS Turns

CONSTANTS o1, o2, i1, i2

(* The first turn's run is sent two inputs, the second's none.             *)
MCInputsOf == (o1 :> {i1, i2}) @@ (o2 :> {})

(* What the files still tell of the past.  Numbers of events are compared  *)
(* with the last one of the trace only, and revisions with that of the     *)
(* history or with 0; a replay goes on from its summary, and is asked of   *)
(* runs in their first admission; a run that is over and cannot be resumed *)
(* only has its inputs left.                                               *)
Over(r) == Committed(r) /\ At(r, "idle") /\ (history[r].adm >= MaxAdmissions \/ ~Resumable(r))

Ids(claims) == {c.id : c \in claims}
Behind(r, seq) == IF seq = 0 THEN 0 ELSE LastEventSequence(trace[r]) - seq

ViewOfFiles(r) ==
    IF Over(r) THEN <<>>
    ELSE <<[history[r] EXCEPT !.rev = @ > 0, !.seq = Behind(r, @), !.claims = Ids(@)],
           [results[r] EXCEPT !.rev = @ > 0],
           IF adm[r].n = 1
           THEN [Summary(trace[r].events) EXCEPT !.seq = 0, !.rev = history[r].rev - @]
           ELSE <<>> >>

ViewOfAdmission(r) ==
    [adm[r] EXCEPT !.rev = IF At(r, "idle") THEN 0 ELSE history[r].rev - @,
                   !.seq = Behind(r, @), !.claims = Ids(@)]

MCView ==
    <<[session EXCEPT !.rev = 0], faults,
      [r \in Ops |-> <<[k \in DOMAIN inbox[r] |-> [inbox[r][k] EXCEPT !.ack = @ > 0]],
                       ViewOfFiles(r), ViewOfAdmission(r)>>]>>
=============================================================================
