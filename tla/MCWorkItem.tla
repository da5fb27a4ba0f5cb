----------------------------- MODULE MCWorkItem -----------------------------
(* Instances of the task store for TLC.  Actors, leases and artifact keys  *)
(* are told apart only by equality, so they are symmetric.                 *)
EXTENDS WorkItem, TLC

CONSTANTS t1, t2

(* One task has room for two rounds of review, the other for one.          *)
MCMaxRevision == (t1 :> 8) @@ (t2 :> 3)

MCSymmetry ==
    Permutations(Actors) \cup Permutations(LeaseIds) \cup Permutations(ArtifactKeys)

(* What the store still reads of a task: of its ledger the ids, of its     *)
(* histories the last entries.  A new operation takes a new id, so the     *)
(* fingerprints of old ones enable nothing.  States with the same view     *)
(* allow the same steps and satisfy the same properties.                   *)
Last(s) == IF s = <<>> THEN <<>> ELSE s[Len(s)]
MCView ==
    <<[t \in TaskIds |->
          [tasks[t] EXCEPT !.ledger = <<UsedIds(tasks[t]), Readable(tasks[t])>>,
                           !.subs = Last(@), !.reviews = Last(@)]],
      artifacts>>
=============================================================================
