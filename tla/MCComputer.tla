----------------------------- MODULE MCComputer -----------------------------
(* Instances of the computer registry for TLC.                             *)
EXTENDS Computer, TLC

MCSymmetry ==
    Permutations(Computers) \cup Permutations(Runs) \cup Permutations(ConnLeases)
    \cup Permutations(Capabilities)

(* What the store still asks of the past: which operation ids are used, and *)
(* which rebinds counted.  A replay changes nothing, so the fingerprints of *)
(* used ids enable no step.                                                *)
MCView ==
    <<computers, bindings, runLeases,
      [i \in DOMAIN commands |-> [commands[i] EXCEPT !.op = None]],
      Cardinality(ledger)>>
=============================================================================
