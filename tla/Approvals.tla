------------------------------ MODULE Approvals ------------------------------
(***************************************************************************)
(* Approvals of exact tool calls: internal/approvalstore, the policy that  *)
(* consults it (tools/approval.go, tools/registry.go) and the handler that *)
(* decides and tells the run (decideApproval of server.go).                *)
(*                                                                         *)
(* A call is one tool with its canonical arguments in one run under one    *)
(* capability; the model may make it several times, also twice in one      *)
(* batch: an attempt is one such request.  Deciding is two writes, the     *)
(* record and then the queued directive; executing comes after the         *)
(* approval was consumed.  A pending request may grow too old.             *)
(***************************************************************************)
EXTENDS RunStore

CONSTANTS
    Calls,          \* exact calls that need approval
    Attempts,       \* requests of the model to make one
    MaxTries,       \* bound: requests for one call
    MaxCrashes      \* bound: crashes of the server

VARIABLES
    requests,       \* Calls -> state of the approval record
    late,           \* calls whose pending request is past its expiry
    granted,        \* attempts allowed and not yet carried out: set of [by, call]
    deciding,       \* decisions stored and not yet queued: set of [call, as]
    directives,     \* the run's queue of inputs
    decided,        \* Calls -> the decision that was stored
    executed,       \* Calls -> how often the call was carried out
    tries,          \* Calls -> requests so far, for the bound
    crashes

vars == <<requests, late, granted, deciding, directives, decided, executed, tries, crashes>>

Decisions == {"approved", "rejected"}

-----------------------------------------------------------------------------
(* The state a record is in when it is read: a late pending one expires.   *)
Current(c) == IF requests[c] = "pending" /\ c \in late THEN "expired" ELSE requests[c]

(* Mutant: an approved request stays approved.                             *)
ResolvedForGood(c) == IF Current(c) = "none" THEN "pending" ELSE Current(c)

(* Resolve: the first request creates the record, an approved one is used  *)
(* up, any other is refused.                                               *)
Resolved(c) ==
    CASE Current(c) = "none" -> "pending"
      [] Current(c) = "approved" -> "consumed"
      [] OTHER -> Current(c)

Request(a, c) ==
    /\ tries[c] < MaxTries /\ \A g \in granted : g.by # a
    /\ tries' = [tries EXCEPT ![c] = @ + 1]
    /\ requests' = [requests EXCEPT ![c] = Resolved(c)]
    /\ granted' = IF Current(c) = "approved" THEN granted \cup {[by |-> a, call |-> c]} ELSE granted
    /\ UNCHANGED <<late, deciding, directives, decided, executed, crashes>>

(* The execution lease is checked once more; a cancelled turn drops the    *)
(* attempt.                                                                *)
Execute(g) ==
    /\ g \in granted
    /\ granted' = granted \ {g}
    /\ \/ executed' = [executed EXCEPT ![g.call] = @ + 1]
       \/ UNCHANGED executed
    /\ UNCHANGED <<requests, late, deciding, directives, decided, tries, crashes>>

(* Decide: a pending request takes the decision; the same decision again   *)
(* is answered again, any other is refused.                                *)
Decided(c, d) == IF Current(c) = "pending" THEN d ELSE Current(c)

Decide(c, d) ==
    /\ requests[c] # "none"
    /\ requests' = [requests EXCEPT ![c] = Decided(c, d)]
    /\ decided' = IF Current(c) = "pending" THEN [decided EXCEPT ![c] = d] ELSE decided
    /\ deciding' = IF Decided(c, d) = d THEN deciding \cup {[call |-> c, as |-> d]} ELSE deciding
    /\ UNCHANGED <<late, granted, directives, executed, tries, crashes>>

(* The handler's second write: the directive, under an id of its own.      *)
QueueDirective(d) ==
    /\ d \in deciding
    /\ deciding' = deciding \ {d}
    /\ directives' = IF \E k \in DOMAIN directives :
                           directives[k].input[1] = d.call /\ directives[k].input[2] # d.as
                     THEN directives
                     ELSE Enqueued(directives, <<d.call, d.as>>)
    /\ UNCHANGED <<requests, late, granted, decided, executed, tries, crashes>>

Expire(c) ==
    /\ requests[c] = "pending" /\ c \notin late
    /\ late' = late \cup {c}
    /\ UNCHANGED <<requests, granted, deciding, directives, decided, executed, tries, crashes>>

Crash ==
    /\ crashes < MaxCrashes
    /\ crashes' = crashes + 1
    /\ granted' = {} /\ deciding' = {}
    /\ UNCHANGED <<requests, late, directives, decided, executed, tries>>

Init ==
    /\ requests = [c \in Calls |-> "none"]
    /\ late = {} /\ granted = {} /\ deciding = {} /\ directives = <<>>
    /\ decided = [c \in Calls |-> "none"]
    /\ executed = [c \in Calls |-> 0]
    /\ tries = [c \in Calls |-> 0]
    /\ crashes = 0

Next ==
    \/ \E c \in Calls : \/ \E a \in Attempts : Request(a, c)
                        \/ \E d \in Decisions : Decide(c, d)
                        \/ Expire(c)
    \/ \E g \in granted : Execute(g)
    \/ \E d \in deciding : QueueDirective(d)
    \/ Crash

Spec == Init /\ [][Next]_vars

-----------------------------------------------------------------------------
(* Type correctness.                                                       *)
TypeOK ==
    /\ requests \in [Calls -> {"none", "pending", "approved", "rejected", "expired", "consumed"}]
    /\ late \subseteq Calls
    /\ granted \subseteq [by : Attempts, call : Calls]
    /\ deciding \subseteq [call : Calls, as : Decisions]
    /\ decided \in [Calls -> {"none"} \cup Decisions]
    /\ executed \in [Calls -> Nat] /\ tries \in [Calls -> 0..MaxTries]

(* One approval carries one execution: whatever requests race in a batch,  *)
(* are repeated or are cut off by a crash, a call is carried out at most   *)
(* once, after a person approved it, and the run is told no other decision *)
(* than the one that counts.                                               *)
ApprovalsAreSpentOnce ==
    \A c \in Calls :
        /\ executed[c] + Cardinality({g \in granted : g.call = c}) <= 1
        /\ executed[c] > 0 => decided[c] = "approved"
        /\ \A k \in DOMAIN directives :
              directives[k].input[1] = c => directives[k].input[2] = decided[c]
=============================================================================
