-------------------------------- MODULE Team ---------------------------------
(***************************************************************************)
(* Team lockfiles, internal/team/store.go, over the agent registry.  A     *)
(* selection holds the mutex of its own store but reads one candidate      *)
(* after the other from the registry, which moves on meanwhile; then it    *)
(* chooses and appends a lockfile in one write.                            *)
(*                                                                         *)
(* One team of one workspace.  The delivery scores of the candidates are   *)
(* free inputs, so any team that qualifies and can be paid may be the best *)
(* one; a negative total may also make the search find none.  Selections   *)
(* sent again and refusals change nothing and are left out.                *)
(***************************************************************************)
EXTENDS AgentRegistry

CONSTANTS
    Roles,          \* roles of a template
    Budgets,
    MaxLockfiles    \* bound: versions of the team

VARIABLES
    lockfiles,      \* sequence of [need, members]
    choice          \* the selection under way: [need, budget, unread, read]

vars == <<agents, lockfiles, choice>>

-----------------------------------------------------------------------------
Idle == [need |-> <<>>, budget |-> 0, unread |-> {}, read |-> <<>>]

Begin(need, budget, candidates) ==
    /\ choice = Idle
    /\ Len(lockfiles) < MaxLockfiles
    /\ choice' = [need |-> need, budget |-> budget, unread |-> candidates, read |-> <<>>]
    /\ UNCHANGED <<agents, lockfiles>>

(* What the registry answers: the agent as it is now.                      *)
Snapshot(a) ==
    [revision |-> agents[a].current, relation |-> Related(a),
     config |-> agents[a].revisions[agents[a].current]]

Read(a) ==
    /\ a \in choice.unread /\ Exists(a)
    /\ choice' = [choice EXCEPT
           !.unread = @ \ {a},
           !.read = [c \in DOMAIN @ \cup {a} |-> IF c = a THEN Snapshot(a) ELSE @[c]]]
    /\ UNCHANGED <<agents, lockfiles>>

Price(staff) == FoldFunction(LAMBDA a, sum : sum + choice.read[a].config.model, 0, staff)

(* One agent for each role, each with what the role needs, within budget.  *)
Staffings ==
    {staff \in [Roles -> DOMAIN choice.read] :
        /\ IsInjective(staff)
        /\ \A r \in Roles : choice.need[r] \subseteq choice.read[staff[r]].config.caps
        /\ Price(staff) <= choice.budget}

(* Mutant: the member is written down as the registry has it by now.       *)
PinnedLate(a) ==
    [agent |-> a, revision |-> Snapshot(a).revision, relation |-> Snapshot(a).relation]

Pinned(a) ==
    [agent |-> a, revision |-> choice.read[a].revision, relation |-> choice.read[a].relation]

Select ==
    /\ choice # Idle /\ choice.unread = {}
    /\ \E staff \in Staffings :
          lockfiles' = Append(lockfiles, [need |-> choice.need,
                                          members |-> [r \in Roles |-> Pinned(staff[r])]])
    /\ choice' = Idle
    /\ UNCHANGED agents

(* No such agent, no such team, or nobody waits any more.                  *)
Refuse ==
    /\ choice # Idle
    /\ choice' = Idle
    /\ UNCHANGED <<agents, lockfiles>>

TeamInit == Init /\ lockfiles = <<>> /\ choice = Idle

(* The steps of the selection.                                             *)
TeamStep ==
    \/ \E need \in [Roles -> SUBSET Capabilities], budget \in Budgets,
          candidates \in SUBSET AgentIds \ {{}} : Begin(need, budget, candidates)
    \/ \E a \in AgentIds : Read(a)
    \/ Select
    \/ Refuse

TeamNext ==
    \/ TeamStep
    \/ Next /\ UNCHANGED <<lockfiles, choice>>

Spec == TeamInit /\ [][TeamNext]_vars

-----------------------------------------------------------------------------
(* Every role of a lockfile has a member of its own, whose named revision  *)
(* has what the role needs and was selected, not only proposed, whatever   *)
(* is proposed, selected or rolled back while the candidates are read.     *)
LockfilesHold ==
    \A k \in DOMAIN lockfiles :
        LET members == lockfiles[k].members
        IN /\ IsInjective([r \in Roles |-> members[r].agent])
           /\ \A r \in Roles :
                 LET agent == agents[members[r].agent]
                 IN /\ members[r].revision \in Promoted(agent)
                    /\ members[r].relation \in DOMAIN agent.relations
                    /\ lockfiles[k].need[r] \subseteq agent.revisions[members[r].revision].caps
=============================================================================
