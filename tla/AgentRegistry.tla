---------------------------- MODULE AgentRegistry ----------------------------
(***************************************************************************)
(* Persistent agents, internal/agentregistry/store.go: revisions of their  *)
(* configuration that are proposed, compared and selected, revisions of    *)
(* their relationships, written at once or through a pull request, and the *)
(* generations of their session.                                           *)
(*                                                                         *)
(* One file holds an agent and every operation rewrites it under the       *)
(* store's mutex, so it is one action; refusals and operations sent again  *)
(* change nothing and are left out.  What validateAgent makes equal is     *)
(* kept once: the revision is the length of the ledger, the current        *)
(* relationship and session are the last of their histories.  Of a         *)
(* configuration only the model and the capabilities are kept; a session   *)
(* is named by its generation, since only an unused name is accepted.      *)
(*                                                                         *)
(* Whoever changes an agent has read it before, at the revision expected   *)
(* it names.  An entry of the ledger therefore also says which             *)
(* relationship a reader of that revision saw, and a relationship which    *)
(* one its author had seen: the code keeps neither, the properties do.     *)
(***************************************************************************)
EXTENDS Integers, Sequences, SequencesExt, Functions

CONSTANTS
    AgentIds,
    Models,         \* models by their price
    Capabilities,   \* skills, tools and permissions
    MaxOperations   \* bound: operations on all agents

VARIABLE agents     \* AgentIds -> agent record

-----------------------------------------------------------------------------
NoAgent ==
    [revisions |-> <<>>, current |-> 0, selections |-> <<>>, relations |-> <<>>,
     proposals |-> <<>>, sessions |-> <<>>, ledger |-> <<>>]

Configurations == [caps : SUBSET Capabilities, model : Models]

Revision(a) == Len(agents[a].ledger)
Exists(a) == Revision(a) > 0
Related(a) == Len(agents[a].relations)

(* The relationship seen by whoever reads a at a revision.                 *)
SeenAt(a, revision) == agents[a].ledger[revision]

Operations == FoldFunction(LAMBDA agent, sum : sum + Len(agent.ledger), 0, agents)

Store(a, agent) ==
    /\ Operations < MaxOperations
    /\ agents' = [agents EXCEPT ![a] = [agent EXCEPT !.ledger = Append(@, Len(agent.relations))]]

Create(a, config) ==
    /\ ~Exists(a)
    /\ Store(a, [NoAgent EXCEPT
                    !.revisions = <<config>>, !.current = 1, !.relations = <<0>>,
                    !.sessions = <<"active">>])

(* Every later operation names the revision its author has read.           *)
Mutate(a, expected, agent) ==
    /\ expected = Revision(a)
    /\ Store(a, agent)

-----------------------------------------------------------------------------
(* Configurations: a proposal is a revision, a selection may make it the   *)
(* current one, or make an earlier one current again.                      *)

ProposeAgentRevision(a, expected, config) ==
    Mutate(a, expected, [agents[a] EXCEPT !.revisions = Append(@, config)])

Comparable(agent, baseline, candidate) ==
    /\ baseline = agent.current /\ baseline # candidate
    /\ agent.revisions[baseline].model = agent.revisions[candidate].model

(* passes: the candidate scores no less and the team can work with it.     *)
SelectAgentRevision(a, expected, baseline, candidate, passes, decision) ==
    /\ Comparable(agents[a], baseline, candidate)
    /\ decision = "accept" => passes
    /\ Mutate(a, expected, [agents[a] EXCEPT
           !.selections = Append(@, [baseline |-> baseline, candidate |-> candidate,
                                     passes |-> passes, decision |-> decision]),
           !.current = IF decision = "accept" THEN candidate ELSE @])

-----------------------------------------------------------------------------
(* Relationships, kept by the one their author had seen.                   *)

ReviseRelationships(a, expected) ==
    Mutate(a, expected, [agents[a] EXCEPT !.relations = Append(@, SeenAt(a, expected))])

CreateRelationshipPR(a, expected) ==
    Mutate(a, expected, [agents[a] EXCEPT
        !.proposals = Append(@, [base |-> Related(a), seen |-> SeenAt(a, expected),
                                 state |-> "open"])])

(* An outdated proposal is refused, to be accepted or to be rejected.      *)
ReviewRelationshipPR(a, expected, p, decision) ==
    /\ agents[a].proposals[p].state = "open"
    /\ agents[a].proposals[p].base = Related(a)
    /\ Mutate(a, expected, [agents[a] EXCEPT
           !.proposals[p].state = decision,
           !.relations = IF decision = "accepted" THEN Append(@, agents[a].proposals[p].seen)
                         ELSE @])

-----------------------------------------------------------------------------
RotateSession(a, expected, generation) ==
    /\ generation = Len(agents[a].sessions)
    /\ agents[a].sessions[generation] = "active"
    /\ Mutate(a, expected, [agents[a] EXCEPT
           !.sessions = Append([@ EXCEPT ![generation] = "retired"], "active")])

Init == agents = [a \in AgentIds |-> NoAgent]

(* expected, baseline and generation are what the author has read.         *)
Reconfigure(a, expected) ==
    \/ \E config \in Configurations : ProposeAgentRevision(a, expected, config)
    \/ \E baseline, candidate \in DOMAIN agents[a].revisions, passes \in BOOLEAN,
          decision \in {"accept", "reject"} :
          SelectAgentRevision(a, expected, baseline, candidate, passes, decision)

Rerelate(a, expected) ==
    \/ ReviseRelationships(a, expected)
    \/ CreateRelationshipPR(a, expected)
    \/ \E p \in DOMAIN agents[a].proposals, decision \in {"accepted", "rejected"} :
          ReviewRelationshipPR(a, expected, p, decision)

Rotate(a, expected) ==
    \E generation \in DOMAIN agents[a].sessions : RotateSession(a, expected, generation)

ConfigurationStep ==
    \E a \in AgentIds :
        \/ \E config \in Configurations : Create(a, config)
        \/ \E expected \in DOMAIN agents[a].ledger : Reconfigure(a, expected)

Next ==
    \/ ConfigurationStep
    \/ \E a \in AgentIds : \E expected \in DOMAIN agents[a].ledger :
          Rerelate(a, expected) \/ Rotate(a, expected)

-----------------------------------------------------------------------------
(* Type correctness, as validateAgent checks the file: histories resolve,  *)
(* and of the sessions of an agent exactly the last is active.             *)
Valid(agent) ==
    /\ agent.current \in DOMAIN agent.revisions
    /\ \A r \in DOMAIN agent.revisions : agent.revisions[r] \in Configurations
    /\ \A s \in DOMAIN agent.selections :
          {agent.selections[s].baseline, agent.selections[s].candidate}
              \subseteq DOMAIN agent.revisions
    /\ \A g \in DOMAIN agent.sessions :
          (agent.sessions[g] = "active") = (g = Len(agent.sessions))

TypeOK == \A a \in AgentIds : Exists(a) => Valid(agents[a])

(* The configuration that the first n selections leave an agent with: the  *)
(* candidate of the last one accepted, or the one it was created with.     *)
Stands(agent, n, config) ==
    \/ config = 1 /\ \A t \in 1..n : agent.selections[t].decision # "accept"
    \/ \E s \in 1..n :
          /\ agent.selections[s].decision = "accept" /\ agent.selections[s].candidate = config
          /\ \A t \in s + 1..n : agent.selections[t].decision # "accept"

(* The configurations an agent was once told to work with.                 *)
Promoted(agent) ==
    {1} \cup {agent.selections[s].candidate :
                 s \in {t \in DOMAIN agent.selections : agent.selections[t].decision = "accept"}}

(* What an agent is follows from what was reviewed, however authors and    *)
(* reviewers interleave: each selection compared its candidate with the    *)
(* configuration that those before it left, the one that all of them leave *)
(* is current, and what was accepted had passed; and no relationship       *)
(* replaces one that its author, or the author of the accepted proposal,   *)
(* had not seen.                                                           *)
AgentsFollowReview ==
    \A a \in AgentIds : Exists(a) =>
        LET agent == agents[a] IN
        /\ \A s \in DOMAIN agent.selections :
              /\ agent.selections[s].decision = "accept" => agent.selections[s].passes
              /\ Stands(agent, s - 1, agent.selections[s].baseline)
        /\ Stands(agent, Len(agent.selections), agent.current)
        /\ \A v \in DOMAIN agent.relations : agent.relations[v] = v - 1
=============================================================================
