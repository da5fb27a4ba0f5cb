------------------------------ MODULE Attention ------------------------------
(***************************************************************************)
(* What an agent is to look at, internal/attention/store.go: sequenced     *)
(* conversations, one inbox per agent whose items coalesce the messages    *)
(* of a conversation, an exclusive lease on the item the agent works on,   *)
(* and the barrier that keeps a reply from answering what it has not read. *)
(*                                                                         *)
(* Every operation rewrites the one state file under the store's mutex, so *)
(* it is one action; refusals and operations sent again change nothing and *)
(* are left out.  inbox is in the order of CreatedAt.  A lease is live or  *)
(* has run out, and runs out at any moment.  Of a message only its         *)
(* recipients are kept, for the properties; the code delivers to them.     *)
(***************************************************************************)
EXTENDS Integers, Sequences, SequencesExt, FiniteSets

CONSTANTS
    Agents,
    Conversations,
    Ranks,          \* priorities by their rank: 0 a human correction, 3 a subscription
    Leases,
    NoLease,
    MaxRecipients,  \* bound: recipients of one message
    MaxMessages,    \* bound: messages in all conversations
    MaxDrafts,      \* bound: stale replies kept
    MaxMarks        \* bound: revisions of one work mark

VARIABLES
    messages,       \* Conversations -> for each message, its recipients
    inbox,          \* sequence of items, oldest first
    cursors,        \* [Agents \X Conversations -> the last message shown]
    drafts,         \* stale replies: set of [item, base, latest]
    marks           \* [Agents \X Conversations -> [active, rev]]

vars == <<messages, inbox, cursors, drafts, marks>>

Pairs == Agents \X Conversations
LastSeq(c) == Len(messages[c])
Open(item) == item.state # "done"
Holder(item) == <<item.agent, item.conv>>

-----------------------------------------------------------------------------
(* A message and its delivery.  to maps its recipients to a rank.          *)

(* A message joins the open item its recipient has for the conversation.   *)
Joins(item, a, c) == Holder(item) = <<a, c>> /\ Open(item)

Merged(item, seq, rank) == [item EXCEPT !.to = seq, !.rank = IF rank < @ THEN rank ELSE @]

NewItem(a, c, seq, rank) ==
    [agent |-> a, conv |-> c, from |-> seq, to |-> seq, rank |-> rank, state |-> "pending",
     lease |-> NoLease, live |-> FALSE, read |-> 0]

Delivered(box, c, seq, to) ==
    LET merged == [k \in DOMAIN box |->
                      IF box[k].agent \in DOMAIN to /\ Joins(box[k], box[k].agent, c)
                      THEN Merged(box[k], seq, to[box[k].agent]) ELSE box[k]]
        new == {a \in DOMAIN to : \A k \in DOMAIN box : ~Joins(box[k], a, c)}
    IN merged \o SetToSeq({NewItem(a, c, seq, to[a]) : a \in new})

Total == FoldFunction(LAMBDA talk, sum : sum + Len(talk), 0, messages)

Send(c, to) ==
    /\ Total < MaxMessages
    /\ messages' = [messages EXCEPT ![c] = Append(@, DOMAIN to)]

Publish(c, to) ==
    /\ Send(c, to)
    /\ inbox' = Delivered(inbox, c, LastSeq(c) + 1, to)
    /\ UNCHANGED <<cursors, drafts, marks>>

-----------------------------------------------------------------------------
(* Claiming.  Lapsed claims of the agent return to pending first.          *)

Requeued(item) == [item EXCEPT !.state = "pending", !.lease = NoLease, !.read = 0]

Lapsed(item, a) == item.agent = a /\ item.state = "claimed" /\ ~item.live
Busy(a) == \E k \in DOMAIN inbox : inbox[k].agent = a /\ inbox[k].state = "claimed" /\ inbox[k].live

Waiting(a) ==
    {k \in DOMAIN inbox : inbox[k].agent = a /\ (inbox[k].state = "pending" \/ Lapsed(inbox[k], a))}

(* The item to work on: the most urgent, and of these the oldest.          *)
Foremost(a, k) ==
    /\ k \in Waiting(a)
    /\ \A j \in Waiting(a) : \/ inbox[k].rank < inbox[j].rank
                             \/ inbox[k].rank = inbox[j].rank /\ k <= j

(* The agent is shown the conversation as it is; so is the cursor.         *)
ShowAll(item) == [item EXCEPT !.read = LastSeq(item.conv)]

(* Mutant: the cursor stops at the messages addressed to the agent.        *)
MoveCursorToItem(item) == cursors' = [cursors EXCEPT ![Holder(item)] = item.to]

MoveCursor(item) == cursors' = [cursors EXCEPT ![Holder(item)] = LastSeq(item.conv)]

Claim(a, lease) ==
    /\ ~Busy(a)
    /\ \E k \in DOMAIN inbox :
          /\ Foremost(a, k)
          /\ inbox' = [j \in DOMAIN inbox |->
                 IF j = k THEN [ShowAll(inbox[k]) EXCEPT
                                   !.state = "claimed", !.lease = lease, !.live = TRUE]
                 ELSE IF Lapsed(inbox[j], a) THEN Requeued(inbox[j]) ELSE inbox[j]]
          /\ MoveCursor(inbox[k])
    /\ UNCHANGED <<messages, drafts, marks>>

ValidLease(item, a, lease) ==
    item.state = "claimed" /\ item.agent = a /\ item.lease = lease /\ item.live

(* Mutant: the item keeps its lease.                                       *)
FinishedWithLease(item) == [item EXCEPT !.state = "done", !.live = FALSE]

Finished(item) == [item EXCEPT !.state = "done", !.lease = NoLease, !.live = FALSE]

(* Whatever joined the item since it was claimed is done with it.          *)
Ack(a, lease, k) ==
    /\ ValidLease(inbox[k], a, lease)
    /\ inbox' = [inbox EXCEPT ![k] = Finished(@)]
    /\ UNCHANGED <<messages, cursors, drafts, marks>>

Refresh(a, lease, k) ==
    /\ ValidLease(inbox[k], a, lease)
    /\ inbox' = [inbox EXCEPT ![k] = ShowAll(@)]
    /\ MoveCursor(inbox[k])
    /\ UNCHANGED <<messages, drafts, marks>>

-----------------------------------------------------------------------------
(* Replying to the item with what was read up to read.                     *)

(* Mutant: only the snapshot of the claim is compared.                     *)
StaleAgainstClaim(item, read) == read # item.read

Stale(item, read) == read # item.read \/ LastSeq(item.conv) # read

SendFresh(a, lease, k, read, to) ==
    /\ ValidLease(inbox[k], a, lease) /\ ~Stale(inbox[k], read)
    /\ a \notin DOMAIN to
    /\ Send(inbox[k].conv, to)
    /\ inbox' = [Delivered(inbox, inbox[k].conv, LastSeq(inbox[k].conv) + 1, to)
                    EXCEPT ![k] = Finished(@)]
    /\ UNCHANGED <<cursors, drafts, marks>>

(* A stale reply becomes a draft; the file takes only one that is behind.  *)
KeepDraft(a, lease, k, read) ==
    /\ ValidLease(inbox[k], a, lease) /\ Stale(inbox[k], read)
    /\ LastSeq(inbox[k].conv) > read
    /\ Cardinality(drafts) < MaxDrafts
    /\ drafts' = drafts \cup {[item |-> k, base |-> read, latest |-> LastSeq(inbox[k].conv)]}
    /\ UNCHANGED <<messages, inbox, cursors, marks>>

-----------------------------------------------------------------------------
(* Work marks have a life of their own.                                    *)

SetWorkMark(p) ==
    /\ marks[p].rev < MaxMarks
    /\ marks' = [marks EXCEPT ![p] = [active |-> TRUE, rev |-> @.rev + 1]]
    /\ UNCHANGED <<messages, inbox, cursors, drafts>>

ClearWorkMark(p) ==
    /\ marks[p].active
    /\ marks' = [marks EXCEPT ![p] = [active |-> FALSE, rev |-> @.rev + 1]]
    /\ UNCHANGED <<messages, inbox, cursors, drafts>>

Expire(k) ==
    /\ inbox[k].live
    /\ inbox' = [inbox EXCEPT ![k].live = FALSE]
    /\ UNCHANGED <<messages, cursors, drafts, marks>>

Init ==
    /\ messages = [c \in Conversations |-> <<>>]
    /\ inbox = <<>>
    /\ cursors = [p \in Pairs |-> 0]
    /\ drafts = {}
    /\ marks = [p \in Pairs |-> [active |-> FALSE, rev |-> 0]]

Recipients == UNION {[S -> Ranks] : S \in {T \in SUBSET Agents : Cardinality(T) <= MaxRecipients}}

Work(a, lease, k) ==
    \/ Ack(a, lease, k) \/ Refresh(a, lease, k)
    \/ \E read \in 1..MaxMessages :
          \/ KeepDraft(a, lease, k, read)
          \/ \E to \in Recipients : SendFresh(a, lease, k, read, to)

InboxStep ==
    \/ \E c \in Conversations, to \in Recipients : Publish(c, to)
    \/ \E a \in Agents, lease \in Leases :
          Claim(a, lease) \/ \E k \in DOMAIN inbox : Work(a, lease, k)
    \/ \E k \in DOMAIN inbox : Expire(k)

MarkStep == \E p \in Pairs : SetWorkMark(p) \/ ClearWorkMark(p)

Next == InboxStep \/ MarkStep

Spec == Init /\ [][Next]_vars

-----------------------------------------------------------------------------
(* Type correctness, as validateState checks the file.                     *)
TypeOK ==
    /\ \A k \in DOMAIN inbox :
          /\ Holder(inbox[k]) \in Pairs /\ inbox[k].rank \in Ranks
          /\ 1 <= inbox[k].from /\ inbox[k].from <= inbox[k].to
          /\ inbox[k].to <= LastSeq(inbox[k].conv)
          /\ inbox[k].state \in {"pending", "claimed", "done"}
          /\ inbox[k].state = "claimed" =>
                inbox[k].read \in inbox[k].from..LastSeq(inbox[k].conv)
          /\ (inbox[k].state = "claimed") = (inbox[k].lease \in Leases)
    /\ \A p \in Pairs : cursors[p] \in 0..LastSeq(p[2])
    /\ \A d \in drafts : d.item \in DOMAIN inbox /\ d.base < d.latest

(* An agent thinks about one thing: it has at most one live claim, at most *)
(* one open item for a conversation, and while its claim is live what the  *)
(* claim was shown is what its cursor says, whoever publishes, refreshes,  *)
(* replies or lets a lease run out in between.                             *)
OneThoughtAtATime ==
    /\ \A j, k \in DOMAIN inbox : j # k /\ inbox[j].agent = inbox[k].agent =>
          /\ ~(inbox[j].live /\ inbox[k].live)
          /\ Open(inbox[j]) /\ Open(inbox[k]) => inbox[j].conv # inbox[k].conv
    /\ \A k \in DOMAIN inbox : inbox[k].live => cursors[Holder(inbox[k])] = inbox[k].read

(* Message s of c waits for a in an open item.                             *)
Awaits(p, s) ==
    /\ p[1] \in messages[p[2]][s]
    /\ cursors[p] < s
    /\ \E k \in DOMAIN inbox :
          Holder(inbox[k]) = p /\ Open(inbox[k]) /\ s \in inbox[k].from..inbox[k].to

(* A delivered message waits until its agent is shown it, and is given up  *)
(* only by an acknowledgement of the item it joined: never because others  *)
(* write, a lease runs out, the item is claimed again or a reply is sent.  *)
MessagesWait ==
    [][\A p \in Pairs : \A s \in 1..LastSeq(p[2]) :
          Awaits(p, s) => \/ Awaits(p, s)' \/ cursors'[p] >= s
                          \/ messages' = messages /\ \E k \in DOMAIN inbox :
                                Holder(inbox[k]) = p /\ inbox[k].live /\ inbox'[k].state = "done"]_vars
=============================================================================
