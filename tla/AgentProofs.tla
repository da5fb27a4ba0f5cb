----------------------------- MODULE AgentProofs -----------------------------
(* Theorems about agents, for any values of the constants: an agent thinks *)
(* about one thing at a time, what it was told waits, and what it is and   *)
(* the teams it is in rest on review.  Last, the types of the inbox and of *)
(* the registry.                                                           *)
EXTENDS ControlPlaneProofs

-----------------------------------------------------------------------------
(* A finite set can be listed, each element once.                          *)
LEMMA Listed ==
  ASSUME NEW S, IsFiniteSet(S)
  PROVE  /\ Attention!SetToSeq(S) \in Seq(S)
         /\ \A k, l \in DOMAIN Attention!SetToSeq(S) :
               Attention!SetToSeq(S)[k] = Attention!SetToSeq(S)[l] => k = l
  <1> DEFINE n == Cardinality(S)
             list == Attention!SetToSeq(S)
  <1>1. n \in Nat /\ ExistsBijection(1..n, S)
    BY FS_CardinalityType
  <1>2. Attention!Cardinality(S) = n
    BY DEF Attention!Cardinality, Cardinality, Attention!IsFiniteSet, IsFiniteSet
  <1>3. \E f \in [1..n -> S] : Attention!IsInjective(f)
    BY <1>1 DEF ExistsBijection, Bijection, Injection, IsInjective, Attention!IsInjective
  <1>4. list \in [1..n -> S] /\ Attention!IsInjective(list)
    BY <1>2, <1>3 DEF Attention!SetToSeq
  <1> HIDE DEF list, n
  <1>5. list \in Seq(S)
    BY <1>1, <1>4, SeqDef
  <1> QED BY <1>4, <1>5 DEF Attention!IsInjective, list

-----------------------------------------------------------------------------
(* What an agent is to look at.  Items lie within their conversation, one  *)
(* is open for each agent and conversation, and a live claim is the only   *)
(* one of its agent and shows what the cursor says.                        *)

Entries ==
    [agent : Agents, conv : Conversations, from : Nat, to : Nat, rank : Ranks,
     state : {"pending", "claimed", "done"}, lease : Leases \cup {NoLease}, live : BOOLEAN, read : Nat]

Pairs == Agents \X Conversations

AttentionTypes ==
    /\ messages \in [Conversations -> Seq(SUBSET Agents)]
    /\ inbox \in Seq(Entries)
    /\ cursors \in [Pairs -> Nat]

(* What holds of one item, whose conversation has last messages and whose  *)
(* agent was shown it up to cursor.                                        *)
InPlace(item, last, cursor) ==
    /\ 1 <= item.from /\ item.from <= item.to /\ item.to <= last
    /\ item.state = "claimed" => item.from <= item.read /\ item.read <= last
    /\ item.state = "claimed" <=> item.lease \in Leases
    /\ item.live => item.state = "claimed" /\ cursor = item.read

(* What holds of two items.                                                *)
Apart(one, other) ==
    one.agent = other.agent =>
        /\ ~(one.live /\ other.live)
        /\ one.state # "done" /\ other.state # "done" => one.conv # other.conv

Orderly(box, msgs, shown) ==
    /\ \A k \in DOMAIN box :
          InPlace(box[k], Len(msgs[box[k].conv]), shown[<<box[k].agent, box[k].conv>>])
    /\ \A j, k \in DOMAIN box : j # k => Apart(box[j], box[k])

AttentionInv ==
    /\ AttentionTypes
    /\ Orderly(inbox, messages, cursors)
    /\ \A p \in Pairs : cursors[p] <= Len(messages[p[2]])

(* A message that joins an item moves its end and priority.                *)
LEMMA EntryMerged ==
  ASSUME NEW item \in Entries, NEW seq \in Nat, NEW rank \in Ranks, NEW next,
         next = Attention!Merged(item, seq, rank)
  PROVE  /\ next \in Entries
         /\ next.agent = item.agent /\ next.conv = item.conv /\ next.state = item.state
         /\ next.from = item.from /\ next.read = item.read /\ next.lease = item.lease
         /\ next.live = item.live /\ next.to = seq
  <1> DEFINE least == IF rank < item.rank THEN rank ELSE item.rank
  <1>1. least \in Ranks
    BY DEF Entries
  <1>2. next = [item EXCEPT !.to = seq, !.rank = least]
    BY DEF Attention!Merged
  <1> HIDE DEF least
  <1> QED BY <1>1, <1>2 DEF Entries

(* What a delivery to the inboxes makes of their items: an old item stays   *)
(* or is joined, a new one is for an agent with none for the conversation. *)
Delivery(out, box, c, seq) ==
    /\ out \in Seq(Entries) /\ DOMAIN box \subseteq DOMAIN out
    /\ \A k \in DOMAIN box :
          \/ out[k] = box[k]
          \/ \E rank \in Ranks : /\ out[k] = Attention!Merged(box[k], seq, rank)
                                 /\ box[k].conv = c /\ box[k].state # "done"
    /\ \A k \in DOMAIN out \ DOMAIN box : \E a \in Agents, rank \in Ranks :
          /\ out[k] = Attention!NewItem(a, c, seq, rank)
          /\ \A j \in DOMAIN box :
                box[j].agent = a /\ box[j].state # "done" => box[j].conv # c
    /\ \A k, l \in DOMAIN out \ DOMAIN box : k # l => out[k].agent # out[l].agent

(* A message changes an item at most by joining it, and puts at most one   *)
(* new item before each recipient that had none open.                      *)
LEMMA DeliveredItems ==
  ASSUME NEW box \in Seq(Entries), NEW c \in Conversations, NEW seq \in Nat, NEW to,
         DOMAIN to \subseteq Agents, \A a \in DOMAIN to : to[a] \in Ranks,
         NEW out, out = Attention!Delivered(box, c, seq, to)
  PROVE  Delivery(out, box, c, seq)
  <1> DEFINE merged == [k \in DOMAIN box |->
                 IF box[k].agent \in DOMAIN to /\ Attention!Joins(box[k], box[k].agent, c)
                 THEN Attention!Merged(box[k], seq, to[box[k].agent]) ELSE box[k]]
             new == {a \in DOMAIN to : \A k \in DOMAIN box : ~Attention!Joins(box[k], a, c)}
             items == {Attention!NewItem(a, c, seq, to[a]) : a \in new}
             list == Attention!SetToSeq(items)
  <1>1. out = merged \o list
    BY DEF Attention!Delivered
  <1>2. DOMAIN box = 1..Len(box) /\ Len(box) \in Nat /\ \A k \in DOMAIN box : box[k] \in Entries
    BY LenProperties, ElementOfSeq
  <1>3. \A k \in DOMAIN box :
           /\ merged[k] \in Entries
           /\ \/ merged[k] = box[k]
              \/ \E rank \in Ranks : /\ merged[k] = Attention!Merged(box[k], seq, rank)
                                     /\ box[k].conv = c /\ box[k].state # "done"
    <2> SUFFICES ASSUME NEW k \in DOMAIN box
                 PROVE  /\ merged[k] \in Entries
                        /\ \/ merged[k] = box[k]
                           \/ \E rank \in Ranks :
                                 /\ merged[k] = Attention!Merged(box[k], seq, rank)
                                 /\ box[k].conv = c /\ box[k].state # "done"
      OBVIOUS
    <2>1. CASE box[k].agent \in DOMAIN to /\ Attention!Joins(box[k], box[k].agent, c)
      <3> DEFINE rank == to[box[k].agent]
      <3>1. rank \in Ranks /\ box[k] \in Entries
        BY <1>2, <2>1
      <3>2. merged[k] = Attention!Merged(box[k], seq, rank)
        BY <2>1
      <3>3. box[k].conv = c /\ box[k].state # "done"
        BY <2>1 DEF Attention!Joins, Attention!Holder, Attention!Open
      <3> HIDE DEF rank, merged
      <3>4. merged[k] \in Entries
        BY <3>1, <3>2, EntryMerged
      <3> QED BY <3>1, <3>2, <3>3, <3>4
    <2>2. CASE ~(box[k].agent \in DOMAIN to /\ Attention!Joins(box[k], box[k].agent, c))
      BY <1>2, <2>2
    <2> QED BY <2>1, <2>2
  <1>4. merged \in Seq(Entries) /\ Len(merged) = Len(box) /\ DOMAIN merged = DOMAIN box
    <2>1. merged \in [DOMAIN box -> Entries]
      BY <1>3
    <2> HIDE DEF merged
    <2> QED BY <2>1, Mapped
  <1>5. \A item \in items : \E a \in new :
           item = Attention!NewItem(a, c, seq, to[a]) /\ item.agent = a /\ item \in Entries
    <2> SUFFICES ASSUME NEW a \in new
                 PROVE  /\ Attention!NewItem(a, c, seq, to[a]).agent = a
                        /\ Attention!NewItem(a, c, seq, to[a]) \in Entries
      OBVIOUS
    <2>1. a \in Agents /\ to[a] \in Ranks
      OBVIOUS
    <2> HIDE DEF new
    <2> QED BY <2>1 DEF Attention!NewItem, Entries
  <1>6. IsFiniteSet(items)
    <2> DEFINE f == [item \in items |-> item.agent]
    <2>1. f \in Injection(items, Agents)
      BY <1>5 DEF Injection, IsInjective
    <2> HIDE DEF f, items
    <2> QED BY <2>1, FS_Injection, AgentsAssumption
  <1>7. /\ list \in Seq(items) /\ list \in Seq(Entries)
        /\ \A k, l \in DOMAIN list : list[k] = list[l] => k = l
        /\ \A k \in DOMAIN list : list[k] \in items
    <2>1. items \subseteq Entries
      BY <1>5
    <2> HIDE DEF items
    <2>2. list \in Seq(items) /\ \A k, l \in DOMAIN list : list[k] = list[l] => k = l
      BY <1>6, Listed
    <2> HIDE DEF list
    <2>3. /\ DOMAIN list = 1..Len(list) /\ list \in [1..Len(list) -> items] /\ Len(list) \in Nat
      BY <2>2, LenProperties
    <2>4. list \in [1..Len(list) -> Entries]
      BY <2>1, <2>3
    <2>5. list \in Seq(Entries)
      BY <2>3, <2>4, SeqDef
    <2> QED BY <2>2, <2>3, <2>5
  <1> HIDE DEF merged, list
  <1>8. /\ out \in Seq(Entries) /\ Len(out) = Len(box) + Len(list)
        /\ \A k \in 1..(Len(box) + Len(list)) :
              out[k] = IF k <= Len(box) THEN merged[k] ELSE list[k - Len(box)]
    BY <1>1, <1>4, <1>7, ConcatProperties
  <1>9. DOMAIN out = 1..(Len(box) + Len(list)) /\ DOMAIN list = 1..Len(list) /\ Len(list) \in Nat
    BY <1>7, <1>8, LenProperties
  <1>10. \A k \in DOMAIN box : k \in DOMAIN out /\ out[k] = merged[k]
    BY <1>2, <1>8, <1>9
  <1>11. \A k \in DOMAIN out \ DOMAIN box : k - Len(box) \in DOMAIN list /\ out[k] = list[k - Len(box)]
    BY <1>2, <1>8, <1>9
  <1>12. \A k \in DOMAIN out \ DOMAIN box : \E a \in new :
            out[k] = Attention!NewItem(a, c, seq, to[a]) /\ out[k].agent = a
    BY <1>5, <1>7, <1>11
  <1>13. \A a \in new : a \in Agents /\ to[a] \in Ranks
    OBVIOUS
  <1>14. \A a \in new : \A j \in DOMAIN box :
            box[j].agent = a /\ box[j].state # "done" => box[j].conv # c
    BY DEF Attention!Joins, Attention!Holder, Attention!Open
  <1> HIDE DEF new, items
  <1>15. \A k \in DOMAIN out \ DOMAIN box : \E a \in Agents, rank \in Ranks :
            /\ out[k] = Attention!NewItem(a, c, seq, rank)
            /\ \A j \in DOMAIN box : box[j].agent = a /\ box[j].state # "done" => box[j].conv # c
    BY <1>12, <1>13, <1>14
  <1>16. \A k, l \in DOMAIN out \ DOMAIN box : k # l => out[k].agent # out[l].agent
    <2> SUFFICES ASSUME NEW k \in DOMAIN out \ DOMAIN box, NEW l \in DOMAIN out \ DOMAIN box,
                        out[k].agent = out[l].agent
                 PROVE  k = l
      OBVIOUS
    <2>1. out[k] = out[l]
      BY <1>12
    <2>2. k - Len(box) = l - Len(box)
      BY <1>7, <1>11, <2>1
    <2> QED BY <1>2, <1>9, <2>2
  <1>17. \A k \in DOMAIN box :
            \/ out[k] = box[k]
            \/ \E rank \in Ranks : /\ out[k] = Attention!Merged(box[k], seq, rank)
                                   /\ box[k].conv = c /\ box[k].state # "done"
    BY <1>3, <1>10
  <1>18. out \in Seq(Entries) /\ DOMAIN box \subseteq DOMAIN out
    BY <1>8, <1>10
  <1> QED BY <1>15, <1>16, <1>17, <1>18 DEF Delivery

(* A message that was sent leaves the inboxes in order, and of the items   *)
(* there were it moves at most the end and the priority.                   *)
Told(c, to) == Attention!Delivered(inbox, c, Len(messages[c]) + 1, to)

(* An item that messages may have joined.                                  *)
Extended(next, item) ==
    /\ next.agent = item.agent /\ next.conv = item.conv /\ next.state = item.state
    /\ next.from = item.from /\ next.to >= item.to /\ next.read = item.read
    /\ next.live = item.live /\ next.lease = item.lease

(* A message that is delivered extends the entries of those it is for.     *)
LEMMA DeliveredOrderly ==
  ASSUME AttentionInv, NEW c \in Conversations, NEW to, DOMAIN to \subseteq Agents,
         \A a \in DOMAIN to : to[a] \in Ranks,
         messages' = [messages EXCEPT ![c] = Append(@, DOMAIN to)]
  PROVE  /\ messages' \in [Conversations -> Seq(SUBSET Agents)]
         /\ \A d \in Conversations : Len(messages'[d]) = Len(messages[d]) + (IF d = c THEN 1 ELSE 0)
         /\ Told(c, to) \in Seq(Entries) /\ Orderly(Told(c, to), messages', cursors)
         /\ DOMAIN inbox \subseteq DOMAIN Told(c, to)
         /\ \A k \in DOMAIN inbox : Extended(Told(c, to)[k], inbox[k])
  <1> DEFINE seq == Len(messages[c]) + 1
             box == Told(c, to)
  <1>0. box = Attention!Delivered(inbox, c, seq, to) /\ seq = Len(messages[c]) + 1
    BY DEF Told
  <1> HIDE DEF seq, box
  <1>1. messages[c] \in Seq(SUBSET Agents) /\ Len(messages[c]) \in Nat /\ seq \in Nat
    BY <1>0, LenProperties DEF AttentionInv, AttentionTypes
  <1>2. /\ Append(messages[c], DOMAIN to) \in Seq(SUBSET Agents)
        /\ Len(Append(messages[c], DOMAIN to)) = Len(messages[c]) + 1
    BY <1>1, AppendProperties
  <1>3. messages' \in [Conversations -> Seq(SUBSET Agents)]
    BY <1>2 DEF AttentionInv, AttentionTypes
  <1>4. \A d \in Conversations : Len(messages'[d]) = Len(messages[d]) + (IF d = c THEN 1 ELSE 0)
    <2>1. \A d \in Conversations : Len(messages[d]) \in Nat
      BY LenProperties DEF AttentionInv, AttentionTypes
    <2> QED BY <1>2, <2>1 DEF AttentionInv, AttentionTypes
  <1>5. inbox \in Seq(Entries) /\ \A k \in DOMAIN inbox : inbox[k] \in Entries
    <2>1. inbox \in Seq(Entries)
      BY DEF AttentionInv, AttentionTypes
    <2> QED BY <2>1, LenProperties, ElementOfSeq
  <1>6. /\ box \in Seq(Entries) /\ DOMAIN inbox \subseteq DOMAIN box
        /\ \A k \in DOMAIN inbox :
              \/ box[k] = inbox[k]
              \/ \E rank \in Ranks : /\ box[k] = Attention!Merged(inbox[k], seq, rank)
                                     /\ inbox[k].conv = c /\ inbox[k].state # "done"
        /\ \A k \in DOMAIN box \ DOMAIN inbox : \E a \in Agents, rank \in Ranks :
              /\ box[k] = Attention!NewItem(a, c, seq, rank)
              /\ \A j \in DOMAIN inbox :
                    inbox[j].agent = a /\ inbox[j].state # "done" => inbox[j].conv # c
        /\ \A k, l \in DOMAIN box \ DOMAIN inbox : k # l => box[k].agent # box[l].agent
    <2>1. Delivery(box, inbox, c, seq)
      BY <1>0, <1>1, <1>5, DeliveredItems
    <2> QED BY <2>1 DEF Delivery
  <1>7. \A k \in DOMAIN inbox :
           /\ InPlace(inbox[k], Len(messages[inbox[k].conv]), cursors[<<inbox[k].agent, inbox[k].conv>>])
           /\ inbox[k].conv \in Conversations /\ inbox[k].from \in Nat /\ inbox[k].to \in Nat /\ inbox[k].read \in Nat
           /\ Len(messages[inbox[k].conv]) \in Nat
    <2>1. \A d \in Conversations : Len(messages[d]) \in Nat
      BY LenProperties DEF AttentionInv, AttentionTypes
    <2> QED BY <1>5, <2>1 DEF AttentionInv, Orderly, Entries
  <1>8. \A k \in DOMAIN inbox :
           /\ box[k].agent = inbox[k].agent /\ box[k].conv = inbox[k].conv
           /\ box[k].state = inbox[k].state /\ box[k].from = inbox[k].from
           /\ box[k].read = inbox[k].read /\ box[k].lease = inbox[k].lease
           /\ box[k].live = inbox[k].live
           /\ box[k].to = inbox[k].to \/ (box[k].to = seq /\ box[k].conv = c)
    <2> SUFFICES ASSUME NEW k \in DOMAIN inbox
                 PROVE  /\ box[k].agent = inbox[k].agent /\ box[k].conv = inbox[k].conv
                        /\ box[k].state = inbox[k].state /\ box[k].from = inbox[k].from
                        /\ box[k].read = inbox[k].read /\ box[k].lease = inbox[k].lease
                        /\ box[k].live = inbox[k].live
                        /\ box[k].to = inbox[k].to \/ (box[k].to = seq /\ box[k].conv = c)
      OBVIOUS
    <2>1. inbox[k] \in Entries
      BY <1>5
    <2>2. CASE box[k] = inbox[k]
      BY <2>2
    <2>3. CASE \E rank \in Ranks :
                  /\ box[k] = Attention!Merged(inbox[k], seq, rank)
                  /\ inbox[k].conv = c /\ inbox[k].state # "done"
      <3>1. PICK rank \in Ranks : box[k] = Attention!Merged(inbox[k], seq, rank) /\ inbox[k].conv = c
        BY <2>3
      <3> QED BY <1>1, <2>1, <3>1, EntryMerged
    <2>4. \/ box[k] = inbox[k]
          \/ \E rank \in Ranks :
                  /\ box[k] = Attention!Merged(inbox[k], seq, rank)
                  /\ inbox[k].conv = c /\ inbox[k].state # "done"
      BY <1>6
    <2> QED BY <2>2, <2>3, <2>4
  <1>9. \A k \in DOMAIN inbox : box[k].to >= inbox[k].to
    <2> SUFFICES ASSUME NEW k \in DOMAIN inbox PROVE box[k].to >= inbox[k].to
      OBVIOUS
    <2>1. inbox[k].to <= Len(messages[inbox[k].conv]) /\ inbox[k].to \in Nat
      BY <1>7 DEF InPlace
    <2>2. box[k].to = inbox[k].to \/ (box[k].to = Len(messages[c]) + 1 /\ inbox[k].conv = c)
      BY <1>0, <1>8
    <2> QED BY <1>1, <2>1, <2>2
  <1>10. \A k \in DOMAIN box \ DOMAIN inbox :
            /\ box[k].agent \in Agents /\ box[k].conv = c /\ box[k].from = seq /\ box[k].to = seq
            /\ box[k].state = "pending" /\ box[k].lease = NoLease /\ box[k].live = FALSE
            /\ \A j \in DOMAIN inbox :
                  inbox[j].agent = box[k].agent /\ inbox[j].state # "done" => inbox[j].conv # c
    <2> SUFFICES ASSUME NEW k \in DOMAIN box \ DOMAIN inbox
                 PROVE  /\ box[k].agent \in Agents /\ box[k].conv = c
                        /\ box[k].from = seq /\ box[k].to = seq /\ box[k].state = "pending"
                        /\ box[k].lease = NoLease /\ box[k].live = FALSE
                        /\ \A j \in DOMAIN inbox :
                              inbox[j].agent = box[k].agent /\ inbox[j].state # "done" =>
                                 inbox[j].conv # c
      OBVIOUS
    <2>1. PICK a \in Agents, rank \in Ranks :
             /\ box[k] = Attention!NewItem(a, c, seq, rank)
             /\ \A j \in DOMAIN inbox :
                   inbox[j].agent = a /\ inbox[j].state # "done" => inbox[j].conv # c
      BY <1>6
    <2>2. /\ box[k].agent = a /\ box[k].conv = c
          /\ box[k].from = seq /\ box[k].to = seq /\ box[k].state = "pending"
          /\ box[k].lease = NoLease /\ box[k].live = FALSE
      BY <2>1 DEF Attention!NewItem
    <2> QED BY <2>1, <2>2
  <1>11. \A k \in DOMAIN box :
            InPlace(box[k], Len(messages'[box[k].conv]), cursors[<<box[k].agent, box[k].conv>>])
    <2>1. ASSUME NEW k \in DOMAIN inbox
          PROVE  InPlace(box[k], Len(messages'[box[k].conv]), cursors[<<box[k].agent, box[k].conv>>])
      <3>1. Len(messages'[box[k].conv]) >= Len(messages[inbox[k].conv])
        BY <1>4, <1>7, <1>8
      <3>2. Len(messages'[box[k].conv]) \in Nat
        BY <1>4, <1>7, <1>8
      <3>3. box[k].to <= Len(messages'[box[k].conv])
        <4>1. box[k].to = inbox[k].to \/ (box[k].to = Len(messages[c]) + 1 /\ box[k].conv = c)
          BY <1>0, <1>8
        <4>2. Len(messages'[c]) = Len(messages[c]) + 1
          BY <1>4
        <4>3. inbox[k].to <= Len(messages[inbox[k].conv]) /\ inbox[k].to \in Nat
          BY <1>7 DEF InPlace
        <4>4. Len(messages[inbox[k].conv]) \in Nat
          BY <1>7
        <4> QED BY <1>1, <3>1, <3>2, <4>1, <4>2, <4>3, <4>4
      <3> DEFINE last == Len(messages[inbox[k].conv])
                 later == Len(messages'[box[k].conv])
                 cursor == cursors[<<inbox[k].agent, inbox[k].conv>>]
      <3>4. InPlace(inbox[k], last, cursor) /\ last \in Nat
        BY <1>7
      <3>5. later \in Nat /\ later >= last /\ box[k].to <= later
        BY <3>1, <3>2, <3>3
      <3>6. cursors[<<box[k].agent, box[k].conv>>] = cursor
        BY <1>8
      <3>7. inbox[k].from \in Nat /\ inbox[k].to \in Nat /\ inbox[k].read \in Nat /\ box[k].to \in Nat
        BY <1>1, <1>7, <1>8
      <3> HIDE DEF last, later, cursor
      <3>8. InPlace(box[k], later, cursor)
        BY <1>8, <1>9, <3>4, <3>5, <3>7 DEF InPlace
      <3> QED BY <3>6, <3>8 DEF later
    <2>2. ASSUME NEW k \in DOMAIN box \ DOMAIN inbox
          PROVE  InPlace(box[k], Len(messages'[box[k].conv]), cursors[<<box[k].agent, box[k].conv>>])
      <3>1. Len(messages'[c]) = seq
        BY <1>0, <1>1, <1>4
      <3>2. 1 <= seq /\ seq <= seq
        BY <1>0, <1>1
      <3> QED BY <1>10, <3>1, <3>2, AgentsAssumption DEF InPlace
    <2> QED BY <2>1, <2>2
  <1>12. \A j, k \in DOMAIN box : j # k => Apart(box[j], box[k])
    <2>1. \A j, k \in DOMAIN inbox : j # k => Apart(box[j], box[k])
      BY <1>8 DEF AttentionInv, Orderly, Apart
    <2>2. \A j \in DOMAIN inbox, k \in DOMAIN box \ DOMAIN inbox :
             Apart(box[j], box[k]) /\ Apart(box[k], box[j])
      BY <1>8, <1>10 DEF Apart
    <2>3. \A j, k \in DOMAIN box \ DOMAIN inbox : j # k => Apart(box[j], box[k])
      BY <1>6 DEF Apart
    <2> QED BY <2>1, <2>2, <2>3
  <1> QED BY <1>3, <1>4, <1>6, <1>8, <1>9, <1>11, <1>12 DEF Orderly, Extended, box

(* One item changes for the same agent and conversation: it does not open  *)
(* and its claim does not come to life.                                    *)
LEMMA OneChanged ==
  ASSUME NEW box \in Seq(Entries), NEW msgs, NEW shown, NEW now, Orderly(box, msgs, shown),
         NEW k \in DOMAIN box, NEW item \in Entries,
         item.agent = box[k].agent, item.conv = box[k].conv, item.live => box[k].live,
         item.state # "done" => box[k].state # "done",
         InPlace(item, Len(msgs[item.conv]), now[<<item.agent, item.conv>>]),
         \A j \in DOMAIN box : j # k /\ box[j].live =>
            now[<<box[j].agent, box[j].conv>>] = shown[<<box[j].agent, box[j].conv>>]
  PROVE  /\ [box EXCEPT ![k] = item] \in Seq(Entries) /\ Orderly([box EXCEPT ![k] = item], msgs, now)
         /\ DOMAIN [box EXCEPT ![k] = item] = DOMAIN box
  <1> DEFINE next == [box EXCEPT ![k] = item]
  <1>1. next \in Seq(Entries) /\ DOMAIN next = DOMAIN box
    BY ExceptSeq, LenProperties
  <1>2. \A j \in DOMAIN box : next[j] = IF j = k THEN item ELSE box[j]
    OBVIOUS
  <1> HIDE DEF next
  <1>3. \A j \in DOMAIN next :
           InPlace(next[j], Len(msgs[next[j].conv]), now[<<next[j].agent, next[j].conv>>])
    <2> SUFFICES ASSUME NEW j \in DOMAIN box, j # k
                 PROVE  InPlace(box[j], Len(msgs[box[j].conv]), now[<<box[j].agent, box[j].conv>>])
      BY <1>1, <1>2
    <2>1. InPlace(box[j], Len(msgs[box[j].conv]), shown[<<box[j].agent, box[j].conv>>])
      BY DEF Orderly
    <2> QED BY <2>1 DEF InPlace
  <1>4. ASSUME NEW i \in DOMAIN next, NEW j \in DOMAIN next, i # j
        PROVE  Apart(next[i], next[j])
    <2>1. i \in DOMAIN box /\ j \in DOMAIN box /\ Apart(box[i], box[j])
      BY <1>1, <1>4 DEF Orderly
    <2>2. CASE i = k
      <3>1. next[i] = item /\ next[j] = box[j]
        BY <1>2, <1>4, <2>1, <2>2
      <3> QED BY <2>1, <2>2, <3>1 DEF Apart
    <2>3. CASE j = k
      <3>1. next[j] = item /\ next[i] = box[i]
        BY <1>2, <1>4, <2>1, <2>3
      <3> QED BY <2>1, <2>3, <3>1 DEF Apart
    <2>4. CASE i # k /\ j # k
      <3>1. next[j] = box[j] /\ next[i] = box[i]
        BY <1>2, <2>1, <2>4
      <3> QED BY <2>1, <3>1
    <2> QED BY <2>2, <2>3, <2>4
  <1> QED BY <1>1, <1>3, <1>4 DEF Orderly, next

(* Nobody was told anything at first.                                      *)
LEMMA AttentionStarts == Init => AttentionInv
  <1> SUFFICES ASSUME Init PROVE AttentionInv
    OBVIOUS
  <1>1. /\ messages = [c \in Conversations |-> <<>>] /\ inbox = <<>>
        /\ cursors = [p \in Pairs |-> 0]
    BY DEF Init, Attention!Init, Attention!Pairs, Pairs
  <1>2. AttentionTypes
    BY <1>1, EmptySeq DEF AttentionTypes
  <1>3. \A p \in Pairs : p[2] \in Conversations
    BY DEF Pairs
  <1>4. \A p \in Pairs : cursors[p] <= Len(messages[p[2]])
    BY <1>1, <1>3
  <1> QED BY <1>1, <1>2, <1>4 DEF AttentionInv, Orderly

(* The parts of an item under the changes of its own agent.                *)
LEMMA EntryFinished ==
  ASSUME NEW item \in Entries, NEW next, next = Attention!Finished(item)
  PROVE  /\ next \in Entries /\ next.agent = item.agent /\ next.conv = item.conv
         /\ next.state = "done" /\ next.lease = NoLease /\ next.live = FALSE
         /\ next.from = item.from /\ next.to = item.to
  BY DEF Entries, Attention!Finished

(* An entry put back waits again, with the messages it had.                *)
LEMMA EntryRequeued ==
  ASSUME NEW item \in Entries, NEW next, next = Attention!Requeued(item)
  PROVE  /\ next \in Entries /\ next.agent = item.agent /\ next.conv = item.conv
         /\ next.state = "pending" /\ next.lease = NoLease /\ next.live = item.live
         /\ next.from = item.from /\ next.to = item.to
  BY DEF Entries, Attention!Requeued

(* An entry whose conversation is read through.                            *)
LEMMA EntryShown ==
  ASSUME NEW item \in Entries, NEW next, next = Attention!ShowAll(item), Attention!LastSeq(item.conv) \in Nat
  PROVE  /\ next \in Entries /\ next.agent = item.agent /\ next.conv = item.conv
         /\ next.state = item.state /\ next.lease = item.lease /\ next.live = item.live
         /\ next.from = item.from /\ next.to = item.to /\ next.read = Attention!LastSeq(item.conv)
  BY DEF Entries, Attention!ShowAll

TakenUp(item, lease) ==
    [Attention!ShowAll(item) EXCEPT !.state = "claimed", !.lease = lease, !.live = TRUE]

(* An entry that is claimed holds the new lease and is read through.       *)
LEMMA EntryClaimed ==
  ASSUME NEW item \in Entries, NEW lease \in Leases, NEW next, next = TakenUp(item, lease),
         Attention!LastSeq(item.conv) \in Nat
  PROVE  /\ next \in Entries /\ next.agent = item.agent /\ next.conv = item.conv
         /\ next.state = "claimed" /\ next.lease = lease /\ next.live
         /\ next.from = item.from /\ next.to = item.to /\ next.read = Attention!LastSeq(item.conv)
  <1> DEFINE shown == Attention!ShowAll(item)
  <1>1. /\ shown \in Entries /\ shown.agent = item.agent /\ shown.conv = item.conv
        /\ shown.from = item.from /\ shown.to = item.to /\ shown.read = Attention!LastSeq(item.conv)
    BY EntryShown
  <1> HIDE DEF shown
  <1>2. next = [shown EXCEPT !.state = "claimed", !.lease = lease, !.live = TRUE]
    BY DEF shown, TakenUp
  <1> QED BY <1>1, <1>2 DEF Entries

(* What the invariant says of one item and of one conversation.            *)
LEMMA AttentionParts ==
  ASSUME AttentionInv
  PROVE  /\ inbox \in Seq(Entries) /\ cursors \in [Pairs -> Nat] /\ Orderly(inbox, messages, cursors)
         /\ \A c \in Conversations : Attention!LastSeq(c) = Len(messages[c]) /\ Len(messages[c]) \in Nat
         /\ \A k \in DOMAIN inbox :
               /\ inbox[k] \in Entries /\ inbox[k].agent \in Agents /\ inbox[k].conv \in Conversations
               /\ inbox[k].from \in Nat /\ inbox[k].to \in Nat /\ inbox[k].read \in Nat
               /\ Attention!Holder(inbox[k]) = <<inbox[k].agent, inbox[k].conv>>
               /\ <<inbox[k].agent, inbox[k].conv>> \in Pairs
               /\ InPlace(inbox[k], Len(messages[inbox[k].conv]),
                          cursors[<<inbox[k].agent, inbox[k].conv>>])
  <1>1. inbox \in Seq(Entries) /\ cursors \in [Pairs -> Nat] /\ Orderly(inbox, messages, cursors)
    BY DEF AttentionInv, AttentionTypes
  <1>2. \A c \in Conversations : Attention!LastSeq(c) = Len(messages[c]) /\ Len(messages[c]) \in Nat
    BY LenProperties DEF AttentionInv, AttentionTypes, Attention!LastSeq
  <1>3. \A k \in DOMAIN inbox : inbox[k] \in Entries
    BY <1>1, LenProperties, ElementOfSeq
  <1>4. \A k \in DOMAIN inbox :
           /\ inbox[k].agent \in Agents /\ inbox[k].conv \in Conversations
           /\ inbox[k].from \in Nat /\ inbox[k].to \in Nat /\ inbox[k].read \in Nat
    BY <1>3 DEF Entries
  <1>5. \A k \in DOMAIN inbox :
           /\ Attention!Holder(inbox[k]) = <<inbox[k].agent, inbox[k].conv>>
           /\ <<inbox[k].agent, inbox[k].conv>> \in Pairs
    BY <1>4 DEF Pairs, Attention!Holder
  <1>6. \A k \in DOMAIN inbox :
           InPlace(inbox[k], Len(messages[inbox[k].conv]), cursors[<<inbox[k].agent, inbox[k].conv>>])
    BY <1>1 DEF Orderly
  <1> QED BY <1>1, <1>2, <1>3, <1>4, <1>5, <1>6

(* The recipients of a message.                                            *)
LEMMA RecipientsOk ==
  ASSUME NEW to \in Attention!Recipients
  PROVE  DOMAIN to \subseteq Agents /\ \A a \in DOMAIN to : to[a] \in Ranks
  BY DEF Attention!Recipients

(* An operation that finishes, shows or lets lapse one item.               *)
LEMMA OneItemKept ==
  ASSUME AttentionInv, NEW k \in DOMAIN inbox, NEW item \in Entries,
         inbox' = [inbox EXCEPT ![k] = item], messages' = messages,
         item.agent = inbox[k].agent, item.conv = inbox[k].conv, item.live => inbox[k].live,
         item.state # "done" => inbox[k].state # "done",
         \/ cursors' = cursors
         \/ /\ inbox[k].live
            /\ cursors' = [cursors EXCEPT ![<<item.agent, item.conv>>] = Len(messages[item.conv])],
         InPlace(item, Len(messages[item.conv]), cursors'[<<item.agent, item.conv>>])
  PROVE  AttentionInv'
  <1>1. /\ inbox \in Seq(Entries) /\ cursors \in [Pairs -> Nat] /\ Orderly(inbox, messages, cursors)
        /\ item.conv \in Conversations /\ <<item.agent, item.conv>> \in Pairs
        /\ Len(messages[item.conv]) \in Nat
    BY AttentionParts
  <1>2. \A j \in DOMAIN inbox : j # k /\ inbox[j].live =>
           cursors'[<<inbox[j].agent, inbox[j].conv>>] = cursors[<<inbox[j].agent, inbox[j].conv>>]
    <2> SUFFICES ASSUME NEW j \in DOMAIN inbox, j # k, inbox[j].live, inbox[k].live,
                        cursors' = [cursors EXCEPT ![<<item.agent, item.conv>>] = Len(messages[item.conv])]
        PROVE cursors'[<<inbox[j].agent, inbox[j].conv>>] = cursors[<<inbox[j].agent, inbox[j].conv>>]
      OBVIOUS
    <2>1. inbox[j].agent # item.agent
      BY <1>1 DEF Orderly, Apart
    <2>2. <<inbox[j].agent, inbox[j].conv>> # <<item.agent, item.conv>>
      BY <2>1
    <2>3. <<inbox[j].agent, inbox[j].conv>> \in Pairs
      BY AttentionParts
    <2> QED BY <1>1, <2>2, <2>3
  <1>3. inbox' \in Seq(Entries) /\ Orderly(inbox', messages, cursors')
    <2> DEFINE now == cursors'
    <2>1. \A j \in DOMAIN inbox : j # k /\ inbox[j].live =>
             now[<<inbox[j].agent, inbox[j].conv>>] = cursors[<<inbox[j].agent, inbox[j].conv>>]
      BY <1>2
    <2>2. InPlace(item, Len(messages[item.conv]), now[<<item.agent, item.conv>>])
      OBVIOUS
    <2> HIDE DEF now
    <2>3. [inbox EXCEPT ![k] = item] \in Seq(Entries) /\ Orderly([inbox EXCEPT ![k] = item], messages, now)
      <3>1. inbox \in Seq(Entries) /\ Orderly(inbox, messages, cursors)
        BY <1>1
      <3> QED BY ONLY <2>1, <2>2, <3>1, OneChanged, k \in DOMAIN inbox, item \in Entries,
         item.agent = inbox[k].agent, item.conv = inbox[k].conv, item.live => inbox[k].live,
         item.state # "done" => inbox[k].state # "done"
    <2> QED BY <2>3 DEF now
  <1>4. cursors' \in [Pairs -> Nat]
    BY <1>1
  <1>5. \A p \in Pairs : cursors'[p] <= Len(messages[p[2]])
    <2> SUFFICES ASSUME NEW p \in Pairs PROVE cursors'[p] <= Len(messages[p[2]])
      OBVIOUS
    <2>1. cursors'[p] = cursors[p] \/
             (p = <<item.agent, item.conv>> /\ cursors'[p] = Len(messages[item.conv]))
      BY <1>1
    <2>2. cursors[p] <= Len(messages[p[2]])
      BY DEF AttentionInv
    <2> QED BY <1>1, <2>1, <2>2
  <1> QED BY <1>3, <1>4, <1>5 DEF AttentionInv, AttentionTypes

(* A reply is a message, and finishes the item it answers.                 *)
LEMMA ReplyKept ==
  ASSUME AttentionInv, NEW k \in DOMAIN inbox, NEW c \in Conversations, NEW to,
         DOMAIN to \subseteq Agents, \A a \in DOMAIN to : to[a] \in Ranks,
         messages' = [messages EXCEPT ![c] = Append(@, DOMAIN to)], cursors' = cursors,
         inbox' = [Told(c, to) EXCEPT ![k] = Attention!Finished(Told(c, to)[k])]
  PROVE  AttentionInv'
  <1> DEFINE box == Told(c, to)
             item == Attention!Finished(box[k])
  <1>1. /\ messages' \in [Conversations -> Seq(SUBSET Agents)]
        /\ \A d \in Conversations : Len(messages'[d]) = Len(messages[d]) + (IF d = c THEN 1 ELSE 0)
        /\ box \in Seq(Entries) /\ Orderly(box, messages', cursors) /\ DOMAIN inbox \subseteq DOMAIN box
    BY DeliveredOrderly
  <1>2. k \in DOMAIN box /\ box[k] \in Entries
    BY <1>1, LenProperties, ElementOfSeq
  <1>3. /\ item \in Entries /\ item.agent = box[k].agent /\ item.conv = box[k].conv
        /\ item.state = "done" /\ item.lease = NoLease /\ item.live = FALSE
        /\ item.from = box[k].from /\ item.to = box[k].to
    BY <1>2, EntryFinished
  <1>4. inbox' = [box EXCEPT ![k] = item]
    OBVIOUS
  <1> HIDE DEF item, box
  <1>5. InPlace(item, Len(messages'[item.conv]), cursors[<<item.agent, item.conv>>])
    BY <1>1, <1>2, <1>3, AgentsAssumption DEF InPlace, Orderly
  <1>6. [box EXCEPT ![k] = item] \in Seq(Entries) /\ Orderly([box EXCEPT ![k] = item], messages', cursors)
    <2>1. item.state # "done" => box[k].state # "done"
      BY <1>3
    <2>2. item.live => box[k].live
      BY <1>3
    <2> QED BY <1>1, <1>2, <1>3, <1>5, <2>1, <2>2, OneChanged
  <1>7. \A p \in Pairs : cursors[p] <= Len(messages'[p[2]])
    <2>1. \A p \in Pairs : p[2] \in Conversations
      BY DEF Pairs
    <2>2. \A d \in Conversations : Len(messages[d]) \in Nat
      BY AttentionParts
    <2> QED BY <1>1, <2>1, <2>2 DEF AttentionInv, AttentionTypes
  <1> QED BY <1>4, <1>1, <1>6, <1>7 DEF AttentionInv, AttentionTypes

(* Every message, claim, refresh, reply and lapse keeps the invariant.     *)
LEMMA AttentionKept == AttentionInv /\ [Attention!Next]_attentionVars => AttentionInv'
  <1> SUFFICES ASSUME AttentionInv, [Attention!Next]_attentionVars PROVE AttentionInv'
    OBVIOUS
  <1>1. CASE UNCHANGED attentionVars \/ Attention!MarkStep
    <2>1. UNCHANGED <<messages, inbox, cursors>>
      BY <1>1 DEF attentionVars, Attention!MarkStep, Attention!SetWorkMark, Attention!ClearWorkMark
    <2> QED BY <2>1 DEF AttentionInv, AttentionTypes, Orderly
  <1>2. ASSUME NEW c \in Conversations, NEW to \in Attention!Recipients, Attention!Publish(c, to)
        PROVE  AttentionInv'
    <2>1. /\ messages' = [messages EXCEPT ![c] = Append(@, DOMAIN to)] /\ cursors' = cursors
          /\ inbox' = Told(c, to)
      BY <1>2 DEF Told, Attention!Publish, Attention!Send, Attention!LastSeq
    <2>2. /\ messages' \in [Conversations -> Seq(SUBSET Agents)]
          /\ \A d \in Conversations : Len(messages'[d]) = Len(messages[d]) + (IF d = c THEN 1 ELSE 0)
          /\ inbox' \in Seq(Entries) /\ Orderly(inbox', messages', cursors)
      BY <2>1, RecipientsOk, DeliveredOrderly
    <2>3. \A p \in Pairs : cursors[p] <= Len(messages'[p[2]])
      <3>1. \A p \in Pairs : p[2] \in Conversations
        BY DEF Pairs
      <3>2. \A d \in Conversations : Len(messages[d]) \in Nat
        BY AttentionParts
      <3> QED BY <2>2, <3>1, <3>2 DEF AttentionInv, AttentionTypes
    <2> QED BY <2>1, <2>2, <2>3 DEF AttentionInv, AttentionTypes
  <1>3. ASSUME NEW a \in Agents, NEW lease \in Leases, Attention!Claim(a, lease) PROVE AttentionInv'
    <2>1. ~Attention!Busy(a) /\ messages' = messages
      BY <1>3 DEF Attention!Claim
    <2>2. PICK k \in DOMAIN inbox :
             /\ Attention!Foremost(a, k)
             /\ inbox' = [j \in DOMAIN inbox |->
                    IF j = k THEN [Attention!ShowAll(inbox[k]) EXCEPT
                                      !.state = "claimed", !.lease = lease, !.live = TRUE]
                    ELSE IF Attention!Lapsed(inbox[j], a) THEN Attention!Requeued(inbox[j]) ELSE inbox[j]]
             /\ Attention!MoveCursor(inbox[k])
      BY <1>3 DEF Attention!Claim
    <2> DEFINE last == Len(messages[inbox[k].conv])
               holder == <<inbox[k].agent, inbox[k].conv>>
    <2>3. inbox[k].agent = a /\ inbox[k].state # "done"
      BY <2>2 DEF Attention!Foremost, Attention!Waiting, Attention!Lapsed
    <2>4. last \in Nat /\ holder \in Pairs /\ inbox[k] \in Entries /\ Attention!LastSeq(inbox[k].conv) = last
      BY AttentionParts
    <2>5. cursors' = [cursors EXCEPT ![holder] = last]
      BY <2>2, <2>4, AttentionParts DEF Attention!MoveCursor
    <2>6. /\ inbox'[k] \in Entries /\ inbox'[k].agent = a /\ inbox'[k].conv = inbox[k].conv
          /\ inbox'[k].state = "claimed" /\ inbox'[k].lease = lease /\ inbox'[k].live
          /\ inbox'[k].from = inbox[k].from /\ inbox'[k].to = inbox[k].to /\ inbox'[k].read = last
      <3> DEFINE next == inbox'[k]
      <3>1. next = TakenUp(inbox[k], lease)
        BY <2>2 DEF TakenUp
      <3> HIDE DEF next
      <3>2. /\ next \in Entries /\ next.agent = inbox[k].agent /\ next.conv = inbox[k].conv
            /\ next.state = "claimed" /\ next.lease = lease /\ next.live
            /\ next.from = inbox[k].from /\ next.to = inbox[k].to
            /\ next.read = Attention!LastSeq(inbox[k].conv)
        <4>1. inbox[k] \in Entries /\ Attention!LastSeq(inbox[k].conv) \in Nat
          BY <2>4
        <4> QED BY <3>1, <4>1, EntryClaimed
      <3> QED BY <2>3, <2>4, <3>2 DEF next
    <2>7. ASSUME NEW j \in DOMAIN inbox, j # k
          PROVE  /\ inbox'[j] \in Entries /\ inbox'[j].agent = inbox[j].agent
                 /\ inbox'[j].conv = inbox[j].conv /\ inbox'[j].live = inbox[j].live
                 /\ inbox'[j].from = inbox[j].from /\ inbox'[j].to = inbox[j].to
                 /\ inbox'[j].state # "done" => inbox[j].state # "done"
                 /\ \/ inbox'[j] = inbox[j]
                    \/ inbox'[j].state = "pending" /\ inbox'[j].lease = NoLease /\ inbox[j].live = FALSE
      <3>1. inbox[j] \in Entries
        BY AttentionParts
      <3>2. CASE Attention!Lapsed(inbox[j], a)
        <4>1. inbox'[j] = Attention!Requeued(inbox[j])
          BY <2>2, <2>7, <3>2
        <4>2. inbox[j].live = FALSE /\ inbox[j].state # "done"
          BY <3>1, <3>2 DEF Attention!Lapsed, Entries
        <4> QED BY <3>1, <4>1, <4>2, EntryRequeued
      <3>3. CASE ~Attention!Lapsed(inbox[j], a)
        BY <2>2, <2>7, <3>1, <3>3
      <3> QED BY <3>2, <3>3
    <2>8. \A j \in DOMAIN inbox : inbox[j].agent = a => ~inbox[j].live
      BY <2>1, AttentionParts DEF Attention!Busy, InPlace
    <2>9. DOMAIN inbox' = DOMAIN inbox /\ inbox' \in [DOMAIN inbox -> Entries]
      BY <2>2, <2>6, <2>7
    <2>10. inbox' \in Seq(Entries) /\ inbox \in Seq(Entries)
      BY <2>9, AttentionParts, Mapped
    <2>11. cursors \in [Pairs -> Nat] /\ cursors' \in [Pairs -> Nat] /\ cursors'[holder] = last
           /\ \A p \in Pairs : p # holder => cursors'[p] = cursors[p]
      BY <2>4, <2>5, AttentionParts
    <2>12. \A j \in DOMAIN inbox :
              InPlace(inbox'[j], Len(messages[inbox'[j].conv]), cursors'[<<inbox'[j].agent, inbox'[j].conv>>])
      <3>1. InPlace(inbox'[k], last, cursors'[holder])
        <4>1. /\ 1 <= inbox[k].from /\ inbox[k].from <= inbox[k].to /\ inbox[k].to <= last
              /\ inbox[k].from \in Nat /\ inbox[k].to \in Nat
          BY AttentionParts DEF InPlace
        <4> QED BY <2>4, <2>6, <2>11, <4>1 DEF InPlace
      <3>2. Len(messages[inbox'[k].conv]) = last /\ <<inbox'[k].agent, inbox'[k].conv>> = holder
        BY <2>3, <2>6
      <3>3. ASSUME NEW j \in DOMAIN inbox, j # k
            PROVE  InPlace(inbox'[j], Len(messages[inbox'[j].conv]),
                           cursors'[<<inbox'[j].agent, inbox'[j].conv>>])
        <4> DEFINE pair == <<inbox[j].agent, inbox[j].conv>>
                   here == Len(messages[inbox[j].conv])
        <4>1. InPlace(inbox[j], here, cursors[pair]) /\ pair \in Pairs
          BY AttentionParts
        <4>2. inbox[j].live => cursors'[pair] = cursors[pair]
          <5>1. inbox[j].live => inbox[j].agent # a
            BY <2>8
          <5>2. inbox[j].live => pair # holder
            BY <2>3, <5>1
          <5> QED BY <2>11, <4>1, <5>2
        <4>3. Len(messages[inbox'[j].conv]) = here /\ <<inbox'[j].agent, inbox'[j].conv>> = pair
          BY <2>7, <3>3
        <4> HIDE DEF pair, here
        <4>4. InPlace(inbox'[j], here, cursors'[pair])
          BY <2>7, <3>3, <4>1, <4>2, AgentsAssumption DEF InPlace
        <4> QED BY <4>3, <4>4
      <3> QED BY <3>1, <3>2, <3>3
    <2>13. \A i, j \in DOMAIN inbox : i # j => Apart(inbox'[i], inbox'[j])
      <3>1. \A i, j \in DOMAIN inbox : i # j => Apart(inbox[i], inbox[j])
        BY AttentionParts DEF Orderly
      <3>2. \A j \in DOMAIN inbox : j # k => Apart(inbox[k], inbox[j]) /\ Apart(inbox[j], inbox[k])
        BY <3>1
      <3>3. ASSUME NEW j \in DOMAIN inbox, j # k
            PROVE  Apart(inbox'[k], inbox'[j]) /\ Apart(inbox'[j], inbox'[k])
        <4>1. /\ inbox'[j].agent = inbox[j].agent /\ inbox'[j].conv = inbox[j].conv
              /\ inbox'[j].live => inbox[j].live
              /\ inbox'[j].state # "done" => inbox[j].state # "done"
          BY <2>7, <3>3
        <4>2. /\ inbox'[k].agent = inbox[k].agent /\ inbox'[k].conv = inbox[k].conv
              /\ inbox[k].agent = a /\ inbox[k].state # "done"
          BY <2>3, <2>6
        <4>3. inbox[j].agent = a => ~inbox[j].live
          BY <2>8
        <4>4. Apart(inbox[k], inbox[j]) /\ Apart(inbox[j], inbox[k])
          BY <3>2, <3>3
        <4> QED BY <4>1, <4>2, <4>3, <4>4 DEF Apart
      <3>4. ASSUME NEW i \in DOMAIN inbox, NEW j \in DOMAIN inbox, i # j, i # k, j # k
            PROVE  Apart(inbox'[i], inbox'[j])
        <4>1. /\ inbox'[i].agent = inbox[i].agent /\ inbox'[i].conv = inbox[i].conv
              /\ inbox'[i].live => inbox[i].live
              /\ inbox'[i].state # "done" => inbox[i].state # "done"
          BY <2>7, <3>4
        <4>2. /\ inbox'[j].agent = inbox[j].agent /\ inbox'[j].conv = inbox[j].conv
              /\ inbox'[j].live => inbox[j].live
              /\ inbox'[j].state # "done" => inbox[j].state # "done"
          BY <2>7, <3>4
        <4>3. Apart(inbox[i], inbox[j])
          BY <3>1, <3>4
        <4> QED BY <4>1, <4>2, <4>3 DEF Apart
      <3> QED BY <3>3, <3>4
    <2>14. \A p \in Pairs : cursors'[p] <= Len(messages[p[2]])
      <3>1. \A p \in Pairs : cursors[p] <= Len(messages[p[2]])
        BY DEF AttentionInv
      <3>2. cursors'[holder] <= Len(messages[holder[2]])
        BY <2>4, <2>11
      <3> QED BY <2>11, <3>1, <3>2
    <2>15. Orderly(inbox', messages', cursors')
      BY <2>1, <2>9, <2>12, <2>13 DEF Orderly
    <2> QED BY <2>1, <2>10, <2>11, <2>14, <2>15 DEF AttentionInv, AttentionTypes
  <1>4. ASSUME NEW a \in Agents, NEW lease \in Leases, NEW k \in DOMAIN inbox, Attention!Work(a, lease, k)
        PROVE  AttentionInv'
    <2>1. inbox[k] \in Entries /\ Attention!LastSeq(inbox[k].conv) = Len(messages[inbox[k].conv])
          /\ Len(messages[inbox[k].conv]) \in Nat /\ inbox[k].conv \in Conversations
          /\ InPlace(inbox[k], Len(messages[inbox[k].conv]), cursors[<<inbox[k].agent, inbox[k].conv>>])
          /\ <<inbox[k].agent, inbox[k].conv>> \in Pairs /\ cursors \in [Pairs -> Nat]
      BY AttentionParts
    <2>2. CASE Attention!Ack(a, lease, k)
      <3> DEFINE item == Attention!Finished(inbox[k])
      <3>1. inbox' = [inbox EXCEPT ![k] = item] /\ UNCHANGED <<messages, cursors>>
            /\ inbox[k].state = "claimed"
        BY <2>2 DEF Attention!Ack, Attention!ValidLease
      <3>2. /\ item \in Entries /\ item.agent = inbox[k].agent /\ item.conv = inbox[k].conv
            /\ item.state = "done" /\ item.lease = NoLease /\ item.live = FALSE
            /\ item.from = inbox[k].from /\ item.to = inbox[k].to
        BY <2>1, EntryFinished
      <3> HIDE DEF item
      <3>3. InPlace(item, Len(messages[item.conv]), cursors'[<<item.agent, item.conv>>])
        BY <2>1, <3>2, AgentsAssumption DEF InPlace
      <3> QED BY <3>1, <3>2, <3>3, OneItemKept
    <2>3. CASE Attention!Refresh(a, lease, k)
      <3> DEFINE item == Attention!ShowAll(inbox[k])
      <3>1. inbox' = [inbox EXCEPT ![k] = item] /\ messages' = messages
            /\ cursors' = [cursors EXCEPT ![Attention!Holder(inbox[k])] = Attention!LastSeq(inbox[k].conv)]
            /\ inbox[k].live
        BY <2>3 DEF Attention!Refresh, Attention!ValidLease, Attention!MoveCursor
      <3>2. /\ item \in Entries /\ item.agent = inbox[k].agent /\ item.conv = inbox[k].conv
            /\ item.state = inbox[k].state /\ item.lease = inbox[k].lease /\ item.live = inbox[k].live
            /\ item.from = inbox[k].from /\ item.to = inbox[k].to /\ item.read = Len(messages[inbox[k].conv])
        BY <2>1, EntryShown
      <3> HIDE DEF item
      <3>3. cursors' = [cursors EXCEPT ![<<item.agent, item.conv>>] = Len(messages[item.conv])]
        BY <2>1, <3>1, <3>2, AttentionParts
      <3>4. cursors'[<<item.agent, item.conv>>] = Len(messages[item.conv])
        BY <2>1, <3>2, <3>3
      <3>5. inbox[k].from <= Len(messages[inbox[k].conv])
        BY <2>1, AttentionParts DEF InPlace
      <3>6. InPlace(item, Len(messages[item.conv]), cursors'[<<item.agent, item.conv>>])
        BY <2>1, <3>2, <3>4, <3>5 DEF InPlace
      <3> QED BY <3>1, <3>2, <3>3, <3>6, OneItemKept
    <2>4. ASSUME NEW read \in 1..MaxMessages, Attention!KeepDraft(a, lease, k, read) PROVE AttentionInv'
      <3>1. UNCHANGED <<messages, inbox, cursors>>
        BY <2>4 DEF Attention!KeepDraft
      <3> QED BY <3>1 DEF AttentionInv, AttentionTypes, Orderly
    <2>5. ASSUME NEW read \in 1..MaxMessages, NEW to \in Attention!Recipients,
                 Attention!SendFresh(a, lease, k, read, to)
          PROVE  AttentionInv'
      <3> DEFINE box == Told(inbox[k].conv, to)
      <3>1. /\ messages' = [messages EXCEPT ![inbox[k].conv] = Append(@, DOMAIN to)] /\ cursors' = cursors
            /\ inbox' = [box EXCEPT ![k] = Attention!Finished(box[k])] /\ inbox[k].state = "claimed"
        BY <2>1, <2>5 DEF Told, Attention!SendFresh, Attention!Send, Attention!ValidLease
      <3>2. DOMAIN to \subseteq Agents /\ \A b \in DOMAIN to : to[b] \in Ranks
        BY RecipientsOk
      <3>3. inbox[k].conv \in Conversations
        BY <2>1
      <3> QED BY <3>1, <3>2, <3>3, ReplyKept
    <2> QED BY <1>4, <2>2, <2>3, <2>4, <2>5 DEF Attention!Work
  <1>5. ASSUME NEW k \in DOMAIN inbox, Attention!Expire(k) PROVE AttentionInv'
    <2> DEFINE item == [inbox[k] EXCEPT !.live = FALSE]
    <2>1. inbox[k] \in Entries
          /\ InPlace(inbox[k], Len(messages[inbox[k].conv]), cursors[<<inbox[k].agent, inbox[k].conv>>])
      BY AttentionParts
    <2>2. inbox' = [inbox EXCEPT ![k] = item] /\ UNCHANGED <<messages, cursors>>
      BY <1>5, <2>1 DEF Attention!Expire
    <2>3. /\ item \in Entries /\ item.agent = inbox[k].agent /\ item.conv = inbox[k].conv
          /\ item.state = inbox[k].state /\ item.lease = inbox[k].lease /\ item.live = FALSE
          /\ item.from = inbox[k].from /\ item.to = inbox[k].to /\ item.read = inbox[k].read
      BY <2>1 DEF Entries
    <2> HIDE DEF item
    <2>4. InPlace(item, Len(messages[item.conv]), cursors'[<<item.agent, item.conv>>])
      BY <2>1, <2>2, <2>3 DEF InPlace
    <2> QED BY <2>2, <2>3, <2>4, OneItemKept
  <1> QED BY <1>1, <1>2, <1>3, <1>4, <1>5 DEF Attention!Next, Attention!InboxStep

(* An agent has at most one live claim and one open item for each          *)
(* conversation, and what a live claim was shown is what the cursor says.  *)
THEOREM AgentsThinkOneThought == Spec => []OneThoughtAtATime
  <1>1. AttentionInv => OneThoughtAtATime
    BY AttentionParts DEF OneThoughtAtATime, Attention!OneThoughtAtATime, Orderly, Apart, InPlace,
       Attention!Open, Attention!Holder
  <1> QED BY <1>1, AttentionStarts, StepsOfParts, AttentionKept, PTL DEF Spec

-----------------------------------------------------------------------------
(* What a message waits for.                                               *)

(* The wait of message s of p in item k.                                   *)
WaitsIn(p, s, k) ==
    /\ p[1] \in messages[p[2]][s] /\ cursors[p] < s
    /\ k \in DOMAIN inbox /\ <<inbox[k].agent, inbox[k].conv>> = p /\ inbox[k].state # "done"
    /\ inbox[k].from <= s /\ s <= inbox[k].to

(* The item stays what the message waits in.                               *)
KeepsItem(k) ==
    /\ k \in DOMAIN inbox' /\ inbox'[k].agent = inbox[k].agent /\ inbox'[k].conv = inbox[k].conv
    /\ inbox'[k].from = inbox[k].from /\ inbox'[k].to >= inbox[k].to
    /\ inbox'[k].state # "done"

(* The message is there, and what was said before is not unsaid.           *)
KeepsMessages ==
    \A c \in Conversations : \A s \in 1..Len(messages[c]) : messages'[c][s] = messages[c][s]

(* A step that keeps the messages and the item keeps the wait, unless the  *)
(* agent was shown the message.                                            *)
LEMMA WaitKept ==
  ASSUME AttentionInv, AttentionInv', KeepsMessages, NEW p \in Pairs,
         NEW s \in 1..Attention!LastSeq(p[2]), NEW k, WaitsIn(p, s, k), KeepsItem(k)
  PROVE  Attention!Awaits(p, s)' \/ cursors'[p] >= s
  <1>1. p[2] \in Conversations /\ Len(messages[p[2]]) \in Nat /\ s \in 1..Len(messages[p[2]])
    <2>1. p[2] \in Conversations
      BY DEF Pairs
    <2> QED BY <2>1, AttentionParts
  <1>2. messages'[p[2]][s] = messages[p[2]][s]
    BY <1>1 DEF KeepsMessages
  <1>3. cursors'[p] \in Nat
    BY DEF AttentionInv, AttentionTypes
  <1>4. k \in DOMAIN inbox' /\ Attention!Holder(inbox'[k]) = p /\ Attention!Open(inbox'[k])
    BY DEF KeepsItem, WaitsIn, Attention!Holder, Attention!Open
  <1>5. inbox'[k] \in Entries
    <2>1. inbox' \in Seq(Entries)
      BY DEF AttentionInv, AttentionTypes
    <2> QED BY <1>4, <2>1, LenProperties, ElementOfSeq
  <1>6. inbox[k].to \in Nat /\ inbox'[k].from \in Nat /\ inbox'[k].to \in Nat
    BY <1>5, AttentionParts DEF WaitsIn, Entries
  <1>7. s \in inbox'[k].from..inbox'[k].to
    BY <1>1, <1>6 DEF WaitsIn, KeepsItem
  <1>8. p[1] \in messages'[p[2]][s]
    BY <1>2 DEF WaitsIn
  <1>9. CASE cursors'[p] < s
    BY <1>4, <1>7, <1>8, <1>9 DEF Attention!Awaits
  <1> QED BY <1>1, <1>3, <1>9

(* A claim changes of every item only its state and what it was shown.     *)
LEMMA ClaimKeepsItems ==
  ASSUME AttentionInv, NEW a \in Agents, NEW lease \in Leases, Attention!Claim(a, lease),
         NEW j \in DOMAIN inbox, inbox[j].state # "done"
  PROVE  KeepsItem(j)
  <1>1. PICK k \in DOMAIN inbox :
           inbox' = [i \in DOMAIN inbox |->
              IF i = k THEN TakenUp(inbox[k], lease)
              ELSE IF Attention!Lapsed(inbox[i], a) THEN Attention!Requeued(inbox[i]) ELSE inbox[i]]
    BY DEF Attention!Claim, TakenUp
  <1>2. /\ inbox[j] \in Entries /\ inbox[j].conv \in Conversations
        /\ Attention!LastSeq(inbox[j].conv) \in Nat /\ inbox[j].to \in Nat
    BY AttentionParts
  <1>3. DOMAIN inbox' = DOMAIN inbox
    BY <1>1
  <1>4. CASE inbox'[j] = TakenUp(inbox[j], lease)
    <2>1. /\ inbox'[j].agent = inbox[j].agent /\ inbox'[j].conv = inbox[j].conv
          /\ inbox'[j].state = "claimed" /\ inbox'[j].from = inbox[j].from
          /\ inbox'[j].to = inbox[j].to
      BY <1>2, <1>4, EntryClaimed
    <2> QED BY <1>2, <1>3, <2>1 DEF KeepsItem
  <1>5. CASE inbox'[j] = Attention!Requeued(inbox[j])
    <2>1. /\ inbox'[j].agent = inbox[j].agent /\ inbox'[j].conv = inbox[j].conv
          /\ inbox'[j].state = "pending" /\ inbox'[j].from = inbox[j].from
          /\ inbox'[j].to = inbox[j].to
      BY <1>2, <1>5, EntryRequeued
    <2> QED BY <1>2, <1>3, <2>1 DEF KeepsItem
  <1>6. CASE inbox'[j] = inbox[j]
    BY <1>2, <1>3, <1>6 DEF KeepsItem
  <1>7. \/ inbox'[j] = TakenUp(inbox[j], lease) \/ inbox'[j] = Attention!Requeued(inbox[j])
        \/ inbox'[j] = inbox[j]
    BY <1>1
  <1> QED BY <1>4, <1>5, <1>6, <1>7

(* A message sent keeps those before it, and every open item.              *)
LEMMA SendKeeps ==
  ASSUME AttentionInv, NEW c \in Conversations, NEW to, DOMAIN to \subseteq Agents,
         \A a \in DOMAIN to : to[a] \in Ranks,
         messages' = [messages EXCEPT ![c] = Append(@, DOMAIN to)]
  PROVE  /\ KeepsMessages
         /\ \A k \in DOMAIN inbox : inbox'[k] = Told(c, to)[k] /\ k \in DOMAIN inbox'
                                    /\ inbox[k].state # "done" => KeepsItem(k)
  <1>1. KeepsMessages
    <2> SUFFICES ASSUME NEW d \in Conversations, NEW s \in 1..Len(messages[d])
                 PROVE  messages'[d][s] = messages[d][s]
      BY DEF KeepsMessages
    <2>1. messages[d] \in Seq(SUBSET Agents) /\ messages \in [Conversations -> Seq(SUBSET Agents)]
      BY DEF AttentionInv, AttentionTypes
    <2>2. DOMAIN to \in SUBSET Agents /\ s \in DOMAIN messages[d]
      BY <2>1, LenProperties
    <2>3. CASE d = c
      <3>1. messages'[d] = Append(messages[d], DOMAIN to)
        BY <2>1, <2>3
      <3> QED BY <2>1, <2>2, <3>1, Appended
    <2>4. CASE d # c
      BY <2>1, <2>4
    <2> QED BY <2>3, <2>4
  <1>2. ASSUME NEW k \in DOMAIN inbox, inbox'[k] = Told(c, to)[k], k \in DOMAIN inbox',
               inbox[k].state # "done"
        PROVE  KeepsItem(k)
    <2>1. /\ Told(c, to)[k].agent = inbox[k].agent /\ Told(c, to)[k].conv = inbox[k].conv
          /\ Told(c, to)[k].state = inbox[k].state /\ Told(c, to)[k].from = inbox[k].from
          /\ Told(c, to)[k].to >= inbox[k].to
      <3>1. Extended(Told(c, to)[k], inbox[k])
        BY DeliveredOrderly
      <3> QED BY <3>1 DEF Extended
    <2> QED BY <1>2, <2>1 DEF KeepsItem
  <1> QED BY <1>1, <1>2

(* An operation on one item leaves the others, open or not, as they are.   *)
LEMMA OthersKept ==
  ASSUME AttentionInv, NEW k \in DOMAIN inbox, NEW item, inbox' = [inbox EXCEPT ![k] = item],
         NEW j \in DOMAIN inbox, inbox[j].state # "done", j # k
  PROVE  KeepsItem(j)
  <1>1. inbox'[j] = inbox[j] /\ j \in DOMAIN inbox'
    OBVIOUS
  <1>2. inbox[j].to \in Nat
    BY AttentionParts
  <1> QED BY <1>1, <1>2 DEF KeepsItem

(* What may become of a message that waits: it waits, it was shown, or the *)
(* item it is in was acknowledged.                                         *)
Settled(p, s) ==
    \/ Attention!Awaits(p, s)' \/ cursors'[p] >= s
    \/ messages' = messages /\ \E k \in DOMAIN inbox :
          Attention!Holder(inbox[k]) = p /\ inbox[k].live /\ inbox'[k].state = "done"

(* A message that waits for an agent still waits after a step, or is       *)
(* settled.                                                                *)
LEMMA WaitSettles ==
  ASSUME AttentionInv, AttentionInv', [Attention!Next]_attentionVars, NEW p \in Pairs,
         NEW s \in 1..Attention!LastSeq(p[2]), NEW k, WaitsIn(p, s, k)
  PROVE  Settled(p, s)
  <1>0. k \in DOMAIN inbox /\ inbox[k].state # "done" /\ inbox[k].to \in Nat
    BY AttentionParts DEF WaitsIn
  <1>1. ASSUME KeepsMessages, KeepsItem(k) PROVE Settled(p, s)
    BY <1>1, WaitKept DEF Settled
  <1>2. ASSUME messages' = messages PROVE KeepsMessages
    BY <1>2 DEF KeepsMessages
  <1>3. CASE UNCHANGED attentionVars \/ Attention!MarkStep
    <2>1. messages' = messages /\ inbox' = inbox
      BY <1>3 DEF attentionVars, Attention!MarkStep, Attention!SetWorkMark, Attention!ClearWorkMark
    <2>2. KeepsItem(k)
      BY <1>0, <2>1 DEF KeepsItem
    <2> QED BY <1>1, <1>2, <2>1, <2>2
  <1>4. ASSUME NEW c \in Conversations, NEW to \in Attention!Recipients, Attention!Publish(c, to)
        PROVE  Settled(p, s)
    <2>1. messages' = [messages EXCEPT ![c] = Append(@, DOMAIN to)] /\ inbox' = Told(c, to)
      BY <1>4 DEF Told, Attention!Publish, Attention!Send, Attention!LastSeq
    <2>2. DOMAIN to \subseteq Agents /\ \A a \in DOMAIN to : to[a] \in Ranks
      BY RecipientsOk
    <2>3. k \in DOMAIN inbox'
      BY <1>0, <2>1, <2>2, DeliveredOrderly
    <2>4. KeepsMessages /\ KeepsItem(k)
      BY <1>0, <2>1, <2>2, <2>3, SendKeeps
    <2> QED BY <1>1, <2>4
  <1>5. ASSUME NEW a \in Agents, NEW lease \in Leases, Attention!Claim(a, lease)
        PROVE  Settled(p, s)
    <2>1. messages' = messages
      BY <1>5 DEF Attention!Claim
    <2>2. KeepsItem(k)
      BY <1>0, <1>5, ClaimKeepsItems
    <2> QED BY <1>1, <1>2, <2>1, <2>2
  <1>6. ASSUME NEW a \in Agents, NEW lease \in Leases, NEW j \in DOMAIN inbox,
               Attention!Work(a, lease, j)
        PROVE  Settled(p, s)
    <2>1. CASE Attention!Ack(a, lease, j)
      <3>1. /\ messages' = messages /\ inbox' = [inbox EXCEPT ![j] = Attention!Finished(inbox[j])]
            /\ inbox[j].live
        BY <2>1 DEF Attention!Ack, Attention!ValidLease
      <3>2. CASE j = k
        <4>1. inbox[k] \in Entries /\ inbox'[k] = Attention!Finished(inbox[k])
          BY <1>0, <3>1, <3>2, AttentionParts
        <4>2. inbox'[k].state = "done"
          BY <4>1, EntryFinished
        <4>3. Attention!Holder(inbox[k]) = p
          BY DEF WaitsIn, Attention!Holder
        <4> QED BY <1>0, <3>1, <3>2, <4>2, <4>3 DEF Settled
      <3>3. CASE j # k
        BY <1>0, <1>1, <1>2, <3>1, <3>3, OthersKept
      <3> QED BY <3>2, <3>3
    <2>2. CASE Attention!Refresh(a, lease, j)
      <3>1. messages' = messages /\ inbox' = [inbox EXCEPT ![j] = Attention!ShowAll(inbox[j])]
        BY <2>2 DEF Attention!Refresh
      <3>2. CASE j = k
        <4>1. /\ inbox[k] \in Entries /\ inbox'[k] = Attention!ShowAll(inbox[k])
              /\ Attention!LastSeq(inbox[k].conv) \in Nat
          BY <1>0, <3>1, <3>2, AttentionParts
        <4>2. /\ inbox'[k].agent = inbox[k].agent /\ inbox'[k].conv = inbox[k].conv
              /\ inbox'[k].state = inbox[k].state /\ inbox'[k].from = inbox[k].from
              /\ inbox'[k].to = inbox[k].to
          BY <4>1, EntryShown
        <4>3. KeepsItem(k)
          BY <1>0, <3>1, <4>2 DEF KeepsItem
        <4> QED BY <1>1, <1>2, <3>1, <4>3
      <3>3. CASE j # k
        BY <1>0, <1>1, <1>2, <3>1, <3>3, OthersKept
      <3> QED BY <3>2, <3>3
    <2>3. ASSUME NEW read \in 1..MaxMessages, Attention!KeepDraft(a, lease, j, read)
          PROVE  Settled(p, s)
      <3>1. messages' = messages /\ inbox' = inbox
        BY <2>3 DEF Attention!KeepDraft
      <3>2. KeepsItem(k)
        BY <1>0, <3>1 DEF KeepsItem
      <3> QED BY <1>1, <1>2, <3>1, <3>2
    <2>4. ASSUME NEW read \in 1..MaxMessages, NEW to \in Attention!Recipients,
                 Attention!SendFresh(a, lease, j, read, to)
          PROVE  Settled(p, s)
      <3> DEFINE c == inbox[j].conv
                 box == Told(c, to)
      <3>1. /\ messages' = [messages EXCEPT ![c] = Append(@, DOMAIN to)]
            /\ inbox' = [box EXCEPT ![j] = Attention!Finished(box[j])]
            /\ inbox[j].live /\ inbox[j].read = read /\ Attention!LastSeq(c) = read
        BY <2>4, AttentionParts DEF Told, Attention!SendFresh, Attention!Send, Attention!ValidLease,
           Attention!Stale
      <3>2. DOMAIN to \subseteq Agents /\ \A b \in DOMAIN to : to[b] \in Ranks
        BY RecipientsOk
      <3>3. c \in Conversations
        BY AttentionParts
      (* What the item was answered for has been shown: it awaits nothing. *)
      <3>4. j # k
        <4> SUFFICES ASSUME j = k PROVE FALSE
          OBVIOUS
        <4>1. cursors[p] < s /\ p = <<inbox[k].agent, inbox[k].conv>>
          BY DEF WaitsIn
        <4>2. cursors[<<inbox[k].agent, inbox[k].conv>>] = inbox[k].read
          BY <1>0, <3>1, AttentionParts DEF InPlace
        <4>3. s <= Attention!LastSeq(p[2])
          BY <3>1, <4>1, <3>3, AttentionParts
        <4> QED BY <3>1, <4>1, <4>2, <4>3, AttentionParts
      <3> HIDE DEF c
      <3>5. k \in DOMAIN Told(c, to)
        BY <1>0, <3>1, <3>2, <3>3, DeliveredOrderly
      <3>6. inbox'[k] = Told(c, to)[k] /\ k \in DOMAIN inbox'
        BY <3>1, <3>4, <3>5
      <3>7. KeepsMessages /\ KeepsItem(k)
        BY <1>0, <3>1, <3>2, <3>3, <3>6, SendKeeps
      <3> QED BY <1>1, <3>7
    <2> QED BY <1>6, <2>1, <2>2, <2>3, <2>4 DEF Attention!Work
  <1>7. ASSUME NEW j \in DOMAIN inbox, Attention!Expire(j) PROVE Settled(p, s)
    <2>1. messages' = messages /\ inbox' = [inbox EXCEPT ![j].live = FALSE]
      BY <1>7 DEF Attention!Expire
    <2>2. KeepsItem(k)
      <3>1. inbox[k] \in Entries /\ inbox \in Seq(Entries)
        BY <1>0, AttentionParts
      <3> QED BY <1>0, <2>1, <3>1 DEF KeepsItem, Entries
    <2> QED BY <1>1, <1>2, <2>1, <2>2
  <1> QED BY <1>3, <1>4, <1>5, <1>6, <1>7 DEF Attention!Next, Attention!InboxStep

(* A delivered message waits for its agent until the agent was shown it or *)
(* has acknowledged the item it joined: no message sent by another, lapsed *)
(* lease, new claim or reply takes it away.                                *)
THEOREM DeliveredMessagesWait == Spec => MessagesWait
  <1>1. ASSUME AttentionInv, AttentionInv', [Attention!Next]_attentionVars,
               NEW p \in Pairs, NEW s \in 1..Attention!LastSeq(p[2]), Attention!Awaits(p, s)
        PROVE  Settled(p, s)
    <2>1. PICK k \in DOMAIN inbox :
             /\ Attention!Holder(inbox[k]) = p /\ Attention!Open(inbox[k])
             /\ s \in inbox[k].from..inbox[k].to
      BY <1>1 DEF Attention!Awaits
    <2>2. WaitsIn(p, s, k)
      BY <1>1, <2>1, AttentionParts DEF WaitsIn, Attention!Awaits, Attention!Holder, Attention!Open
    <2> QED BY <1>1, <2>2, WaitSettles
  <1>2. AttentionInv /\ AttentionInv' /\ [Attention!Next]_attentionVars =>
           \A p \in Pairs : \A s \in 1..Attention!LastSeq(p[2]) :
              Attention!Awaits(p, s) => Settled(p, s)
    BY <1>1
  <1>3. AttentionInv /\ AttentionInv' /\ [Attention!Next]_attentionVars =>
           [\A p \in Attention!Pairs : \A s \in 1..Attention!LastSeq(p[2]) :
               Attention!Awaits(p, s) =>
                  \/ Attention!Awaits(p, s)' \/ cursors'[p] >= s
                  \/ messages' = messages /\ \E k \in DOMAIN inbox :
                        Attention!Holder(inbox[k]) = p /\ inbox[k].live /\ inbox'[k].state = "done"]_attentionVars
    BY <1>2 DEF Settled, Pairs, Attention!Pairs
  <1> QED BY <1>3, AttentionStarts, StepsOfParts, AttentionKept, PTL
          DEF Spec, MessagesWait, Attention!MessagesWait, Attention!vars, attentionVars

-----------------------------------------------------------------------------
(* Agents and their teams.  Histories only grow; what is current follows   *)
(* from the selections, every proposal was made by an author who had seen  *)
(* what it replaces, and what a selection of a team has read or written    *)
(* down is in the histories.                                               *)

Selections ==
    [baseline : Nat, candidate : Nat, passes : BOOLEAN, decision : {"accept", "reject"}]

Proposals == [base : Nat, seen : Nat, state : {"open", "accepted", "rejected"}]

Records ==
    [revisions : Seq(Teams!Configurations), current : Nat, selections : Seq(Selections),
     relations : Seq(Nat), proposals : Seq(Proposals), sessions : Seq({"active", "retired"}),
     ledger : Seq(Nat)]

(* What holds of the histories of an agent, and of what it is to work with *)
(* from its creation on.                                                   *)
Histories(agent) ==
    /\ \A s \in DOMAIN agent.selections :
          /\ agent.selections[s].decision = "accept" => agent.selections[s].passes
          /\ Teams!Stands(agent, s - 1, agent.selections[s].baseline)
    /\ \A v \in DOMAIN agent.relations : agent.relations[v] = v - 1
    /\ \A p \in DOMAIN agent.proposals : agent.proposals[p].seen = agent.proposals[p].base

InForce(agent) ==
    /\ agent.current \in DOMAIN agent.revisions /\ Len(agent.relations) > 0
    /\ Teams!Stands(agent, Len(agent.selections), agent.current)

Reviewed(agent) ==
    /\ Histories(agent)
    /\ agent.ledger = <<>> =>
          agent.revisions = <<>> /\ agent.selections = <<>> /\ agent.relations = <<>>
    /\ agent.ledger # <<>> =>
          InForce(agent) /\ agent.ledger[Len(agent.ledger)] = Len(agent.relations)

(* What was read of an agent is in its histories.                          *)
Vouched(agent, revision, relation, config) ==
    /\ revision \in Teams!Promoted(agent) /\ revision \in DOMAIN agent.revisions
    /\ relation \in DOMAIN agent.relations
    /\ config = agent.revisions[revision]

(* A record that grew out of another.                                      *)
GrownFrom(new, old) ==
    /\ Teams!Promoted(old) \subseteq Teams!Promoted(new)
    /\ DOMAIN old.relations \subseteq DOMAIN new.relations
    /\ \A r \in DOMAIN old.revisions :
          r \in DOMAIN new.revisions /\ new.revisions[r] = old.revisions[r]

(* A longer record vouches for what it did.                                *)
LEMMA VouchesStill ==
  ASSUME NEW old, NEW new, GrownFrom(new, old), NEW revision, NEW relation, NEW config,
         Vouched(old, revision, relation, config)
  PROVE  Vouched(new, revision, relation, config)
  BY DEF GrownFrom, Vouched

(* One more selection: those before it stand as they did.                  *)
Continues(new, old, e) ==
    LET m == Len(old.selections) IN
    /\ m \in Nat /\ Len(new.selections) = m + 1 /\ new.selections[m + 1] = e
    /\ DOMAIN new.selections = DOMAIN old.selections \cup {m + 1}
    /\ \A s \in DOMAIN old.selections : new.selections[s] = old.selections[s]
    /\ \A n \in 0..m, c \in Nat : Teams!Stands(old, n, c) => Teams!Stands(new, n, c)
    /\ e.decision = "accept" => Teams!Stands(new, m + 1, e.candidate)
    /\ \A c \in Nat :
          e.decision # "accept" /\ Teams!Stands(old, m, c) => Teams!Stands(new, m + 1, c)
    /\ Teams!Promoted(old) \subseteq Teams!Promoted(new)

(* A record with one more selection.                                       *)
LEMMA SelectionAdded ==
  ASSUME NEW old \in Records, NEW new \in Records, NEW e \in Selections,
         new.selections = Append(old.selections, e)
  PROVE  Continues(new, old, e)
  <1> DEFINE before == old.selections
             after == new.selections
             m == Len(before)
  <1>1. before \in Seq(Selections) /\ after \in Seq(Selections)
    BY DEF Records
  <1>2. m \in Nat /\ Len(after) = m + 1 /\ DOMAIN before = 1..m /\ DOMAIN after = 1..m + 1
    BY <1>1, Appended, LenProperties
  <1>3. after[m + 1] = e /\ \A s \in 1..m : after[s] = before[s]
    BY <1>1, <1>2, Appended
  <1> HIDE DEF before, after, m
  <1>4. ASSUME NEW n \in 0..m, NEW c \in Nat, Teams!Stands(old, n, c)
        PROVE  Teams!Stands(new, n, c)
    <2>1. \A s \in 1..n : s \in 1..m /\ after[s] = before[s] /\ \A t \in s + 1..n : t \in 1..n
      BY <1>2, <1>3
    <2>2. \A s \in 1..n : new.selections[s] = old.selections[s]
      BY <2>1 DEF before, after
    <2>3. \A s \in 1..n : \A t \in s + 1..n : new.selections[t] = old.selections[t]
      BY <2>1, <2>2
    <2> QED BY <1>4, <2>2, <2>3 DEF Teams!Stands
  <1>5. ASSUME e.decision = "accept" PROVE Teams!Stands(new, m + 1, e.candidate)
    <2>1. m + 1 \in 1..m + 1 /\ \A t \in m + 1 + 1..m + 1 : FALSE
      BY <1>2
    <2>2. after[m + 1].candidate = e.candidate /\ after[m + 1].decision = "accept"
      BY <1>3, <1>5
    <2>3. \E s \in 1..m + 1 :
             /\ new.selections[s].candidate = e.candidate
             /\ new.selections[s].decision = "accept"
             /\ \A t \in s + 1..m + 1 : new.selections[t].decision # "accept"
      BY <2>1, <2>2 DEF after
    <2> QED BY <2>3 DEF Teams!Stands
  <1>6. ASSUME NEW c \in Nat, e.decision # "accept", Teams!Stands(old, m, c)
        PROVE  Teams!Stands(new, m + 1, c)
    <2>1. \A s \in 1..m : s \in 1..m + 1 /\ after[s] = before[s]
      BY <1>2, <1>3
    <2>2. \A t \in 1..m + 1 : t \in 1..m \/ t = m + 1
      BY <1>2
    <2>3. \A s \in 1..m : \A t \in s + 1..m + 1 : t \in s + 1..m \/ t = m + 1
      BY <1>2
    <2>4. \A s \in 1..m : \A t \in s + 1..m : t \in 1..m
      BY <1>2
    <2>5. CASE c = 1 /\ \A t \in 1..m : before[t].decision # "accept"
      <3>1. \A t \in 1..m + 1 : after[t].decision # "accept"
        BY <1>3, <1>6, <2>1, <2>2, <2>5
      <3> QED BY <2>5, <3>1 DEF Teams!Stands, after
    <2>6. CASE \E s \in 1..m : /\ before[s].decision = "accept" /\ before[s].candidate = c
                               /\ \A t \in s + 1..m : before[t].decision # "accept"
      <3>1. PICK s \in 1..m : /\ before[s].decision = "accept" /\ before[s].candidate = c
                              /\ \A t \in s + 1..m : before[t].decision # "accept"
        BY <2>6
      <3>2. \A t \in s + 1..m + 1 : after[t].decision # "accept"
        BY <1>3, <1>6, <2>1, <2>3, <2>4, <3>1
      <3>3. after[s].decision = "accept" /\ after[s].candidate = c /\ s \in 1..m + 1
        BY <2>1, <3>1
      <3> QED BY <3>2, <3>3 DEF Teams!Stands, after
    <2> QED BY <1>6, <2>5, <2>6 DEF Teams!Stands, before
  <1>7. Teams!Promoted(old) \subseteq Teams!Promoted(new)
    <2>1. \A s \in DOMAIN before : s \in DOMAIN after /\ after[s] = before[s]
      BY <1>2, <1>3
    <2> QED BY <2>1 DEF Teams!Promoted, before, after
  <1>8. DOMAIN after = DOMAIN before \cup {m + 1}
    BY <1>2
  <1> QED BY <1>2, <1>3, <1>4, <1>5, <1>6, <1>7, <1>8 DEF Continues, before, after, m

(* A record whose selections are the same stands where it stood.           *)
StandsLike(new, old) ==
    /\ \A n, c : Teams!Stands(new, n, c) <=> Teams!Stands(old, n, c)
    /\ Teams!Promoted(new) = Teams!Promoted(old)

(* A record with the selections it had.                                    *)
LEMMA SelectionsKept ==
  ASSUME NEW old, NEW new, new.selections = old.selections
  PROVE  StandsLike(new, old)
  BY DEF StandsLike, Teams!Stands, Teams!Promoted

(* What is stored has one more entry in its ledger.                        *)
LEMMA RecordStored ==
  ASSUME NEW old, NEW agent \in Records, Histories(agent), InForce(agent), GrownFrom(agent, old),
         NEW new, new = [agent EXCEPT !.ledger = Append(@, Len(agent.relations))]
  PROVE  new \in Records /\ Reviewed(new) /\ GrownFrom(new, old)
  <1> DEFINE n == Len(agent.relations)
             longer == Append(agent.ledger, n)
  <1>1. n \in Nat /\ agent.ledger \in Seq(Nat)
    BY LenProperties DEF Records
  <1>2. longer \in Seq(Nat) /\ Len(longer) = Len(agent.ledger) + 1 /\ longer[Len(longer)] = n
    BY <1>1, Appended
  <1>3. longer # <<>>
    BY <1>1, <1>2, LenProperties, EmptySeq
  <1> HIDE DEF longer
  <1>4. /\ new \in Records /\ new.ledger = longer /\ new.revisions = agent.revisions
        /\ new.current = agent.current /\ new.selections = agent.selections
        /\ new.relations = agent.relations /\ new.proposals = agent.proposals
    BY <1>2 DEF Records, longer
  <1>5. StandsLike(new, agent)
    BY <1>4, SelectionsKept
  <1>6. Histories(new)
    BY <1>4, <1>5 DEF Histories, StandsLike
  <1>7. InForce(new)
    BY <1>4, <1>5 DEF InForce, StandsLike
  <1>8. GrownFrom(new, old)
    BY <1>4, <1>5 DEF GrownFrom, StandsLike
  <1> QED BY <1>2, <1>3, <1>4, <1>6, <1>7, <1>8 DEF Reviewed

(* A new agent has its first configuration and relationship.               *)
LEMMA RecordCreated ==
  ASSUME NEW old \in Records, Reviewed(old), old.ledger = <<>>,
         NEW config \in Teams!Configurations, NEW agent,
         agent = [Teams!NoAgent EXCEPT !.revisions = <<config>>, !.current = 1, !.relations = << 0 >>,
                                       !.sessions = <<"active">>]
  PROVE  agent \in Records /\ Histories(agent) /\ InForce(agent) /\ GrownFrom(agent, old)
  <1>1. /\ agent.revisions = <<config>> /\ agent.current = 1 /\ agent.relations = <<0>>
        /\ agent.selections = <<>> /\ agent.proposals = <<>> /\ agent.sessions = <<"active">>
        /\ agent.ledger = <<>>
    BY DEF Teams!NoAgent
  <1>2. agent \in Records
    <2>1. /\ <<config>> \in Seq(Teams!Configurations) /\ <<0>> \in Seq(Nat)
          /\ <<"active">> \in Seq({"active", "retired"}) /\ <<>> \in Seq(Selections)
          /\ <<>> \in Seq(Proposals) /\ <<>> \in Seq(Nat)
      OBVIOUS
    <2> QED BY <2>1 DEF Records, Teams!NoAgent
  <1>3. Teams!Stands(agent, 0, 1)
    BY <1>1 DEF Teams!Stands
  <1>4. Histories(agent)
    BY <1>1 DEF Histories
  <1>5. InForce(agent)
    BY <1>1, <1>3 DEF InForce
  <1>6. old.revisions = <<>> /\ old.selections = <<>> /\ old.relations = <<>>
    BY DEF Reviewed
  <1>7. GrownFrom(agent, old)
    BY <1>1, <1>6 DEF GrownFrom, Teams!Promoted
  <1> QED BY <1>2, <1>4, <1>5, <1>7

(* A proposed configuration comes behind the others.                       *)
LEMMA RevisionProposed ==
  ASSUME NEW old \in Records, Histories(old), InForce(old), NEW config \in Teams!Configurations,
         NEW agent, agent = [old EXCEPT !.revisions = Append(@, config)]
  PROVE  agent \in Records /\ Histories(agent) /\ InForce(agent) /\ GrownFrom(agent, old)
  <1> DEFINE longer == Append(old.revisions, config)
  <1>1. /\ longer \in Seq(Teams!Configurations)
        /\ \A r \in DOMAIN old.revisions : r \in DOMAIN longer /\ longer[r] = old.revisions[r]
    BY Appended DEF Records
  <1> HIDE DEF longer
  <1>2. /\ agent \in Records /\ agent.revisions = longer /\ agent.current = old.current
        /\ agent.selections = old.selections /\ agent.relations = old.relations
        /\ agent.proposals = old.proposals
    BY <1>1 DEF Records, longer
  <1>3. StandsLike(agent, old)
    BY <1>2, SelectionsKept
  <1>4. Histories(agent)
    BY <1>2, <1>3 DEF Histories, StandsLike
  <1>5. InForce(agent)
    BY <1>1, <1>2, <1>3 DEF InForce, StandsLike
  <1> QED BY <1>1, <1>2, <1>3, <1>4, <1>5 DEF GrownFrom, StandsLike

(* A selection compares with what is current, and what it accepts is.      *)
LEMMA RevisionSelected ==
  ASSUME NEW old \in Records, Histories(old), InForce(old),
         NEW candidate \in DOMAIN old.revisions, NEW passes \in BOOLEAN,
         NEW decision \in {"accept", "reject"}, decision = "accept" => passes, NEW agent,
         agent = [old EXCEPT
            !.selections = Append(@, [baseline |-> old.current, candidate |-> candidate,
                                      passes |-> passes, decision |-> decision]),
            !.current = IF decision = "accept" THEN candidate ELSE @]
  PROVE  agent \in Records /\ Histories(agent) /\ InForce(agent) /\ GrownFrom(agent, old)
  <1> DEFINE e == [baseline |-> old.current, candidate |-> candidate,
                   passes |-> passes, decision |-> decision]
             now == IF decision = "accept" THEN candidate ELSE old.current
             longer == Append(old.selections, e)
  <1>1. candidate \in Nat /\ old.current \in Nat
    BY LenProperties DEF Records
  <1>2. e \in Selections /\ e.decision = decision /\ e.candidate = candidate
        /\ e.baseline = old.current /\ e.passes = passes
    BY <1>1 DEF Selections
  <1>3. now \in Nat /\ now \in DOMAIN old.revisions
        /\ (decision = "accept" => now = candidate) /\ (decision # "accept" => now = old.current)
    BY <1>1 DEF InForce
  <1> HIDE DEF e, now
  <1>4. longer \in Seq(Selections)
    BY <1>2, Appended DEF Records
  <1>5. agent = [old EXCEPT !.selections = longer, !.current = now]
    BY DEF e, now
  <1> HIDE DEF longer
  <1>6. /\ agent \in Records /\ agent.selections = longer /\ agent.current = now
        /\ agent.revisions = old.revisions /\ agent.relations = old.relations
        /\ agent.proposals = old.proposals
    BY <1>5, <1>3, <1>4 DEF Records
  <1>7. agent.selections = Append(old.selections, e)
    BY <1>6 DEF longer
  <1> DEFINE m == Len(old.selections)
  <1>8. Continues(agent, old, e)
    BY <1>2, <1>6, <1>7, SelectionAdded
  <1>9. /\ m \in Nat /\ Len(agent.selections) = m + 1 /\ agent.selections[m + 1] = e
        /\ DOMAIN agent.selections = DOMAIN old.selections \cup {m + 1}
        /\ \A s \in DOMAIN old.selections : agent.selections[s] = old.selections[s]
        /\ Teams!Promoted(old) \subseteq Teams!Promoted(agent)
    BY <1>8 DEF Continues
  <1>10. \A n \in 0..m, c \in Nat : Teams!Stands(old, n, c) => Teams!Stands(agent, n, c)
    BY <1>8 DEF Continues
  <1>11. Teams!Stands(agent, m + 1, now)
    <2>1. Teams!Stands(old, m, old.current)
      BY DEF InForce
    <2>2. e.decision = "accept" => Teams!Stands(agent, m + 1, e.candidate)
      BY <1>8 DEF Continues
    <2>3. e.decision # "accept" /\ Teams!Stands(old, m, old.current)
             => Teams!Stands(agent, m + 1, old.current)
      BY <1>1, <1>8 DEF Continues
    <2> QED BY <1>2, <1>3, <2>1, <2>2, <2>3
  <1>12. InForce(agent)
    BY <1>3, <1>6, <1>9, <1>11 DEF InForce
  <1>13. Histories(agent)
    <2>0. m \in Nat
      BY <1>9
    <2>1. ASSUME NEW s \in DOMAIN old.selections
          PROVE  /\ agent.selections[s].decision = "accept" => agent.selections[s].passes
                 /\ Teams!Stands(agent, s - 1, agent.selections[s].baseline)
      <3>1. /\ old.selections[s].decision = "accept" => old.selections[s].passes
            /\ Teams!Stands(old, s - 1, old.selections[s].baseline)
        BY DEF Histories
      <3>2. old.selections[s] \in Selections /\ s \in 1..Len(old.selections)
        BY LenProperties, ElementOfSeq DEF Records
      <3>3. old.selections[s].baseline \in Nat /\ s - 1 \in 0..m
        BY <1>9, <3>2 DEF Selections
      <3> QED BY <1>9, <1>10, <3>1, <3>3
    <2>2. /\ agent.selections[m + 1].decision = "accept" => agent.selections[m + 1].passes
          /\ Teams!Stands(agent, m, agent.selections[m + 1].baseline)
      <3>1. Teams!Stands(agent, m, old.current)
        BY <1>1, <1>9, <1>10 DEF InForce
      <3> QED BY <1>2, <1>9, <3>1
    <2>3. m + 1 - 1 = m
      BY <1>9
    <2>4. DOMAIN agent.selections = DOMAIN old.selections \cup {m + 1}
      BY <1>9
    <2> HIDE DEF m
    <2>5. ASSUME NEW s \in DOMAIN agent.selections
          PROVE  /\ agent.selections[s].decision = "accept" => agent.selections[s].passes
                 /\ Teams!Stands(agent, s - 1, agent.selections[s].baseline)
      <3>1. s \in DOMAIN old.selections \/ s = m + 1
        BY <2>4
      <3>2. CASE s = m + 1
        <4>1. s - 1 = m
          BY <2>0, <3>2
        <4>2. Teams!Stands(agent, s - 1, agent.selections[s].baseline)
          BY <2>2, <3>2, <4>1
        <4>3. agent.selections[s].decision = "accept" => agent.selections[s].passes
          BY <2>2, <3>2
        <4> QED BY <4>2, <4>3
      <3>3. CASE s \in DOMAIN old.selections
        BY <2>1, <3>3
      <3> QED BY <3>1, <3>2, <3>3
    <2>6. /\ \A v \in DOMAIN agent.relations : agent.relations[v] = v - 1
          /\ \A p \in DOMAIN agent.proposals : agent.proposals[p].seen = agent.proposals[p].base
      BY <1>6 DEF Histories
    <2> QED BY <2>5, <2>6 DEF Histories
  <1>14. GrownFrom(agent, old)
    BY <1>6, <1>9 DEF GrownFrom
  <1> QED BY <1>6, <1>12, <1>13, <1>14

(* A relationship comes behind the one its author had seen.                *)
LEMMA RelationAdded ==
  ASSUME NEW old \in Records, Histories(old), InForce(old), NEW seen, seen = Len(old.relations),
         NEW proposals \in Seq(Proposals),
         \A p \in DOMAIN proposals : proposals[p].seen = proposals[p].base, NEW agent,
         agent = [old EXCEPT !.proposals = proposals, !.relations = Append(@, seen)]
  PROVE  agent \in Records /\ Histories(agent) /\ InForce(agent) /\ GrownFrom(agent, old)
  <1> DEFINE longer == Append(old.relations, seen)
             m == Len(old.relations)
  <1>1. old.relations \in Seq(Nat) /\ m \in Nat /\ seen \in Nat /\ DOMAIN old.relations = 1..m
    BY LenProperties DEF Records
  <1>2. /\ longer \in Seq(Nat) /\ Len(longer) = m + 1 /\ longer[m + 1] = seen
        /\ \A v \in DOMAIN old.relations : v \in DOMAIN longer /\ longer[v] = old.relations[v]
    BY <1>1, Appended
  <1>3. DOMAIN longer = 1..m + 1
    BY <1>2, LenProperties
  <1> HIDE DEF longer
  <1>4. /\ agent \in Records /\ agent.revisions = old.revisions /\ agent.current = old.current
        /\ agent.selections = old.selections /\ agent.relations = longer
        /\ agent.proposals = proposals
    BY <1>2 DEF Records, longer
  <1>5. StandsLike(agent, old)
    BY <1>4, SelectionsKept
  <1>6. \A v \in DOMAIN longer : longer[v] = v - 1
    <2>1. \A v \in DOMAIN old.relations : old.relations[v] = v - 1
      BY DEF Histories
    <2>2. \A v \in 1..m + 1 : v \in 1..m \/ v = m + 1
      BY <1>1
    <2>3. longer[m + 1] = m + 1 - 1
      BY <1>1, <1>2
    <2> QED BY <1>1, <1>2, <1>3, <2>1, <2>2, <2>3
  <1>7. Histories(agent)
    BY <1>4, <1>5, <1>6 DEF Histories, StandsLike
  <1>8. InForce(agent)
    BY <1>1, <1>2, <1>4, <1>5 DEF InForce, StandsLike
  <1>9. GrownFrom(agent, old)
    BY <1>2, <1>4, <1>5 DEF GrownFrom, StandsLike
  <1> QED BY <1>4, <1>7, <1>8, <1>9

(* Proposals and sessions decide nothing yet.                              *)
LEMMA OthersChanged ==
  ASSUME NEW old \in Records, Histories(old), InForce(old), NEW proposals \in Seq(Proposals),
         \A p \in DOMAIN proposals : proposals[p].seen = proposals[p].base,
         NEW sessions \in Seq({"active", "retired"}), NEW agent,
         agent = [old EXCEPT !.proposals = proposals, !.sessions = sessions]
  PROVE  agent \in Records /\ Histories(agent) /\ InForce(agent) /\ GrownFrom(agent, old)
  <1>1. /\ agent \in Records /\ agent.revisions = old.revisions /\ agent.current = old.current
        /\ agent.selections = old.selections /\ agent.relations = old.relations
        /\ agent.proposals = proposals
    BY DEF Records
  <1>2. StandsLike(agent, old)
    BY <1>1, SelectionsKept
  <1>3. Histories(agent)
    BY <1>1, <1>2 DEF Histories, StandsLike
  <1>4. InForce(agent)
    BY <1>1, <1>2 DEF InForce, StandsLike
  <1>5. GrownFrom(agent, old)
    BY <1>1, <1>2 DEF GrownFrom, StandsLike
  <1> QED BY <1>1, <1>3, <1>4, <1>5

FromReaders(proposals) ==
    /\ proposals \in Seq(Proposals)
    /\ \A p \in DOMAIN proposals : proposals[p].seen = proposals[p].base

(* A proposal to replace the relationship its author has seen.             *)
LEMMA ProposalAdded ==
  ASSUME NEW old \in Records, Histories(old), NEW base, base = Len(old.relations), NEW proposals,
         proposals = Append(old.proposals, [base |-> base, seen |-> base, state |-> "open"])
  PROVE  FromReaders(proposals)
  <1> DEFINE e == [base |-> base, seen |-> base, state |-> "open"]
             m == Len(old.proposals)
  <1>1. old.proposals \in Seq(Proposals) /\ m \in Nat /\ base \in Nat /\ DOMAIN old.proposals = 1..m
    BY LenProperties DEF Records
  <1>2. e \in Proposals /\ e.seen = e.base
    BY <1>1 DEF Proposals
  <1>3. proposals = Append(old.proposals, e)
    OBVIOUS
  <1> HIDE DEF e
  <1>4. /\ proposals \in Seq(Proposals) /\ Len(proposals) = m + 1 /\ proposals[m + 1] = e
        /\ \A p \in DOMAIN old.proposals : proposals[p] = old.proposals[p]
    BY <1>1, <1>2, <1>3, Appended
  <1>5. DOMAIN proposals = 1..m + 1 /\ \A p \in 1..m + 1 : p \in 1..m \/ p = m + 1
    BY <1>1, <1>4, LenProperties
  <1>6. \A p \in DOMAIN old.proposals : old.proposals[p].seen = old.proposals[p].base
    BY DEF Histories
  <1> QED BY <1>1, <1>2, <1>4, <1>5, <1>6 DEF FromReaders

(* A decision on a proposal leaves what it says.                           *)
LEMMA ProposalDecided ==
  ASSUME NEW old \in Records, Histories(old), NEW p \in DOMAIN old.proposals,
         NEW decision \in {"accepted", "rejected"}, NEW proposals,
         proposals = [old.proposals EXCEPT ![p].state = decision]
  PROVE  FromReaders(proposals)
  <1> DEFINE e == [old.proposals[p] EXCEPT !.state = decision]
  <1>1. old.proposals \in Seq(Proposals) /\ old.proposals[p] \in Proposals
    BY LenProperties, ElementOfSeq DEF Records
  <1>2. e \in Proposals /\ e.seen = old.proposals[p].seen /\ e.base = old.proposals[p].base
    BY <1>1 DEF Proposals
  <1>3. proposals = [old.proposals EXCEPT ![p] = e]
    OBVIOUS
  <1> HIDE DEF e
  <1>4. proposals \in Seq(Proposals)
    BY <1>1, <1>2, <1>3, ExceptSeq, LenProperties
  <1>5. \A q \in DOMAIN old.proposals : old.proposals[q].seen = old.proposals[q].base
    BY DEF Histories
  <1>6. DOMAIN proposals = DOMAIN old.proposals
        /\ \A q \in DOMAIN old.proposals : proposals[q] = IF q = p THEN e ELSE old.proposals[q]
    BY <1>3
  <1> QED BY <1>2, <1>4, <1>5, <1>6 DEF FromReaders

(* Every operation on an agent leaves a record that was reviewed, and      *)
(* longer than the one before.                                             *)
Grows(a) ==
    \E new \in Records : /\ Reviewed(new) /\ GrownFrom(new, agents[a])
                         /\ agents' = [agents EXCEPT ![a] = new]

(* An agent is stored with what it had, grown by what its checks allow.    *)
LEMMA Stored ==
  ASSUME NEW a, NEW agent \in Records, Histories(agent), InForce(agent),
         GrownFrom(agent, agents[a]), Teams!Store(a, agent)
  PROVE  Grows(a)
  <1> DEFINE new == [agent EXCEPT !.ledger = Append(@, Len(agent.relations))]
  <1>1. agents' = [agents EXCEPT ![a] = new]
    BY DEF Teams!Store
  <1>2. new \in Records /\ Reviewed(new) /\ GrownFrom(new, agents[a])
    BY RecordStored
  <1> HIDE DEF new
  <1> QED BY <1>1, <1>2 DEF Grows

(* Every step stores one agent, which grows.                               *)
LEMMA AgentsGrow ==
  ASSUME agents \in [Agents -> Records], \A b \in Agents : Reviewed(agents[b]), Teams!Next
  PROVE  \E a \in Agents : Grows(a)
  <1>1. ASSUME NEW a \in Agents, NEW config \in Teams!Configurations, Teams!Create(a, config)
        PROVE  Grows(a)
    <2> DEFINE agent == [Teams!NoAgent EXCEPT !.revisions = <<config>>, !.current = 1,
                            !.relations = <<0>>, !.sessions = <<"active">>]
    <2>1. agents[a] \in Records /\ Reviewed(agents[a]) /\ Teams!Store(a, agent)
      BY <1>1 DEF Teams!Create
    <2>2. agents[a].ledger = <<>>
      <3>1. agents[a].ledger \in Seq(Nat) /\ ~(Len(agents[a].ledger) > 0)
        BY <1>1, <2>1 DEF Teams!Create, Teams!Exists, Teams!Revision, Records
      <3> QED BY <3>1, EmptySeq, LenProperties
    <2>3. agent \in Records /\ Histories(agent) /\ InForce(agent) /\ GrownFrom(agent, agents[a])
      BY <2>1, <2>2, RecordCreated
    <2> HIDE DEF agent
    <2> QED BY <2>1, <2>3, Stored
  <1>2. ASSUME NEW a \in Agents, NEW expected \in DOMAIN agents[a].ledger
        PROVE  /\ agents[a] \in Records /\ Histories(agents[a]) /\ InForce(agents[a])
               /\ expected = Teams!Revision(a) =>
                     Teams!SeenAt(a, expected) = Len(agents[a].relations)
    <2>1. agents[a] \in Records /\ Reviewed(agents[a])
      OBVIOUS
    <2>2. agents[a].ledger # <<>>
      BY <1>2, EmptySeq
    <2> QED BY <2>1, <2>2 DEF Reviewed, Teams!Revision, Teams!SeenAt
  <1>3. ASSUME NEW a \in Agents, NEW expected \in DOMAIN agents[a].ledger, NEW agent,
               Teams!Mutate(a, expected, agent)
        PROVE  Teams!Store(a, agent) /\ expected = Teams!Revision(a)
               /\ Teams!SeenAt(a, expected) = Len(agents[a].relations)
    BY <1>2, <1>3 DEF Teams!Mutate
  <1>4. ASSUME NEW a \in Agents, NEW expected \in DOMAIN agents[a].ledger,
               Teams!Reconfigure(a, expected)
        PROVE  Grows(a)
    <2>0. agents[a] \in Records /\ Histories(agents[a]) /\ InForce(agents[a])
      BY <1>2
    <2>1. ASSUME NEW config \in Teams!Configurations, Teams!ProposeAgentRevision(a, expected, config)
          PROVE  Grows(a)
      <3> DEFINE agent == [agents[a] EXCEPT !.revisions = Append(@, config)]
      <3>1. Teams!Store(a, agent)
        BY <1>3, <2>1 DEF Teams!ProposeAgentRevision
      <3>2. agent \in Records /\ Histories(agent) /\ InForce(agent) /\ GrownFrom(agent, agents[a])
        BY <2>0, RevisionProposed
      <3> HIDE DEF agent
      <3> QED BY <3>1, <3>2, Stored
    <2>2. ASSUME NEW baseline \in DOMAIN agents[a].revisions, NEW candidate \in DOMAIN agents[a].revisions,
                 NEW passes \in BOOLEAN, NEW decision \in {"accept", "reject"},
                 Teams!SelectAgentRevision(a, expected, baseline, candidate, passes, decision)
          PROVE  Grows(a)
      <3> DEFINE agent == [agents[a] EXCEPT
                    !.selections = Append(@, [baseline |-> baseline, candidate |-> candidate,
                                              passes |-> passes, decision |-> decision]),
                    !.current = IF decision = "accept" THEN candidate ELSE @]
      <3>1. Teams!Mutate(a, expected, agent)
        BY <2>2 DEF Teams!SelectAgentRevision
      <3>2. baseline = agents[a].current /\ (decision = "accept" => passes)
        BY <2>2 DEF Teams!SelectAgentRevision, Teams!Comparable
      <3>3. agent \in Records /\ Histories(agent) /\ InForce(agent) /\ GrownFrom(agent, agents[a])
        BY <2>0, <3>2, RevisionSelected
      <3> HIDE DEF agent
      <3>4. Teams!Store(a, agent)
        BY <1>3, <3>1
      <3> QED BY <3>3, <3>4, Stored
    <2> QED BY <1>4, <2>1, <2>2 DEF Teams!Reconfigure
  <1>5. ASSUME NEW a \in Agents, NEW expected \in DOMAIN agents[a].ledger,
               Teams!Rerelate(a, expected) \/ Teams!Rotate(a, expected)
        PROVE  Grows(a)
    <2>0. /\ agents[a] \in Records /\ Histories(agents[a]) /\ InForce(agents[a])
          /\ agents[a].proposals \in Seq(Proposals)
          /\ \A p \in DOMAIN agents[a].proposals :
                agents[a].proposals[p].seen = agents[a].proposals[p].base
          /\ agents[a].sessions \in Seq({"active", "retired"})
      BY <1>2 DEF Histories, Records
    <2>1. CASE Teams!ReviseRelationships(a, expected)
      <3> DEFINE agent == [agents[a] EXCEPT !.relations = Append(@, Teams!SeenAt(a, expected))]
      <3>1. Teams!Store(a, agent) /\ Teams!SeenAt(a, expected) = Len(agents[a].relations)
        BY <1>3, <2>1 DEF Teams!ReviseRelationships
      <3>2. agent = [agents[a] EXCEPT !.proposals = agents[a].proposals,
                                      !.relations = Append(@, Teams!SeenAt(a, expected))]
        BY <2>0 DEF Records
      <3> HIDE DEF agent
      <3>3. agent \in Records /\ Histories(agent) /\ InForce(agent) /\ GrownFrom(agent, agents[a])
        BY <2>0, <3>1, <3>2, RelationAdded
      <3> QED BY <3>1, <3>3, Stored
    <2>2. CASE Teams!CreateRelationshipPR(a, expected)
      <3> DEFINE proposals == Append(agents[a].proposals,
                     [base |-> Teams!Related(a), seen |-> Teams!SeenAt(a, expected), state |-> "open"])
                 agent == [agents[a] EXCEPT !.proposals = proposals]
      <3>1. /\ Teams!Store(a, agent) /\ Teams!SeenAt(a, expected) = Len(agents[a].relations)
            /\ Teams!Related(a) = Len(agents[a].relations)
        BY <1>3, <2>2 DEF Teams!CreateRelationshipPR, Teams!Related
      <3>2. /\ proposals \in Seq(Proposals)
            /\ \A p \in DOMAIN proposals : proposals[p].seen = proposals[p].base
        <4>1. FromReaders(proposals)
          BY <2>0, <3>1, ProposalAdded
        <4> QED BY <4>1 DEF FromReaders
      <3> HIDE DEF proposals
      <3>3. agent = [agents[a] EXCEPT !.proposals = proposals, !.sessions = agents[a].sessions]
        BY <2>0 DEF Records
      <3> HIDE DEF agent
      <3>4. agent \in Records /\ Histories(agent) /\ InForce(agent) /\ GrownFrom(agent, agents[a])
        BY <2>0, <3>2, <3>3, OthersChanged
      <3> QED BY <3>1, <3>4, Stored
    <2>3. ASSUME NEW p \in DOMAIN agents[a].proposals, NEW decision \in {"accepted", "rejected"},
                 Teams!ReviewRelationshipPR(a, expected, p, decision)
          PROVE  Grows(a)
      <3> DEFINE proposals == [agents[a].proposals EXCEPT ![p].state = decision]
                 relations == IF decision = "accepted"
                              THEN Append(agents[a].relations, agents[a].proposals[p].seen)
                              ELSE agents[a].relations
                 agent == [agents[a] EXCEPT !.proposals[p].state = decision,
                    !.relations = IF decision = "accepted" THEN Append(@, agents[a].proposals[p].seen)
                                  ELSE @]
      <3>1. /\ Teams!Store(a, agent) /\ agents[a].proposals[p].base = Len(agents[a].relations)
        BY <1>3, <2>3 DEF Teams!ReviewRelationshipPR, Teams!Related
      <3>2. /\ proposals \in Seq(Proposals)
            /\ \A q \in DOMAIN proposals : proposals[q].seen = proposals[q].base
        <4>1. FromReaders(proposals)
          BY <2>0, ProposalDecided
        <4> QED BY <4>1 DEF FromReaders
      <3>3. agent = [agents[a] EXCEPT !.proposals = proposals, !.relations = relations]
        BY <2>0 DEF Records
      <3>4. agents[a].proposals[p].seen = Len(agents[a].relations)
        BY <2>0, <3>1
      <3>5. CASE decision = "accepted"
        <4>1. relations = Append(agents[a].relations, agents[a].proposals[p].seen)
          BY <3>5
        <4> HIDE DEF proposals, relations, agent
        <4>2. agent = [agents[a] EXCEPT !.proposals = proposals,
                          !.relations = Append(@, agents[a].proposals[p].seen)]
          BY <3>3, <4>1
        <4>3. agent \in Records /\ Histories(agent) /\ InForce(agent) /\ GrownFrom(agent, agents[a])
          BY <2>0, <3>2, <3>4, <4>2, RelationAdded
        <4> QED BY <3>1, <4>3, Stored
      <3>6. CASE decision = "rejected"
        <4>1. relations = agents[a].relations
          BY <3>6
        <4> HIDE DEF proposals, relations, agent
        <4>2. agent = [agents[a] EXCEPT !.proposals = proposals, !.sessions = agents[a].sessions]
          BY <2>0, <3>3, <4>1 DEF Records
        <4>3. agent \in Records /\ Histories(agent) /\ InForce(agent) /\ GrownFrom(agent, agents[a])
          BY <2>0, <3>2, <4>2, OthersChanged
        <4> QED BY <3>1, <4>3, Stored
      <3> QED BY <3>5, <3>6
    <2>4. ASSUME NEW g \in DOMAIN agents[a].sessions, Teams!RotateSession(a, expected, g)
          PROVE  Grows(a)
      <3> DEFINE closed == [agents[a].sessions EXCEPT ![g] = "retired"]
                 sessions == Append(closed, "active")
                 agent == [agents[a] EXCEPT !.sessions = sessions]
      <3>1. Teams!Store(a, agent)
        BY <1>3, <2>4 DEF Teams!RotateSession
      <3>2. closed \in Seq({"active", "retired"})
        BY <2>0, ExceptSeq, LenProperties
      <3> HIDE DEF closed
      <3>3. sessions \in Seq({"active", "retired"})
        BY <3>2, Appended
      <3> HIDE DEF sessions
      <3>4. agent = [agents[a] EXCEPT !.proposals = agents[a].proposals, !.sessions = sessions]
        BY <2>0 DEF Records
      <3> HIDE DEF agent
      <3>5. agent \in Records /\ Histories(agent) /\ InForce(agent) /\ GrownFrom(agent, agents[a])
        BY <2>0, <3>3, <3>4, OthersChanged
      <3> QED BY <3>1, <3>5, Stored
    <2> QED BY <1>5, <2>1, <2>2, <2>3, <2>4 DEF Teams!Rerelate, Teams!Rotate
  <1> QED BY <1>1, <1>4, <1>5 DEF Teams!Next, Teams!ConfigurationStep

(* What the team selections read and wrote down.                           *)

Snapshots == [revision : Nat, relation : Nat, config : Teams!Configurations]

Choices ==
    [need : [Roles -> SUBSET Capabilities] \cup {<<>>}, budget : Budgets \cup {0},
     unread : SUBSET Agents, read : UNION {[S -> Snapshots] : S \in SUBSET Agents}]

Members == [agent : Agents, revision : Nat, relation : Nat]

Lockfiles ==
    [need : [Roles -> SUBSET Capabilities] \cup {<<>>}, members : [Roles -> Members]]

(* What a lockfile says of one role.                                       *)
Holds(records, lockfile, r) ==
    LET member == lockfile.members[r]
        agent == records[member.agent]
    IN /\ Vouched(agent, member.revision, member.relation, agent.revisions[member.revision])
       /\ lockfile.need[r] \subseteq agent.revisions[member.revision].caps

OnePerRole(lockfile) ==
    \A r, q \in Roles : lockfile.members[r].agent = lockfile.members[q].agent => r = q

ReadAs(records, seen) ==
    \A a \in DOMAIN seen :
        Vouched(records[a], seen[a].revision, seen[a].relation, seen[a].config)

TeamInv ==
    /\ agents \in [Agents -> Records] /\ choice \in Choices /\ lockfiles \in Seq(Lockfiles)
    /\ \A a \in Agents : Reviewed(agents[a])
    /\ ReadAs(agents, choice.read)
    /\ \A k \in DOMAIN lockfiles :
          OnePerRole(lockfiles[k]) /\ \A r \in Roles : Holds(agents, lockfiles[k], r)

(* Nobody is there at first.                                               *)
LEMMA TeamsStart == Init => TeamInv
  <1> SUFFICES ASSUME Init PROVE TeamInv
    OBVIOUS
  <1>1. /\ agents = [a \in Agents |-> Teams!NoAgent] /\ lockfiles = <<>> /\ choice = Teams!Idle
    BY DEF Init, Teams!TeamInit, Teams!Init
  <1>2. /\ Teams!NoAgent \in Records /\ Teams!NoAgent.ledger = <<>>
        /\ Teams!NoAgent.revisions = <<>> /\ Teams!NoAgent.selections = <<>>
        /\ Teams!NoAgent.relations = <<>> /\ Teams!NoAgent.proposals = <<>>
    <2>1. /\ <<>> \in Seq(Teams!Configurations) /\ <<>> \in Seq(Selections) /\ <<>> \in Seq(Proposals)
          /\ <<>> \in Seq(Nat) /\ <<>> \in Seq({"active", "retired"})
      OBVIOUS
    <2> QED BY <2>1 DEF Teams!NoAgent, Records
  <1>3. Reviewed(Teams!NoAgent)
    BY <1>2 DEF Reviewed, Histories
  <1>4. choice \in Choices /\ choice.read = <<>>
    <2>1. <<>> \in [{} -> Snapshots] /\ {} \in SUBSET Agents
      OBVIOUS
    <2>2. <<>> \in UNION {[S -> Snapshots] : S \in SUBSET Agents}
      BY <2>1
    <2> QED BY <1>1, <2>2 DEF Teams!Idle, Choices
  <1>5. ReadAs(agents, choice.read)
    BY <1>4 DEF ReadAs
  <1>6. lockfiles \in Seq(Lockfiles) /\ DOMAIN lockfiles = {}
    BY <1>1
  <1> QED BY <1>1, <1>2, <1>3, <1>4, <1>5, <1>6 DEF TeamInv

(* Longer records stand by what was read of them and written down.         *)
LEMMA TeamsOutlast ==
  ASSUME TeamInv, NEW a \in Agents, Grows(a), UNCHANGED <<lockfiles, choice>>
  PROVE  TeamInv'
  <1>1. PICK new \in Records : /\ Reviewed(new) /\ GrownFrom(new, agents[a])
                               /\ agents' = [agents EXCEPT ![a] = new]
    BY DEF Grows
  <1>2. agents \in [Agents -> Records] /\ agents' \in [Agents -> Records]
    BY <1>1 DEF TeamInv
  <1>3. \A b \in Agents : agents'[b] = (IF b = a THEN new ELSE agents[b])
    BY <1>1, <1>2
  <1>4. \A b \in Agents : Reviewed(agents'[b])
    BY <1>1, <1>3 DEF TeamInv
  <1>5. \A b \in Agents : GrownFrom(agents'[b], agents[b])
    <2>1. \A b \in Agents : GrownFrom(agents[b], agents[b])
      BY DEF GrownFrom
    <2> QED BY <1>1, <1>3, <2>1
  <1>6. ReadAs(agents', choice.read)
    <2> SUFFICES ASSUME NEW b \in DOMAIN choice.read
                 PROVE  Vouched(agents'[b], choice.read[b].revision, choice.read[b].relation,
                                choice.read[b].config)
      BY DEF ReadAs
    <2>1. b \in Agents
      BY DEF TeamInv, Choices
    <2>2. Vouched(agents[b], choice.read[b].revision, choice.read[b].relation, choice.read[b].config)
      BY DEF TeamInv, ReadAs
    <2> QED BY <1>5, <2>1, <2>2, VouchesStill
  <1>7. ASSUME NEW k \in DOMAIN lockfiles, NEW r \in Roles
        PROVE  Holds(agents', lockfiles[k], r)
    <2> DEFINE member == lockfiles[k].members[r]
               need == lockfiles[k].need[r]
               old == agents[member.agent]
               grown == agents'[member.agent]
    <2>1. lockfiles[k] \in Lockfiles
      BY LenProperties, ElementOfSeq DEF TeamInv
    <2>2. member \in Members /\ member.agent \in Agents
      BY <2>1 DEF Lockfiles, Members
    <2>3. /\ Vouched(old, member.revision, member.relation, old.revisions[member.revision])
          /\ need \subseteq old.revisions[member.revision].caps
      BY DEF TeamInv, Holds
    <2>4. GrownFrom(grown, old)
      BY <1>5, <2>2
    <2> HIDE DEF member, need, old, grown
    <2>5. Vouched(grown, member.revision, member.relation, old.revisions[member.revision])
      BY <2>3, <2>4, VouchesStill
    <2>6. grown.revisions[member.revision] = old.revisions[member.revision]
      BY <2>3, <2>4 DEF GrownFrom, Vouched
    <2> QED BY <2>3, <2>5, <2>6 DEF Holds, member, need, old, grown
  <1>8. \A k \in DOMAIN lockfiles : OnePerRole(lockfiles[k])
    BY DEF TeamInv
  <1> QED BY <1>2, <1>4, <1>6, <1>7, <1>8 DEF TeamInv

(* A candidate is read as it is.                                           *)
LEMMA ReadVouched ==
  ASSUME TeamInv, NEW a \in Agents, Teams!Exists(a)
  PROVE  /\ Teams!Snapshot(a) \in Snapshots
         /\ Vouched(agents[a], Teams!Snapshot(a).revision, Teams!Snapshot(a).relation,
                    Teams!Snapshot(a).config)
  <1>1. agents[a] \in Records /\ Reviewed(agents[a])
    BY DEF TeamInv
  <1>2. agents[a].ledger # <<>>
    BY <1>1, EmptySeq DEF Teams!Exists, Teams!Revision
  <1>3. InForce(agents[a])
    BY <1>1, <1>2 DEF Reviewed
  <1> DEFINE agent == agents[a]
  <1>4. /\ agent.revisions \in Seq(Teams!Configurations) /\ agent.relations \in Seq(Nat)
        /\ agent.selections \in Seq(Selections) /\ agent.current \in Nat
    BY <1>1 DEF Records
  <1>5. agent.current \in DOMAIN agent.revisions /\ Len(agent.relations) > 0
        /\ Teams!Stands(agent, Len(agent.selections), agent.current)
    BY <1>3 DEF InForce
  <1> HIDE DEF agent
  <1>6. agent.current \in Teams!Promoted(agent)
    <2>1. DOMAIN agent.selections = 1..Len(agent.selections)
      BY <1>4, LenProperties
    <2> QED BY <1>5, <2>1 DEF Teams!Stands, Teams!Promoted
  <1>7. Len(agent.relations) \in DOMAIN agent.relations /\ Len(agent.relations) \in Nat
    BY <1>4, <1>5, LenProperties
  <1>8. agent.revisions[agent.current] \in Teams!Configurations
    BY <1>4, <1>5, LenProperties, ElementOfSeq
  <1>9. /\ Teams!Snapshot(a).revision = agent.current
        /\ Teams!Snapshot(a).relation = Len(agent.relations)
        /\ Teams!Snapshot(a).config = agent.revisions[agent.current]
        /\ Teams!Snapshot(a) \in Snapshots
    BY <1>4, <1>7, <1>8 DEF Teams!Snapshot, Teams!Related, Snapshots, agent
  <1>10. Vouched(agent, agent.current, Len(agent.relations), agent.revisions[agent.current])
    BY <1>5, <1>6, <1>7 DEF Vouched
  <1> QED BY <1>9, <1>10 DEF agent

(* The members that a selection writes down are those it has read.         *)
LEMMA Selected ==
  ASSUME TeamInv, NEW staff \in Teams!Staffings, NEW members,
         members = [r \in Roles |-> Teams!Pinned(staff[r])], NEW lockfile,
         lockfile = [need |-> choice.need, members |-> members]
  PROVE  /\ lockfile \in Lockfiles /\ OnePerRole(lockfile)
         /\ \A r \in Roles : Holds(agents, lockfile, r)
  <1>1. /\ staff \in [Roles -> DOMAIN choice.read] /\ Teams!IsInjective(staff)
        /\ \A r \in Roles : choice.need[r] \subseteq choice.read[staff[r]].config.caps
    BY DEF Teams!Staffings
  <1>2. choice \in Choices /\ choice.need \in [Roles -> SUBSET Capabilities] \cup {<<>>}
    BY DEF TeamInv, Choices
  <1>3. \A a \in DOMAIN choice.read : a \in Agents /\ choice.read[a] \in Snapshots
    BY <1>2 DEF Choices
  <1>4. \A r \in Roles : staff[r] \in DOMAIN choice.read /\ staff[r] \in Agents
    BY <1>1, <1>3
  <1>5. ASSUME NEW r \in Roles
        PROVE  /\ members[r] \in Members /\ members[r].agent = staff[r]
               /\ members[r].revision = choice.read[staff[r]].revision
               /\ members[r].relation = choice.read[staff[r]].relation
    <2>1. choice.read[staff[r]] \in Snapshots /\ staff[r] \in Agents
      BY <1>3, <1>4
    <2>2. members[r] = Teams!Pinned(staff[r])
      OBVIOUS
    <2> QED BY <2>1, <2>2 DEF Teams!Pinned, Members, Snapshots
  <1>6. lockfile.members = members /\ lockfile.need = choice.need /\ lockfile \in Lockfiles
    <2>1. members \in [Roles -> Members]
      BY <1>5
    <2> QED BY <1>2, <2>1 DEF Lockfiles
  <1>7. OnePerRole(lockfile)
    BY <1>1, <1>5, <1>6 DEF OnePerRole, Teams!IsInjective
  <1>8. ASSUME NEW r \in Roles PROVE Holds(agents, lockfile, r)
    <2> DEFINE a == staff[r]
               seen == choice.read[a]
    <2>1. Vouched(agents[a], seen.revision, seen.relation, seen.config)
      BY <1>4 DEF TeamInv, ReadAs
    <2>2. seen.config = agents[a].revisions[seen.revision]
      BY <2>1 DEF Vouched
    <2>3. choice.need[r] \subseteq seen.config.caps
      BY <1>1
    <2>4. /\ members[r].agent = a /\ members[r].revision = seen.revision
          /\ members[r].relation = seen.relation
      BY <1>5
    <2> HIDE DEF a, seen
    <2> QED BY <1>6, <2>1, <2>2, <2>3, <2>4 DEF Holds
  <1> QED BY <1>6, <1>7, <1>8

(* Every operation on the agents and every step of a selection keeps the   *)
(* invariant.                                                              *)
LEMMA TeamKept == TeamInv /\ [Teams!TeamNext]_teamVars => TeamInv'
  <1> SUFFICES ASSUME TeamInv, [Teams!TeamNext]_teamVars PROVE TeamInv'
    OBVIOUS
  <1>0. /\ agents \in [Agents -> Records] /\ choice \in Choices /\ lockfiles \in Seq(Lockfiles)
        /\ \A a \in Agents : Reviewed(agents[a])
    BY DEF TeamInv
  <1>1. CASE UNCHANGED teamVars
    BY <1>1 DEF teamVars, TeamInv
  <1>2. CASE Teams!Next /\ UNCHANGED <<lockfiles, choice>>
    <2>1. PICK a \in Agents : Grows(a)
      BY <1>0, <1>2, AgentsGrow
    <2> QED BY <1>2, <2>1, TeamsOutlast
  <1>3. ASSUME choice' \in Choices, ReadAs(agents, choice'.read), UNCHANGED <<agents, lockfiles>>
        PROVE  TeamInv'
    <2>1. ReadAs(agents', choice'.read)
      BY <1>3
    <2>2. \A k \in DOMAIN lockfiles' :
             OnePerRole(lockfiles'[k]) /\ \A r \in Roles : Holds(agents', lockfiles'[k], r)
      BY <1>3 DEF TeamInv
    <2> QED BY <1>0, <1>3, <2>1, <2>2 DEF TeamInv
  <1>4. Teams!Idle \in Choices /\ ReadAs(agents, Teams!Idle.read)
    <2>1. <<>> \in [{} -> Snapshots] /\ {} \in SUBSET Agents
      OBVIOUS
    <2>2. <<>> \in UNION {[S -> Snapshots] : S \in SUBSET Agents}
      BY <2>1
    <2> QED BY <2>2 DEF Teams!Idle, Choices, ReadAs
  <1>5. ASSUME NEW need \in [Roles -> SUBSET Capabilities], NEW budget \in Budgets,
               NEW candidates \in SUBSET Agents \ {{}}, Teams!Begin(need, budget, candidates)
        PROVE  TeamInv'
    <2>1. choice' = [need |-> need, budget |-> budget, unread |-> candidates, read |-> <<>>]
          /\ UNCHANGED <<agents, lockfiles>>
      BY <1>5 DEF Teams!Begin
    <2>2. <<>> \in [{} -> Snapshots] /\ {} \in SUBSET Agents
      OBVIOUS
    <2>3. <<>> \in UNION {[S -> Snapshots] : S \in SUBSET Agents}
      BY <2>2
    <2>4. choice' \in Choices /\ choice'.read = <<>>
      BY <2>1, <2>3 DEF Choices
    <2>5. ReadAs(agents, choice'.read)
      BY <2>4 DEF ReadAs
    <2> QED BY <1>3, <2>1, <2>4, <2>5
  <1>6. ASSUME NEW a \in Agents, Teams!Read(a) PROVE TeamInv'
    <2> DEFINE seen == [c \in DOMAIN choice.read \cup {a} |->
                           IF c = a THEN Teams!Snapshot(a) ELSE choice.read[c]]
    <2>1. /\ choice' = [choice EXCEPT !.unread = @ \ {a}, !.read = seen]
          /\ UNCHANGED <<agents, lockfiles>> /\ Teams!Exists(a)
      BY <1>6 DEF Teams!Read
    <2>2. /\ Teams!Snapshot(a) \in Snapshots
          /\ Vouched(agents[a], Teams!Snapshot(a).revision, Teams!Snapshot(a).relation,
                     Teams!Snapshot(a).config)
      BY <2>1, ReadVouched
    <2>3. PICK S \in SUBSET Agents : choice.read \in [S -> Snapshots]
      BY <1>0 DEF Choices
    <2>4. seen \in [S \cup {a} -> Snapshots] /\ S \cup {a} \in SUBSET Agents
      BY <2>2, <2>3
    <2>5. ReadAs(agents, seen)
      <3> SUFFICES ASSUME NEW c \in DOMAIN seen
                   PROVE  Vouched(agents[c], seen[c].revision, seen[c].relation, seen[c].config)
        BY DEF ReadAs
      <3>1. CASE c = a
        <4>1. seen[c] = Teams!Snapshot(a)
          BY <3>1
        <4> QED BY <2>2, <3>1, <4>1
      <3>2. CASE c # a
        <4>1. c \in DOMAIN choice.read /\ seen[c] = choice.read[c]
          BY <3>2
        <4> QED BY <4>1 DEF TeamInv, ReadAs
      <3> QED BY <3>1, <3>2
    <2> HIDE DEF seen
    <2>6. choice' \in Choices /\ choice'.read = seen
      <3>1. seen \in UNION {[T -> Snapshots] : T \in SUBSET Agents}
        BY <2>4
      <3> QED BY <1>0, <2>1, <3>1 DEF Choices
    <2> QED BY <1>3, <2>1, <2>5, <2>6
  <1>7. CASE Teams!Select
    <2>1. PICK staff \in Teams!Staffings :
             lockfiles' = Append(lockfiles, [need |-> choice.need,
                                             members |-> [r \in Roles |-> Teams!Pinned(staff[r])]])
      BY <1>7 DEF Teams!Select
    <2> DEFINE members == [r \in Roles |-> Teams!Pinned(staff[r])]
               lockfile == [need |-> choice.need, members |-> members]
    <2>2. choice' = Teams!Idle /\ agents' = agents /\ lockfiles' = Append(lockfiles, lockfile)
      BY <1>7, <2>1 DEF Teams!Select
    <2>3. /\ lockfile \in Lockfiles /\ OnePerRole(lockfile)
          /\ \A r \in Roles : Holds(agents, lockfile, r)
      BY Selected
    <2> HIDE DEF lockfile
    <2>4. /\ lockfiles' \in Seq(Lockfiles) /\ Len(lockfiles') = Len(lockfiles) + 1
          /\ lockfiles'[Len(lockfiles) + 1] = lockfile
          /\ \A k \in DOMAIN lockfiles : k \in DOMAIN lockfiles' /\ lockfiles'[k] = lockfiles[k]
      BY <1>0, <2>2, <2>3, Appended
    <2>5. \A k \in DOMAIN lockfiles' : k \in DOMAIN lockfiles \/ k = Len(lockfiles) + 1
      BY <1>0, <2>4, LenProperties
    <2>6. \A k \in DOMAIN lockfiles :
             OnePerRole(lockfiles[k]) /\ \A r \in Roles : Holds(agents, lockfiles[k], r)
      BY DEF TeamInv
    <2>7. \A k \in DOMAIN lockfiles' :
             OnePerRole(lockfiles'[k]) /\ \A r \in Roles : Holds(agents, lockfiles'[k], r)
      BY <2>3, <2>4, <2>5, <2>6
    <2> QED BY <1>0, <1>4, <2>2, <2>4, <2>7 DEF TeamInv
  <1>8. CASE Teams!Refuse
    <2>1. choice' = Teams!Idle /\ UNCHANGED <<agents, lockfiles>>
      BY <1>8 DEF Teams!Refuse
    <2> QED BY <1>3, <1>4, <2>1
  <1> QED BY <1>1, <1>2, <1>5, <1>6, <1>7, <1>8 DEF Teams!TeamNext, Teams!TeamStep

(* Agents change by review of what was current when it was asked for, and  *)
(* a lockfile names one agent for each role, at a revision that was        *)
(* accepted for it and can do what the role needs.                         *)
THEOREM TeamsRestOnReview == Spec => []TeamsStandOnReview
  <1>1. ASSUME TeamInv PROVE Teams!AgentsFollowReview
    <2> SUFFICES ASSUME NEW a \in Agents, Teams!Exists(a)
        PROVE  /\ Histories(agents[a]) /\ InForce(agents[a])
      BY DEF Teams!AgentsFollowReview, Histories, InForce
    <2>1. agents[a] \in Records /\ Reviewed(agents[a])
      BY <1>1 DEF TeamInv
    <2>2. agents[a].ledger # <<>>
      BY <2>1, EmptySeq DEF Teams!Exists, Teams!Revision
    <2> QED BY <2>1, <2>2 DEF Reviewed
  <1>2. ASSUME TeamInv PROVE Teams!LockfilesHold
    <2> SUFFICES ASSUME NEW k \in DOMAIN lockfiles
        PROVE  LET members == lockfiles[k].members
               IN /\ Teams!IsInjective([r \in Roles |-> members[r].agent])
                  /\ \A r \in Roles :
                        LET agent == agents[members[r].agent]
                        IN /\ members[r].revision \in Teams!Promoted(agent)
                           /\ members[r].relation \in DOMAIN agent.relations
                           /\ lockfiles[k].need[r] \subseteq agent.revisions[members[r].revision].caps
      BY DEF Teams!LockfilesHold
    <2>1. OnePerRole(lockfiles[k]) /\ \A r \in Roles : Holds(agents, lockfiles[k], r)
      BY <1>2 DEF TeamInv
    <2>2. Teams!IsInjective([r \in Roles |-> lockfiles[k].members[r].agent])
      BY <2>1 DEF OnePerRole, Teams!IsInjective
    <2>3. \A r \in Roles :
             /\ lockfiles[k].members[r].revision
                   \in Teams!Promoted(agents[lockfiles[k].members[r].agent])
             /\ lockfiles[k].members[r].relation
                   \in DOMAIN agents[lockfiles[k].members[r].agent].relations
             /\ lockfiles[k].need[r] \subseteq agents[lockfiles[k].members[r].agent].
                   revisions[lockfiles[k].members[r].revision].caps
      BY <2>1 DEF Holds, Vouched
    <2> QED BY <2>2, <2>3
  <1>3. TeamInv => TeamsStandOnReview
    BY <1>1, <1>2 DEF TeamsStandOnReview
  <1> QED BY <1>3, TeamsStart, StepsOfParts, TeamKept, PTL DEF Spec

-----------------------------------------------------------------------------
(* What only the types say of the inbox: a kept reply is of an item, and   *)
(* behind the conversation it was to join.                                 *)
DraftsBehind == \A d \in drafts : d.item \in DOMAIN inbox /\ d.base < d.latest

(* There are no drafts at first.                                           *)
LEMMA DraftsStart == Init => DraftsBehind
  BY DEF Init, Attention!Init, DraftsBehind

(* Items are never taken away.                                             *)
LEMMA ItemsRemain ==
  ASSUME AttentionInv, [Attention!Next]_attentionVars
  PROVE  \/ DOMAIN inbox \subseteq DOMAIN inbox' /\ drafts' = drafts
         \/ /\ inbox' = inbox
            /\ \E k \in DOMAIN inbox : \E read, last :
                  /\ drafts' = drafts \cup {[item |-> k, base |-> read, latest |-> last]}
                  /\ last > read
  <1>0. inbox \in Seq(Entries)
    BY DEF AttentionInv, AttentionTypes
  <1>1. ASSUME NEW c \in Conversations, NEW to \in Attention!Recipients
        PROVE  DOMAIN inbox \subseteq DOMAIN Attention!Delivered(inbox, c, Attention!LastSeq(c) + 1, to)
    <2>1. Attention!LastSeq(c) + 1 \in Nat
      BY AttentionParts
    <2>2. Delivery(Attention!Delivered(inbox, c, Attention!LastSeq(c) + 1, to), inbox, c,
                   Attention!LastSeq(c) + 1)
      BY <1>0, <2>1, RecipientsOk, DeliveredItems
    <2> QED BY <2>2 DEF Delivery
  <1>2. CASE UNCHANGED attentionVars \/ Attention!MarkStep
    BY <1>2 DEF attentionVars, Attention!MarkStep, Attention!SetWorkMark, Attention!ClearWorkMark
  <1>3. ASSUME NEW c \in Conversations, NEW to \in Attention!Recipients, Attention!Publish(c, to)
        PROVE  DOMAIN inbox \subseteq DOMAIN inbox' /\ drafts' = drafts
    BY <1>1, <1>3 DEF Attention!Publish
  <1>4. ASSUME NEW a \in Agents, NEW lease \in Leases, Attention!Claim(a, lease)
        PROVE  DOMAIN inbox \subseteq DOMAIN inbox' /\ drafts' = drafts
    BY <1>4 DEF Attention!Claim
  <1>5. ASSUME NEW a \in Agents, NEW lease \in Leases, NEW k \in DOMAIN inbox,
               Attention!Ack(a, lease, k) \/ Attention!Refresh(a, lease, k)
        PROVE  DOMAIN inbox \subseteq DOMAIN inbox' /\ drafts' = drafts
    BY <1>5 DEF Attention!Ack, Attention!Refresh
  <1>6. ASSUME NEW a \in Agents, NEW lease \in Leases, NEW k \in DOMAIN inbox, NEW read \in 1..MaxMessages,
               Attention!KeepDraft(a, lease, k, read)
        PROVE  /\ inbox' = inbox
               /\ \E last :
                     /\ drafts' = drafts \cup {[item |-> k, base |-> read, latest |-> last]}
                     /\ last > read
    BY <1>6 DEF Attention!KeepDraft
  <1>7. ASSUME NEW a \in Agents, NEW lease \in Leases, NEW k \in DOMAIN inbox, NEW read \in 1..MaxMessages,
               NEW to \in Attention!Recipients, Attention!SendFresh(a, lease, k, read, to)
        PROVE  DOMAIN inbox \subseteq DOMAIN inbox' /\ drafts' = drafts
    <2>1. inbox[k].conv \in Conversations
      BY AttentionParts
    <2> QED BY <1>1, <1>7, <2>1 DEF Attention!SendFresh
  <1>8. ASSUME NEW k \in DOMAIN inbox, Attention!Expire(k)
        PROVE  DOMAIN inbox \subseteq DOMAIN inbox' /\ drafts' = drafts
    BY <1>8 DEF Attention!Expire
  <1> QED BY <1>2, <1>3, <1>4, <1>5, <1>6, <1>7, <1>8
          DEF Attention!Next, Attention!InboxStep, Attention!Work

(* Every step keeps each draft that is held with an entry, and behind what *)
(* was said.                                                               *)
LEMMA DraftsKept == AttentionInv /\ DraftsBehind /\ [Attention!Next]_attentionVars => DraftsBehind'
  BY ItemsRemain DEF DraftsBehind

(* The invariants of the inbox hold its types.                             *)
LEMMA InboxIsTyped == AttentionInv /\ DraftsBehind => Attention!TypeOK
  <1> SUFFICES ASSUME AttentionInv, DraftsBehind PROVE Attention!TypeOK
    OBVIOUS
  <1>1. \A p \in Pairs : cursors[p] \in 0..Attention!LastSeq(p[2])
    <2>1. \A p \in Pairs : p[2] \in Conversations /\ cursors[p] \in Nat /\ cursors[p] <= Len(messages[p[2]])
      BY DEF Pairs, AttentionInv, AttentionTypes
    <2> QED BY <2>1, AttentionParts
  <1>2. ASSUME NEW k \in DOMAIN inbox
        PROVE  /\ Attention!Holder(inbox[k]) \in Attention!Pairs /\ inbox[k].rank \in Ranks
               /\ 1 <= inbox[k].from /\ inbox[k].from <= inbox[k].to
               /\ inbox[k].to <= Attention!LastSeq(inbox[k].conv)
               /\ inbox[k].state \in {"pending", "claimed", "done"}
               /\ inbox[k].state = "claimed" =>
                     inbox[k].read \in inbox[k].from..Attention!LastSeq(inbox[k].conv)
               /\ (inbox[k].state = "claimed") = (inbox[k].lease \in Leases)
    <2> DEFINE item == inbox[k]
    <2>1. /\ item \in Entries /\ item.conv \in Conversations
          /\ item.from \in Nat /\ item.to \in Nat /\ item.read \in Nat
          /\ Attention!Holder(item) \in Attention!Pairs
          /\ InPlace(item, Len(messages[item.conv]), cursors[<<item.agent, item.conv>>])
      BY AttentionParts DEF Pairs, Attention!Pairs
    <2>2. Attention!LastSeq(item.conv) = Len(messages[item.conv]) /\ Len(messages[item.conv]) \in Nat
      BY <2>1, AttentionParts
    <2>3. item.rank \in Ranks /\ item.state \in {"pending", "claimed", "done"}
      BY <2>1 DEF Entries
    <2> HIDE DEF item
    <2>4. /\ 1 <= item.from /\ item.from <= item.to /\ item.to <= Attention!LastSeq(item.conv)
          /\ item.state = "claimed" => item.read \in item.from..Attention!LastSeq(item.conv)
      BY <2>1, <2>2 DEF InPlace
    <2>5. (item.state = "claimed") = (item.lease \in Leases)
      BY <2>1 DEF InPlace
    <2> QED BY <2>1, <2>3, <2>4, <2>5 DEF item
  <1> QED BY <1>1, <1>2 DEF DraftsBehind, Attention!TypeOK, Attention!Pairs, Pairs

-----------------------------------------------------------------------------
(* The histories of an agent resolve, and its last session is active, once *)
(* it is there.                                                            *)

(* A record with the same revisions, selections and sessions is as valid.  *)
LEMMA ValidAlike ==
  ASSUME NEW old, NEW new, Teams!Valid(old), new.revisions = old.revisions,
         new.current = old.current, new.selections = old.selections, new.sessions = old.sessions
  PROVE  Teams!Valid(new)
  BY DEF Teams!Valid

(* What is stored is valid if what was made is.                            *)
LEMMA ValidStored ==
  ASSUME agents \in [Agents -> Records], Teams!TypeOK, NEW a \in Agents, NEW agent \in Records,
         Teams!Valid(agent), Teams!Store(a, agent)
  PROVE  Teams!TypeOK'
  <1> DEFINE new == [agent EXCEPT !.ledger = Append(@, Len(agent.relations))]
  <1>1. agents' = [agents EXCEPT ![a] = new]
    BY DEF Teams!Store
  <1>2. /\ new.revisions = agent.revisions /\ new.current = agent.current
        /\ new.selections = agent.selections /\ new.sessions = agent.sessions
    BY DEF Records
  <1> HIDE DEF new
  <1>3. Teams!Valid(new)
    BY <1>2, ValidAlike
  <1>4. \A b \in Agents : agents'[b] = IF b = a THEN new ELSE agents[b]
    BY <1>1
  <1>5. ASSUME NEW b \in Agents, Len(agents'[b].ledger) > 0 PROVE Teams!Valid(agents'[b])
    <2>1. CASE b = a
      BY <1>3, <1>4, <2>1
    <2>2. CASE b # a
      <3>1. agents'[b] = agents[b]
        BY <1>4, <2>2
      <3> QED BY <1>5, <3>1 DEF Teams!TypeOK, Teams!Exists, Teams!Revision
    <2> QED BY <2>1, <2>2
  <1> QED BY <1>5 DEF Teams!TypeOK, Teams!Exists, Teams!Revision

(* A configuration more.                                                   *)
LEMMA ValidProposed ==
  ASSUME NEW old \in Records, Teams!Valid(old), NEW config \in Teams!Configurations,
         NEW new, new = [old EXCEPT !.revisions = Append(@, config)]
  PROVE  new \in Records /\ Teams!Valid(new)
  <1> DEFINE longer == Append(old.revisions, config)
  <1>1. /\ longer \in Seq(Teams!Configurations)
        /\ \A r \in DOMAIN old.revisions : r \in DOMAIN longer
        /\ \A r \in DOMAIN longer : longer[r] \in Teams!Configurations
    <2>1. longer \in Seq(Teams!Configurations)
      BY Appended DEF Records
    <2>2. \A r \in DOMAIN old.revisions : r \in DOMAIN longer
      BY Appended DEF Records
    <2> HIDE DEF longer
    <2> QED BY <2>1, <2>2, LenProperties, ElementOfSeq
  <1> HIDE DEF longer
  <1>2. /\ new \in Records /\ new.revisions = longer /\ new.current = old.current
        /\ new.selections = old.selections /\ new.sessions = old.sessions
    BY <1>1 DEF Records, longer
  <1> QED BY <1>1, <1>2 DEF Teams!Valid

(* A selection more, of configurations that are there.                     *)
LEMMA ValidSelected ==
  ASSUME NEW old \in Records, Teams!Valid(old), NEW baseline \in DOMAIN old.revisions,
         NEW candidate \in DOMAIN old.revisions, NEW passes \in BOOLEAN,
         NEW decision \in {"accept", "reject"}, NEW new,
         new = [old EXCEPT
            !.selections = Append(@, [baseline |-> baseline, candidate |-> candidate,
                                      passes |-> passes, decision |-> decision]),
            !.current = IF decision = "accept" THEN candidate ELSE @]
  PROVE  new \in Records /\ Teams!Valid(new)
  <1> DEFINE e == [baseline |-> baseline, candidate |-> candidate,
                   passes |-> passes, decision |-> decision]
             now == IF decision = "accept" THEN candidate ELSE old.current
             longer == Append(old.selections, e)
             m == Len(old.selections)
  <1>1. old.revisions \in Seq(Teams!Configurations) /\ old.selections \in Seq(Selections)
    BY DEF Records
  <1>2. baseline \in Nat /\ candidate \in Nat /\ old.current \in Nat
    BY <1>1, LenProperties DEF Records
  <1>3. e \in Selections /\ e.candidate = candidate /\ e.baseline = baseline
    BY <1>2 DEF Selections
  <1>4. now \in Nat /\ now \in DOMAIN old.revisions
    BY <1>2 DEF Teams!Valid
  <1> HIDE DEF e, now
  <1>5. /\ longer \in Seq(Selections) /\ m \in Nat /\ Len(longer) = m + 1 /\ longer[m + 1] = e
        /\ \A s \in DOMAIN old.selections : longer[s] = old.selections[s]
        /\ DOMAIN old.selections = 1..m
    BY <1>1, <1>3, Appended, LenProperties
  <1>6. new = [old EXCEPT !.selections = longer, !.current = now]
    BY DEF e, now
  <1> HIDE DEF longer, m
  <1>7. /\ new \in Records /\ new.selections = longer /\ new.current = now
        /\ new.revisions = old.revisions /\ new.sessions = old.sessions
    BY <1>4, <1>5, <1>6 DEF Records
  <1>8. \A s \in DOMAIN longer : s \in DOMAIN old.selections \/ s = m + 1
    BY <1>5, LenProperties
  <1>9. \A s \in DOMAIN longer :
           longer[s].baseline \in DOMAIN old.revisions /\ longer[s].candidate \in DOMAIN old.revisions
    BY <1>3, <1>5, <1>8 DEF Teams!Valid
  <1> QED BY <1>4, <1>7, <1>9 DEF Teams!Valid

(* A session more, that takes over from the last one.                      *)
LEMMA ValidRotated ==
  ASSUME NEW old \in Records, Teams!Valid(old), NEW generation, generation = Len(old.sessions), NEW new,
         new = [old EXCEPT !.sessions = Append([@ EXCEPT ![generation] = "retired"], "active")]
  PROVE  new \in Records /\ Teams!Valid(new)
  <1> DEFINE retired == [old.sessions EXCEPT ![generation] = "retired"]
             sessions == Append(retired, "active")
  <1>1. old.sessions \in Seq({"active", "retired"}) /\ generation \in Nat
        /\ DOMAIN old.sessions = 1..generation
    BY LenProperties DEF Records
  <1>2. /\ retired \in Seq({"active", "retired"}) /\ DOMAIN retired = 1..generation
        /\ \A g \in 1..generation :
              retired[g] = IF g = generation THEN "retired" ELSE old.sessions[g]
    <2>1. generation \in DOMAIN old.sessions => retired \in Seq({"active", "retired"})
      BY <1>1, ExceptSeq
    <2>2. generation \notin DOMAIN old.sessions => retired = old.sessions
      BY <1>1
    <2> QED BY <1>1, <2>1, <2>2
  <1> HIDE DEF retired
  <1>3. Len(retired) = generation
    BY <1>1, <1>2, LenProperties
  <1>4. /\ sessions \in Seq({"active", "retired"}) /\ Len(sessions) = generation + 1
        /\ sessions[generation + 1] = "active"
        /\ \A g \in 1..generation : sessions[g] = retired[g]
    BY <1>1, <1>2, <1>3, Appended
  <1>5. new = [old EXCEPT !.sessions = sessions]
    BY DEF retired
  <1> HIDE DEF sessions
  <1>6. /\ new \in Records /\ new.sessions = sessions /\ new.revisions = old.revisions
        /\ new.current = old.current /\ new.selections = old.selections
    BY <1>4, <1>5 DEF Records
  <1>7. \A g \in 1..generation : retired[g] # "active"
    BY <1>1, <1>2 DEF Teams!Valid
  <1>8. \A g \in DOMAIN sessions : g \in 1..generation \/ g = generation + 1
    BY <1>1, <1>4, LenProperties
  <1>9. \A g \in 1..generation : g # generation + 1
    BY <1>1
  <1>10. \A g \in DOMAIN sessions : (sessions[g] = "active") = (g = Len(sessions))
    BY <1>4, <1>7, <1>8, <1>9
  <1> QED BY <1>6, <1>10 DEF Teams!Valid

(* Every step keeps the types of agents and teams.                         *)
LEMMA AgentsAreTyped == TeamInv /\ Teams!TypeOK /\ [Teams!TeamNext]_teamVars => Teams!TypeOK'
  <1> SUFFICES ASSUME TeamInv, Teams!TypeOK, [Teams!TeamNext]_teamVars PROVE Teams!TypeOK'
    OBVIOUS
  <1>0. agents \in [Agents -> Records]
    BY DEF TeamInv
  <1>1. CASE agents' = agents
    BY <1>1 DEF Teams!TypeOK, Teams!Exists, Teams!Revision
  <1>2. ASSUME NEW a \in Agents, NEW config \in Teams!Configurations, Teams!Create(a, config)
        PROVE  Teams!TypeOK'
    <2> DEFINE agent == [Teams!NoAgent EXCEPT !.revisions = <<config>>, !.current = 1,
                            !.relations = <<0>>, !.sessions = <<"active">>]
    <2>1. /\ agent.revisions = <<config>> /\ agent.current = 1 /\ agent.selections = <<>>
          /\ agent.sessions = <<"active">>
      BY DEF Teams!NoAgent
    <2>2. agent \in Records
      <3>1. /\ <<config>> \in Seq(Teams!Configurations) /\ <<0>> \in Seq(Nat)
            /\ <<"active">> \in Seq({"active", "retired"}) /\ <<>> \in Seq(Selections)
            /\ <<>> \in Seq(Proposals) /\ <<>> \in Seq(Nat)
        OBVIOUS
      <3> QED BY <3>1 DEF Records, Teams!NoAgent
    <2>3. Teams!Store(a, agent)
      BY <1>2 DEF Teams!Create
    <2> HIDE DEF agent
    <2>4. Teams!Valid(agent)
      BY <2>1 DEF Teams!Valid
    <2> QED BY <1>0, <2>2, <2>3, <2>4, ValidStored
  <1>3. ASSUME NEW a \in Agents, NEW expected \in DOMAIN agents[a].ledger
        PROVE  agents[a] \in Records /\ Teams!Valid(agents[a])
    <2>1. Len(agents[a].ledger) > 0
      BY <1>0, <1>3, LenProperties DEF Records
    <2> QED BY <1>0, <2>1 DEF Teams!TypeOK, Teams!Exists, Teams!Revision
  <1>4. ASSUME NEW a \in Agents, NEW expected \in DOMAIN agents[a].ledger, NEW agent \in Records,
               Teams!Valid(agent), Teams!Mutate(a, expected, agent)
        PROVE  Teams!TypeOK'
    BY <1>0, <1>4, ValidStored DEF Teams!Mutate
  <1>5. ASSUME NEW a \in Agents, NEW expected \in DOMAIN agents[a].ledger,
               Teams!Reconfigure(a, expected)
        PROVE  Teams!TypeOK'
    <2>1. ASSUME NEW config \in Teams!Configurations, Teams!ProposeAgentRevision(a, expected, config)
          PROVE  Teams!TypeOK'
      <3> DEFINE agent == [agents[a] EXCEPT !.revisions = Append(@, config)]
      <3>1. Teams!Mutate(a, expected, agent)
        BY <2>1 DEF Teams!ProposeAgentRevision
      <3>2. agent \in Records /\ Teams!Valid(agent)
        BY <1>3, ValidProposed
      <3> HIDE DEF agent
      <3> QED BY <1>4, <3>1, <3>2
    <2>2. ASSUME NEW baseline \in DOMAIN agents[a].revisions, NEW candidate \in DOMAIN agents[a].revisions,
                 NEW passes \in BOOLEAN, NEW decision \in {"accept", "reject"},
                 Teams!SelectAgentRevision(a, expected, baseline, candidate, passes, decision)
          PROVE  Teams!TypeOK'
      <3> DEFINE agent == [agents[a] EXCEPT
                    !.selections = Append(@, [baseline |-> baseline, candidate |-> candidate,
                                              passes |-> passes, decision |-> decision]),
                    !.current = IF decision = "accept" THEN candidate ELSE @]
      <3>1. Teams!Mutate(a, expected, agent)
        BY <2>2 DEF Teams!SelectAgentRevision
      <3>2. agent \in Records /\ Teams!Valid(agent)
        BY <1>3, ValidSelected
      <3> HIDE DEF agent
      <3> QED BY <1>4, <3>1, <3>2
    <2> QED BY <1>5, <2>1, <2>2 DEF Teams!Reconfigure
  <1>6. ASSUME NEW a \in Agents, NEW expected \in DOMAIN agents[a].ledger,
               NEW relations \in Seq(Nat), NEW proposals \in Seq(Proposals),
               Teams!Mutate(a, expected, [agents[a] EXCEPT !.relations = relations,
                                                           !.proposals = proposals])
        PROVE  Teams!TypeOK'
    <2> DEFINE agent == [agents[a] EXCEPT !.relations = relations, !.proposals = proposals]
    <2>1. agents[a] \in Records /\ Teams!Valid(agents[a])
      BY <1>3
    <2>2. /\ agent \in Records /\ agent.revisions = agents[a].revisions
          /\ agent.current = agents[a].current /\ agent.selections = agents[a].selections
          /\ agent.sessions = agents[a].sessions
      BY <2>1 DEF Records
    <2> HIDE DEF agent
    <2>3. Teams!Valid(agent)
      BY <2>1, <2>2, ValidAlike
    <2> QED BY <1>4, <1>6, <2>2, <2>3 DEF agent
  <1>7. ASSUME NEW a \in Agents, NEW expected \in DOMAIN agents[a].ledger, Teams!Rerelate(a, expected)
        PROVE  Teams!TypeOK'
    <2>0. /\ agents[a] \in Records /\ agents[a].relations \in Seq(Nat)
          /\ agents[a].proposals \in Seq(Proposals) /\ Reviewed(agents[a])
          /\ agents[a].ledger \in Seq(Nat)
      BY <1>3 DEF Records, TeamInv
    <2>1. Teams!SeenAt(a, expected) \in Nat /\ Teams!Related(a) \in Nat
          /\ Teams!Related(a) = Len(agents[a].relations)
      BY <2>0, LenProperties, ElementOfSeq DEF Teams!SeenAt, Teams!Related
    <2>2. CASE Teams!ReviseRelationships(a, expected)
      <3> DEFINE relations == Append(agents[a].relations, Teams!SeenAt(a, expected))
      <3>1. relations \in Seq(Nat)
        BY <2>0, <2>1, Appended
      <3>2. Teams!Mutate(a, expected, [agents[a] EXCEPT !.relations = relations])
        BY <2>2 DEF Teams!ReviseRelationships
      <3> HIDE DEF relations
      <3>3. [agents[a] EXCEPT !.relations = relations]
               = [agents[a] EXCEPT !.relations = relations, !.proposals = agents[a].proposals]
        BY <2>0 DEF Records
      <3> QED BY <1>6, <2>0, <3>1, <3>2, <3>3
    <2>3. CASE Teams!CreateRelationshipPR(a, expected)
      <3> DEFINE proposal == [base |-> Teams!Related(a), seen |-> Teams!SeenAt(a, expected),
                              state |-> "open"]
                 proposals == Append(agents[a].proposals, proposal)
      <3>1. Teams!Mutate(a, expected, [agents[a] EXCEPT !.proposals = proposals])
        BY <2>3 DEF Teams!CreateRelationshipPR
      <3>2. proposal \in Proposals
        BY <2>1 DEF Proposals
      <3> HIDE DEF proposal
      <3>3. proposals \in Seq(Proposals)
        BY <2>0, <3>2, Appended
      <3> HIDE DEF proposals
      <3>4. [agents[a] EXCEPT !.proposals = proposals]
               = [agents[a] EXCEPT !.relations = agents[a].relations, !.proposals = proposals]
        BY <2>0 DEF Records
      <3> QED BY <1>6, <2>0, <3>1, <3>3, <3>4
    <2>4. ASSUME NEW p \in DOMAIN agents[a].proposals, NEW decision \in {"accepted", "rejected"},
                 Teams!ReviewRelationshipPR(a, expected, p, decision)
          PROVE  Teams!TypeOK'
      <3> DEFINE old == agents[a].proposals[p]
                 next == [old EXCEPT !.state = decision]
                 proposals == [agents[a].proposals EXCEPT ![p] = next]
                 relations == IF decision = "accepted" THEN Append(agents[a].relations, old.seen)
                              ELSE agents[a].relations
                 agent == [agents[a] EXCEPT !.proposals[p].state = decision,
                    !.relations = IF decision = "accepted" THEN Append(@, agents[a].proposals[p].seen)
                                  ELSE @]
      <3>1. Teams!Mutate(a, expected, agent)
        BY <2>4 DEF Teams!ReviewRelationshipPR
      <3>2. old \in Proposals /\ next \in Proposals /\ old.seen \in Nat
        <4>1. old \in Proposals
          BY <2>0, LenProperties, ElementOfSeq
        <4> HIDE DEF old
        <4> QED BY <4>1 DEF Proposals
      <3>3. agent = [agents[a] EXCEPT !.relations = relations, !.proposals = proposals]
        BY <2>0 DEF Records
      <3> HIDE DEF old, next, agent
      <3>4. proposals \in Seq(Proposals)
        BY <2>0, <3>2, ExceptSeq, LenProperties
      <3>5. relations \in Seq(Nat)
        BY <2>0, <3>2, Appended
      <3> HIDE DEF proposals, relations
      <3> QED BY <1>6, <3>1, <3>3, <3>4, <3>5
    <2> QED BY <1>7, <2>2, <2>3, <2>4 DEF Teams!Rerelate
  <1>8. ASSUME NEW a \in Agents, NEW expected \in DOMAIN agents[a].ledger,
               NEW g \in DOMAIN agents[a].sessions, Teams!RotateSession(a, expected, g)
        PROVE  Teams!TypeOK'
    <2> DEFINE agent == [agents[a] EXCEPT
                            !.sessions = Append([@ EXCEPT ![g] = "retired"], "active")]
    <2>1. Teams!Mutate(a, expected, agent) /\ g = Len(agents[a].sessions)
      BY <1>8 DEF Teams!RotateSession
    <2>2. agent \in Records /\ Teams!Valid(agent)
      BY <1>3, <2>1, ValidRotated
    <2> HIDE DEF agent
    <2> QED BY <1>4, <2>1, <2>2
  <1>9. CASE Teams!Next
    BY <1>2, <1>5, <1>7, <1>8, <1>9 DEF Teams!Next, Teams!ConfigurationStep, Teams!Rotate
  <1>10. CASE Teams!TeamStep \/ UNCHANGED teamVars
    BY <1>1, <1>10 DEF teamVars, Teams!TeamStep, Teams!Begin, Teams!Read, Teams!Select, Teams!Refuse
  <1> QED BY <1>9, <1>10 DEF Teams!TeamNext

(* The types of agents and teams hold at first.                            *)
LEMMA AgentsStart == Init => Teams!TypeOK
  BY DEF Init, Teams!TeamInit, Teams!Init, Teams!NoAgent, Teams!TypeOK, Teams!Exists, Teams!Revision
=============================================================================
