---------------------------- MODULE ContextWindow ----------------------------
(***************************************************************************)
(* The context window of a run (internal/contextmanager) over the archive  *)
(* of its messages (ArchiveMessages of internal/memory).  At each turn of  *)
(* the engine the history is compacted when it is over the budget: its     *)
(* messages are archived, then old tool results and old prose are replaced *)
(* by markers that name their source, long recent results are cut, and at  *)
(* last a middle part is dropped.                                          *)
(*                                                                         *)
(* A body is what a message says: of which message it stems, whether it is *)
(* the raw text, a marker or a cut text, and the archived entry it names.  *)
(* Sizes are units of the budget and add up.                               *)
(***************************************************************************)
EXTENDS Integers, Sequences, FiniteSets, FiniteSetsExt, SequencesExt

CONSTANTS
    Sizes,          \* of raw texts, which say something: an empty one is not archived
    MarkerSize,
    Long,           \* old prose that is longer is masked at once; a marker is not
    MaxTool,        \* a recent result that is longer is cut to this; a marker is shorter
    Budget,
    RecentMessages,
    MinTail,
    Tears,          \* whether a line of the archive may be written in part
    MaxTurns        \* bound

VARIABLES
    window,         \* the messages the model is shown: <<[role, calls, body]>>
    archive,        \* <<[turn, index, body]>>, the file of the scope
    torn,           \* its last line is incomplete: the file cannot be read
    turn,
    fitted,         \* the turn has compacted its history
    said            \* how many messages the run has had

vars == <<window, archive, torn, turn, fitted, said>>

-----------------------------------------------------------------------------
Raw(n, size) == [of |-> n, form |-> "raw", size |-> size, ref |-> 0]
Message(role, calls, body) == [role |-> role, calls |-> calls, body |-> body]
Notice == Message("system", {}, [of |-> 0, form |-> "raw", size |-> MarkerSize, ref |-> 0])

Marker(body, ref) == [body EXCEPT !.form = "marker", !.size = MarkerSize, !.ref = ref]
Cut(body, ref) == [body EXCEPT !.form = "cut", !.size = MaxTool, !.ref = ref]

Tokens(messages) == FoldSeq(LAMBDA m, n : n + m.body.size + Cardinality(m.calls), 0, messages)

Entry(messages, i) == [turn |-> turn, index |-> i, body |-> messages[i].body]

(* What the file does not know is appended.                                *)
Filed(file, messages, i) ==
    IF messages[i].role = "system" \/ Contains(file, Entry(messages, i)) THEN file
    ELSE Append(file, Entry(messages, i))

(* The file after each of the messages.                                    *)
Files(messages) ==
    LET file[i \in 0..Len(messages)] ==
            IF i = 0 THEN archive ELSE Filed(file[i - 1], messages, i)
    IN file

Archived(messages) == Files(messages)[Len(messages)]

Reference(file, messages, i) ==
    CHOOSE k \in DOMAIN file : file[k] = Entry(messages, i)

-----------------------------------------------------------------------------
(* Compact.  The first recentStart - 1 messages after the first are old.   *)

Old(messages, i) == i > 1 /\ i <= Max({1, Len(messages) - RecentMessages})

(* SubSeq is the identity here: it makes TLC compute the bodies once.      *)
Map(messages, Replaced(_)) ==
    SubSeq([i \in DOMAIN messages |-> [messages[i] EXCEPT !.body = Replaced(i)]], 1, Len(messages))

Masked(messages, file) ==
    Map(messages, LAMBDA i :
        LET m == messages[i] ref == Reference(file, messages, i) IN
        IF Old(messages, i) /\ m.role = "tool" /\ m.body.form # "marker" THEN Marker(m.body, ref)
        ELSE IF Old(messages, i) /\ m.role = "assistant" /\ m.body.size > Long THEN Marker(m.body, ref)
        ELSE IF ~Old(messages, i) /\ m.role = "tool" /\ m.body.size > MaxTool THEN Cut(m.body, ref)
        ELSE m.body)

(* References are those of the messages as they were archived.             *)
Collapsed(working, messages, file) ==
    Map(working, LAMBDA i :
        LET m == working[i] IN
        IF Old(working, i) /\ m.role = "assistant" /\ m.body.size > 0 /\ m.body.form # "marker"
        THEN Marker(m.body, Reference(file, messages, i)) ELSE m.body)

(* The longest tail within the budget, of MinTail messages at least.       *)
TailStart(working) ==
    LET n == Len(working)
        fixed == Tokens(<<working[1], Notice>>)
        Fits(k) == n - k < MinTail \/ fixed + Tokens(SubSeq(working, k, n)) <= Budget
    IN Max({1} \cup {k \in 2..n : ~Fits(k)}) + 1

(* Mutant: the tail starts where the budget ends.                          *)
OwnerStartNot(working, start) == start

(* includeToolCallOwner: a tail that starts with results starts with the   *)
(* message that asked for them.                                            *)
OwnerStart(working, start) ==
    LET Results == {k \in start..Len(working) : \A j \in start..k : working[j].role = "tool"}
        needed == UNION {working[k].calls : k \in Results}
        Asked(i) == UNION {working[j].calls : j \in {j \in i..(start - 1) : working[j].role = "assistant"}}
        owners == {i \in 2..(start - 1) : working[i].role = "assistant" /\ needed \subseteq Asked(i)}
    IN IF needed = {} \/ owners = {} THEN start ELSE Max(owners)

Trimmed(working) ==
    LET start == OwnerStart(working, TailStart(working))
    IN IF start <= 2 THEN working
       ELSE <<working[1], Notice>> \o SubSeq(working, start, Len(working))

Compacted(messages, file) ==
    LET masked == Masked(messages, file)
        collapsed == Collapsed(masked, messages, file)
    IN IF Tokens(masked) <= Budget THEN masked
       ELSE IF Tokens(collapsed) <= Budget THEN collapsed
       ELSE Trimmed(collapsed)

-----------------------------------------------------------------------------
(* The engine: a turn compacts, asks the model and observes its calls.     *)

Over == Tokens(window) > Budget /\ Len(window) > 2

(* An archive that cannot be read refuses, and the run ends.               *)
Compact ==
    /\ Over /\ ~fitted /\ ~torn
    /\ archive' = Archived(window)
    /\ window' = Compacted(window, archive') /\ fitted' = TRUE
    /\ UNCHANGED <<torn, turn, said>>

(* The process dies before the commit, or the disk is full: the run is     *)
(* resumed with the history it had, and the archive keeps what was         *)
(* appended, maybe a part of the next line.                                *)
BreakOff ==
    /\ Over /\ ~fitted /\ ~torn
    /\ LET whole == Archived(window) IN
       \E k \in Len(archive)..Len(whole) :
          /\ archive' = SubSeq(whole, 1, k)
          /\ torn' \in IF Tears /\ k < Len(whole) THEN BOOLEAN ELSE {FALSE}
    /\ UNCHANGED <<window, fitted, turn, said>>

Answer(calls, size, results) ==
    LET first == said + 1
        answer == Message("assistant", {first + k : k \in 1..calls}, Raw(first, size))
        Result(k) == Message("tool", {first + k}, Raw(first + k, results))
    IN <<answer>> \o [k \in 1..calls |-> Result(k)]

(* The model is asked though the history may still be over the budget.     *)
Turn ==
    /\ turn < MaxTurns
    /\ Over => fitted
    /\ turn' = turn + 1 /\ fitted' = FALSE
    /\ \E calls \in 0..2, size, results \in Sizes, asked \in BOOLEAN :
          LET answer == Answer(calls, size, results)
              next == said + Len(answer) + 1
          IN /\ window' = window \o answer \o
                   IF asked THEN <<Message("user", {}, Raw(next, size))>> ELSE <<>>
             /\ said' = IF asked THEN next ELSE next - 1
    /\ UNCHANGED <<archive, torn>>

Init ==
    /\ window = <<Message("system", {}, Raw(0, 1)), Message("user", {}, Raw(1, 1))>>
    /\ archive = <<>> /\ torn = FALSE
    /\ turn = 1 /\ fitted = FALSE
    /\ said = 1

Next == Compact \/ BreakOff \/ Turn

Spec == Init /\ [][Next]_vars

-----------------------------------------------------------------------------
(* Type correctness.                                                       *)
TypeOK ==
    /\ torn \in BOOLEAN /\ said \in Nat /\ turn \in 1..MaxTurns
    /\ \A i \in DOMAIN window : /\ window[i].role \in {"system", "user", "assistant", "tool"}
                                /\ window[i].body.of \in 0..said
    /\ \A k \in DOMAIN archive : archive[k].body.of \in 1..said

(* Whatever the run was told can be recalled: each message is shown or     *)
(* archived as it was, and what a marker or a cut text names, read from    *)
(* one source to the next, ends at its raw text.                           *)
NothingIsLost ==
    LET file == IF torn THEN <<>> ELSE archive
        bodies == {window[i].body : i \in DOMAIN window} \cup {file[k].body : k \in DOMAIN file}
        Leads(body, below) ==
            body.form = "raw" \/ (body.ref \in 1..below /\ file[body.ref].body.of = body.of)
    IN /\ \A n \in 1..said : \E body \in bodies : body.of = n /\ body.form = "raw"
       /\ \A i \in DOMAIN window : Leads(window[i].body, Len(file))
       /\ \A k \in DOMAIN file : Leads(file[k].body, k - 1)

(* Results stay behind the message that asked for them, all of them.       *)
CallsStayWhole ==
    /\ window[1].body.of = 0
    /\ \A i \in DOMAIN window :
          LET calls == window[i].calls IN
          /\ window[i].role = "assistant" =>
                \A c \in calls : \E k \in 1..Cardinality(calls) :
                    /\ i + k \in DOMAIN window
                    /\ window[i + k].role = "tool" /\ window[i + k].calls = {c}
          /\ window[i].role = "tool" =>
                \E k \in 1..(i - 1) : window[k].role = "assistant" /\ calls \subseteq window[k].calls
=============================================================================
