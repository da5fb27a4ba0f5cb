------------------------------ MODULE FileEdits ------------------------------
(***************************************************************************)
(* The edit_file tool (internal/tools/mutable_files.go): one fragment of a *)
(* file is replaced, found exactly or, when it is nowhere, with its line   *)
(* ends, its outer blank lines or its indentation disregarded, each only   *)
(* when nothing was found before.                                          *)
(*                                                                         *)
(* A text is a sequence of symbols: letters, "SP" for a space or tab, "LF" *)
(* and "CR".  A place is the half-open range of the symbols from + 1 to    *)
(* to.  The tool keeps nothing from one edit to the next: one edit of each *)
(* file shows what edits do.  replace_all is left out.                     *)
(***************************************************************************)
EXTENDS Integers, Sequences, FiniteSets, FiniteSetsExt, SequencesExt

CONSTANTS Letter, MaxFile, MaxFragment, Replacements

Texts(n) == UNION {[1..k -> {Letter, "SP", "LF", "CR"}] : k \in 0..n}
Absent == <<"absent">>
NoEdit == [level |-> "no edit"]

VARIABLES
    file,
    edit        \* what was asked and what was found

vars == <<file, edit>>

-----------------------------------------------------------------------------
Place(from, to) == [from |-> from, to |-> to]
Part(text, place) == SubSeq(text, place.from + 1, place.to)

CutsPair(text, i) == i \in 1..(Len(text) - 1) /\ text[i] = "CR" /\ text[i + 1] = "LF"

(* The numbers of a set up to n, as a loop over them comes to them.        *)
Ascending(S, n) ==
    LET passed[i \in 0..n] ==
            IF i = 0 THEN <<>> ELSE IF i \in S THEN Append(passed[i - 1], i) ELSE passed[i - 1]
    IN passed[n]

(* normalizeLFWithOffsets: CRLF and CR become LF.  Symbol k of the normal  *)
(* text ends where Ends[k] of the text does.                               *)
Ends(text) == Ascending({i \in DOMAIN text : ~CutsPair(text, i)}, Len(text))
Normal(text) ==
    LET ends == Ends(text)
    IN [k \in DOMAIN ends |-> IF text[ends[k]] = "CR" THEN "LF" ELSE text[ends[k]]]

(* Mutant: places in the normal text are taken for places in the file.     *)
OffsetSame(text, k) == k

Offset(text, k) == IF k = 0 THEN 0 ELSE Ends(text)[k]
Back(text, place) == Place(Offset(text, place.from), Offset(text, place.to))

(* uniqueSubstring: the first occurrence, and those after its end.         *)
Occurrences(text, fragment) ==
    LET n == Len(fragment)
        all == {Place(i, i + n) : i \in {i \in 0..(Len(text) - n) : SubSeq(text, i + 1, i + n) = fragment}}
        first == CHOOSE place \in all : \A other \in all : place.from <= other.from
    IN IF fragment = <<>> \/ all = {} THEN {}
       ELSE {place \in all : place = first \/ place.from >= first.to}

Lines(text) ==
    LET breaks == Ascending({i \in DOMAIN text : text[i] = "LF"} \cup {Len(text) + 1}, Len(text) + 1)
    IN [k \in DOMAIN breaks |-> Place(IF k = 1 THEN 0 ELSE breaks[k - 1], breaks[k] - 1)]

TrimSpace(line) ==
    LET solid == {i \in DOMAIN line : line[i] # "SP"}
    IN IF solid = {} THEN <<>> ELSE SubSeq(line, Min(solid), Max(solid))

Trimmed(text) == [k \in DOMAIN Lines(text) |-> TrimSpace(Part(text, Lines(text)[k]))]

TrimOuterBlankLines(text) ==
    LET solid == {k \in DOMAIN Lines(text) : Trimmed(text)[k] # <<>>}
    IN IF solid = {} THEN <<>>
       ELSE Part(text, Place(Lines(text)[Min(solid)].from, Lines(text)[Max(solid)].to))

(* indentationMatch.                                                       *)
LineMatches(content, fragment) ==
    LET n == Len(Lines(fragment))
        Same(k) == SubSeq(Trimmed(content), k, k + n - 1) = Trimmed(fragment)
    IN IF fragment = <<>> THEN {}
       ELSE {Place(Lines(content)[k].from, Lines(content)[k + n - 1].to) :
                k \in {k \in 1..(Len(Lines(content)) - n + 1) : Same(k)}}

Levels == <<"exact", "newline", "outer_blank_lines", "indentation">>

Matches(text, old, level) ==
    LET content == Normal(text)
        inner == TrimOuterBlankLines(Normal(old))
        Found(places) == {Back(text, place) : place \in places}
    IN CASE level = "exact" -> Occurrences(text, old)
         [] level = "newline" -> Found(Occurrences(content, Normal(old)))
         [] level = "outer_blank_lines" -> Found(Occurrences(content, inner))
         [] level = "indentation" -> Found(LineMatches(content, inner))

(* findEditMatch: the first level with a match decides.                    *)
EditMatch(text, old) ==
    LET hits == {k \in DOMAIN Levels : Matches(text, old, Levels[k]) # {}}
        level == Levels[Min(hits)]
        places == Matches(text, old, level)
    IN IF hits = {} THEN [level |-> "no_match"]
       ELSE IF Cardinality(places) > 1 THEN [level |-> "ambiguous_match", at |-> level]
       ELSE [level |-> level, place |-> CHOOSE place \in places : TRUE]

-----------------------------------------------------------------------------
(* The replacement takes the indentation and the line ends of the place.   *)

Rows(text) == [k \in DOMAIN Lines(text) |-> Part(text, Lines(text)[k])]
Solid(rows) == {k \in DOMAIN rows : TrimSpace(rows[k]) # <<>>}
Width(row) == Min({i \in DOMAIN row : row[i] # "SP"}) - 1

BaseIndent(text) ==
    LET rows == Rows(Normal(text))
    IN IF Solid(rows) = {} THEN 0 ELSE Width(rows[Min(Solid(rows))])

(* The least indented line of the block gets the given indentation.        *)
Reindented(text, indent) ==
    LET rows == Rows(Normal(text))
        common == Min({Width(rows[k]) : k \in Solid(rows)})
        Row(k) == IF k \in Solid(rows)
                  THEN [i \in 1..indent |-> "SP"] \o SubSeq(rows[k], common + 1, Len(rows[k]))
                  ELSE <<>>
    IN IF Solid(rows) = {} THEN text
       ELSE FlattenSeq([k \in DOMAIN rows |-> IF k = 1 THEN Row(k) ELSE <<"LF">> \o Row(k)])

HasPair(text) == \E i \in DOMAIN text : CutsPair(text, i)

(* preferredNewline, convertNewlines.                                      *)
Converted(text, fragment, whole) ==
    LET crlf == HasPair(fragment) \/ (~Contains(fragment, "LF") /\ HasPair(whole))
        End(s) == IF s = "LF" /\ crlf THEN <<"CR", "LF">> ELSE <<s>>
    IN FlattenSeq([k \in DOMAIN Normal(text) |-> End(Normal(text)[k])])

Replaced(text, match, new) ==
    LET fragment == Part(text, match.place)
        block == IF match.level = "indentation" THEN Reindented(new, BaseIndent(fragment)) ELSE new
    IN SubSeq(text, 1, match.place.from) \o Converted(block, fragment, text)
         \o SubSeq(text, match.place.to + 1, Len(text))

-----------------------------------------------------------------------------
(* The tools.                                                              *)

WriteFile(content) ==
    /\ file = Absent
    /\ file' = content
    /\ UNCHANGED edit

EditFile(old, new) ==
    LET match == EditMatch(file, old)
        found == match.level \in Range(Levels)
    IN /\ file # Absent /\ edit = NoEdit
       /\ edit' = [before |-> file, old |-> old, new |-> new, level |-> match.level,
                   place |-> IF found THEN match.place ELSE Place(0, 0)]
       /\ file' = IF found THEN Replaced(file, match, new) ELSE file

Init == file = Absent /\ edit = NoEdit

Next ==
    \/ \E content \in Texts(MaxFile) : WriteFile(content)
    \/ \E old \in Texts(MaxFragment) \ {<<>>}, new \in Replacements : EditFile(old, new)

Spec == Init /\ [][Next]_vars

-----------------------------------------------------------------------------
(* Type correctness.                                                       *)
TypeOK ==
    /\ file = Absent \/ Range(file) \subseteq {Letter, "SP", "LF", "CR"}
    /\ edit.level \in Range(Levels) \cup {"no edit", "no_match", "ambiguous_match"}

(* The places of a file that answer a fragment, said of the file itself:   *)
(* no end of a place falls between a CR and its LF, but in an exact match. *)
Answers(text, old, place, level) ==
    LET part == Part(text, place)
        whole == ~CutsPair(text, place.from) /\ ~CutsPair(text, place.to)
        inner == TrimOuterBlankLines(Normal(old))
        lines == /\ place.from = 0 \/ text[place.from] \in {"LF", "CR"}
                 /\ place.to = Len(text) \/ text[place.to + 1] \in {"LF", "CR"}
    IN CASE level = "exact" -> part = old
         [] level = "newline" -> whole /\ Normal(part) = Normal(old)
         [] level = "outer_blank_lines" -> whole /\ inner # <<>> /\ Normal(part) = inner
         [] level = "indentation" -> /\ whole /\ lines /\ inner # <<>>
                                     /\ Trimmed(Normal(part)) = Trimmed(inner)

Places(text) == {Place(i, j) : i \in 0..Len(text), j \in 0..Len(text)}
Answering(text, old, level) ==
    {place \in Places(text) : place.from < place.to /\ Answers(text, old, place, level)}

(* The fragment replaced is the one that was asked for: it answers         *)
(* old_text at the level reported, nothing else does but what overlaps it, *)
(* and nothing does at a stricter level; a file in which something answers *)
(* at any level is not said to have no match.                              *)
EditsHitTheirMark ==
    LET At(level) == Answering(edit.before, edit.old, level)
        found == SelectInSeq(Levels, LAMBDA level : level = edit.level)
    IN edit # NoEdit =>
          IF edit.level = "ambiguous_match"
          THEN \E level \in Range(Levels) : Cardinality(At(level)) > 1
          ELSE /\ \A k \in DOMAIN Levels : found = 0 \/ k < found => At(Levels[k]) = {}
               /\ found # 0 =>
                    /\ edit.place \in At(edit.level)
                    /\ \A place \in At(edit.level) :
                          place.from < edit.place.to /\ edit.place.from < place.to

(* A file whose lines all end in CRLF, or all in LF, stays so, unless an   *)
(* exact match cuts a CRLF.                                                *)
Uniform(text) ==
    \/ \A i \in DOMAIN text : text[i] # "CR"
    \/ \A i \in DOMAIN text : /\ text[i] = "LF" => i > 1 /\ text[i - 1] = "CR"
                              /\ text[i] = "CR" => CutsPair(text, i)
LineEndsStay ==
    edit # NoEdit /\ Uniform(edit.before) =>
        \/ Uniform(file)
        \/ CutsPair(edit.before, edit.place.from) \/ CutsPair(edit.before, edit.place.to)
=============================================================================
