------------------------------ MODULE TextEdits ------------------------------
(***************************************************************************)
(* What the edit and apply_patch tools compute (src/tool/edit.h,           *)
(* src/tool/apply_patch.h).  A text is a sequence of words, NL and CR; a   *)
(* word stands for any run of characters without an end of line.           *)
(***************************************************************************)
EXTENDS Integers, Sequences, FiniteSets, SequencesExt

CONSTANTS NL, CR

Rejected == [ok |-> FALSE, text |-> <<>>]
Changed(text) == [ok |-> TRUE, text |-> text]

OccursAt(part, whole, i) ==
    i + Len(part) - 1 <= Len(whole) /\ SubSeq(whole, i, i + Len(part) - 1) = part

Positions(part, whole) == {i \in 1 .. Len(whole) : OccursAt(part, whole, i)}

-----------------------------------------------------------------------------
(* edit *)

\* Every CR in front of an NL goes.
NormalizeLineEndings(s) ==
    FlattenSeq([i \in 1 .. Len(s) |-> IF OccursAt(<<CR, NL>>, s, i) THEN <<>> ELSE <<s[i]>>])

UsesCRLF(text) == Positions(<<CR, NL>>, text) # {}

\* A bug: what is put in keeps the line ends it came with.
Unconverted(s, crlf) == s

ConvertToLineEnding(s, crlf) ==
    LET norm == NormalizeLineEndings(s)
    IN  IF crlf THEN FlattenSeq([i \in 1 .. Len(norm) |->
                                    IF norm[i] = NL THEN <<CR, NL>> ELSE <<norm[i]>>])
                ELSE norm

\* find() from the left, each search starting behind the match before it:
\* found[i] is how many there are from position i on.
CountOccurrences(text, search) ==
    LET found[i \in 1 .. Len(text) + 1] ==
            IF i > Len(text) THEN 0
            ELSE IF OccursAt(search, text, i) THEN 1 + found[i + Len(search)]
            ELSE found[i + 1]
    IN  found[1]

\* A bug: one too many is taken away.
ReplaceTooMuch(text, from, to) ==
    LET i == CHOOSE p \in Positions(from, text) : \A q \in Positions(from, text) : p <= q
    IN  SubSeq(text, 1, i - 1) \o to \o SubSeq(text, i + Len(from) + 1, Len(text))

ReplaceFirst(text, from, to) ==
    LET i == CHOOSE p \in Positions(from, text) : \A q \in Positions(from, text) : p <= q
    IN  SubSeq(text, 1, i - 1) \o to \o SubSeq(text, i + Len(from), Len(text))

\* A bug: the search goes on one character behind the start of a match.
ReplaceAllOverlapping(text, from, to) ==
    LET rest[i \in 1 .. Len(text) + 1] ==
            IF i > Len(text) THEN <<>>
            ELSE IF OccursAt(from, text, i) THEN to \o rest[i + 1]
            ELSE <<text[i]>> \o rest[i + 1]
    IN  rest[1]

\* The search goes on behind the text put in, so it is never replaced itself.
ReplaceAllStr(text, from, to) ==
    LET rest[i \in 1 .. Len(text) + 1] ==
            IF i > Len(text) THEN <<>>
            ELSE IF OccursAt(from, text, i) THEN to \o rest[i + Len(from)]
            ELSE <<text[i]>> \o rest[i + 1]
    IN  rest[1]

\* What EditTool::execute makes of a text it has read.
EditText(text, old, new, all) ==
    LET from == ConvertToLineEnding(old, UsesCRLF(text))
        to == ConvertToLineEnding(new, UsesCRLF(text))
        n == CountOccurrences(text, from)
    IN  IF old = new \/ old = <<>> \/ n = 0 \/ (n > 1 /\ ~all) THEN Rejected
        ELSE Changed(IF all THEN ReplaceAllStr(text, from, to)
                            ELSE ReplaceFirst(text, from, to))

-----------------------------------------------------------------------------
(* apply_patch: one update section *)

WithoutCR(line) == IF line # <<>> /\ Last(line) = CR THEN Front(line) ELSE line

\* The lines that have ended, and the one under way.
Split(text) ==
    LET after[i \in 0 .. Len(text)] ==
            IF i = 0 THEN [done |-> <<>>, line |-> <<>>]
            ELSE IF text[i] = NL
              THEN [done |-> Append(after[i - 1].done, WithoutCR(after[i - 1].line)), line |-> <<>>]
            ELSE [done |-> after[i - 1].done, line |-> Append(after[i - 1].line, text[i])]
    IN  after[Len(text)]

\* Lines end at each NL; what follows the last one is a line if it is not empty.
SplitLines(text) ==
    LET end == Split(text)
    IN  IF end.line = <<>> THEN end.done ELSE Append(end.done, WithoutCR(end.line))

Join(lines) ==
    LET joined[i \in 0 .. Len(lines)] ==
            IF i = 0 THEN <<>>
            ELSE joined[i - 1] \o (IF i = 1 THEN lines[i] ELSE <<NL>> \o lines[i])
    IN  joined[Len(lines)]

\* A line of a section is its mark and its text: " " context, "-" removed, "+" added,
\* "@@" the start of a group, "" nothing at all (a blank line), "?" anything else.
Closed(acc) == IF acc.group = <<>> THEN acc.all ELSE Append(acc.all, acc.group)

Groups(raw) ==
    LET after[i \in 0 .. Len(raw)] ==
            IF i = 0 THEN [all |-> <<>>, group |-> <<>>]
            ELSE IF raw[i].mark = "@@" THEN [all |-> Closed(after[i - 1]), group |-> <<>>]
            ELSE [all |-> after[i - 1].all, group |-> Append(after[i - 1].group, raw[i])]
    IN  Closed(after[Len(raw)])

\* The texts of the lines with these marks.
Side(group, marks) ==
    LET side[i \in 0 .. Len(group)] ==
            IF i = 0 THEN <<>>
            ELSE IF group[i].mark \in marks THEN Append(side[i - 1], group[i].text)
            ELSE side[i - 1]
    IN  side[Len(group)]

Old(group) == Side(group, {"", " ", "-"})
New(group) == Side(group, {"", " ", "+"})

MatchesOnce(old, lines) == Cardinality(Positions(old, lines)) = 1

ApplyGroup(acc, group) ==
    IF acc.ok /\ Old(group) # <<>> /\ MatchesOnce(Old(group), acc.lines)
      THEN [ok |-> TRUE, lines |-> ReplaceFirst(acc.lines, Old(group), New(group))]
      ELSE [ok |-> FALSE, lines |-> acc.lines]

\* Group by group, up to the first that has no place or several.
ApplyGroups(lines, groups) ==
    LET after[g \in 0 .. Len(groups)] ==
            IF g = 0 THEN [ok |-> TRUE, lines |-> lines] ELSE ApplyGroup(after[g - 1], groups[g])
    IN  after[Len(groups)]

ApplyUpdates(content, raw) ==
    LET hadNL == content # <<>> /\ Last(content) = NL
        applied == ApplyGroups(SplitLines(content), Groups(raw))
    IN  IF (\E i \in DOMAIN raw : raw[i].mark = "?") \/ Groups(raw) = <<>> \/ ~applied.ok
          THEN Rejected
          ELSE Changed(Join(applied.lines) \o (IF hadNL THEN <<NL>> ELSE <<>>))

\* An add section: the lines without their mark; a final NL unless there is one.
AddContent(raw) ==
    LET c == Join([i \in 1 .. Len(raw) |-> raw[i].text])
    IN  IF c # <<>> /\ Last(c) # NL THEN Append(c, NL) ELSE c

-----------------------------------------------------------------------------
(* apply_patch: the sections of a patch *)

NoSection == [type |-> "none", path |-> "none", lines |-> <<>>]

Flush(acc) ==
    IF acc.section.type = "none" THEN acc
    ELSE IF acc.section.type = "add" /\ \E i \in DOMAIN acc.section.lines :
                                           acc.section.lines[i].mark \notin {"", "+"}
      THEN [acc EXCEPT !.ok = FALSE]
      ELSE [acc EXCEPT !.hunks = Append(@, acc.section), !.section = NoSection]

\* One line of the patch: a frame ("begin" or "end"), the header of a section, an
\* unknown directive, or a line of the open section.  Blank lines between sections
\* mean nothing.
ParseLine(acc, l) ==
    LET inSection == acc.section.type # "none"
    IN  IF ~acc.ok THEN acc
        ELSE CASE l.is = "frame" -> Flush(acc)
               [] l.is = "unknown" -> [acc EXCEPT !.ok = FALSE]
               [] l.is \in {"add", "update", "delete"} ->
                    [Flush(acc) EXCEPT !.section = [type |-> l.is, path |-> l.path, lines |-> <<>>]]
               [] l.is = "line" /\ inSection ->
                    [acc EXCEPT !.section.lines = Append(@, [mark |-> l.mark, text |-> l.text])]
               [] l.is = "line" /\ ~inSection -> [acc EXCEPT !.ok = (l.mark = "")]

ParsePatch(lines) ==
    LET after[i \in 0 .. Len(lines)] ==
            IF i = 0 THEN [ok |-> TRUE, hunks |-> <<>>, section |-> NoSection]
            ELSE ParseLine(after[i - 1], lines[i])
        end == Flush(after[Len(lines)])
    IN  [ok |-> end.ok /\ end.hunks # <<>>, hunks |-> end.hunks]
=============================================================================
