------------------------------ MODULE TextTrials -----------------------------
(***************************************************************************)
(* One call of edit or one update section of apply_patch on a text nobody  *)
(* else touches, for all small texts and arguments: what the tools compute *)
(* against what they are for.                                              *)
(***************************************************************************)
EXTENDS TextEdits

CONSTANTS
    EditTexts,  \* the files edit is tried on
    EditOlds,   \* old_string
    EditNews,   \* new_string
    PatchTexts, \* the files an update section is tried on
    PatchLines, \* the lines of update sections
    MaxSection  \* bound: lines of a section

\* Texts are sequences, and the lines of a section hold no end of line.
TextsFit ==
    /\ \A t \in EditTexts \cup EditOlds \cup EditNews \cup PatchTexts : t \in Seq(Range(t))
    /\ \A l \in PatchLines : l.text \in Seq(Range(l.text)) /\ NL \notin Range(l.text)
    /\ NL # CR
    /\ MaxSection \in Nat

VARIABLE trial  \* the last call

Sections == UNION {[1 .. n -> PatchLines] : n \in 1 .. MaxSection}

Init == trial = [tool |-> "none"]

TryEdit ==
    /\ trial.tool = "none"
    /\ \E text \in EditTexts, old \in EditOlds, new \in EditNews, all \in BOOLEAN :
          trial' = [tool |-> "edit", text |-> text, old |-> old, new |-> new, all |-> all,
                    out |-> EditText(text, old, new, all)]

TryUpdate ==
    /\ trial.tool = "none"
    /\ \E text \in PatchTexts, raw \in Sections :
          /\ ApplyUpdates(text, raw).ok
          /\ trial' = [tool |-> "apply_patch", text |-> text, raw |-> raw,
                       out |-> ApplyUpdates(text, raw)]

Next == TryEdit \/ TryUpdate

-----------------------------------------------------------------------------
(* Properties. *)

\* The places a replacement is due: the occurrences that do not begin inside an
\* earlier place.  There is one such set.
Due(text, from) ==
    CHOOSE D \in SUBSET Positions(from, text) :
        \A p \in Positions(from, text) :
            p \in D <=> ~\E d \in D : d < p /\ p < d + Len(from)

\* The text with `to' at the due places, the rest as it was.
Replacing(text, from, to) ==
    FlattenSeq([i \in 1 .. Len(text) |->
        CASE i \in Due(text, from) -> to
          [] \E d \in Due(text, from) : d < i /\ i < d + Len(from) -> <<>>
          [] OTHER -> <<text[i]>>])

AllCRLF(text) == \A i \in 1 .. Len(text) : text[i] = NL => i > 1 /\ text[i - 1] = CR
NoCR(text) == \A i \in 1 .. Len(text) : text[i] # CR

\* edit replaces what it says and nothing else (edit.h 91-105): one place, or with
\* replace_all all of them, and never inside the text it has just put in.
EditReplacesExactly ==
    trial.tool = "edit" /\ trial.out.ok =>
        LET from == ConvertToLineEnding(trial.old, UsesCRLF(trial.text))
            to == ConvertToLineEnding(trial.new, UsesCRLF(trial.text))
        IN  /\ trial.out.text = Replacing(trial.text, from, to)
            /\ trial.all \/ Cardinality(Due(trial.text, from)) = 1

\* A file with CRLF line ends keeps them, though models write LF (edit.h 95-97):
\* neither the text looked for nor the text put in brings a bare LF into it.
EditKeepsLineEnds ==
    trial.tool = "edit" /\ trial.out.ok /\ UsesCRLF(trial.text)
        /\ AllCRLF(trial.text) /\ NoCR(trial.old) /\ NoCR(trial.new)
            => AllCRLF(trial.out.text)

InverseLine(l) ==
    [mark |-> IF l.mark = "+" THEN "-" ELSE IF l.mark = "-" THEN "+" ELSE l.mark, text |-> l.text]
InverseGroup(group) == [i \in 1 .. Len(group) |-> InverseLine(group[i])]
InverseGroups(raw) == [g \in 1 .. Len(Groups(raw)) |-> InverseGroup(Reverse(Groups(raw))[g])]

\* The groups as a section, each behind its "@@".
Section(groups) ==
    FlattenSeq([g \in 1 .. Len(groups) |-> <<[mark |-> "@@", text |-> <<>>]>> \o groups[g]])

EndsInNL(text) == text # <<>> /\ Last(text) = NL

\* No line of the text ends in a CR: apply_patch would drop it.
NoCRAtEnds(text) == ~UsesCRLF(text) /\ (text # <<>> => Last(text) # CR)

\* An update can be taken back (apply_patch.h 292-333): the section with + and -
\* exchanged, its groups from last to first, restores the file whenever apply_patch
\* finds the places it names.  Left out: an update after which a file not ended by
\* NL has a blank last line, for apply_patch loses that line.
UpdateReverses ==
    trial.tool = "apply_patch" /\ NoCRAtEnds(trial.text)
        /\ EndsInNL(trial.out.text) = EndsInNL(trial.text) =>
        LET undone == ApplyUpdates(trial.out.text, Section(InverseGroups(trial.raw)))
        IN  undone.ok => undone.text = trial.text
=============================================================================
