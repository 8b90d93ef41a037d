----------------------------- MODULE PromptEditor ----------------------------
(***************************************************************************)
(* The editor of the prompt bar and of the api key (src/tui/prompt_editor.h) *)
(* A text is a sequence of bytes: "a" for a glyph of one byte and one      *)
(* column, "nl", and "L" "C" for a glyph of two bytes and two columns.     *)
(* Offsets count from 0, as in the code.                                   *)
(***************************************************************************)
EXTENDS Integers, Sequences, FiniteSets, SequencesExt

CONSTANTS
    MaxBytes, \* bound: bytes in the editor
    Widths,   \* bound: the widths the box may have
    Recalled  \* bound: what the history and the completion put into the editor

Bytes == {"a", "nl", "L", "C"}
Glyphs == {<<"a">>, <<"nl">>, <<"L", "C">>}

\* UTF-8: the two bytes of a glyph come one behind the other.
WellFormed(text) ==
    \A i \in 1 .. Len(text) :
        /\ text[i] = "L" => i < Len(text) /\ text[i + 1] = "C"
        /\ text[i] = "C" => i > 1 /\ text[i - 1] = "L"

RecalledFit ==
    /\ MaxBytes \in Nat /\ Widths # {}
    /\ \A text \in Recalled : text \in Seq(Bytes) /\ Len(text) <= MaxBytes /\ WellFormed(text)

VARIABLES
    content, \* content_
    cursor,  \* cursor_
    anchor,  \* sel_anchor_; -1 for none
    avail    \* avail_

editorVars == <<content, cursor, anchor, avail>>

TypeOK ==
    /\ \A i \in DOMAIN content : content[i] \in Bytes
    /\ Len(content) <= MaxBytes
    /\ cursor \in Int /\ anchor \in {-1, 0} /\ avail \in Widths

Init == content = <<>> /\ cursor = 0 /\ anchor = -1 /\ avail = CHOOSE w \in Widths : TRUE

-----------------------------------------------------------------------------
(* Glyphs and rows. *)

At(i) == content[i + 1]
Size == Len(content)
GlyphLen(i) == IF At(i) = "L" THEN 2 ELSE 1
GlyphWidth(i) == IF At(i) \in {"L", "C"} THEN 2 ELSE 1

\* A bug: back by a byte.
ByteBack(pos) == IF pos = 0 THEN 0 ELSE pos - 1

\* The start of the glyph in front of pos.
GlyphBack(pos) ==
    IF pos = 0 THEN 0
    ELSE CHOOSE i \in 0 .. pos - 1 :
            /\ i = 0 \/ At(i) # "C"
            /\ \A j \in i + 1 .. pos - 1 : At(j) = "C"

\* The row that starts at i: <<its end, behind the last glyph, and the next start>>.
RowFrom(i) ==
    LET row[j \in i .. Size + 1] == \* given that i .. j-1 are on the row
            [w \in 0 .. 2 * Size |->
                IF j >= Size THEN <<j, -1>>
                ELSE IF At(j) = "nl" THEN <<j, j + 1>>
                ELSE IF w > 0 /\ w + GlyphWidth(j) > avail THEN <<j, j>>
                ELSE row[j + GlyphLen(j)][w + GlyphWidth(j)]]
    IN  row[i][0]

\* wrap.
Rows ==
    LET wrap[i \in 0 .. Size + 1] ==
            <<[start |-> i, end |-> RowFrom(i)[1]]>>
                \o (IF RowFrom(i)[2] = -1 THEN <<>> ELSE wrap[RowFrom(i)[2]])
    IN  wrap[0]

\* cursor_position: the first row that has the cursor, or the last one.
CursorRow ==
    IF \E r \in DOMAIN Rows : Rows[r].start <= cursor /\ cursor <= Rows[r].end
      THEN CHOOSE r \in DOMAIN Rows :
              /\ Rows[r].start <= cursor /\ cursor <= Rows[r].end
              /\ \A q \in 1 .. r - 1 : ~(Rows[q].start <= cursor /\ cursor <= Rows[q].end)
      ELSE Len(Rows)

WidthOf(from, to) ==
    LET w[i \in from .. to + 1] == IF i >= to THEN 0 ELSE GlyphWidth(i) + w[i + GlyphLen(i)] IN w[from]

\* A bug: a column is a byte.
ByteAtColumn(row, col) == IF row.start + col < row.end THEN row.start + col ELSE row.end

\* The last place on the row that is not behind the column.
PlaceAtColumn(row, col) ==
    LET walk[pos \in row.start .. row.end + 1] ==
            [w \in 0 .. 2 * Size |->
                IF pos >= row.end \/ w + GlyphWidth(pos) > col THEN pos
                ELSE walk[pos + GlyphLen(pos)][w + GlyphWidth(pos)]]
    IN  walk[row.start][0]

-----------------------------------------------------------------------------
(* Editing. *)

SelActive == anchor >= 0 /\ anchor # cursor

Erased(s, from, to) == SubSeq(s, 1, from) \o SubSeq(s, to + 1, Len(s))
Inserted(s, at, g) == SubSeq(s, 1, at) \o g \o SubSeq(s, at + 1, Len(s))

\* The content, cursor and anchor erase_selection leaves behind.
Lo == IF SelActive THEN IF anchor < cursor THEN anchor ELSE cursor ELSE cursor
Hi == IF SelActive THEN IF anchor < cursor THEN cursor ELSE anchor ELSE cursor

\* A character, Ctrl+J or Shift+Enter: it takes the place of the selection.
Type(g) ==
    /\ Len(Erased(content, Lo, Hi)) + Len(g) <= MaxBytes
    /\ content' = Inserted(Erased(content, Lo, Hi), Lo, g)
    /\ cursor' = Lo + Len(g)
    /\ anchor' = IF SelActive THEN -1 ELSE anchor
    /\ UNCHANGED avail

EraseSelection ==
    /\ content' = Erased(content, Lo, Hi)
    /\ cursor' = Lo /\ anchor' = -1
    /\ UNCHANGED avail

HandleBackspace ==
    \/ SelActive /\ EraseSelection
    \/ /\ ~SelActive /\ cursor > 0
       /\ content' = Erased(content, GlyphBack(cursor), cursor)
       /\ cursor' = GlyphBack(cursor)
       /\ UNCHANGED <<anchor, avail>>

HandleDelete ==
    \/ SelActive /\ EraseSelection
    \/ /\ ~SelActive /\ cursor < Size
       /\ content' = Erased(content, cursor, cursor + GlyphLen(cursor))
       /\ UNCHANGED <<cursor, anchor, avail>>

SelectAll ==
    /\ anchor' = 0 /\ cursor' = Size
    /\ UNCHANGED <<content, avail>>

-----------------------------------------------------------------------------
(* Moving. *)

MoveTo(pos) == cursor' = pos /\ anchor' = -1 /\ UNCHANGED <<content, avail>>

\* history_previous, history_next and accept_suggestion, which own the text.
Recall(text) == content' = text /\ cursor' = Len(text)

HandleHorizontal ==
    \/ MoveTo(GlyphBack(cursor))
    \/ MoveTo(IF cursor < Size THEN cursor + GlyphLen(cursor) ELSE cursor)

\* Over the edge the history is asked; it may have nothing.
HandleVertical(dir) ==
    LET target == CursorRow + dir
        row == Rows[CursorRow]
        col == IF cursor <= row.end THEN WidthOf(row.start, cursor) ELSE WidthOf(row.start, row.end)
    IN  IF target \in DOMAIN Rows THEN MoveTo(PlaceAtColumn(Rows[target], col))
        ELSE /\ anchor' = -1 /\ UNCHANGED avail
             /\ \/ \E text \in Recalled : Recall(text)
                \/ UNCHANGED <<content, cursor>>

HandleHomeEnd == \E pos \in {Rows[CursorRow].start, Rows[CursorRow].end} : MoveTo(pos)

HandleMouse ==
    \E r \in 1 .. MaxBytes + 1, col \in 0 .. 2 * MaxBytes :
        IF r \in DOMAIN Rows THEN MoveTo(PlaceAtColumn(Rows[r], col)) ELSE MoveTo(cursor)

\* Return calls on_submit_, which may take the text; Tab fills in a command.  The
\* editor does not learn of it.
OnSubmit == content' = <<>> /\ cursor' = 0 /\ UNCHANGED <<anchor, avail>>
AcceptSuggestion == (\E text \in Recalled : Recall(text)) /\ UNCHANGED <<anchor, avail>>

\* The next rendering finds another width.
OnRender == avail' \in Widths /\ UNCHANGED <<content, cursor, anchor>>

Next ==
    \/ \E g \in Glyphs : Type(g)
    \/ HandleBackspace \/ HandleDelete \/ SelectAll
    \/ HandleHorizontal \/ HandleVertical(-1) \/ HandleVertical(1) \/ HandleHomeEnd \/ HandleMouse
    \/ OnSubmit \/ AcceptSuggestion \/ OnRender

-----------------------------------------------------------------------------
(* Properties. *)

Boundary(i) == i = Size \/ (i \in 0 .. Size - 1 /\ At(i) # "C")

\* Keys, clicks, resizes, the history and the completion may follow each other in
\* any order: the text stays well-formed UTF-8 and the cursor between two of its
\* glyphs, on one of the rows drawn (prompt_editor.h 154-416).  erase and insert
\* throw, and the TUI is gone, when the cursor is beyond the text.
EditorSound ==
    /\ WellFormed(content)
    /\ Boundary(cursor)
    /\ anchor <= Size
    /\ \E r \in DOMAIN Rows : Rows[r].start <= cursor /\ cursor <= Rows[r].end
    /\ \A r \in DOMAIN Rows : Boundary(Rows[r].start) /\ Boundary(Rows[r].end)
=============================================================================
