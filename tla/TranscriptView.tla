---------------------------- MODULE TranscriptView ---------------------------
(***************************************************************************)
(* The part of the transcript that is on the screen (src/tui/tui.cpp):     *)
(* view_row_ and follow_bottom_, which writers set to the end, the keys and *)
(* the wheel move, and the rendering brings back into range.  A row is its *)
(* number; wrapping makes the same lines more rows or fewer.               *)
(***************************************************************************)
EXTENDS Integers

CONSTANTS
    MaxRows, \* bound: physical rows
    Heights, \* heights of the transcript's box, as page_height gives them
    Wheel,   \* rows of a tick of the wheel: 3 in the code
    End      \* numeric_limits<size_t>::max()

PagesFit ==
    /\ MaxRows \in Nat /\ Heights \subseteq Nat /\ Wheel \in Nat
    /\ End \in Nat /\ End > MaxRows

VARIABLES
    rows,   \* physical_lines_.size(), when it is up to date
    height, \* page_height()
    view,   \* view_row_
    follow, \* follow_bottom_
    drawn   \* history: the rows, height and rows drawn of the last rendering

viewVars == <<rows, height, view, follow, drawn>>

TypeOK ==
    /\ rows \in 0 .. MaxRows /\ height \in Heights
    /\ view \in 0 .. MaxRows \cup {End} /\ follow \in BOOLEAN

Init ==
    /\ rows = 0 /\ height \in Heights
    /\ view = 0 /\ follow = TRUE
    /\ drawn = [rows |-> 0, height |-> height, first |-> 0, last |-> 0]

\* max_view_row_locked.
MaxView == IF rows > height THEN rows - height ELSE 0

-----------------------------------------------------------------------------
\* A bug: always to the end.
DirtyAlways == view' = End

\* mark_dirty_locked.
MarkDirty == view' = IF follow THEN End ELSE view

\* Lines are appended, or the live region has more rows or fewer.
Write ==
    /\ rows' \in 1 .. MaxRows
    /\ MarkDirty
    /\ UNCHANGED <<height, follow, drawn>>

\* A resize wraps the lines anew and leaves the view's row number.
Resize ==
    /\ height' \in Heights
    /\ rows' \in IF rows = 0 THEN {0} ELSE 1 .. MaxRows
    /\ UNCHANGED <<view, follow, drawn>>

\* /clear, and the line it appends in the same handler.
Clear == rows' \in 1 .. MaxRows /\ follow' = TRUE /\ view' = End /\ UNCHANGED <<height, drawn>>

\* transcript_element.
Render ==
    /\ view' = IF follow \/ view = End \/ view > MaxView THEN MaxView ELSE view
    /\ drawn' = [rows |-> rows, height |-> height, first |-> view',
                 last |-> IF view' + height < rows THEN view' + height ELSE rows]
    /\ UNCHANGED <<rows, height, follow>>

-----------------------------------------------------------------------------
\* scroll_event.
ScrollUp(amount) ==
    /\ rows > 0
    /\ LET from == IF follow \/ view = End THEN MaxView ELSE view
       IN  view' = IF from > amount THEN from - amount ELSE 0
    /\ follow' = FALSE
    /\ UNCHANGED <<rows, height, drawn>>

ScrollDown(amount) ==
    /\ rows > 0 /\ ~follow
    /\ IF view + amount >= MaxView THEN view' = MaxView /\ follow' = TRUE
       ELSE view' = view + amount /\ UNCHANGED follow
    /\ UNCHANGED <<rows, height, drawn>>

Next ==
    \/ Write \/ Resize \/ Clear \/ Render
    \/ \E amount \in {height, Wheel} : ScrollUp(amount) \/ ScrollDown(amount)

-----------------------------------------------------------------------------
\* Whatever is written, resized and scrolled in between: a rendering fills the box or
\* shows all rows there are, and who has scrolled back is on a row and not on the end
\* mark, to which size_t adds no step (tui.cpp 466-508, 1537-1596, 1905-1990).
ViewSound ==
    /\ drawn.last - drawn.first = IF drawn.rows < drawn.height THEN drawn.rows ELSE drawn.height
    /\ ~follow => view # End
=============================================================================
