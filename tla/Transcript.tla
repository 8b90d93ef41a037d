------------------------------ MODULE Transcript -----------------------------
(***************************************************************************)
(* The transcript of the terminal UI (src/tui/tui.cpp): lines_ and the live *)
(* region in it, which text_delta renders anew until flush_live_text, and  *)
(* the four threads that write there: a turn's, the reader of the swarm,   *)
(* the event loop and the startup hint.  What a turn's thread is told is   *)
(* numbered; a line carries the numbers of what it shows.                  *)
(***************************************************************************)
EXTENDS Integers, Sequences, SequencesExt, FiniteSets

CONSTANTS
    MaxEvents, \* bound: texts, tool calls and warnings of the turns
    MaxNotes,  \* bound: lines of the other threads
    RowsOf     \* rows markdown::render makes of n pieces of text; it may shrink

VARIABLES
    lines,       \* lines_
    live,        \* live_text_: the numbers of its pieces
    liveIndex,   \* live_index_, from 0; -1 for kNone
    liveCount,   \* live_count_
    toolIndex,   \* tool_line_index_, from 0; -1 for kNone
    toolPending, \* tool_result_pending_
    turn,        \* the turn's thread: "off", "on", between flush and append, in a tool;
                 \* "cleared" while /clear, which keeps turns out, is between its sections
    swarm,       \* the reader: TRUE between flush and append
    events,      \* history: what turns were told
    notes,       \* history: lines of the other threads
    told,        \* history: the texts, calls, warnings and notes that belong on the screen
    results      \* history: the calls whose result was told

transcriptVars ==
    <<lines, live, liveIndex, liveCount, toolIndex, toolPending, turn, swarm, events, notes, told, results>>

Blank == [is |-> "blank"]
Note(n) == [is |-> "note", of |-> n]
Warning(e) == [is |-> "warning", of |-> e]
Call(e, result) == [is |-> "call", of |-> e, result |-> result]
Row(text, r) == [is |-> "text", of |-> text, row |-> r]

RowsFit == MaxEvents \in Nat /\ MaxNotes \in Nat /\ RowsOf \in [1 .. MaxEvents -> Nat]

TypeOK ==
    /\ \A i \in DOMAIN lines : lines[i].is \in {"blank", "note", "warning", "call", "text"}
    /\ liveIndex \in Int /\ toolIndex \in Int /\ liveCount \in Nat
    /\ turn \in {"off", "on", "calling", "warning", "tool", "cleared"}
    /\ swarm \in BOOLEAN /\ toolPending \in BOOLEAN
    /\ events <= MaxEvents /\ notes <= MaxNotes

Init ==
    /\ lines = <<>> /\ live = <<>> /\ liveIndex = -1 /\ liveCount = 0
    /\ toolIndex = -1 /\ toolPending = FALSE
    /\ turn = "off" /\ swarm = FALSE
    /\ events = 0 /\ notes = 0 /\ told = {} /\ results = {}

-----------------------------------------------------------------------------
(* Lines. *)

\* ensure_leading_gap_locked.
WithGap(s) == IF s = <<>> \/ Last(s) # Blank THEN Append(s, Blank) ELSE s

\* append_block.
WithBlock(s, line) == WithGap(s) \o <<line, Blank>>

Rendered(text) == [r \in 1 .. RowsOf[Len(text)] |-> Row(text, r)]

\* A bug: the region is taken to end with the transcript.
LivePutLast(region) ==
    IF liveIndex = -1
      THEN /\ lines' = WithGap(lines) \o region
           /\ liveIndex' = Len(WithGap(lines))
      ELSE /\ lines' = SubSeq(lines, 1, liveIndex) \o region
           /\ UNCHANGED liveIndex

\* set_live_lines_locked: the region comes last, or is replaced where it is.
LivePut(region) ==
    IF liveIndex = -1
      THEN /\ lines' = WithGap(lines) \o region
           /\ liveIndex' = Len(WithGap(lines))
      ELSE /\ lines' = SubSeq(lines, 1, liveIndex) \o region
                         \o SubSeq(lines, liveIndex + liveCount + 1, Len(lines))
           /\ UNCHANGED liveIndex

\* flush_live_text: what is there stays.
Flush == live' = <<>> /\ liveIndex' = -1 /\ liveCount' = 0

-----------------------------------------------------------------------------
(* The turn's thread. *)

TurnBegins ==
    /\ turn = "off" /\ turn' = "on"
    /\ UNCHANGED <<lines, live, liveIndex, liveCount, toolIndex, toolPending, swarm, events, notes, told, results>>

\* text_delta.
TextDelta ==
    /\ turn = "on" /\ events < MaxEvents
    /\ events' = events + 1
    /\ live' = Append(live, events + 1)
    /\ IF Rendered(live') = <<>> THEN UNCHANGED <<lines, liveIndex, liveCount, told>>
       ELSE /\ LivePut(Append(Rendered(live'), Blank))
            /\ liveCount' = RowsOf[Len(live')] + 1
            /\ told' = told \cup {Row(live', 0)}
    /\ UNCHANGED <<toolIndex, toolPending, turn, swarm, notes, results>>

\* tool_call and warning flush first and take the lock anew for their line.
FlushFor(what) ==
    /\ turn = "on" /\ events < MaxEvents
    /\ turn' = what
    /\ Flush
    /\ UNCHANGED <<lines, toolIndex, toolPending, swarm, events, notes, told, results>>

ToolCall ==
    /\ turn = "calling" /\ turn' = "tool"
    /\ events' = events + 1
    /\ lines' = Append(lines, Call(events + 1, FALSE)) \* no gap
    /\ toolIndex' = Len(lines)
    /\ toolPending' = TRUE
    /\ told' = told \cup {Call(events + 1, FALSE)}
    /\ UNCHANGED <<live, liveIndex, liveCount, swarm, notes, results>>

\* tool_result of the call.
ToolResult ==
    /\ turn = "tool" /\ turn' = "on"
    /\ results' = results \cup {events}
    /\ IF toolPending /\ toolIndex < Len(lines)
         THEN /\ lines' = [lines EXCEPT ![toolIndex + 1].result = TRUE]
              /\ toolPending' = FALSE /\ toolIndex' = -1
         ELSE lines' = Append(WithGap(lines), Call(events, TRUE)) /\ UNCHANGED <<toolPending, toolIndex>>
    /\ UNCHANGED <<live, liveIndex, liveCount, swarm, events, notes, told>>

Warn ==
    /\ turn = "warning" /\ turn' = "on"
    /\ events' = events + 1
    /\ lines' = WithBlock(lines, Warning(events + 1))
    /\ told' = told \cup {Warning(events + 1)}
    /\ UNCHANGED <<live, liveIndex, liveCount, toolIndex, toolPending, swarm, notes, results>>

\* run_turn is over, also with a call that has no result: run_turn_async flushes.
TurnEnds ==
    /\ turn \in {"on", "tool"} /\ turn' = "off"
    /\ Flush
    /\ UNCHANGED <<lines, toolIndex, toolPending, swarm, events, notes, told, results>>

-----------------------------------------------------------------------------
(* The other threads. *)

\* The bound counts the lines that are on their way.
MoreNotes ==
    notes + (IF swarm THEN 1 ELSE 0) + (IF turn = "cleared" THEN 1 ELSE 0) < MaxNotes

\* swarm_live, in two sections.
SwarmFlush ==
    /\ ~swarm /\ MoreNotes
    /\ swarm' = TRUE
    /\ Flush
    /\ UNCHANGED <<lines, toolIndex, toolPending, turn, events, notes, told, results>>

PutNote ==
    /\ notes' = notes + 1
    /\ lines' = WithBlock(lines, Note(notes + 1))
    /\ told' = told \cup {Note(notes + 1)}

SwarmLive ==
    /\ swarm /\ swarm' = FALSE
    /\ PutNote
    /\ UNCHANGED <<live, liveIndex, liveCount, toolIndex, toolPending, turn, events, results>>

\* append by a command, a key, or the startup hint.
AppendNote ==
    /\ MoreNotes
    /\ PutNote
    /\ UNCHANGED <<live, liveIndex, liveCount, toolIndex, toolPending, turn, swarm, events, results>>

\* /clear, outside a turn: what the tool result belongs to is not forgotten.  Its
\* own line comes in a section of its own.
Clear ==
    /\ turn = "off" /\ turn' = "cleared"
    /\ MoreNotes
    /\ lines' = <<>> /\ Flush
    /\ told' = {} /\ results' = {}
    /\ UNCHANGED <<toolIndex, toolPending, swarm, events, notes>>

Cleared ==
    /\ turn = "cleared" /\ turn' = "off"
    /\ PutNote
    /\ UNCHANGED <<live, liveIndex, liveCount, toolIndex, toolPending, swarm, events, results>>

Next ==
    \/ TurnBegins \/ TextDelta \/ FlushFor("calling") \/ FlushFor("warning")
    \/ ToolCall \/ ToolResult \/ Warn \/ TurnEnds
    \/ SwarmFlush \/ SwarmLive \/ AppendNote \/ Clear \/ Cleared

-----------------------------------------------------------------------------
(* Properties. *)

Shown == {i \in DOMAIN lines : lines[i] # Blank}
Of(line) == IF line.is = "text" THEN Range(line.of) ELSE {line.of}
Turned(line) == line.is # "note"
IsText(line) == line.is = "text"

\* Whatever the four threads write between each other's lines, the transcript has
\* each thing it was told once, the turn's in the order they came, a text whole, as
\* it was rendered last, row behind row, and a result with its call (tui.cpp 541-735).
TranscriptIntact ==
    /\ \A i, j \in Shown : i < j =>
        /\ lines[i] # lines[j]
        /\ Turned(lines[i]) /\ Turned(lines[j]) =>
            IF IsText(lines[i]) /\ IsText(lines[j]) /\ lines[i].of = lines[j].of
              THEN lines[j].row = lines[i].row + (j - i)
              ELSE \A e \in Of(lines[i]), f \in Of(lines[j]) : e < f
    /\ \A i \in Shown : IsText(lines[i]) =>
        \A r \in 1 .. RowsOf[Len(lines[i].of)] : \E j \in Shown : lines[j] = Row(lines[i].of, r)
    /\ \A t \in told :
        CASE IsText(t)      -> \A e \in Of(t) : \E i \in Shown : IsText(lines[i]) /\ e \in Of(lines[i])
          [] t.is = "call"  -> \E i \in Shown : lines[i] = Call(t.of, t.of \in results)
          [] OTHER          -> \E i \in Shown : lines[i] = t
=============================================================================
