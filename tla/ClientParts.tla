----------------------------- MODULE ClientParts -----------------------------
(***************************************************************************)
(* The parts of the zvmh process a user has in front of him that share no  *)
(* state with each other, side by side: the initial state picks one, and   *)
(* only its module makes steps.                                            *)
(***************************************************************************)
EXTENDS Integers

CONSTANTS
    MaxBytes, Widths, Recalled,          \* PromptEditor
    HistoryCap,                          \* TuiInput
    MaxTurns,                            \* TuiTurn
    MaxEvents, MaxNotes, RowsOf,         \* Transcript
    MaxRows, Heights, Wheel, End,        \* TranscriptView
    MaxFrames, Chunk, Cap, MaxTicks,     \* ClientHandshake
    SessionClients, Starts, NoPid,       \* SessionDaemon
    Savers, MaxSaves, NoFile, NoKey      \* AuthStore

VARIABLES
    clientPart,                                                            \* the part at work
    content, cursor, anchor, avail,                                        \* PromptEditor
    barInput, key, index, prompts, pos, draft,                             \* TuiInput
    busy, armed, dialog, loop, thread, presses, disturbed,                 \* TuiTurn
    lines, live, liveIndex, liveCount, toolIndex, toolPending, turn, swarm,
    events, notes, told, results,                                          \* Transcript
    rows, height, view, follow, drawn,                                     \* TranscriptView
    frames, net, closed, stage, buf, ticks, received, handled,             \* ClientHandshake
    starter, server, pidfile, port, stop, stopPid, solitary,               \* SessionDaemon
    auth, tmp, data, step, out, saves, kept, alone                         \* AuthStore

-----------------------------------------------------------------------------
Editor == INSTANCE PromptEditor
Bar == INSTANCE TuiInput WITH input <- barInput
Loop == INSTANCE TuiTurn WITH turn <- thread
Log == INSTANCE Transcript
Page == INSTANCE TranscriptView
Handshake == INSTANCE ClientHandshake WITH sent <- frames
Session == INSTANCE SessionDaemon WITH Clients <- SessionClients, None <- NoPid, alone <- solitary
Auth == INSTANCE AuthStore

ASSUME EditorAssumption == Editor!RecalledFit
ASSUME BarAssumption == HistoryCap \in Nat
ASSUME LogAssumption == Log!RowsFit
ASSUME PageAssumption == Page!PagesFit
ASSUME HandshakeAssumption == Handshake!LimitsFit
ASSUME SessionAssumption == Session!NamesFit
ASSUME AuthAssumption == Auth!NamesFit

editorVars == <<content, cursor, anchor, avail>>
barVars == <<barInput, key, index, prompts, pos, draft>>
loopVars == <<busy, armed, dialog, loop, thread, presses, disturbed>>
logVars ==
    <<lines, live, liveIndex, liveCount, toolIndex, toolPending, turn, swarm, events, notes, told, results>>
pageVars == <<rows, height, view, follow, drawn>>
handshakeVars == <<frames, net, closed, stage, buf, ticks, received, handled>>
sessionVars == <<starter, server, pidfile, port, stop, stopPid, solitary>>
authVars == <<auth, tmp, data, step, out, saves, kept, alone>>

clientVars ==
    <<clientPart, editorVars, barVars, loopVars, logVars, pageVars, handshakeVars, sessionVars, authVars>>

ClientInit ==
    /\ clientPart \in {"editor", "bar", "loop", "log", "page", "handshake", "session", "auth"}
    /\ Editor!Init /\ Bar!Init /\ Loop!Init /\ Log!Init
    /\ Page!Init /\ Handshake!Init /\ Session!Init /\ Auth!Init

EditorNext ==
    /\ clientPart = "editor" /\ Editor!Next
    /\ UNCHANGED <<clientPart, barVars, loopVars, logVars, pageVars, handshakeVars, sessionVars, authVars>>
BarNext ==
    /\ clientPart = "bar" /\ Bar!Next
    /\ UNCHANGED <<clientPart, editorVars, loopVars, logVars, pageVars, handshakeVars, sessionVars, authVars>>
LoopNext ==
    /\ clientPart = "loop" /\ Loop!Next
    /\ UNCHANGED <<clientPart, editorVars, barVars, logVars, pageVars, handshakeVars, sessionVars, authVars>>
LogNext ==
    /\ clientPart = "log" /\ Log!Next
    /\ UNCHANGED <<clientPart, editorVars, barVars, loopVars, pageVars, handshakeVars, sessionVars, authVars>>
PageNext ==
    /\ clientPart = "page" /\ Page!Next
    /\ UNCHANGED <<clientPart, editorVars, barVars, loopVars, logVars, handshakeVars, sessionVars, authVars>>
HandshakeNext ==
    /\ clientPart = "handshake" /\ Handshake!Next
    /\ UNCHANGED <<clientPart, editorVars, barVars, loopVars, logVars, pageVars, sessionVars, authVars>>
SessionNext ==
    /\ clientPart = "session" /\ Session!Next
    /\ UNCHANGED <<clientPart, editorVars, barVars, loopVars, logVars, pageVars, handshakeVars, authVars>>
AuthNext ==
    /\ clientPart = "auth" /\ Auth!Next
    /\ UNCHANGED <<clientPart, editorVars, barVars, loopVars, logVars, pageVars, handshakeVars, sessionVars>>

ClientNext ==
    \/ EditorNext \/ BarNext \/ LoopNext \/ LogNext
    \/ PageNext \/ HandshakeNext \/ SessionNext \/ AuthNext

ClientSpec == ClientInit /\ [][ClientNext]_clientVars

-----------------------------------------------------------------------------
(* Properties: those of the modules, by the names they have there. *)

\* The state of all parts keeps its shape.
ClientTypeOK ==
    /\ Editor!TypeOK /\ Bar!TypeOK /\ Loop!TypeOK /\ Log!TypeOK
    /\ Page!TypeOK /\ Handshake!TypeOK /\ Session!TypeOK /\ Auth!TypeOK

\* The cursor stays between two glyphs and on a row, the unchecked indexes stay on
\* their lists, and a rendering fills the transcript's box (prompt_editor.h 154-416,
\* tui.cpp 1129-1168, 1457-1503, 1537-1596, 1905-2080).
PlacesInRange == Editor!EditorSound /\ Bar!IndexesInRange /\ Page!ViewSound

\* One thread at a time is in the Agent, and no key reaches it meanwhile but those
\* that may (tui.cpp 738-1038, 1275-1441, 1505-1535).
TurnUndisturbed == Loop!TurnUndisturbed

\* The transcript has what it was told, once, in order, with the results where they
\* belong, whatever four threads write between (tui.cpp 510-735).
TranscriptIntact == Log!TranscriptIntact

\* reader_loop handles the frames its reader is given whole, in order and without a
\* gap, and the client is up only when it was acknowledged (client.cpp 31-139,
\* protocol.h 260-321).
LoopKeepsFrames == Handshake!LoopKeepsFrames /\ Handshake!UpIsAcknowledged

\* A server that serves is the one its pidfile names, as long as starts and stops do
\* not overlap (main.cpp 110-289).
PidfileKept == Session!PidfileKept

\* Credentials survive a save that crashes or fails, as long as saves do not overlap
\* (auth.cpp 36-106).
CredentialsSurvive == Auth!CredentialsSurvive
=============================================================================
