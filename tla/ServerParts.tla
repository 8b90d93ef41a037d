----------------------------- MODULE ServerParts -----------------------------
(***************************************************************************)
(* The parts of a hosted Agent that share no state with each other, side   *)
(* by side: the initial state picks one, and only its module makes steps.  *)
(***************************************************************************)
EXTENDS Integers

CONSTANTS
    Keys, Values, Unavailable, Empty, Fails, MayBeEmpty, None,      \* SystemContext
    NL, CR,                                                         \* TextEdits
    EditTexts, EditOlds, EditNews, PatchTexts, PatchLines, MaxSection, \* TextTrials
    Agents, Patchers, Paths, Symbols, Texts, Edits, Contents, Patches, Absent, \* FileTools
    EOL, MaxSymbols, MaxEntries, Limits, ChunkSize, MaxLineLength, Suffix,
    MaxReadBytes,                                                   \* ReadPages
    Chunks, Other, MaxLines,                                        \* SseStream
    Clients, Repos, RepoOf, All, SameRepo, InboxCap, MaxMessages, Leavers, Senders \* SwarmMessages

VARIABLES
    part,
    source, snapshot, context, initialized, prompt, outcome, observed, prompted, \* SystemContext
    trial,                                                        \* TextTrials
    disk, call,                                                   \* FileTools
    file, kind, offset, got,                                      \* ReadPages
    body, at, pending, currentTool, text, calls, indexOf, how, input, \* SseStream
    client, members, slot, routing, left, sent                    \* SwarmMessages

-----------------------------------------------------------------------------
Context == INSTANCE SystemContext WITH text <- context, told <- prompted
Trials == INSTANCE TextTrials
Files == INSTANCE FileTools
Reads == INSTANCE ReadPages
Sse == INSTANCE SseStream
Messages == INSTANCE SwarmMessages

ASSUME ContextAssumption == Context!SourcesFit
ASSUME TextsAssumption == Trials!TextsFit
ASSUME FilesAssumption == Files!NamesFit /\ Files!InputsFit
ASSUME PagesAssumption == Reads!PagesFit
ASSUME ChunksAssumption == Sse!StreamFits
ASSUME MessagesAssumption == Messages!NamesFit

contextVars == <<source, snapshot, context, initialized, prompt, outcome, observed, prompted>>
fileVars == <<disk, call>>
readVars == <<file, kind, offset, got>>
sseVars == <<body, at, pending, currentTool, text, calls, indexOf, how, input>>
messageVars == <<client, members, slot, routing, left, sent>>
vars == <<part, contextVars, trial, fileVars, readVars, sseVars, messageVars>>

Init ==
    /\ part \in {"context", "trials", "files", "reads", "sse", "messages"}
    /\ Context!Init /\ Trials!Init /\ Files!Init /\ Reads!Init /\ Sse!Init /\ Messages!Init

ContextNext ==
    /\ part = "context" /\ Context!Next
    /\ UNCHANGED <<part, trial, fileVars, readVars, sseVars, messageVars>>
TrialsNext ==
    /\ part = "trials" /\ Trials!Next
    /\ UNCHANGED <<part, contextVars, fileVars, readVars, sseVars, messageVars>>
FilesNext ==
    /\ part = "files" /\ Files!Next
    /\ UNCHANGED <<part, contextVars, trial, readVars, sseVars, messageVars>>
ReadsNext ==
    /\ part = "reads" /\ Reads!Next
    /\ UNCHANGED <<part, contextVars, trial, fileVars, sseVars, messageVars>>
SseNext ==
    /\ part = "sse" /\ Sse!Next
    /\ UNCHANGED <<part, contextVars, trial, fileVars, readVars, messageVars>>
MessagesNext ==
    /\ part = "messages" /\ Messages!Next
    /\ UNCHANGED <<part, contextVars, trial, fileVars, readVars, sseVars>>

Next == ContextNext \/ TrialsNext \/ FilesNext \/ ReadsNext \/ SseNext \/ MessagesNext

Spec == Init /\ [][Next]_vars

-----------------------------------------------------------------------------
(* Properties: those of the modules, by the names they have there. *)

\* The tables, texts and replies of all parts keep their shape.
TypeOK ==
    Context!TypeOK /\ Files!TypeOK /\ Reads!TypeOK /\ Sse!TypeOK /\ Messages!TypeOK

\* What an Agent believes its model was told is what it was told last, and each
\* prompt brings it up to date, though sources fail and come back (systemcontext.h
\* 306-374, agent.cpp 158-201).
ContextInStep == Context!ContextInStep

\* edit replaces exactly what it was asked to and keeps CRLF line ends; an update
\* can be taken back (edit.h 91-105, apply_patch.h 292-333).
TextsAsAsked ==
    /\ Trials!EditReplacesExactly
    /\ Trials!EditKeepsLineEnds
    /\ Trials!UpdateReverses

\* The pages of read cover a file or a directory without gap or overlap, and each
\* but the last names a later line than it began with (read.h 161-330).
PagesCoverFile == Reads!PagesCoverFile /\ Reads!PagesGoOn

\* edit never replaces a text it has not read, unless that came between its second
\* look and its write (edit.h 107-112).
EditSeesNewest == Files!EditSeesNewest

\* A patch nobody interferes with is its sections one after the other, rejected
\* without a trace or applied as far as its report says (apply_patch.h 69-119).
PatchIsItsSections == Files!PatchIsItsSections

\* The tool calls of a turn are those the provider has sent, however the stream is
\* cut and mixed (openrouter.cpp 78-134 and 236-250, agent.cpp 286-317).
CallsAsSent == Sse!CallsAsSent

\* clients_ and repo_members_ agree on who is there (server.cpp 207-240).
MembersAreClients == Messages!MembersAreClients

\* An Agent gets what is addressed to it at most once and in the order in which
\* each thread has sent it (server.cpp 388-424, agent.cpp 208-284).
MessagesInOrder == Messages!MessagesInOrder
=============================================================================
