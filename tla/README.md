# A verification of zvmh in TLA+

zvmh is a terminal harness for AI agents. A *thin client* (TUI or one-shot
command line) talks over a local TCP socket to a *swarm server* which hosts one
`Agent` per client: its conversation history, its tools, its provider. The
server is threaded C++ with two mutexes, detached threads and no tests. This
directory models the parts whose correctness depends on the order in which
threads, frames and failures happen.

Paths below are relative to `src/src/` unless they start with `src/`.

## The system

| component | state | operations | talks to |
| --- | --- | --- | --- |
| Swarm server (`server/server.cpp`) | `clients_`, `agents_` with a `busy` flag each, `repo_members_`, `closing_`, descriptors | accept, hello, prompt, cancel, clear, model, auth, bye, shutdown of a `solo` server | one handler thread per client, one thread per turn, poller, main thread |
| Conflict tracking (same file) | `read_hashes_`, `file_state_` | `register_read`, `report_write`, `notify_file_changed`, poller scan | turn threads (through `PeerView`), poller, the file system |
| Message routing (same file) | `repo_members_`, each Agent's inbox | `route_message`, `deliver_inbox`, `drain_swarm_text` | handlers, turn threads |
| Hosted agent (`agent.cpp`) | `messages_`, `cancel_requested_`, `provider_`, `swarm_inbox_`, system context | `run_turn`, `cancel_turn`, `clear_messages`, `set_provider` | its turn thread; handler threads of its client and of its peers |
| Wire sink (`server/wire_sink.h`) | `alive_` | one frame per callback, `ctx`, `turn_done` | turn thread, `send_to` |
| Remote agent (`remote/remote_agent.cpp`, `server/client.cpp`) | `turn_active_`, `cancel_pending_`, `turn_rc_`, `connected_`, `running_` | `run_turn`, `cancel_turn`, `handle_frame` | UI thread, turn thread, reader thread |
| Wire protocol (`server/protocol.h`) | `LineReader`'s buffer | `next_line`, `send_all` | all of the above |
| Session daemon (`main.cpp`) | pidfile, the port | `ensure_session_backend`, `--server start/stop` | several processes |
| Credentials (`auth.cpp`) | `auth.json` | load, save | several processes |
| System context (`system/`) | snapshot per source | initialize, reconcile | `build_system_prompt` |
| Tools (`tool/`) | the file system | read, edit, apply_patch, bash, ... | `run_turn` |
| TUI (`tui/`) | `busy_`, `esc_armed_`, transcript, editor | submit, Esc, commands | UI thread, turn thread, reader thread |

What is hard here, and what makes each part correct:

* *Server.* A turn thread holds a raw `Agent*` while clients come and go: the
  slot must live exactly as long as its client or its turn. A descriptor number
  is reused by the kernel the moment it is closed. A `solo` server has to stop
  by itself, once and not too early.
* *Agent.* A turn can end in a dozen ways (answer, step cap, exceptions from
  four places, a cancel at any point): the history must be fit for the next
  request after each of them, and a cancel must hit the turn it was meant for.
* *Remote agent.* Frames carry no turn number, so everything depends on their
  order; `run_turn` waits without a timeout, so no wakeup may be lost.
* *Conflict tracking.* Hashes are computed outside the lock and the poller
  compares with a baseline that everybody may replace: an agent that is behind
  must be told nevertheless.
* *Messages.* Targets are chosen under the lock and delivered one by one; the
  two tables of who is there must agree, and a message must arrive once, in
  order, and nowhere else.
* *System context.* Sources change, fail and come back between two prompts;
  what the Agent believes its model knows must be what it was told.
* *Tools.* Several Agents and the user write the same files; `apply_patch`
  verifies everything before it applies anything, `edit` looks twice.
* *Provider.* A stream is cut anywhere, and the deltas of several tool calls are
  mixed in it.
* *Handshake, daemon, credentials.* Two readers on one socket, several processes
  on one port, one pidfile and one file of keys, any of which may die.
* *TUI.* Three threads share two atomics and a vector of lines; the editor works
  on byte offsets in UTF-8, in a box that changes its size.

## Modules

| module | models | status |
| --- | --- | --- |
| `SwarmServer`, `SwarmServerMC` | connections, slots, descriptors, turns as seen by the tables, shutdown | checked and proved (`SwarmServerProofs`) |
| `AgentTurn` | one Agent: `run_turn` against cancel, clear, auth_set, notices | checked and proved (`AgentTurnProofs`) |
| `TurnService` | what `Agent` promises the caller of `run_turn` | abstract specification |
| `RemoteTurn` | the same promise kept across a socket by two processes | checked and proved, the refinement included (`RemoteTurnProofs`) |
| `ConflictWatch` | reports, baseline, poller on one path | checked and proved (`ConflictWatchProofs`) |
| `SwarmMessages` | `clients_`, `repo_members_`, routing, inboxes, the turns that drain them | checked and proved (`SwarmMessagesProofs`) |
| `SystemContext` | context sources, snapshot, `build_system_prompt` | checked and proved (`ServerPartsProofs`) |
| `TextEdits`, `TextTrials` | what `edit` and `apply_patch` compute, tried on all small inputs | checked and proved (`ServerTextsProofs`) |
| `FileTools` | `edit`, `write`, `apply_patch` step by step on a shared disk | checked and proved (`ServerPartsProofs`, `ServerTextsProofs`) |
| `ReadPages` | the pages of `read` | checked and proved (`ServerPartsProofs`) |
| `SseStream` | a streamed completion and the reply the turn builds from it | checked and proved (`ServerPartsProofs`) |
| `PromptEditor` | the editor of the prompt bar | checked and proved (`ClientPartsProofs`) |
| `TuiInput` | completion, history, submit | checked and proved (`ClientPartsProofs`) |
| `TuiTurn` | event loop and turn threads around `busy_` and `esc_armed_` | checked and proved (`ClientPartsProofs`) |
| `Transcript`, `TranscriptView` | the lines of the transcript, and the part on the screen | checked; proved (`ClientPartsProofs`) |
| `ClientHandshake` | `LineReader`, hello, the client's reader loop | checked and proved (`ClientPartsProofs`) |
| `SessionDaemon` | start and stop of a session's server, pidfile, port | checked and proved (`ClientPartsProofs`) |
| `AuthStore` | the credentials file and those who save it | checked and proved (`ClientPartsProofs`) |
| `ServerParts`, `ClientParts` | the modules from `SwarmMessages` on, side by side | checked and proved (`ServerPartsProofs`, `ServerTextsProofs`, `ClientPartsProofs`) |
| `ServerPartsMC`, `ClientPartsMC`, `PartsMC` | their inputs for TLC, and both sides in one run | checked |
| `SwarmTurnMC` | `SwarmServer` and `AgentTurn` in one run | checked |

The modules share their vocabulary at their borders. `SwarmServer` sees a turn
as a thread that sends frames and ends; `AgentTurn` opens that thread up.
`RemoteTurn` takes one registered connection of `SwarmServer`, reduces the turn
to its frames and result, and adds the client. `AgentTurn` lets the client clear
its history only between turns; `RemoteTurn` shows that this client does so
(`ClearNeverMidTurn`). The server itself does not enforce it: another client of
the protocol could clear in mid-turn.

### SwarmServer

Each critical section of `mu_` or `send_mu_` is one action and each thread has a
program counter, so every interleaving of sections is explored.

| action | code |
| --- | --- |
| `MainCheck`, `PollTimeout`, `Accept`, `JoinPoller`, `CollectFds`, `CloseFds` | `run`, `shutdown_clients` |
| `RejectFirstLine`, `HelloRegister`, `CreateAgentSlot`, `LeaveLoop`, `RemoveClient`, `CloseFd` | `handle_client` from top to bottom |
| `IdleCheck`, `IdleStore` | `maybe_shutdown_if_idle`: the decision under the lock, the stores after it |
| `SchedulePrompt`, `LookUpFd`, `NoClientToSendTo`, `WriteFrame`, `EndTurn`, `TurnStore` | `schedule_prompt` and its thread; `send_to` in its two halves |

Descriptors are numbers handed out lowest first, and `fdOwner` is what the
kernel thinks of them. An Agent is named by the connection that created it.
`LineReader` tests the stop flag before it looks at its buffer, so once
`closing_` is set a handler reads no further frame. Left out: frames that change
none of this state (their effects are in the other modules); `repo_members_` is in
`SwarmMessages`.

### AgentTurn

`messages` keeps the shape of the history: prompts, answers with their number of
tool calls, results. `pc` walks through `run_turn`; every point at which the code
may throw has its own action. A `cancel` is two actions, the Agent's flag and
the provider's, because `run_turn` resets the two separately.

### RemoteTurn

The client's three threads (UI, `run_turn`, reader), two bounded FIFO channels,
the server's handler and turn thread, and its main thread when it stops.
`turn_mu_` is modelled where it matters: it is held for as long as
`send_prompt` blocks. Frames are tagged with the number of their call; only
properties read the tag. A client whose server closes the socket sees EOF, and
may lose frames when unread data resets the connection. A prompt that is longer
than a frame may be (`Overlong`) makes the handler hang up while the server stays
up (`TooLong` in `Unregister`). The client does not quit in this model.

### ConflictWatch

A file is its content and its stamp (mtime and size). `register_read` and
`report_write` hash first and take `mu_` later; the baseline is taken with `stat`
first and the hash later while `mu_` is held, which does not hold off those who
write the file. The poller reports after it released the lock. A write or edit
that fails is reported like one that succeeds, as in the code. `Disconnect` is
the part of `remove_client_locked` that forgets the agent; it may come in the
middle of a report, which then puts the entry back, as a turn that outlives its
client does. Assumed: a hash
tells contents apart, and a change always moves the stamp; two changes within a
second that keep the size would not.

### SwarmMessages

Each critical section of `mu_` is one action: registration (`HelloRegister`,
`CreateAgentSlot` with the window between them), `RemoveClient`, the choice of
targets (`SendMessage`, the first half of `route_message`), one `DeliverInbox`
per target, and the turn that drains the inbox (`StartTurn`) and keeps or rolls
back what it was told (`EndTurn`). A client sends from two threads, its turn
(the msg tool) and its handler (what the user types), so order is promised per
thread only. A full inbox drops the newest message, an Agent that does not exist
yet or any more loses it: both as in the code.

### SystemContext

A source is a value that changes, is empty or cannot be loaded. The ways
`build_system_prompt` ends are one action each: blocked, baseline, unchanged,
updated, or an exception of `require_text`. `told` is what the model has seen;
the code has no such thing, its `sys_context_snapshot_` stands for it.

### TextEdits, TextTrials, FileTools

`TextEdits` translates the algorithms: line ends, occurrences, `replace_all`, the
patch parser, groups and their places; a loop over a text or its lines is a
recursive function of the place it has come to. `TextTrials` applies them to every
small input and compares with definitions made from positions, not from the code
(`Due`: the occurrences that do not begin inside an earlier one of the set), and an
update with the one that takes it back (`UpdateReverses`).
`FileTools` gives every access to the disk a step: two reads and a truncating
open in `edit`; parse, verify and section after section in `apply_patch`; and
other writers between any two.

### ReadPages, SseStream

`ReadPages` reads a file or a directory page by page, with the limits of lines,
of bytes and of one line, each page going on at the offset the last one named. The
loop over the file is a recursive function of the place it has come to (`Take` adds
the symbol there), while the properties count line ends and characters in the
file as a whole. A CR before a line end is not text, but it has been counted when the
length of a line is tested, if a chunk ends between the two: a line too long only by its CR
is marked as cut or not, as the chunks fall, and `PagesCoverFile` leaves that open.
`SseStream` cuts the body into pieces anywhere, lets the connection break
anywhere, and compares the reply with what the complete lines spell. `Spells` says
this by positions: one call per delta that starts one, in order, and as its
arguments those deltas of its index that come before the index is started
again.

### PromptEditor, TuiInput, TuiTurn, Transcript, TranscriptView

In `PromptEditor` a text is a sequence of bytes with glyphs of one and two of
them; keys, clicks, resizes and recalled texts follow each other in any order.
`TuiInput` has the suggestion list with its stale index, and the history with
its draft. `TuiTurn` splits Escape between its test of `busy_` and `esc_armed_`,
and the end of a turn between its two stores, counts the Escapes of the turn that
runs, and lets Ctrl+C leave the event loop at any moment, in mid-turn too. `Transcript` has one action per
writer that takes `mu_`; `TranscriptView` reduces lines to rows and follows
`view_row_`, `follow_bottom_` and the end mark.

### ClientHandshake, SessionDaemon, AuthStore

`ClientHandshake` feeds pieces of frames to `LineReader` with its cap and its
budget of polls; the reader of the hello_ack throws away what it has read
beyond. `SessionDaemon` gives every look at the port or the pidfile, and every
change of theirs, a step of its own, in clients, start commands, servers and
the stop command; a dead child nobody waits for still counts as alive.
`AuthStore` maps names to inodes, so that writing to a `.tmp` which another
process has renamed meanwhile is what it is on a file system.

### Side by side

`ServerParts` and `ClientParts` instantiate these modules and pick one of them
(`part`) in the initial state; only its module makes steps. `ServerPartsMC` and
`ClientPartsMC` give TLC the inputs. `PartsMC` and `SwarmTurnMC` do once more what
they do, to check two such specifications in one run each: the client's names
that the server's have too begin with `Client`, those of a turn with `Agent`, and
fairness is owed by the threads that move. The parts share no
state in the program either (or, as `FileTools` and `ReadPages`, a file whose
other users are already in the module), so a product would add states and no
behaviour. A property of such a run is the conjunction of those its modules
state.

## Runs

`tlc -config X.cfg M` for each:

| run | cfg, module | bounds | shows |
| --- | --- | --- | --- |
| swarm_turn | `SwarmTurn.cfg`, `SwarmTurnMC` | 2 connections, 2 turns, 2 descriptors, solo; 2 steps, 2 calls per answer, inbox of 1, history of 6 | 216,044 states: Agents, slots and descriptors have one owner; an abandoned solo server stops; histories stay well-formed, turns end |
| swarm_solo | `SwarmServerSolo.cfg`, `SwarmServerMC` | same tables | violated: a turn's end stops a solo server that still runs another turn |
| swarm_fd | `SwarmServerFd.cfg`, `SwarmServerMC` | same | violated: a frame reaches another client's socket |
| turn_cancel | `AgentTurnCancel.cfg`, `AgentTurn` | same turn | violated: a cancel at the start of a turn is forgotten |
| remote | `RemoteTurn.cfg`, `RemoteTurn` | 3 calls, 1 stream frame per turn, channels of 2 | 470,249 states: frames reach their own call, calls return, `TurnService` is implemented |
| remote_shutdown | `RemoteTurnShutdown.cfg`, `RemoteTurn` | same | violated: a stopping server may say nothing |
| conflict | `ConflictWatch.cfg`, `ConflictWatch` | 2 agents, 2 contents, 2 changes | 577,883 states: who is behind is told, where the code can know |
| conflict_net | `ConflictWatchSafetyNet.cfg`, `ConflictWatch` | same | violated: a change can slip between a hash and its critical section |
| parts | `Parts.cfg`, `PartsMC` | see below | 1,579,589 states: messages, context, tools, pages and streams; editor, keys, transcript, handshake, pidfile, credentials |
| context_told | `SystemContext.cfg`, `SystemContext` | 3 sources, 2 values | violated: an update makes the prompt forget what did not change |
| tui_escape | `TuiTurnEscape.cfg`, `TuiTurn` | 2 turns | violated: one Escape of a turn aborts it, armed by an older one's |
| handshake_frames | `ClientHandshakeFrames.cfg`, `ClientHandshake` | 3 frames, chunks and cap of 3 | violated: frames behind the hello_ack are lost |

Why the bounds suffice. Two connections and two turns give every conflict the
server's tables have: they are indexed by id, and each action touches one id and
one thread; the second is there to reuse the first one's descriptor, slot or
shutdown. Two descriptors are as many as two connections need; with the lowest
number first they are reused at once. Two steps of two calls reach every way the
loop can be left: in the first, a middle and the last call, and at the cap. A
history of six holds a complete earlier turn in front of the current one. Three
calls let a rejection, a late cancel and a normal call follow each other;
channels of two make senders block. Two changes are the smallest number in which
one can hide the other; a third agent only adds more of the same.

The server's side of `parts`: three context sources are one that always loads, one that may
fail and one that may be empty, with two values to change between. Texts of up
to four symbols and two to look for contain every overlap, CR and missing line
end `edit` can meet; patches on texts of three symbols have up to three lines of
two groups. The disk has two files, two agents and another writer; the patches
are listed, one for each way in which sections depend on each other or do not
parse. `read` meets limits of 1, 2 and none, lines longer than its cap, chunks
that end in a line and between a CR and its LF, and a byte cap in the middle. A stream of three lines has
room for a call that starts, one that comes between, and the rest of the first.
Three clients in two repositories with two messages and an inbox of one have a
sender, a target that leaves, one that stays, and a full inbox; two of them
send, one of which may leave.

The client's side of `parts`: five bytes in boxes of one to three columns wrap one- and
two-column glyphs over at least two rows. A history of two drops its oldest
entry. Three turns let a late end of one meet the next, and a third after it; five
events and two notes put foreign lines before, into and behind a live text that
shrinks. Four frames of one to three pieces with a buffer of three reach the cap
and cut frames everywhere. Two clients and one start command, each once, and
stops without a bound; two savers that save four times between them.

`CHECK_DEADLOCK FALSE` stands where a bound on a user's doings or on the
program's own end stops the system.

Each property also comes with a mutant of the code (named `A bug: ...` in the
modules) that it catches; `PROJECT.json` lists them.

### Fairness

* `SwarmServer`: every thread that can run does (weak fairness per action);
  `EndTurn` is strongly fair, because a turn sends finitely many frames (the
  step cap) however often it is found writing. Clients owe nothing.
* `AgentTurn`: the turn thread runs and the provider and tools return; the
  handler leaves its critical section; `Release` gets `mu_` even if cancels keep
  coming, hence strong fairness.
* `RemoteTurn`: weak fairness of each thread. The user owes nothing, and the
  server need not be stopped.
* `ConflictWatch`: the poller polls, and a report is finished: strongly fair,
  since others take `mu_` in between, for a moment each time.

## What the runs found

1. `server.cpp:379` decides that a solo server is idle without looking at the
   other slots; `server.h:38-40` says "no client is connected and no turn is
   running". `SoloStops` (it does stop) holds.
2. `server.cpp:195-205` copies a descriptor and uses it after both locks were
   free; `wire_sink.h:10-11` says frames go to the owning client's socket.
3. `agent.cpp:324` forgets a cancel that arrives between the busy flag and the
   reset; the comment at `server.cpp:514-516` says the turn returns shortly
   after. The converse, a cancel leaking into a later turn, is excluded and
   proved.
4. `server.cpp:672-674`: handlers see `closing_` before `shutdown_clients` has
   sent `shutdown` (`protocol.h:38`). The client's reader ends at EOF without
   telling `RemoteAgent`, and `run_turn` waits for ever. While the server goes on
   with the client no call hangs (`CallReturns`); a prompt longer than a frame, at
   which the handler hangs up (`server.cpp:503-509`), waits in the same way.
5. `server.cpp:97`: the hash of a read is older than the baseline taken for it.
   A change in between is never reported, nor is one that any other agent's read
   moves into the baseline (`server.h:18-21`).
6. `agent.cpp:181` replaces the text of the context by that of an update, which
   names the changed sources only; the prompt is sent anew with each request, so
   what the baseline said of the others is gone from then on
   (`system/systemcontext.h:20-21`: an "immutable baseline").

7. `tui.cpp:1436` clears `busy_` before `esc_armed_`, and `run_turn_async` does not
   clear it either. A prompt submitted in between starts a turn with the Escape
   of the last one still armed, so that its first Escape aborts it;
   `tui.cpp:2001-2003` and `tui.cpp:350` say that the first arms and the second
   aborts. That nothing reaches the Agent in mid-turn (`TurnUndisturbed`) holds and is
   proved.
8. `client.cpp:74` reads the hello_ack with a `LineReader` of its own and drops what it
   has read beyond: the state frame, or whatever comes with it
   (`client.h:19-20`: "Inbound traffic after hello_ack is forwarded to a caller-set
   handler"; `remote_agent.h:35` "awaits the hello_ack + state"; `tui.cpp:2088-2091`
   counts on it). What the loop does read it hands on in order and without gaps, but
   for a first frame whose beginning went with that reader (`LoopKeepsFrames`,
   proved).

Two more promises are broken in states the models reach, and no run is about them:

* `auth.h:29-30` says `auth.json` is "written atomically". Savers that overlap share
  one `.tmp` name and can leave a file that does not parse (`AuthStore`);
  `CredentialsSurvive` is about saves that do not overlap, with crashes and failures.
* `tool/msg.h:15-16` says a message is "delivered promptly to the target(s) on their
  next turn". The notices of a turn that fails or is cancelled are rolled back with
  it (`EndTurn` of `SwarmMessages`, `agent.cpp:328`), and a full inbox drops the newest;
  `MessagesInOrder` says where a message goes and in which order, not that it is
  seen.

About three more things the code makes no promise. A start that loses the race for
the port removes the winner's pidfile (`SessionDaemon`; `PidfileKept` is about
starts that do not overlap). A message to a client between registration and slot
is lost (`SwarmMessages`). `apply_patch` does not look at a file again between
verifying and writing (`FileTools`: `PatchIsItsSections` is about patches nobody
interferes with).

## Proofs

`tlapm` checks eight proof modules; the theorems hold for every value of the
constants that satisfies the named assumptions, which TLC evaluates in the runs.

### The server and its turns

`SwarmServerProofs` (from `ConstantsAssumption`; all but two theorems also from
`UniqueIds`, that no two connections draw the same id, which the code leaves to
four random hex digits): `TypeCorrect`, `TurnAgentStaysAlive`,
`TurnsSerialised`, `SlotsDoNotLeak`, `ReadersHaveSlots`,
`DescriptorsOwned`. None of the invariants is inductive alone. That a turn owns
its slot needs that no other handler can overwrite the slot, which needs that
the creator of a slot is past its creation; that slots do not leak needs which
handlers are still going to clean up; so the inductive invariant relates, per
id, the handler's program counter with both tables. Descriptors need only the
handlers and the kernel's table.

`AgentTurnProofs` (from `BoundsAssumption`): `TypeCorrect`,
`HistoryStaysAnswered`, `TurnsKeepHistory`, `RequestsAreWellFormed`,
`CancelsDoNotLeak`. The history is described by how far its calls and results
are matched, with a gap of `pending` calls at its end while tools run, and by
what lies below `start`; every way out of the loop either closes the gap or cuts
the history back to `start`, which was closed when the turn began. A request is
made where the gap is closed, or where a cancel that has been seen is about to
end the turn.

`ConflictWatchProofs` (from `NamesAssumption`): `TypeCorrect`, `BaselineIsSound`,
`NobodyIsRebasedInSilence`. Stamps only grow and no baseline has a later one
than the file (`StampNotAhead`); between a stat and its hash `mu_` is held
(`Mutex`), so if the file moves there, the baseline's stamp is behind for ever.
An entry that was replaced is covered by a notice, or by the thread that is
about to send it (`NotifyPending`).

`SwarmMessagesProofs` (from `NamesFit`: the marks for "all" and "same repository"
are nobody's): `TypeCorrect`, `TablesAgree`, `DeliveredInOrder`. That the two
tables agree is inductive with the shape of the tables. That messages arrive
once and in order is an invariant of four places: what a slot's history has been
told, what its turn is being told, what waits in its inbox, and what a sender has
decided to deliver but has not delivered yet. Thread by thread, each of them holds
older messages than the next (`InLine`, `RoutesOK`), so nothing can be in two of
them. `Only`, the recursion that picks one thread's messages, is proved correct by
an induction over a set of numbers (`SetInduction`), which needs no operator as
a parameter.

### A turn across the socket

`RemoteTurnProofs` (from `CapsAssumption`): `OwnFramesOnly`, `NoWakeupLost`,
`ClearAfterTurn`, `RefinesTurnService`, `TypeCorrect`. The properties speak of
frames with and without a prompt of their own, so the inductive invariant says
where the open call is: in exactly one of the channel to the server, a turn
thread, and a `turn_done` on its way back (`OnePlace`). `DownOK` orders what is
under way to the client: output of the open call, its `turn_done`, a shutdown
behind everything. `UpOK` lets nothing but cancels of the open call follow its
prompt, which is why no clear meets a turn, and with `CancelOK` ties a cancelled
result to a call that is muted, which the refinement needs. Once the server has
exited, only the channel to the client matters; `NoWakeupLost` says nothing of a server
that stops or has hung up on a prompt too long. The refinement maps `running` to
`turn_active_`, `muted` to a pending cancel of an active call, `result` to
`turn_rc_`.

`TypeOK` bounds what a call shows by what a turn emits, and that needs a count:
what was shown and the output under way are together no more than what the turn
has sent (`Counted`). A turn that is refused emits one frame, so the assumption asks
for `MaxFrames` of at least one.

### Side by side

A part's module is proved about through its instance, in terms of the
variables of the whole; a step of another part changes none of them, so it is a
stutter of this one, and the theorem about `Spec` follows from that about the
part. `SwarmMessages` has a proof of its own, taken over by an instance of the
proof module.

`ServerPartsProofs` (from `ContextAssumption`, `FilesAssumption`: no file is not
a text, and the texts of files, arguments and lines of patches are sequences of
`Symbols`, NL and CR among them; the lines of a patch are those `ParsePatch` knows;
`PagesAssumption`: a line that is cut fits on a page, which holds of the code's
2,000 and 51,200 bytes; `ChunksAssumption`: the shape of a chunk, with indexes
that are not negative; `MessagesAssumption`):

* `ContextTypes`, `ContextAlwaysInStep`. What is missing for induction is that
  the stored text is part of the snapshot (`TextIsPart`), for the text is sent
  again when nothing has changed.
* `EditAlwaysSeesNewest`. An `edit` that has looked twice holds the text of its
  second look, and the disk either has it or has one that came since.
* `PatchesAlwaysSections`. What `apply_patch` keeps of a file while it verifies
  (`content`, `deleted`, or else the disk) is what the sections before have made of
  it (`Verifying`); what it has prepared is what each section makes in its turn
  (`Prepared`); and the disk has as many sections as `applied` counts, but for the
  file that is open and empty (`Applying`, `Opened`). All of this only while
  nobody has touched its paths, which is noted when it happens. `AfterSections`, the
  reference the report is compared with, is a recursion: `AfterExists` and
  `AfterIs` show that it has a solution and unfolds as it reads. What a section
  makes of a file (`Prepare`) is left open, so the theorem holds for any. That a
  parsed patch is a sequence of sections about `Paths` is not assumed: `HunksFit`
  shows it of `ParsePatch`, line by line (`ParseLineFits`, `FlushFits`).
* `PagesAlwaysCover`. While a page is read, `line` is one more than
  the number of line ends up to the place that has been reached, and `pending` with
  the segment under way is the number of characters since the last of them, a CR at
  their end included or not (`IsTooLong`, `IsLong`), or the
  line is known to be longer than the cap (`Going`); once the page is full, nothing changes any more
  (`Stopped`). The lines on it are those from its offset on (`OnPage`). So the next
  page begins where this one has ended, the pages join (`ReadsInv`), and the last
  one has reached the last line. That a page goes on at a later line than its
  first needs that it has a line at all: an empty page has room for any line,
  which is the assumption on the caps.
* `CallsAlwaysAsSent`. The reply is what the deltas so far spell, together with
  what the next ones will need: `indexOf` maps each index to the call of its
  latest start, and to nothing else (`IndexFits`). One more delta either belongs to
  exactly one call, at the end of its arguments, or starts one more call
  (`DeltaFits`); a line is its deltas one after the other (`Emitted`), and a piece
  its symbols (`PieceFits`), of which only a line end changes the reply
  (`TakeFits`). The rank of a number in a set grows with the set (`RankGrows`), which
  turns the positions of the stream into positions in the reply.
* `TablesAlwaysAgree`, `MessagesAlwaysInOrder`.

`ServerTextsProofs` (from `TextsAssumption`: texts are sequences, a line of a
section has no end of line in it, and NL is not CR; and from the assumptions
above): `TextsAlwaysAsAsked`, for any texts, arguments and sections, and
`PartsAlwaysTyped`, which needs some of the same facts.

* `TextsAlwaysAsAsked` is not about steps; it is what loops compute. Each loop is a
  recursive function, which is shown to have a solution (`StepsExist`, and
  `JumpsExist` for one that leaps ahead) and to unfold as it reads; then a set of
  numbers takes the place of the formula an induction is over (`SetInduction`).
* That `edit` replaces what is due (`TryEditFits`): the scan from a place on finds
  the due places from there on, because a place it leaps over begins inside the one
  before it (`ReplaceAllIsReplacing`, `CountIsDue`). In a text whose lines end in
  CR NL, what is looked for and what is put in have been given the same ends, and
  no place that is replaced ends in a CR, so none is cut apart
  (`ReplacingKeepsCRLF`).
* That an update is taken back (`TryUpdateFits`): the section turned round is read
  as the same groups, from the last to the first, with their sides exchanged
  (`UndoFits`); a group's new lines, where its inverse finds them once, are where the
  old ones were (`ReplacedComesBack`). But the tool reads its own output again, and
  that drops a CR at the end of each line. What the lines that end in a CR hold
  is a weight (`Weight`): dropping CRs can only take from it, each inverse group takes
  away what its group has added, and the file had none of it. So if the inverse
  applies, there was nothing to drop (`GroupsUndone`), and joined lines are split
  as they were (`LinesAgain`, `JoinAgain`).
* `FilesTypes`: a file that is there is a text, whoever writes and whatever comes in
  between. A file is filled by one step from what a call has computed steps before,
  over what others have left there, so the invariant (`DiskInv`) is about the calls
  as well: what each holds to write, what it believes of its files, and each section
  it has prepared are texts about `Paths` (`Held`). That what `edit` and a section
  make of a text is one again follows from the lemmas on their loops
  (`EditedFits`, `UpdatedFits`, `AddedFits`).
* `PartsAlwaysTyped`: `TypeOK`, from the invariants of all parts (`PartsTypes` has
  those but `FileTools`).

`ClientPartsProofs` (from `EditorAssumption`: recalled texts are UTF-8 and fit,
`BarAssumption`, `LogAssumption`: a text has some number of rows,
`PageAssumption`: the end mark is beyond any row,
`HandshakeAssumption`, `SessionAssumption`, `AuthAssumption`):

* `PlacesAlwaysInRange`. The editor's invariant is that the text is UTF-8 and the
  cursor an edge in it (`EditorInv`); what it says of the rows is a matter of the
  three recursions behind them (`RowFrom`, `Rows`, the walk of `PlaceAtColumn`).
  Each is shown to have a solution at all, by an induction over a set of numbers
  (`SetInduction`), and then, by another, to stop only at edges and to leave no
  offset out. The bar's index is good for the list of the key it was set for
  (`KeyHasList`), which is not the list of the input as it is now. Who has scrolled
  back is on a row, and never on the end mark, which would follow the bottom.
* `TranscriptAlwaysIntact`. The live region is the one place where lines are
  replaced, at an index that was remembered while others wrote. What makes that
  safe is where it lies (`LiveIn`): everything a turn said ahead of it is older
  than its pieces (`Older`), inside it are only rows of an earlier state of the same
  text, and behind it only what other threads wrote (`Region`). `Spliced` shows that
  such a replacement keeps all that is asked of the lines (`Sound`), with whatever
  number of rows the text has now. No text is open while a call waits for its result,
  so the line it was given stays where it is (`ToolWaits`).
* `PartsTypeCorrect`, from the invariants of all parts.
* `LoopTypes`, `TurnNeverDisturbed`. A turn that runs or has returned keeps
  `busy_` set, and there is one at most.
* `HandshakeTypes`, `LoopAlwaysKeepsFrames`. What is in the reader's buffer and
  what is still in the socket are one unbroken chain of pieces (`Unbroken`); it
  starts where the last frame that was taken ended, or, once a reader has thrown
  away what it read beyond the handshake, at any piece (`FromStart`); and what
  was handled came in turn before it (`InTurn`).
* `SavedKeysSurvive`, `CredentialsAlwaysSurvive`. While saves do not overlap,
  `auth.json` never shares its inode with a `.tmp` somebody writes to, and what a
  saver is about to rename is complete.
* `DaemonTypes`, `PidfileNamesServer`, `PidfileAlwaysKept` (the mark for "no pid"
  is no pid). As long as nothing overlaps, one starter or one ending server
  is active, nobody else serves meanwhile, and a stop is after the very server
  that listens (`Orderly`); that the port belongs to the server that serves holds
  without that condition.

### Only model-checked

* All liveness (`SoloStops`, `TurnsEnd`, `CallReturns`, `ReportedWriteIsTold`,
  `QuietChangeIsTold`): fairness and ENABLED are beyond the proof system.

## Not modelled

* Web tools: one HTTP request each, its text converted; no state. Markdown and
  the text helpers (byte sanitising, previews, colours) are pure formatting that
  no other part reads back.
* `bash`, `grep`, `glob`, `ls`, `skill`: one process or one look at the file
  system per call. Their errors are the failing tool of `AgentTurn`.
* The caches of the remote agent (model, providers, peers), replaced whole by a
  frame; JSON; the list of models; argument parsing; log files.
* Mouse selection of the transcript and the layout of dialogs.
* Time: a budget is a number of polls; mtime's one second, HTTP under `mu_` and
  sends that block without limit are listed as hazards without a property.
* A pidfile that is read while it is half written; processes that reuse a pid;
  clients of the protocol other than this one.

Worth adding next: conflict notices among the messages of `SwarmMessages`.
