----------------------------- MODULE RemoteTurn -----------------------------
(***************************************************************************)
(* A turn across the socket: the thin client's run_turn and cancel_turn    *)
(* (src/remote/remote_agent.cpp), the reader thread that feeds it          *)
(* (src/server/client.cpp), the server's handler for this one client and   *)
(* the turn thread it starts (src/server/server.cpp), and the server's     *)
(* shutdown.  The connection is registered; how it came to be and the      *)
(* server's tables are module SwarmServer, the turn itself is AgentTurn.   *)
(*                                                                         *)
(* Frames carry the number of the call they belong to.  The code has no    *)
(* such number: properties use it, no step of the program does.            *)
(***************************************************************************)
EXTENDS Naturals, Sequences

CONSTANTS
    MaxCalls,   \* prompts the user submits (bound)
    MaxFrames,  \* stream frames of one turn (bound)
    UpCap,      \* frames that fit into the socket to the server (bound)
    DownCap,    \* frames that fit into the socket to the client (bound)
    Stops,      \* the server may be stopped
    Overlong    \* a prompt may be longer than a frame

ASSUME CapsAssumption ==
    /\ MaxCalls \in Nat /\ MaxFrames \in Nat \ {0}
    /\ UpCap \in Nat \ {0} /\ DownCap \in Nat \ {0}
    /\ Stops \in BOOLEAN /\ Overlong \in BOOLEAN

VARIABLES
    \* the client
    uiBusy,      \* the TUI's busy_
    cancelling,  \* the UI thread is in cancel_turn, about to send
    rpc,         \* what the thread in run_turn does next
    active,      \* turn_active_ (active_sink_ is set with it)
    dropping,    \* cancel_pending_
    turnRc,      \* turn_rc_
    connected,   \* connected_
    reading,     \* running_: the reader thread reads
    call,        \* number of the current call of run_turn
    shown,       \* stream events the call has passed to its sink
    \* the socket
    up, down,    \* frames under way to the server and to the client
    closed,      \* the server's end is closed
    \* the server
    hpc,         \* what the handler thread does next
    slotBusy,    \* the slot's busy flag
    tpc,         \* what the turn thread does next
    tcall,       \* the call whose prompt it runs
    requested,   \* the Agent's cancel_requested_
    trc,         \* result of run_turn in the server
    sent,        \* stream frames it has emitted
    closing,     \* closing_
    mpc,         \* what the main thread does next
    doomed       \* it found the client registered

client   == <<uiBusy, cancelling, rpc, active, dropping, turnRc, connected,
              reading, call, shown>>
turn     == <<slotBusy, tpc, tcall, requested, trc, sent>>
main     == <<closing, mpc, doomed>>
vars     == <<client, up, down, closed, hpc, turn, main>>

OK == 0
Failed == 1
kCancelled == 2
Results == {OK, Failed, kCancelled}

UpFrame == [type : {"prompt", "cancel", "clear"}, call : 0 .. MaxCalls]
DownFrame == [type : {"stream", "turn_done", "shutdown"}, call : 0 .. MaxCalls, rc : Results]

Frame(t) == [type |-> t, call |-> call]
Stream(c) == [type |-> "stream", call |-> c, rc |-> OK]
TurnDone(c, r) == [type |-> "turn_done", call |-> c, rc |-> r]
Shutdown == [type |-> "shutdown", call |-> 0, rc |-> OK]

TypeOK ==
    /\ rpc \in {"none", "called", "checked", "marked", "sending", "waiting", "back"}
    /\ {uiBusy, cancelling, active, dropping, connected, reading} \subseteq BOOLEAN
    /\ {closed, slotBusy, requested, closing, doomed} \subseteq BOOLEAN
    /\ turnRc \in Results /\ trc \in Results
    /\ call \in 0 .. MaxCalls /\ tcall \in 0 .. MaxCalls
    /\ shown \in 0 .. MaxFrames /\ sent \in 0 .. MaxFrames
    /\ up \in Seq(UpFrame) /\ Len(up) <= UpCap
    /\ down \in Seq(DownFrame) /\ Len(down) <= DownCap
    /\ hpc \in {"loop", "warn", "reject", "removed", "gone"}
    /\ tpc \in {"none", "start", "run", "over", "told"}
    /\ mpc \in {"serve", "collect", "notify", "exited"}

Init ==
    /\ uiBusy = FALSE /\ cancelling = FALSE /\ rpc = "none"
    /\ active = FALSE /\ dropping = FALSE /\ turnRc = Failed
    /\ connected = TRUE /\ reading = TRUE /\ call = 0 /\ shown = 0
    /\ up = <<>> /\ down = <<>> /\ closed = FALSE
    /\ hpc = "loop" /\ slotBusy = FALSE /\ tpc = "none" /\ tcall = 0
    /\ requested = FALSE /\ trc = Failed /\ sent = 0
    /\ closing = FALSE /\ mpc = "serve" /\ doomed = FALSE

-----------------------------------------------------------------------------
(* The client: the thread in run_turn. *)

\* turn_mu_ is held while the prompt is being sent, however long that takes.
TurnMuFree == rpc # "sending"

Step(from, to) == rpc = from /\ rpc' = to

\* run_turn's first line.
CheckConnected ==
    /\ Step("called", IF connected THEN "checked" ELSE "back")
    /\ UNCHANGED <<uiBusy, cancelling, active, dropping, turnRc, connected, reading,
                   call, shown, up, down, closed, hpc, turn, main>>

MarkActive ==
    /\ Step("checked", "marked")
    /\ active' = TRUE
    /\ dropping' = FALSE
    /\ turnRc' = Failed
    /\ shown' = 0
    /\ UNCHANGED <<uiBusy, cancelling, connected, reading, call,
                   up, down, closed, hpc, turn, main>>

TakeTurnMu ==
    /\ Step("marked", "sending")
    /\ UNCHANGED <<uiBusy, cancelling, active, dropping, turnRc, connected, reading,
                   call, shown, up, down, closed, hpc, turn, main>>

\* send_prompt with turn_mu_ held: it blocks while the socket is full.
SendPrompt ==
    /\ ~closed /\ Len(up) < UpCap
    /\ Step("sending", "waiting")
    /\ up' = Append(up, Frame("prompt"))
    /\ UNCHANGED <<uiBusy, cancelling, active, dropping, turnRc, connected, reading,
                   call, shown, down, closed, hpc, turn, main>>

\* A send to a closed peer may fail ...
SendPromptFails ==
    /\ closed
    /\ Step("sending", "back")
    /\ active' = FALSE
    /\ UNCHANGED <<uiBusy, cancelling, dropping, turnRc, connected, reading,
                   call, shown, up, down, closed, hpc, turn, main>>

\* ... or be accepted by the kernel and lost.
SendPromptLost ==
    /\ closed
    /\ Step("sending", "waiting")
    /\ UNCHANGED <<uiBusy, cancelling, active, dropping, turnRc, connected, reading,
                   call, shown, up, down, closed, hpc, turn, main>>

\* turn_cv_.wait is over.
WaitOver ==
    /\ ~active
    /\ Step("waiting", "back")
    /\ UNCHANGED <<uiBusy, cancelling, active, dropping, turnRc, connected, reading,
                   call, shown, up, down, closed, hpc, turn, main>>

\* run_turn_async after run_turn has returned.
TurnOver ==
    /\ Step("back", "none")
    /\ uiBusy' = FALSE
    /\ UNCHANGED <<cancelling, active, dropping, turnRc, connected, reading,
                   call, shown, up, down, closed, hpc, turn, main>>

RunThread ==
    \/ CheckConnected \/ MarkActive \/ TakeTurnMu \/ SendPrompt
    \/ SendPromptFails \/ SendPromptLost \/ WaitOver \/ TurnOver

-----------------------------------------------------------------------------
(* The client: the UI thread.  It does one thing at a time. *)

\* A bug: commands are taken while a turn runs.
TakesAnyInput == ~cancelling
\* submit() returns at once while busy_ is set.
TakesInput == ~uiBusy /\ ~cancelling

Submit ==
    /\ TakesInput
    /\ rpc = "none" /\ call < MaxCalls
    /\ uiBusy' = TRUE
    /\ call' = call + 1
    /\ rpc' = "called"
    /\ UNCHANGED <<cancelling, active, dropping, turnRc, connected, reading,
                   shown, up, down, closed, hpc, turn, main>>

\* A bug: a full socket is not waited for.
WriteAnyway(f) == IF closed THEN UNCHANGED up ELSE up' = Append(up, f)

\* The UI thread writes a frame; a write to a closed peer goes nowhere.
Write(f) ==
    IF closed THEN UNCHANGED up ELSE Len(up) < UpCap /\ up' = Append(up, f)

\* /clear; /model and /connect (model_set, auth_set) travel the same way.
Clear ==
    /\ TakesInput
    /\ connected
    /\ Write(Frame("clear"))
    /\ UNCHANGED <<client, down, closed, hpc, turn, main>>

\* The second Esc: cancel_turn under turn_mu_ ...
CancelMark ==
    /\ uiBusy /\ ~cancelling /\ TurnMuFree
    /\ active
    /\ dropping' = TRUE
    /\ cancelling' = connected
    /\ UNCHANGED <<uiBusy, rpc, active, turnRc, connected, reading, call, shown,
                   up, down, closed, hpc, turn, main>>

\* ... and the frame after it is released.
CancelSend ==
    /\ cancelling
    /\ Write(Frame("cancel"))
    /\ cancelling' = FALSE
    /\ UNCHANGED <<uiBusy, rpc, active, dropping, turnRc, connected, reading, call,
                   shown, down, closed, hpc, turn, main>>

UiThread == Submit \/ Clear \/ CancelMark \/ CancelSend

-----------------------------------------------------------------------------
(* The client: the reader thread and RemoteAgent::handle_frame. *)

Reads(type) ==
    /\ reading /\ TurnMuFree
    /\ down # <<>> /\ Head(down).type = type
    /\ down' = Tail(down)

\* What reaches the sink: no call, or a cancelled one, shows nothing.
ShowsOutput == active /\ ~dropping

ReadStream ==
    /\ Reads("stream")
    /\ shown' = IF ShowsOutput THEN shown + 1 ELSE shown
    /\ UNCHANGED <<uiBusy, cancelling, rpc, active, dropping, turnRc, connected,
                   reading, call, up, closed, hpc, turn, main>>

ReadTurnDone ==
    /\ Reads("turn_done")
    /\ turnRc' = Head(down).rc
    /\ dropping' = FALSE
    /\ active' = FALSE
    /\ UNCHANGED <<uiBusy, cancelling, rpc, connected, reading, call, shown,
                   up, closed, hpc, turn, main>>

ReadShutdown ==
    /\ Reads("shutdown")
    /\ connected' = FALSE
    /\ active' = FALSE
    /\ reading' = FALSE
    /\ UNCHANGED <<uiBusy, cancelling, rpc, dropping, turnRc, call, shown,
                   up, closed, hpc, turn, main>>

\* The peer is gone: reader_loop ends without a word to RemoteAgent.  Frames
\* the server never read reset the connection and may take the rest along.
ReadEof ==
    /\ reading /\ closed
    /\ down = <<>> \/ up # <<>>
    /\ reading' = FALSE
    /\ UNCHANGED <<uiBusy, cancelling, rpc, active, dropping, turnRc, connected,
                   call, shown, up, down, closed, hpc, turn, main>>

ReaderThread == ReadStream \/ ReadTurnDone \/ ReadShutdown \/ ReadEof

-----------------------------------------------------------------------------
(* The server: the handler thread of this client. *)

Alive == mpc # "exited"

\* send_to: a client that is no longer registered, or whose descriptor is
\* closed, gets nothing; otherwise send() blocks while the socket is full.
SendTo(f) ==
    IF hpc \in {"removed", "gone"} \/ closed
      THEN UNCHANGED down
      ELSE Len(down) < DownCap /\ down' = Append(down, f)

\* next_line returns the next frame, unless closing_ is set.
Receives(type) ==
    /\ Alive /\ hpc = "loop" /\ ~closing
    /\ up # <<>> /\ Head(up).type = type

\* schedule_prompt starts the turn thread ...
HandlePrompt ==
    /\ Receives("prompt") /\ ~slotBusy
    /\ up' = Tail(up)
    /\ slotBusy' = TRUE
    /\ tpc' = "start"
    /\ tcall' = Head(up).call
    /\ UNCHANGED <<client, down, closed, hpc, requested, trc, sent, main>>

\* ... or finds the last turn not yet put away,
RejectPrompt ==
    /\ Receives("prompt") /\ slotBusy
    /\ hpc' = "warn"
    /\ UNCHANGED <<client, up, down, closed, turn, main>>

\* A bug: the rejection is final before its warning is out.
SendDoneFirst ==
    /\ Alive /\ hpc = "warn"
    /\ SendTo(TurnDone(Head(up).call, Failed))
    /\ hpc' = "reject"
    /\ UNCHANGED <<client, up, closed, turn, main>>

\* which it answers with a warning
SendWarning ==
    /\ Alive /\ hpc = "warn"
    /\ SendTo(Stream(Head(up).call))
    /\ hpc' = "reject"
    /\ UNCHANGED <<client, up, closed, turn, main>>

\* and a turn_done.
SendRejection ==
    /\ Alive /\ hpc = "reject"
    /\ SendTo(TurnDone(Head(up).call, Failed))
    /\ hpc' = "loop"
    /\ up' = Tail(up)
    /\ UNCHANGED <<client, closed, turn, main>>

\* A cancel counts while the slot is busy.
HandleCancel ==
    /\ Receives("cancel")
    /\ up' = Tail(up)
    /\ requested' = (requested \/ slotBusy)
    /\ UNCHANGED <<client, down, closed, hpc, slotBusy, tpc, tcall, trc, sent, main>>

HandleClear ==
    /\ Receives("clear")
    /\ up' = Tail(up)
    /\ UNCHANGED <<client, down, closed, hpc, turn, main>>

\* next_line has read more than kMaxFrameBytes of a prompt that is still being sent.
TooLong == Overlong /\ up = <<>> /\ rpc = "sending"

\* closing_ ends the loop, and so does a line that is too long: the client is
\* unregistered, then its socket closed.
Unregister ==
    /\ Alive /\ hpc = "loop" /\ (closing \/ TooLong)
    /\ hpc' = "removed"
    /\ UNCHANGED <<client, up, down, closed, turn, main>>

CloseSocket ==
    /\ Alive /\ hpc = "removed"
    /\ hpc' = "gone"
    /\ closed' = TRUE
    /\ UNCHANGED <<client, up, down, turn, main>>

HandlerThread ==
    \/ HandlePrompt \/ RejectPrompt \/ SendWarning \/ SendRejection
    \/ HandleCancel \/ HandleClear \/ Unregister \/ CloseSocket

-----------------------------------------------------------------------------
(* The server: the turn thread. *)

Turn(from, to) == Alive /\ tpc = from /\ tpc' = to

\* A bug: the cancel of an earlier turn is not forgotten.
CancelKept == requested
CancelForgotten == FALSE

\* run_turn resets the cancel flag.
TurnStarts ==
    /\ Turn("start", "run")
    /\ requested' = CancelForgotten
    /\ sent' = 0
    /\ UNCHANGED <<client, up, down, closed, hpc, slotBusy, tcall, trc, main>>

\* No API key: a warning and rc 1.
TurnRefused ==
    /\ Turn("start", "over")
    /\ trc' = Failed
    /\ SendTo(Stream(tcall))
    /\ UNCHANGED <<client, up, closed, hpc, slotBusy, tcall, requested, sent, main>>

StreamFrame ==
    /\ Turn("run", "run")
    /\ sent < MaxFrames
    /\ sent' = sent + 1
    /\ SendTo(Stream(tcall))
    /\ UNCHANGED <<client, up, closed, hpc, slotBusy, tcall, requested, trc, main>>

RunTurnReturns(r) ==
    /\ Turn("run", "over")
    /\ r = kCancelled => requested
    /\ trc' = r
    /\ UNCHANGED <<client, up, down, closed, hpc, slotBusy, tcall, requested, sent, main>>

\* A bug: the turn ends without a word.
NothingSent == UNCHANGED down
LastFrame == SendTo(TurnDone(tcall, trc))

SendTurnDone ==
    /\ Turn("over", "told")
    /\ LastFrame
    /\ UNCHANGED <<client, up, closed, hpc, slotBusy, tcall, requested, trc, sent, main>>

\* Only now the slot is free.
Release ==
    /\ Turn("told", "none")
    /\ slotBusy' = FALSE
    /\ UNCHANGED <<client, up, down, closed, hpc, tcall, requested, trc, sent, main>>

TurnThread ==
    \/ TurnStarts \/ TurnRefused \/ StreamFrame
    \/ (\E r \in Results : RunTurnReturns(r)) \/ SendTurnDone \/ Release

-----------------------------------------------------------------------------
(* The server: the main thread. *)

\* A signal; closing_ is set and the poller joined.
Stop ==
    /\ Stops /\ mpc = "serve"
    /\ closing' = TRUE
    /\ mpc' = "collect"
    /\ UNCHANGED <<client, up, down, closed, hpc, turn, doomed>>

\* shutdown_clients looks who is registered ...
Collect ==
    /\ mpc = "collect"
    /\ doomed' = (hpc \notin {"removed", "gone"})
    /\ mpc' = "notify"
    /\ UNCHANGED <<client, up, down, closed, hpc, turn, closing>>

\* ... and says goodbye; the process's end closes what is still open.
Notify ==
    /\ mpc = "notify"
    /\ IF doomed /\ ~closed
         THEN Len(down) < DownCap /\ down' = Append(down, Shutdown)
         ELSE UNCHANGED down
    /\ closed' = TRUE
    /\ mpc' = "exited"
    /\ UNCHANGED <<client, up, hpc, turn, closing, doomed>>

-----------------------------------------------------------------------------
\* The end of a run: every further call would return at CheckConnected.
Offline == ~connected /\ rpc = "none" /\ mpc = "exited" /\ UNCHANGED vars

Next ==
    \/ RunThread \/ UiThread \/ ReaderThread
    \/ HandlerThread \/ TurnThread \/ Stop \/ Collect \/ Notify
    \/ Offline

Spec == Init /\ [][Next]_vars

\* Threads that can run do.  The user owes nothing, and nobody has to stop the
\* server.  The step cap of run_turn bounds its frames; RunTurnReturns needs
\* complete() and the tools to return.
FairSpec ==
    /\ Spec
    /\ WF_vars(RunThread) /\ WF_vars(CancelSend) /\ WF_vars(ReaderThread)
    /\ WF_vars(HandlerThread) /\ WF_vars(TurnThread)
    /\ WF_vars(Collect) /\ WF_vars(Notify)

-----------------------------------------------------------------------------
\* A frame that arrives while a call is open belongs to that call: no output,
\* and no result, of an earlier turn or of its rejection is taken for its own
\* (remote_agent.cpp 273-293; nothing in a frame says which turn it is from).
FramesAreOwn ==
    active => \A k \in DOMAIN down :
        down[k].type # "shutdown" => down[k].call = call

\* The server goes on with this client: it neither stops nor has hung up on it.
Serving == ~closing /\ hpc \notin {"removed", "gone"}

\* No wakeup is lost: as long as the server goes on, a waiting run_turn has its
\* prompt under way, in the handler, in a turn thread, or its turn_done under
\* way back (remote_agent.cpp 160-169).
WaitIsServed ==
    rpc = "waiting" /\ active /\ Serving =>
        \/ \E k \in DOMAIN up : up[k] = Frame("prompt")
        \/ tpc \in {"start", "run", "over"} /\ tcall = call
        \/ \E k \in DOMAIN down : down[k].type = "turn_done"

\* A clear (or auth_set) is never handled while run_turn works on the history
\* it clears: turn_done came first, so at most the flag is still up (server.cpp
\* 282-287 and 300-315 do not look at busy; AgentTurn relies on this).
ClearNeverMidTurn ==
    Receives("clear") => tpc \in {"none", "told"}

\* The remote facade keeps the promise of the local Agent.
Service == INSTANCE TurnService WITH
    running <- active,
    muted <- active /\ dropping,
    result <- turnRc

\* Every call is answered in order, nothing of a cancelled call is shown, and
\* only a call the user cancelled comes back as cancelled (agent.h 66-68).
ImplementsTurnService == Service!Spec

\* A call of run_turn returns unless the server is told to stop or hangs up.
CallReturns == rpc # "none" ~> (rpc = "none" \/ ~Serving)

\* protocol.h 38, `{"type":"shutdown"}  server is going away`: a client whose
\* reader has stopped has been told, and RemoteAgent knows (connected_).
GoingAwayIsAnnounced == ~reading => ~connected
=============================================================================
