---------------------------- MODULE SwarmServer ----------------------------
(***************************************************************************)
(* The connection and agent-slot life cycle of the zvmh server             *)
(* (src/server/server.cpp): the accept loop, one handler thread per        *)
(* connection, one thread per running turn, the tables clients_ and        *)
(* agents_, the process's file descriptors and the shutdown of a `solo`    *)
(* server.                                                                 *)
(*                                                                         *)
(* Every critical section of mu_ or send_mu_ is one action, so the model   *)
(* has the interleavings the code has between two sections.  What a turn   *)
(* does inside its Agent is module AgentTurn.                              *)
(***************************************************************************)
EXTENDS Integers

CONSTANTS
    Conns,   \* connections the listening socket may hand out, one handler each
    Turns,   \* slots for live turn threads (bound: how many run at once)
    Ids,     \* client ids
    Fds,     \* file descriptor numbers (bound: how many are open at once)
    IdOf,    \* the id random_hex_id() draws for each connection
    Solo,    \* the server was provisioned for one session (`solo_`)
    NoConn,  \* no connection
    NoFd     \* fd = -1

ASSUME ConstantsAssumption ==
    /\ IdOf \in [Conns -> Ids]
    /\ Solo \in BOOLEAN
    /\ Fds \subseteq Nat
    /\ NoConn \notin Conns
    /\ NoFd \notin Fds

\* Four hex digits and no look-up in clients_: distinct ids are luck.
UniqueIds == \A c, d \in Conns : IdOf[c] = IdOf[d] => c = d

VARIABLES
    hpc,      \* what each connection's handler thread does next
    fdOf,     \* the fd each handler got from accept
    left,     \* connections whose client sent bye or garbage, or hung up
    clients,  \* clients_: id -> the connection registered under it
    agents,   \* agents_: id -> the Agent, named by the connection that made it
    busy,     \* the busy flag of each slot
    tpc,      \* what each turn thread does next
    tid,      \* the id a turn thread captured
    tagent,   \* the Agent a turn thread captured
    tfd,      \* the fd send_to copied out of clients_ for a turn thread
    alive,    \* WireSink::alive_ of each turn thread
    fdOwner,  \* kernel: the connection behind each open fd
    closing,  \* closing_
    stop,     \* g_stop_signal
    mpc,      \* what the main thread does next
    polling,  \* the poller thread has not returned
    doomed    \* the fds shutdown_clients copied out of clients_

handlers == <<hpc, fdOf, left>>
tables   == <<clients, agents, busy>>
turns    == <<tpc, tid, tagent, tfd, alive>>
main     == <<mpc, polling, doomed>>
vars     == <<handlers, tables, turns, fdOwner, closing, stop, main>>

TypeOK ==
    /\ hpc \in [Conns -> {"none", "first", "create", "loop", "remove",
                          "close", "check", "store", "done", "rejected"}]
    /\ fdOf \in [Conns -> Fds \cup {NoFd}]
    /\ left \subseteq Conns
    /\ clients \in [Ids -> Conns \cup {NoConn}]
    /\ agents \in [Ids -> Conns \cup {NoConn}]
    /\ busy \in [Ids -> BOOLEAN]
    /\ tpc \in [Turns -> {"none", "run", "write", "store"}]
    /\ tid \in [Turns -> Ids \cup {NoConn}]
    /\ tagent \in [Turns -> Conns \cup {NoConn}]
    /\ tfd \in [Turns -> Fds \cup {NoFd}]
    /\ alive \in [Turns -> BOOLEAN]
    /\ fdOwner \in [Fds -> Conns \cup {NoConn}]
    /\ closing \in BOOLEAN
    /\ stop \in BOOLEAN
    /\ mpc \in {"check", "poll", "join", "collect", "close", "exited"}
    /\ polling \in BOOLEAN
    /\ doomed \subseteq Fds
    /\ \A t \in Turns : tpc[t] \in {"run", "write"} => tid[t] \in Ids
    /\ \A t \in Turns : tpc[t] = "write" => tfd[t] \in Fds

Init ==
    /\ hpc = [c \in Conns |-> "none"]
    /\ fdOf = [c \in Conns |-> NoFd]
    /\ left = {}
    /\ clients = [i \in Ids |-> NoConn]
    /\ agents = [i \in Ids |-> NoConn]
    /\ busy = [i \in Ids |-> FALSE]
    /\ tpc = [t \in Turns |-> "none"]
    /\ tid = [t \in Turns |-> NoConn]
    /\ tagent = [t \in Turns |-> NoConn]
    /\ tfd = [t \in Turns |-> NoFd]
    /\ alive = [t \in Turns |-> FALSE]
    /\ fdOwner = [f \in Fds |-> NoConn]
    /\ closing = FALSE
    /\ stop = FALSE
    /\ mpc = "check"
    /\ polling = TRUE
    /\ doomed = {}

\* run() returning ends the process and every detached thread with it.
Running == mpc # "exited"

Handler(c, from, to) == Running /\ hpc[c] = from /\ hpc' = [hpc EXCEPT ![c] = to]

\* The id is in clients_ with fd >= 0.
HasSocket(i) == clients[i] # NoConn /\ fdOf[clients[i]] # NoFd

NobodyConnected == \A i \in Ids : clients[i] = NoConn
NoSlotBusy == \A i \in Ids : agents[i] # NoConn => ~busy[i]

-----------------------------------------------------------------------------
(* The main thread: accept until told to stop, then shut down. *)

\* The loop condition, read before every poll().
MainCheck ==
    /\ mpc = "check"
    /\ IF stop \/ closing
         THEN mpc' = "join" /\ closing' = TRUE
         ELSE mpc' = "poll" /\ UNCHANGED closing
    /\ UNCHANGED <<handlers, tables, turns, fdOwner, stop, polling, doomed>>

PollTimeout ==
    /\ mpc = "poll"
    /\ mpc' = "check"
    /\ UNCHANGED <<handlers, tables, turns, fdOwner, closing, stop, polling, doomed>>

\* accept() returns the lowest free descriptor; a handler thread starts on it.
Accept(c) ==
    /\ mpc = "poll"
    /\ hpc[c] = "none"
    /\ \E f \in Fds :
         /\ fdOwner[f] = NoConn
         /\ \A g \in Fds : fdOwner[g] = NoConn => f <= g
         /\ fdOf' = [fdOf EXCEPT ![c] = f]
         /\ fdOwner' = [fdOwner EXCEPT ![f] = c]
    /\ hpc' = [hpc EXCEPT ![c] = "first"]
    /\ mpc' = "check"
    /\ UNCHANGED <<left, tables, turns, closing, stop, polling, doomed>>

\* The poller's loop ends once closing_ is set.
PollerReturns ==
    /\ Running
    /\ polling /\ closing
    /\ polling' = FALSE
    /\ UNCHANGED <<handlers, tables, turns, fdOwner, closing, stop, mpc, doomed>>

JoinPoller ==
    /\ mpc = "join" /\ ~polling
    /\ mpc' = "collect"
    /\ UNCHANGED <<handlers, tables, turns, fdOwner, closing, stop, polling, doomed>>

\* shutdown_clients, under mu_.
CollectFds ==
    /\ mpc = "collect"
    /\ doomed' = {fdOf[clients[i]] : i \in {j \in Ids : HasSocket(j)}}
    /\ mpc' = "close"
    /\ UNCHANGED <<handlers, tables, turns, fdOwner, closing, stop, polling>>

\* shutdown_clients, under send_mu_; then run() returns.
CloseFds ==
    /\ mpc = "close"
    /\ fdOwner' = [f \in Fds |-> IF f \in doomed THEN NoConn ELSE fdOwner[f]]
    /\ mpc' = "exited"
    /\ UNCHANGED <<handlers, tables, turns, closing, stop, polling, doomed>>

\* SIGTERM or SIGINT from `zvmh --server stop`.
Signal ==
    /\ Running /\ ~stop
    /\ stop' = TRUE
    /\ UNCHANGED <<handlers, tables, turns, fdOwner, closing, main>>

-----------------------------------------------------------------------------
(* handle_client, one thread per accepted connection. *)

\* The client's side: bye, a line that does not parse, or the socket closed.
ClientLeaves(c) ==
    /\ Running
    /\ hpc[c] \in {"first", "create", "loop"} /\ c \notin left
    /\ left' = left \cup {c}
    /\ UNCHANGED <<hpc, fdOf, tables, turns, fdOwner, closing, stop, main>>

\* The early returns: no valid hello.  Neither touches the tables, and neither
\* calls maybe_shutdown_if_idle.
RejectFirstLine(c) ==
    /\ Handler(c, "first", "rejected")
    /\ c \in left \/ closing
    /\ fdOwner' = [fdOwner EXCEPT ![fdOf[c]] = NoConn]
    /\ UNCHANGED <<fdOf, left, tables, turns, closing, stop, main>>

\* A valid hello arrived: hello_register under mu_.
HelloRegister(c) ==
    /\ Handler(c, "first", "create")
    /\ clients' = [clients EXCEPT ![IdOf[c]] = c]
    /\ UNCHANGED <<fdOf, left, agents, busy, turns, fdOwner, closing, stop, main>>

\* agents_[id] = slot, in a critical section of its own.  hello_ack and state
\* follow and change nothing here.
CreateAgentSlot(c) ==
    /\ Handler(c, "create", "loop")
    /\ agents' = [agents EXCEPT ![IdOf[c]] = c]
    /\ busy' = [busy EXCEPT ![IdOf[c]] = FALSE]
    /\ UNCHANGED <<fdOf, left, clients, turns, fdOwner, closing, stop, main>>

\* A bug: the busy flag is not consulted.
StartsRegardless(i) == agents[i] # NoConn

\* schedule_prompt starts a turn in a slot that exists and is not busy.
StartsTurn(i) == agents[i] # NoConn /\ ~busy[i]

\* A prompt with a text arrives.  A prompt that starts no turn changes nothing
\* here: it is answered with turn_done(1), or ignored when there is no slot.
SchedulePrompt(c, t) ==
    /\ Running
    /\ hpc[c] = "loop" /\ StartsTurn(IdOf[c])
    /\ tpc[t] = "none"
    /\ busy' = [busy EXCEPT ![IdOf[c]] = TRUE]
    /\ tpc' = [tpc EXCEPT ![t] = "run"]
    /\ tid' = [tid EXCEPT ![t] = IdOf[c]]
    /\ tagent' = [tagent EXCEPT ![t] = agents[IdOf[c]]]
    /\ alive' = [alive EXCEPT ![t] = TRUE]
    /\ UNCHANGED <<handlers, clients, agents, tfd, fdOwner, closing, stop, main>>

\* A bug: the descriptor is closed before the client is unregistered.
LeaveLoopClosing(c) ==
    /\ Handler(c, "loop", "remove")
    /\ c \in left \/ closing
    /\ fdOwner' = [fdOwner EXCEPT ![fdOf[c]] = NoConn]
    /\ UNCHANGED <<fdOf, left, tables, turns, closing, stop, main>>

\* next_line stops returning Ok: bye, bad JSON, EOF, or closing_ is set.
LeaveLoop(c) ==
    /\ Handler(c, "loop", "remove")
    /\ c \in left \/ closing
    /\ UNCHANGED <<fdOf, left, tables, turns, fdOwner, closing, stop, main>>

\* A bug: the slot goes with its client even while a turn runs in it.
SlotDiesWithClient(i) == FALSE

\* remove_client_locked spares the slot of a running turn.
SlotOutlivesClient(i) == busy[i]

\* remove_client_locked, under mu_; a no-op when the id is gone already.
RemoveClient(c) ==
    LET i == IdOf[c] IN
    /\ Handler(c, "remove", "close")
    /\ IF clients[i] = NoConn
         THEN UNCHANGED <<clients, agents>>
         ELSE /\ clients' = [clients EXCEPT ![i] = NoConn]
              /\ agents' = [agents EXCEPT
                              ![i] = IF SlotOutlivesClient(i) THEN @ ELSE NoConn]
    /\ UNCHANGED <<fdOf, left, busy, turns, fdOwner, closing, stop, main>>

\* ::close(fd), under send_mu_.
CloseFd(c) ==
    /\ Handler(c, "close", "check")
    /\ fdOwner' = [fdOwner EXCEPT ![fdOf[c]] = NoConn]
    /\ UNCHANGED <<fdOf, left, tables, turns, closing, stop, main>>

\* maybe_shutdown_if_idle's decision under mu_ ...
IdleCheck(c) ==
    /\ Handler(c, "check",
               IF Solo /\ NobodyConnected /\ NoSlotBusy THEN "store" ELSE "done")
    /\ UNCHANGED <<fdOf, left, tables, turns, fdOwner, closing, stop, main>>

\* ... and the stores that act on it after mu_ is released.
IdleStore(c) ==
    /\ Handler(c, "store", "done")
    /\ closing' = TRUE
    /\ stop' = TRUE
    /\ UNCHANGED <<fdOf, left, tables, turns, fdOwner, main>>

-----------------------------------------------------------------------------
(* A turn thread. *)

Turn(t, from, to) == Running /\ tpc[t] = from /\ tpc' = [tpc EXCEPT ![t] = to]

\* A bug: the missing client is not noticed and fd -1 goes to send().
LookUpFdUnchecked(t) ==
    /\ Turn(t, "run", "write")
    /\ alive[t]
    /\ tfd' = [tfd EXCEPT ![t] = IF clients[tid[t]] = NoConn
                                   THEN NoFd ELSE fdOf[clients[tid[t]]]]
    /\ UNCHANGED <<handlers, tables, tid, tagent, alive, fdOwner, closing, stop, main>>

\* send_to under mu_: the descriptor is copied out of clients_.
LookUpFd(t) ==
    /\ alive[t] /\ HasSocket(tid[t])
    /\ Turn(t, "run", "write")
    /\ tfd' = [tfd EXCEPT ![t] = fdOf[clients[tid[t]]]]
    /\ UNCHANGED <<handlers, tables, tid, tagent, alive, fdOwner, closing, stop, main>>

\* send_to without a client: the sink is dead from here on.
NoClientToSendTo(t) ==
    /\ alive[t] /\ ~HasSocket(tid[t])
    /\ Turn(t, "run", "run")
    /\ alive' = [alive EXCEPT ![t] = FALSE]
    /\ UNCHANGED <<handlers, tables, tid, tagent, tfd, fdOwner, closing, stop, main>>

\* send_to under send_mu_: the frame goes to whatever the number means by now.
\* A closed descriptor, or a peer that hung up, may fail the send.
WriteFrame(t) ==
    /\ Turn(t, "write", "run")
    /\ LET owner == fdOwner[tfd[t]] IN
       \/ owner # NoConn /\ UNCHANGED alive
       \/ (owner = NoConn \/ owner \in left) /\ alive' = [alive EXCEPT ![t] = FALSE]
    /\ tfd' = [tfd EXCEPT ![t] = NoFd]
    /\ UNCHANGED <<handlers, tables, tid, tagent, fdOwner, closing, stop, main>>

\* A bug: a finished turn leaves the slot of a client that is gone.
SlotKeptAfterTurn(i) == agents[i]
\* A bug: a finished turn always drops the slot.
SlotDroppedAfterTurn(i) == NoConn

\* The slot of a finished turn goes if its client is gone.
SlotAfterTurn(i) == IF clients[i] = NoConn THEN NoConn ELSE agents[i]

\* A bug: only handlers decide that a solo server is idle.
TurnNeverDecidesIdle == FALSE

\* The turn thread's own idle test.  It looks at clients_ only.
IdleAtTurnEnd == Solo /\ NobodyConnected

\* A bug: a finished turn does not hand its slot back.
BusyForever == TRUE

\* The flag goes down in the last critical section.
BusyAfterTurn == FALSE

\* The turn is over, turn_done is sent: the last critical section of the thread.
EndTurn(t) ==
    LET i == tid[t] IN
    /\ Turn(t, "run", IF IdleAtTurnEnd THEN "store" ELSE "none")
    /\ IF agents[i] = NoConn
         THEN UNCHANGED <<agents, busy>>
         ELSE /\ busy' = [busy EXCEPT ![i] = BusyAfterTurn]
              /\ agents' = [agents EXCEPT ![i] = SlotAfterTurn(i)]
    /\ tid' = [tid EXCEPT ![t] = NoConn]
    /\ tagent' = [tagent EXCEPT ![t] = NoConn]
    /\ alive' = [alive EXCEPT ![t] = FALSE]
    /\ UNCHANGED <<handlers, clients, tfd, fdOwner, closing, stop, main>>

\* The stores after mu_ is released, and the end of the thread.
TurnStore(t) ==
    /\ Turn(t, "store", "none")
    /\ closing' = TRUE
    /\ stop' = TRUE
    /\ UNCHANGED <<handlers, tables, tid, tagent, tfd, alive, fdOwner, main>>

-----------------------------------------------------------------------------
Terminated == mpc = "exited" /\ UNCHANGED vars

Main == MainCheck \/ PollTimeout \/ JoinPoller \/ CollectFds \/ CloseFds

HandlerStep(c) ==
    \/ RejectFirstLine(c) \/ HelloRegister(c) \/ CreateAgentSlot(c) \/ LeaveLoop(c)
    \/ RemoveClient(c) \/ CloseFd(c) \/ IdleCheck(c) \/ IdleStore(c)

TurnStep(t) == LookUpFd(t) \/ NoClientToSendTo(t) \/ WriteFrame(t) \/ EndTurn(t) \/ TurnStore(t)

Next ==
    \/ Main \/ PollerReturns \/ Signal \/ Terminated
    \/ \E c \in Conns : Accept(c) \/ ClientLeaves(c) \/ HandlerStep(c)
    \/ \E c \in Conns, t \in Turns : SchedulePrompt(c, t)
    \/ \E t \in Turns : TurnStep(t)

Spec == Init /\ [][Next]_vars

(***************************************************************************)
(* Threads that can run do run.  Clients owe nothing: neither a hello, nor *)
(* a prompt, nor a bye.  A turn sends finitely many frames (run_turn's     *)
(* step cap), so it gets to its end however often it is found writing.     *)
(***************************************************************************)
Fairness ==
    /\ WF_vars(Main) /\ WF_vars(PollerReturns)
    /\ \A c \in Conns :
         /\ WF_vars(RejectFirstLine(c)) /\ WF_vars(CreateAgentSlot(c))
         /\ WF_vars(LeaveLoop(c)) /\ WF_vars(RemoveClient(c)) /\ WF_vars(CloseFd(c))
         /\ WF_vars(IdleCheck(c)) /\ WF_vars(IdleStore(c))
    /\ \A t \in Turns :
         /\ WF_vars(WriteFrame(t)) /\ SF_vars(EndTurn(t)) /\ WF_vars(TurnStore(t))

FairSpec == Spec /\ Fairness

-----------------------------------------------------------------------------
(* Properties.  All but the type invariant are about UniqueIds servers. *)

InTurn(t) == tpc[t] \in {"run", "write"}

\* The raw Agent* a turn thread captured stays valid as long as the turn runs:
\* the slot it came from still holds that Agent and is marked busy, whatever
\* disconnects, other turns or the shutdown do (server.cpp 207-226, 325-385).
TurnOwnsSlot ==
    \A t \in Turns : InTurn(t) => /\ agents[tid[t]] = tagent[t]
                                  /\ tagent[t] # NoConn
                                  /\ busy[tid[t]]

\* No two threads run in one Agent.
OneTurnPerAgent ==
    \A t, u \in Turns : InTurn(t) /\ InTurn(u) /\ tagent[t] = tagent[u] => t = u

\* A slot that is marked busy has a thread that will clear the flag.
BusyHasTurn ==
    \A i \in Ids : agents[i] # NoConn /\ busy[i] =>
        \E t \in Turns : InTurn(t) /\ tid[t] = i

\* The busy flag serialises turns: no two threads run in one Agent (server.h
\* 99-101), and no slot stays busy without a thread that will clear the flag, or its
\* client would get "still running a turn" forever (server.cpp 325-385).
BusyMeansOneTurn == OneTurnPerAgent /\ BusyHasTurn

\* No Agent outlives both its client and its turn: whichever of the handler's
\* cleanup and the turn's last section comes second erases the slot.
NoOrphanSlot ==
    \A i \in Ids : agents[i] # NoConn => clients[i] = agents[i] \/ busy[i]

\* A connection in its read loop has its own slot, so none of its frames is
\* dropped for want of one (the `it == agents_.end()` returns).
LoopHasSlot ==
    \A c \in Conns : hpc[c] \in {"loop", "remove"} => agents[IdOf[c]] = c

\* Until shutdown_clients closes descriptors in the handlers' stead, a handler
\* that has not closed its descriptor still owns that number, so it never
\* closes a later connection's socket, and clients_ never holds a stale one.
HandlerOwnsFd ==
    mpc # "exited" =>
        \A c \in Conns : hpc[c] \in {"first", "create", "loop", "remove", "close"} =>
            fdOf[c] \in Fds /\ fdOwner[fdOf[c]] = c

\* A solo server that a client registered with and left stops once nobody is
\* connected any more, also when the last turn outlives the last client
\* (server.h 38-40).
SomebodyLeft == \E c \in Conns : hpc[c] \in {"close", "check", "store", "done"}
SoloStops ==
    Solo /\ <>[](NobodyConnected /\ SomebodyLeft) => <>(mpc = "exited")

\* server.h 38-40: a solo server self-terminates "when no client is connected
\* and no turn is running".  About the moment a thread decides to stop it.
SoloStopsOnlyWhenIdle ==
    [][/\ \A c \in Conns : hpc[c] = "check" /\ hpc'[c] = "store" => NobodyConnected /\ NoSlotBusy
       /\ \A t \in Turns : tpc[t] = "run" /\ tpc'[t] = "store" => NobodyConnected /\ NoSlotBusy']_vars

\* wire_sink.h 10-11: "the server writes to the owning client's socket".
FramesGoToTheirClient ==
    [][\A t \in Turns : tpc[t] = "write" /\ tpc'[t] = "run" =>
          fdOwner[tfd[t]] \in {tagent[t], NoConn}]_vars
=============================================================================
