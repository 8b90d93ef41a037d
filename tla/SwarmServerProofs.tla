------------------------- MODULE SwarmServerProofs -------------------------
(* Theorems about SwarmServer, for any number of connections and turns. *)
EXTENDS SwarmServer, TLAPS

(***************************************************************************)
(* Every step of the server keeps every variable in its set.               *)
(***************************************************************************)
LEMMA TypeStep == TypeOK /\ [Next]_vars => TypeOK'
<1> SUFFICES ASSUME TypeOK, [Next]_vars PROVE TypeOK'
  OBVIOUS
<1> USE ConstantsAssumption DEF TypeOK, handlers, tables, turns, main, Handler, Turn
<1>1. CASE Main
  <2>1. CASE MainCheck \/ PollTimeout \/ JoinPoller
    BY <2>1 DEF MainCheck, PollTimeout, JoinPoller
  <2>2. CASE CollectFds
    <3>1. doomed' \subseteq Fds
      BY <2>2 DEF CollectFds, HasSocket
    <3> QED
      BY <2>2, <3>1 DEF CollectFds
  <2>3. CASE CloseFds
    BY <2>3 DEF CloseFds
  <2> QED
    BY <1>1, <2>1, <2>2, <2>3 DEF Main
<1>2. CASE PollerReturns \/ Signal \/ Terminated \/ UNCHANGED vars
  BY <1>2 DEF PollerReturns, Signal, Terminated, vars
<1>3. ASSUME NEW c \in Conns, Accept(c) PROVE TypeOK'
  BY <1>3 DEF Accept
<1>4. ASSUME NEW c \in Conns, ClientLeaves(c) PROVE TypeOK'
  BY <1>4 DEF ClientLeaves
<1>5. ASSUME NEW c \in Conns, HandlerStep(c) PROVE TypeOK'
  <2>1. CASE RejectFirstLine(c)
    BY <2>1 DEF RejectFirstLine
  <2>2. CASE CloseFd(c)
    BY <2>2 DEF CloseFd
  <2>3. CASE HelloRegister(c)
    BY <2>3 DEF HelloRegister
  <2>4. CASE CreateAgentSlot(c)
    <3>1. agents' \in [Ids -> Conns \cup {NoConn}] /\ busy' \in [Ids -> BOOLEAN]
      BY <2>4 DEF CreateAgentSlot
    <3> QED
      BY <2>4, <3>1 DEF CreateAgentSlot
  <2>5. CASE LeaveLoop(c)
    BY <2>5 DEF LeaveLoop
  <2>6. CASE RemoveClient(c)
    BY <2>6 DEF RemoveClient
  <2>7. CASE IdleCheck(c)
    BY <2>7 DEF IdleCheck
  <2>8. CASE IdleStore(c)
    BY <2>8 DEF IdleStore
  <2> QED
    BY <1>5, <2>1, <2>2, <2>3, <2>4, <2>5, <2>6, <2>7, <2>8 DEF HandlerStep
<1>6. ASSUME NEW c \in Conns, NEW t \in Turns, SchedulePrompt(c, t) PROVE TypeOK'
  BY <1>6 DEF SchedulePrompt, StartsTurn
<1>7. ASSUME NEW t \in Turns, TurnStep(t) PROVE TypeOK'
  <2>1. CASE LookUpFd(t)
    BY <2>1 DEF LookUpFd, HasSocket
  <2>2. CASE NoClientToSendTo(t) \/ WriteFrame(t)
    BY <2>2 DEF NoClientToSendTo, WriteFrame
  <2>3. CASE EndTurn(t)
    BY <2>3 DEF EndTurn, SlotAfterTurn, BusyAfterTurn
  <2>4. CASE TurnStore(t)
    BY <2>4 DEF TurnStore
  <2> QED
    BY <1>7, <2>1, <2>2, <2>3, <2>4 DEF TurnStep
<1> QED
  BY <1>1, <1>2, <1>3, <1>4, <1>5, <1>6, <1>7 DEF Next

\* The type invariant holds of every server, whatever ids its clients draw.
THEOREM TypeCorrect == Spec => []TypeOK
<1>1. Init => TypeOK
  BY ConstantsAssumption DEF Init, TypeOK
<1> QED
  BY <1>1, TypeStep, PTL DEF Spec

-----------------------------------------------------------------------------
(***************************************************************************)
(* Distinct ids: the slot table.  TurnOwnsSlot is not inductive alone.  A  *)
(* step could break it by creating a slot over a live one (FreshSlot), by  *)
(* ending another turn of the same slot (OneTurnPerSlot), or by removing   *)
(* another connection's client (Registered and the two OwnId parts).       *)
(***************************************************************************)
Registered ==
    \A c \in Conns : hpc[c] \in {"create", "loop", "remove"} <=> clients[IdOf[c]] = c
ClientsOwnId == \A i \in Ids : clients[i] # NoConn => IdOf[clients[i]] = i
AgentsOwnId == \A i \in Ids : agents[i] # NoConn => IdOf[agents[i]] = i
FreshSlot ==
    \A c \in Conns : hpc[c] \in {"none", "first", "create", "rejected"} =>
        agents[IdOf[c]] = NoConn
OneTurnPerSlot ==
    \A t, u \in Turns : InTurn(t) /\ InTurn(u) /\ tid[t] = tid[u] => t = u

SlotInv ==
    /\ Registered /\ ClientsOwnId /\ AgentsOwnId /\ FreshSlot
    /\ TurnOwnsSlot /\ OneTurnPerSlot /\ BusyHasTurn
    /\ NoOrphanSlot /\ LoopHasSlot

LEMMA SlotStep ==
    ASSUME UniqueIds, TypeOK, SlotInv, [Next]_vars
    PROVE  SlotInv'
<1> USE ConstantsAssumption DEF UniqueIds, TypeOK, SlotInv, Registered, ClientsOwnId,
        AgentsOwnId, FreshSlot, TurnOwnsSlot, OneTurnPerSlot, BusyHasTurn, NoOrphanSlot,
        LoopHasSlot, InTurn, handlers, tables, turns, main
<1>1. CASE Main
  BY <1>1 DEF Main, MainCheck, PollTimeout, JoinPoller, CollectFds, CloseFds
<1>2. CASE PollerReturns \/ Signal \/ Terminated \/ UNCHANGED vars
  BY <1>2 DEF PollerReturns, Signal, Terminated, vars
<1>3. ASSUME NEW c \in Conns, Accept(c) PROVE SlotInv'
  BY <1>3 DEF Accept
<1>4. ASSUME NEW c \in Conns, ClientLeaves(c) PROVE SlotInv'
  BY <1>4 DEF ClientLeaves
<1>5. ASSUME NEW c \in Conns, HandlerStep(c) PROVE SlotInv'
  <2>1. CASE RejectFirstLine(c) \/ CloseFd(c) \/ LeaveLoop(c) \/ IdleCheck(c) \/ IdleStore(c)
    BY <2>1 DEF RejectFirstLine, CloseFd, LeaveLoop, IdleCheck, IdleStore, Handler
  <2>2. CASE HelloRegister(c)
    BY <2>2 DEF HelloRegister, Handler
  <2>3. CASE CreateAgentSlot(c)
    BY <2>3 DEF CreateAgentSlot, Handler
  <2>4. CASE RemoveClient(c)
    <3> DEFINE i == IdOf[c]
    <3>1. i \in Ids /\ hpc[c] = "remove" /\ clients[i] = c /\ agents[i] = c
      BY <2>4 DEF RemoveClient, Handler
    <3>2. /\ hpc' = [hpc EXCEPT ![c] = "close"]
          /\ clients' = [clients EXCEPT ![i] = NoConn]
          /\ agents' = [agents EXCEPT ![i] = IF busy[i] THEN agents[i] ELSE NoConn]
          /\ UNCHANGED <<busy, turns>>
      BY <2>4, <3>1 DEF RemoveClient, Handler, SlotOutlivesClient
    <3>3. (Registered /\ ClientsOwnId)'
      BY <3>1, <3>2
    <3>4. (AgentsOwnId /\ FreshSlot /\ LoopHasSlot)'
      BY <3>1, <3>2
    <3>5. (TurnOwnsSlot /\ OneTurnPerSlot)'
      BY <3>1, <3>2
    <3>6. (BusyHasTurn /\ NoOrphanSlot)'
      BY <3>1, <3>2
    <3> QED
      BY <3>3, <3>4, <3>5, <3>6
  <2> QED
    BY <1>5, <2>1, <2>2, <2>3, <2>4 DEF HandlerStep
<1>6. ASSUME NEW c \in Conns, NEW t \in Turns, SchedulePrompt(c, t) PROVE SlotInv'
  BY <1>6 DEF SchedulePrompt, StartsTurn
<1>7. ASSUME NEW t \in Turns, TurnStep(t) PROVE SlotInv'
  <2>1. CASE LookUpFd(t) \/ NoClientToSendTo(t) \/ WriteFrame(t) \/ TurnStore(t)
    BY <2>1 DEF LookUpFd, NoClientToSendTo, WriteFrame, TurnStore, Turn
  <2>2. CASE EndTurn(t)
    <3> DEFINE i == tid[t]
    <3>1. i \in Ids /\ agents[i] # NoConn
      BY <2>2 DEF EndTurn, Turn
    <3>2. /\ busy' = [busy EXCEPT ![i] = FALSE]
          /\ agents' = [agents EXCEPT ![i] = IF clients[i] = NoConn THEN NoConn ELSE agents[i]]
          /\ UNCHANGED <<hpc, clients>>
      BY <2>2, <3>1 DEF EndTurn, SlotAfterTurn, BusyAfterTurn
    <3>3. \A u \in Turns : InTurn(u)' =>
             u # t /\ InTurn(u) /\ tid'[u] = tid[u] /\ tagent'[u] = tagent[u] /\ tid[u] # i
      BY <2>2 DEF EndTurn, Turn
    <3>4. \A u \in Turns : InTurn(u) /\ u # t => InTurn(u)' /\ tid'[u] = tid[u]
      BY <2>2 DEF EndTurn, Turn
    <3>5. (Registered /\ ClientsOwnId /\ AgentsOwnId /\ FreshSlot /\ LoopHasSlot)'
      BY <3>1, <3>2
    <3>6. (TurnOwnsSlot /\ OneTurnPerSlot)'
      BY <3>1, <3>2, <3>3
    <3>7. BusyHasTurn'
      BY <3>1, <3>2, <3>4
    <3>8. NoOrphanSlot'
      BY <3>1, <3>2
    <3> QED
      BY <3>5, <3>6, <3>7, <3>8
  <2> QED
    BY <1>7, <2>1, <2>2 DEF TurnStep
<1> QED
  BY <1>1, <1>2, <1>3, <1>4, <1>5, <1>6, <1>7 DEF Next

LEMMA SlotInvariant == ASSUME UniqueIds PROVE Spec => []SlotInv
<1>1. Init => SlotInv
  BY ConstantsAssumption DEF Init, SlotInv, Registered, ClientsOwnId, AgentsOwnId,
     FreshSlot, TurnOwnsSlot, OneTurnPerSlot, BusyHasTurn, NoOrphanSlot, LoopHasSlot, InTurn
<1>2. TypeOK /\ SlotInv /\ [Next]_vars => SlotInv'
  BY SlotStep
<1> QED
  BY <1>1, <1>2, TypeCorrect, PTL DEF Spec

\* With distinct ids the Agent under a running turn is never destroyed, ...
THEOREM TurnAgentStaysAlive == ASSUME UniqueIds PROVE Spec => []TurnOwnsSlot
<1>1. SlotInv => TurnOwnsSlot
  BY DEF SlotInv
<1> QED
  BY <1>1, SlotInvariant, PTL

\* ... no two turns run in one Agent, and every busy slot has the turn that will free
\* it, ...
THEOREM TurnsSerialised == ASSUME UniqueIds PROVE Spec => []BusyMeansOneTurn
<1>1. TypeOK /\ SlotInv => OneTurnPerAgent
  BY ConstantsAssumption
     DEF SlotInv, TypeOK, OneTurnPerAgent, OneTurnPerSlot, TurnOwnsSlot, AgentsOwnId, InTurn
<1>2. SlotInv => BusyHasTurn
  BY DEF SlotInv
<1>3. OneTurnPerAgent /\ BusyHasTurn => BusyMeansOneTurn
  BY DEF BusyMeansOneTurn
<1> QED
  BY <1>1, <1>2, <1>3, SlotInvariant, TypeCorrect, PTL

\* ... no Agent is left behind by its client and its turn, ...
THEOREM SlotsDoNotLeak == ASSUME UniqueIds PROVE Spec => []NoOrphanSlot
<1>1. SlotInv => NoOrphanSlot
  BY DEF SlotInv
<1> QED
  BY <1>1, SlotInvariant, PTL

\* ... and a connection that is being read has its slot.
THEOREM ReadersHaveSlots == ASSUME UniqueIds PROVE Spec => []LoopHasSlot
<1>1. SlotInv => LoopHasSlot
  BY DEF SlotInv
<1> QED
  BY <1>1, SlotInvariant, PTL

-----------------------------------------------------------------------------
(* Descriptors.  Here the ids do not matter, and the invariant is inductive. *)

LEMMA FdStep ==
    ASSUME TypeOK, HandlerOwnsFd, [Next]_vars
    PROVE  HandlerOwnsFd'
<1> USE ConstantsAssumption DEF TypeOK, HandlerOwnsFd, handlers, tables, turns, main
<1>1. CASE Main
  BY <1>1 DEF Main, MainCheck, PollTimeout, JoinPoller, CollectFds, CloseFds
<1>2. CASE PollerReturns \/ Signal \/ Terminated \/ UNCHANGED vars
  BY <1>2 DEF PollerReturns, Signal, Terminated, vars
<1>3. ASSUME NEW c \in Conns, Accept(c) PROVE HandlerOwnsFd'
  BY <1>3 DEF Accept
<1>4. ASSUME NEW c \in Conns, ClientLeaves(c) PROVE HandlerOwnsFd'
  BY <1>4 DEF ClientLeaves
<1>5. ASSUME NEW c \in Conns, HandlerStep(c) PROVE HandlerOwnsFd'
  <2>1. CASE RejectFirstLine(c)
    BY <2>1 DEF RejectFirstLine, Handler, Running
  <2>2. CASE CloseFd(c)
    BY <2>2 DEF CloseFd, Handler, Running
  <2>3. CASE HelloRegister(c) \/ CreateAgentSlot(c) \/ LeaveLoop(c)
    BY <2>3 DEF HelloRegister, CreateAgentSlot, LeaveLoop, Handler
  <2>4. CASE RemoveClient(c) \/ IdleCheck(c) \/ IdleStore(c)
    BY <2>4 DEF RemoveClient, IdleCheck, IdleStore, Handler
  <2> QED
    BY <1>5, <2>1, <2>2, <2>3, <2>4 DEF HandlerStep
<1>6. ASSUME NEW c \in Conns, NEW t \in Turns, SchedulePrompt(c, t) PROVE HandlerOwnsFd'
  BY <1>6 DEF SchedulePrompt
<1>7. ASSUME NEW t \in Turns, TurnStep(t) PROVE HandlerOwnsFd'
  BY <1>7 DEF TurnStep, LookUpFd, NoClientToSendTo, WriteFrame, EndTurn, TurnStore, Turn
<1> QED
  BY <1>1, <1>2, <1>3, <1>4, <1>5, <1>6, <1>7 DEF Next

\* A handler closes no descriptor but its own, as long as the process runs.
THEOREM DescriptorsOwned == Spec => []HandlerOwnsFd
<1>1. Init => HandlerOwnsFd
  BY DEF Init, HandlerOwnsFd
<1>2. TypeOK /\ HandlerOwnsFd /\ [Next]_vars => HandlerOwnsFd'
  BY FdStep
<1> QED
  BY <1>1, <1>2, TypeCorrect, PTL DEF Spec
=============================================================================
