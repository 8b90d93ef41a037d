----------------------------- MODULE AgentTurn -----------------------------
(***************************************************************************)
(* One hosted Agent of zvmh (src/agent.cpp): run_turn on its turn thread,  *)
(* and what the client's handler thread does to the same Agent meanwhile:  *)
(* cancel, clear, auth_set and the delivery of swarm notices.              *)
(*                                                                         *)
(* The history keeps the shape of messages_ and not their texts.  The      *)
(* model's answer is its number of tool calls; a tool's result is opaque.  *)
(***************************************************************************)
EXTENDS Naturals, Sequences

CONSTANTS
    MaxSteps,    \* max_steps, 10 in the code
    MaxCalls,    \* tool calls in one answer (bound)
    InboxCap,    \* notices the inbox holds, 64 in the code
    HistoryCap   \* prompts are sent while the history is shorter (bound)

ASSUME BoundsAssumption ==
    MaxSteps \in Nat \ {0} /\ MaxCalls \in Nat /\ InboxCap \in Nat /\ HistoryCap \in Nat

VARIABLES
    pc,          \* what the turn thread does next; "idle" when there is none
    slotBusy,    \* the slot's busy flag
    messages,    \* messages_
    start,       \* history_start
    step,        \* the loop counter of run_turn
    pending,     \* tool calls of the last answer that have no result yet
    rc,          \* result of the last turn
    requested,   \* cancel_requested_
    provider,    \* an API key is set, so provider_ is not null
    aborting,    \* the provider's cancellation_state_
    cancelling,  \* the handler is inside Agent::cancel_turn, under mu_
    inbox,       \* number of notices in swarm_inbox_
    asked        \* observation: a cancel was accepted during this turn

thread    == <<slotBusy, start, step, pending, rc>>
cancel    == <<requested, aborting, cancelling, asked>>
agentVars == <<pc, thread, messages, cancel, provider, inbox>>

OK == 0
Failed == 1
kCancelled == 2

\* A user prompt with n notices, an answer with n calls, a tool result.
Message == [kind : {"prompt", "answer", "result"}, n : Nat]
Prompt(n) == [kind |-> "prompt", n |-> n]
Answer(n) == [kind |-> "answer", n |-> n]
ToolResult == [kind |-> "result", n |-> 0]

AgentTypeOK ==
    /\ pc \in {"idle", "start", "clear", "drain", "system", "call", "wait",
               "tools", "end", "over", "told"}
    /\ slotBusy \in BOOLEAN
    /\ messages \in Seq(Message)
    /\ start \in Nat
    /\ step \in 0 .. MaxSteps
    /\ pending \in 0 .. MaxCalls
    /\ rc \in {OK, Failed, kCancelled}
    /\ requested \in BOOLEAN /\ provider \in BOOLEAN /\ aborting \in BOOLEAN
    /\ cancelling \in BOOLEAN /\ asked \in BOOLEAN
    /\ inbox \in 0 .. InboxCap

AgentInit ==
    /\ pc = "idle" /\ slotBusy = FALSE
    /\ messages = <<>> /\ start = 0 /\ step = 0 /\ pending = 0 /\ rc = OK
    /\ requested = FALSE /\ aborting = FALSE /\ cancelling = FALSE /\ asked = FALSE
    /\ provider \in BOOLEAN
    /\ inbox = 0

-----------------------------------------------------------------------------
(* The turn thread: schedule_prompt's lambda and Agent::run_turn. *)

\* The handler marks the slot busy and starts the thread.
PromptScheduled ==
    /\ ~slotBusy /\ pc = "idle" /\ ~cancelling
    /\ Len(messages) < HistoryCap
    /\ slotBusy' = TRUE
    /\ pc' = "start"
    /\ asked' = FALSE
    /\ UNCHANGED <<start, step, pending, rc, messages, requested, aborting,
                   cancelling, provider, inbox>>

\* Without an API key the thread only warns.
NoProvider ==
    /\ pc = "start" /\ ~provider
    /\ pc' = "over"
    /\ rc' = Failed
    /\ UNCHANGED <<slotBusy, start, step, pending, messages, cancel, provider, inbox>>

\* A bug: the flag of the previous turn survives.
KeepCancel ==
    /\ pc = "start" /\ provider
    /\ start' = Len(messages)
    /\ pc' = "clear"
    /\ UNCHANGED <<slotBusy, step, pending, rc, messages, cancel, provider, inbox>>

\* history_start, and cancel_requested_.store(false).
ResetCancel ==
    /\ pc = "start" /\ provider
    /\ start' = Len(messages)
    /\ requested' = FALSE
    /\ pc' = "clear"
    /\ UNCHANGED <<slotBusy, step, pending, rc, messages, aborting, cancelling, asked,
                   provider, inbox>>

\* provider_->clear_cancel().
ClearProviderCancel ==
    /\ pc = "clear"
    /\ aborting' = FALSE
    /\ pc' = "drain"
    /\ UNCHANGED <<thread, messages, requested, cancelling, asked, provider, inbox>>

\* drain_swarm_text, and the user message with the notices in front.
DrainAndPush ==
    /\ pc = "drain"
    /\ messages' = Append(messages, Prompt(inbox))
    /\ inbox' = 0
    /\ step' = 0
    /\ pending' = 0
    /\ pc' = "system"
    /\ UNCHANGED <<slotBusy, start, rc, cancel, provider>>

\* A bug: the prompt stays behind.
RolledBackToPrompt ==
    IF Len(messages) > start + 1 THEN SubSeq(messages, 1, start + 1) ELSE messages
\* A bug: one message too many goes.
RolledBackTooFar ==
    IF Len(messages) > start /\ start > 0 THEN SubSeq(messages, 1, start - 1) ELSE messages

\* messages_.resize(history_start), unless something shortened the history.
RolledBack == IF Len(messages) > start THEN SubSeq(messages, 1, start) ELSE messages

\* The catch block of run_turn.
Throw ==
    /\ messages' = RolledBack
    /\ rc' = IF requested THEN kCancelled ELSE Failed
    /\ pc' = "over"
    /\ UNCHANGED <<slotBusy, start, step, pending, cancel, provider, inbox>>

\* build_system_prompt returns ...
SystemPrompt ==
    /\ pc = "system"
    /\ pc' = "call"
    /\ UNCHANGED <<thread, messages, cancel, provider, inbox>>

\* ... or throws (a source of the system context is missing its text).
SystemPromptThrows == pc = "system" /\ Throw

\* The head of the step loop, up to the provider request.
Call ==
    /\ pc = "call"
    /\ pc' = IF step < MaxSteps THEN "wait" ELSE "end"
    /\ UNCHANGED <<thread, messages, cancel, provider, inbox>>

\* complete() returned an answer with n tool calls, and no cancel is seen.
Answered(n) ==
    /\ pc = "wait" /\ ~requested
    /\ messages' = Append(messages, Answer(n))
    /\ pending' = n
    /\ IF n = 0 THEN pc' = "over" /\ rc' = OK ELSE pc' = "tools" /\ UNCHANGED rc
    /\ UNCHANGED <<slotBusy, start, step, cancel, provider, inbox>>

\* complete() returned and a cancel is seen: the answer is dropped.
AnswerDropped ==
    /\ pc = "wait" /\ requested
    /\ pc' = "end"
    /\ UNCHANGED <<thread, messages, cancel, provider, inbox>>

\* complete() throws: an error of the request, or it was aborted.
RequestThrows == pc = "wait" /\ Throw

\* A tool runs and its result is recorded, an exception inside it included.
RunTool ==
    /\ pc = "tools" /\ pending > 0 /\ ~requested
    /\ messages' = Append(messages, ToolResult)
    /\ pending' = pending - 1
    /\ UNCHANGED <<pc, slotBusy, start, step, rc, cancel, provider, inbox>>

\* A file_path that is no string throws behind the tool's own try block.
ToolThrows == pc = "tools" /\ pending > 0 /\ ~requested /\ Throw

\* A bug: the loop stops one call short.
AllButOneRan == pending <= 1
AllToolsRan == pending = 0

\* A bug: a cancelled turn waits for calls that will not run any more.
LeavesWhenAllRan == AllToolsRan
LeavesTools == AllToolsRan \/ requested

\* All calls have run, or a cancel was seen: the next step of the loop.  A
\* cancelled loop goes on to another request, which the provider aborts.
ToolsDone ==
    /\ pc = "tools" /\ LeavesTools
    /\ step' = step + 1
    /\ pc' = "call"
    /\ UNCHANGED <<slotBusy, start, pending, rc, messages, cancel, provider, inbox>>

\* Behind the loop: roll back if cancelled, warn about max_steps otherwise.
LoopEnded ==
    /\ pc = "end"
    /\ IF requested
         THEN messages' = RolledBack /\ rc' = kCancelled
         ELSE rc' = Failed /\ UNCHANGED messages
    /\ pc' = "over"
    /\ UNCHANGED <<slotBusy, start, step, pending, cancel, provider, inbox>>

\* ctx and turn_done go to the client ...
SendTurnDone ==
    /\ pc = "over"
    /\ pc' = "told"
    /\ UNCHANGED <<thread, messages, cancel, provider, inbox>>

\* ... and under mu_ the slot is free again.
Release ==
    /\ pc = "told" /\ ~cancelling
    /\ slotBusy' = FALSE
    /\ pc' = "idle"
    /\ UNCHANGED <<start, step, pending, rc, messages, cancel, provider, inbox>>

-----------------------------------------------------------------------------
(* The handler thread.  It holds mu_ from CancelRequest to CancelProvider. *)

\* A cancel frame counts while the slot is busy: cancel_requested_ first, ...
CancelRequest ==
    /\ slotBusy /\ ~cancelling
    /\ requested' = TRUE
    /\ cancelling' = TRUE
    /\ asked' = TRUE
    /\ UNCHANGED <<pc, thread, messages, aborting, provider, inbox>>

\* ... then the provider's flag, if there is a provider.
CancelProvider ==
    /\ cancelling
    /\ aborting' = (provider \/ aborting)
    /\ cancelling' = FALSE
    /\ UNCHANGED <<pc, thread, messages, requested, asked, provider, inbox>>

\* Clients send clear and auth_set between turns (module RemoteTurn): they
\* have seen turn_done, and the slot may or may not be free yet.
BetweenTurns == pc \in {"idle", "told"} /\ ~cancelling

ClearMessages ==
    /\ BetweenTurns
    /\ messages' = <<>>
    /\ UNCHANGED <<pc, thread, cancel, provider, inbox>>

\* set_provider: the fresh provider has a fresh cancellation flag.
SetProvider ==
    /\ BetweenTurns
    /\ provider' = TRUE
    /\ aborting' = FALSE
    /\ UNCHANGED <<pc, thread, messages, requested, cancelling, asked, inbox>>

\* A bug: the inbox is not bounded.
InboxAlwaysHasRoom == TRUE
InboxHasRoom == inbox < InboxCap

\* The swarm handler, under mu_: a full inbox drops the notice.
Deliver ==
    /\ ~cancelling
    /\ InboxHasRoom
    /\ inbox' = inbox + 1
    /\ UNCHANGED <<pc, thread, messages, cancel, provider>>

-----------------------------------------------------------------------------
TurnThread ==
    \/ NoProvider \/ ResetCancel \/ ClearProviderCancel \/ DrainAndPush
    \/ SystemPrompt \/ SystemPromptThrows \/ Call
    \/ (\E n \in 0 .. MaxCalls : Answered(n)) \/ AnswerDropped \/ RequestThrows
    \/ RunTool \/ ToolThrows \/ ToolsDone \/ LoopEnded \/ SendTurnDone \/ Release

HandlerThread ==
    \/ PromptScheduled \/ CancelRequest \/ CancelProvider
    \/ ClearMessages \/ SetProvider \/ Deliver

AgentNext == TurnThread \/ HandlerThread

AgentSpec == AgentInit /\ [][AgentNext]_agentVars

\* The turn thread runs, and complete() and the tools return, which is all a
\* client without a cancel can count on.  The handler leaves its critical
\* section, and no stream of cancels keeps the turn thread from mu_ for good.
AgentFairness ==
    WF_agentVars(TurnThread) /\ WF_agentVars(CancelProvider) /\ SF_agentVars(Release)

FairAgentSpec == AgentSpec /\ AgentFairness

-----------------------------------------------------------------------------
InLoop == pc \in {"clear", "drain", "system", "call", "wait", "tools", "end"}

\* Every tool call of an answer is followed by its result ...
CallsHaveResults(m) ==
    \A k \in DOMAIN m : m[k].kind = "answer" =>
        /\ k + m[k].n <= Len(m)
        /\ \A j \in 1 .. m[k].n : m[k + j].kind = "result"
\* ... and every result belongs to a call.
ResultsHaveCalls(m) ==
    \A k \in DOMAIN m : m[k].kind = "result" =>
        \E j \in 1 .. (k - 1) : m[j].kind = "answer" /\ k <= j + m[j].n

\* However a turn ends (answer, step limit, error, cancel in any state), the
\* history it leaves has no tool call without a result and no prompt without
\* an answer (agent.cpp 425-441): the next request would be refused.
HistoryAnswered ==
    ~InLoop => /\ CallsHaveResults(messages)
               /\ messages # <<>> => messages[Len(messages)].kind # "prompt"

\* The provider is asked with a well-formed history, unless the request is
\* one that a cancel is about to abort.
RequestWellFormed ==
    pc = "wait" /\ ~requested => CallsHaveResults(messages) /\ ResultsHaveCalls(messages)

\* A turn never touches what earlier turns recorded, and a cancelled turn
\* leaves nothing of its own (agent.h 66-67, agent.cpp 425-431).
TurnKeepsHistory ==
    [][InLoop => /\ Len(messages') >= start
                 /\ SubSeq(messages', 1, start) = SubSeq(messages, 1, start)
                 /\ pc' = "over" /\ rc' = kCancelled => Len(messages') = start]_agentVars

\* A turn reports kCancelled only if its client cancelled this very turn: a
\* cancel that arrives as a turn ends does not leak into the next one
\* (agent.cpp 322-325).
CancelOnlyIfAsked ==
    pc \in {"over", "told"} /\ rc = kCancelled => asked

\* Every turn comes to an end and frees the slot, within MaxSteps requests.
TurnsEnd == slotBusy ~> ~slotBusy

\* server.cpp 514-516: a cancel of a busy slot "flips the atomic and aborts the
\* provider's in-flight request, so the turn thread returns": once accepted, the
\* flag stands as long as the turn runs.
CancelHeard == InLoop /\ asked => requested
=============================================================================
