-------------------------- MODULE AgentTurnProofs --------------------------
(* Theorems about AgentTurn, for every bound on steps, calls and notices. *)
EXTENDS AgentTurn, TLAPS

ControlOK ==
    /\ pc \in {"wait", "tools"} => step < MaxSteps
    /\ pc = "end" => step = MaxSteps \/ requested

LEMMA EmptySeq == <<>> \in Seq(Message)
  OBVIOUS

LEMMA TypeStep ==
    ASSUME AgentTypeOK, ControlOK, [AgentNext]_agentVars
    PROVE  AgentTypeOK' /\ ControlOK'
<1> USE BoundsAssumption DEF AgentTypeOK, ControlOK, thread, cancel, OK, Failed, kCancelled
<1>1. CASE NoProvider \/ ResetCancel \/ ClearProviderCancel
  <2>1. CASE NoProvider
    BY <2>1 DEF NoProvider
  <2>2. CASE ResetCancel
    <3>1. start' \in Nat
      BY <2>2 DEF ResetCancel
    <3> QED
      BY <2>2, <3>1 DEF ResetCancel
  <2>3. CASE ClearProviderCancel
    BY <2>3 DEF ClearProviderCancel
  <2> QED
    BY <1>1, <2>1, <2>2, <2>3
<1>2. CASE DrainAndPush
  <2>1. Prompt(inbox) \in Message
    BY DEF Prompt, Message
  <2>2. messages' \in Seq(Message)
    BY <1>2, <2>1 DEF DrainAndPush
  <2> QED
    BY <1>2, <2>2 DEF DrainAndPush
<1>3. ASSUME Throw, pc \notin {"idle", "told"} PROVE AgentTypeOK' /\ ControlOK'
  <2>1. messages' \in Seq(Message)
    BY <1>3 DEF Throw, RolledBack
  <2> QED
    BY <1>3, <2>1 DEF Throw
<1>4. CASE SystemPrompt \/ Call \/ AnswerDropped
  BY <1>4 DEF SystemPrompt, Call, AnswerDropped
<1>5. ASSUME NEW n \in 0 .. MaxCalls, Answered(n) PROVE AgentTypeOK' /\ ControlOK'
  <2>1. Answer(n) \in Message
    BY DEF Answer, Message
  <2>2. messages' \in Seq(Message)
    BY <1>5, <2>1 DEF Answered
  <2> QED
    BY <1>5, <2>2 DEF Answered
<1>6. CASE RunTool
  <2>1. ToolResult \in Message
    BY DEF ToolResult, Message
  <2>2. messages' \in Seq(Message)
    BY <1>6, <2>1 DEF RunTool
  <2> QED
    BY <1>6, <2>2 DEF RunTool
<1>7. CASE ToolsDone
  BY <1>7 DEF ToolsDone
<1>8. CASE LoopEnded
  <2>1. messages' \in Seq(Message)
    BY <1>8 DEF LoopEnded, RolledBack
  <2> QED
    BY <1>8, <2>1 DEF LoopEnded
<1>9. CASE SendTurnDone \/ Release
  BY <1>9 DEF SendTurnDone, Release
<1>10. CASE PromptScheduled \/ CancelRequest \/ CancelProvider
  BY <1>10 DEF PromptScheduled, CancelRequest, CancelProvider
<1>11. CASE ClearMessages \/ SetProvider \/ Deliver
  <2>1. CASE ClearMessages
    BY <2>1, EmptySeq DEF ClearMessages, BetweenTurns
  <2>2. CASE SetProvider
    BY <2>2 DEF SetProvider, BetweenTurns
  <2>3. CASE Deliver
    BY <2>3 DEF Deliver, InboxHasRoom
  <2> QED
    BY <1>11, <2>1, <2>2, <2>3
<1>12. CASE UNCHANGED agentVars
  BY <1>12 DEF agentVars
<1> QED
  BY <1>1, <1>2, <1>3, <1>4, <1>5, <1>6, <1>7, <1>8, <1>9, <1>10, <1>11, <1>12
     DEF AgentNext, TurnThread, HandlerThread, SystemPromptThrows, RequestThrows, ToolThrows

LEMMA Typing == AgentSpec => [](AgentTypeOK /\ ControlOK)
<1>1. AgentInit => AgentTypeOK /\ ControlOK
  <2> SUFFICES ASSUME AgentInit PROVE AgentTypeOK /\ ControlOK
    OBVIOUS
  <2>1. messages \in Seq(Message)
    BY EmptySeq DEF AgentInit
  <2>2. start \in Nat /\ step \in 0 .. MaxSteps /\ pending \in 0 .. MaxCalls /\ inbox \in 0 .. InboxCap
    BY BoundsAssumption DEF AgentInit
  <2> QED
    BY <2>1, <2>2 DEF AgentInit, AgentTypeOK, ControlOK, OK, Failed, kCancelled
<1> QED
  BY <1>1, TypeStep, PTL DEF AgentSpec

\* Every variable keeps its range: at most InboxCap notices wait, and no turn
\* asks the provider more than MaxSteps times.
THEOREM TypeCorrect == AgentSpec => []AgentTypeOK
  BY Typing, PTL

-----------------------------------------------------------------------------
(***************************************************************************)
(* The history.  Between turns it is well formed; inside a turn it is      *)
(* well formed up to the calls still open, and its first `start` messages  *)
(* are a well-formed history of their own, to which a rollback returns.    *)
(***************************************************************************)
Open == IF pc \in {"call", "wait", "tools", "end"} THEN pending ELSE 0

ResultsFollow ==
    \A k \in 1 .. Len(messages) : messages[k].kind = "answer" =>
        \A j \in 1 .. messages[k].n :
            k + j <= Len(messages) => messages[k + j].kind = "result"
CallsClosed ==
    \A k \in 1 .. Len(messages) :
        messages[k].kind = "answer" => k + messages[k].n <= Len(messages) + Open
StartClosed ==
    InLoop =>
        /\ start <= Len(messages)
        /\ \A k \in 1 .. start : messages[k].kind = "answer" => k + messages[k].n <= start
        /\ start > 0 => messages[start].kind # "prompt"
OpenOnlyIfCancelled ==
    /\ pc \in {"call", "wait", "end"} /\ pending > 0 => requested
    /\ pc = "system" => pending = 0 /\ step = 0
\* Something came back for the last prompt, or there is no open prompt.
Settled ==
    \/ ~InLoop
    \/ pc = "tools"
    \/ pc \in {"call", "wait", "end"} /\ step > 0
PromptAnswered ==
    (Settled /\ Len(messages) > 0) => messages[Len(messages)].kind # "prompt"

HistoryInv ==
    ResultsFollow /\ CallsClosed /\ StartClosed /\ OpenOnlyIfCancelled /\ PromptAnswered

LEMMA CallCounts ==
    ASSUME AgentTypeOK
    PROVE  \A k \in 1 .. Len(messages) : messages[k].n \in Nat
<1>1. \A k \in 1 .. Len(messages) : messages[k] \in Message
  BY DEF AgentTypeOK
<1> QED
  BY <1>1 DEF Message

\* A rollback inside a turn gives back the history the turn started from.
LEMMA RollBack ==
    ASSUME AgentTypeOK, HistoryInv, InLoop, messages' = RolledBack, pc' = "over"
    PROVE  HistoryInv' /\ Len(messages') = start
<1> USE DEF AgentTypeOK, InLoop, Settled
<1>1. start \in Nat /\ start <= Len(messages)
  BY DEF HistoryInv, StartClosed
<1>2. messages' = SubSeq(messages, 1, start)
  BY <1>1 DEF RolledBack
<1>3. Len(messages') = start
  BY <1>1, <1>2
<1>4. \A k \in 1 .. start : messages'[k] = messages[k]
  BY <1>1, <1>2
<1>5. \A k \in 1 .. start : messages[k].n \in Nat
  BY <1>1, CallCounts
<1>6. ResultsFollow'
  <2>1. \A k \in 1 .. start : messages[k].kind = "answer" =>
          \A j \in 1 .. messages[k].n :
            k + j <= start => k + j \in 1 .. start /\ messages[k + j].kind = "result"
    BY ONLY HistoryInv, <1>1, <1>5 DEF HistoryInv, ResultsFollow
  <2> QED
    BY ONLY <1>1, <1>3, <1>4, <2>1 DEF ResultsFollow
<1>7. CallsClosed'
  BY <1>1, <1>3, <1>4, <1>5 DEF HistoryInv, StartClosed, CallsClosed, Open
<1>8. (StartClosed /\ OpenOnlyIfCancelled /\ PromptAnswered)'
  BY <1>1, <1>3, <1>4 DEF HistoryInv, StartClosed, OpenOnlyIfCancelled, PromptAnswered
<1> QED
  BY <1>3, <1>6, <1>7, <1>8 DEF HistoryInv

\* A step that leaves messages_ alone and opens no call.
LEMMA Untouched ==
    ASSUME HistoryInv, UNCHANGED messages, Open' = Open
    PROVE  ResultsFollow' /\ CallsClosed'
  BY DEF HistoryInv, ResultsFollow, CallsClosed

LEMMA HistoryStep ==
    ASSUME AgentTypeOK, ControlOK, HistoryInv, [AgentNext]_agentVars
    PROVE  HistoryInv'
<1> USE BoundsAssumption DEF AgentTypeOK, InLoop, Settled, thread, cancel
<1>0. \A k \in 1 .. Len(messages) : messages[k].n \in Nat
  BY CallCounts
<1>1. CASE NoProvider
  BY <1>1, Untouched DEF NoProvider, HistoryInv, StartClosed, OpenOnlyIfCancelled,
     PromptAnswered, Open
<1>2. CASE ResetCancel
  <2>1. /\ UNCHANGED messages /\ pc = "start" /\ pc' = "clear"
        /\ start' = Len(messages) /\ Open = 0 /\ Open' = 0
    BY <1>2 DEF ResetCancel, Open
  <2>2. (ResultsFollow /\ CallsClosed)'
    BY <2>1, Untouched
  <2>3. StartClosed'
    BY <2>1, <1>0 DEF HistoryInv, CallsClosed, PromptAnswered, StartClosed
  <2>4. (OpenOnlyIfCancelled /\ PromptAnswered)'
    BY <2>1 DEF OpenOnlyIfCancelled, PromptAnswered
  <2> QED
    BY <2>2, <2>3, <2>4 DEF HistoryInv
<1>3. CASE ClearProviderCancel
  BY <1>3, Untouched DEF ClearProviderCancel, HistoryInv, StartClosed,
     OpenOnlyIfCancelled, PromptAnswered, Open
<1>4. CASE DrainAndPush
  <2>1. /\ Len(messages') = Len(messages) + 1
        /\ messages'[Len(messages) + 1].kind = "prompt"
        /\ \A k \in 1 .. Len(messages) : messages'[k] = messages[k]
    BY <1>4 DEF DrainAndPush, Prompt, Message
  <2>2. (ResultsFollow /\ CallsClosed)'
    BY <1>4, <2>1, <1>0 DEF DrainAndPush, HistoryInv, ResultsFollow, CallsClosed, Open
  <2>3. (StartClosed /\ OpenOnlyIfCancelled /\ PromptAnswered)'
    BY <1>4, <2>1 DEF DrainAndPush, HistoryInv, StartClosed, OpenOnlyIfCancelled,
       PromptAnswered
  <2> QED
    BY <2>2, <2>3 DEF HistoryInv
<1>5. ASSUME InLoop, Throw PROVE HistoryInv'
  BY <1>5, RollBack DEF Throw
<1>6. CASE SystemPrompt \/ Call \/ AnswerDropped
  BY <1>6, Untouched DEF SystemPrompt, Call, AnswerDropped, ControlOK, HistoryInv,
     StartClosed, OpenOnlyIfCancelled, PromptAnswered, Open
<1>7. ASSUME NEW n \in 0 .. MaxCalls, Answered(n) PROVE HistoryInv'
  <2>1. /\ Len(messages') = Len(messages) + 1
        /\ messages'[Len(messages) + 1] = Answer(n)
        /\ \A k \in 1 .. Len(messages) : messages'[k] = messages[k]
    BY <1>7 DEF Answered, Answer, Message
  <2>2. pending = 0
    BY <1>7 DEF Answered, HistoryInv, OpenOnlyIfCancelled
  <2>3. (ResultsFollow /\ CallsClosed)'
    BY <1>7, <2>1, <2>2, <1>0
       DEF Answered, HistoryInv, ResultsFollow, CallsClosed, Open, Answer
  <2>4. (StartClosed /\ OpenOnlyIfCancelled /\ PromptAnswered)'
    BY <1>7, <2>1 DEF Answered, HistoryInv, StartClosed, OpenOnlyIfCancelled,
       PromptAnswered, Answer
  <2> QED
    BY <2>3, <2>4 DEF HistoryInv
<1>8. CASE RunTool
  <2>1. /\ Len(messages') = Len(messages) + 1
        /\ messages'[Len(messages) + 1] = ToolResult
        /\ \A k \in 1 .. Len(messages) : messages'[k] = messages[k]
    BY <1>8 DEF RunTool, ToolResult, Message
  <2>2. (ResultsFollow /\ CallsClosed)'
    BY <1>8, <2>1, <1>0
       DEF RunTool, HistoryInv, ResultsFollow, CallsClosed, Open, ToolResult
  <2>3. (StartClosed /\ OpenOnlyIfCancelled /\ PromptAnswered)'
    BY <1>8, <2>1 DEF RunTool, HistoryInv, StartClosed, OpenOnlyIfCancelled,
       PromptAnswered, ToolResult
  <2> QED
    BY <2>2, <2>3 DEF HistoryInv
<1>9. CASE ToolsDone
  <2>1. /\ UNCHANGED <<messages, pending, start, requested>> /\ Open' = Open
        /\ pc = "tools" /\ pc' = "call" /\ (pending > 0 => requested)
    BY <1>9 DEF ToolsDone, LeavesTools, AllToolsRan, Open
  <2>2. (ResultsFollow /\ CallsClosed)'
    BY <2>1, Untouched
  <2>3. (StartClosed /\ OpenOnlyIfCancelled /\ PromptAnswered)'
    BY <2>1 DEF HistoryInv, StartClosed, OpenOnlyIfCancelled, PromptAnswered
  <2> QED
    BY <2>2, <2>3 DEF HistoryInv
<1>10. CASE LoopEnded
  <2>1. CASE requested
    BY <1>10, <2>1, RollBack DEF LoopEnded
  <2>2. CASE ~requested
    BY <1>10, <2>2, Untouched DEF LoopEnded, ControlOK, HistoryInv, StartClosed,
       OpenOnlyIfCancelled, PromptAnswered, Open
  <2> QED
    BY <2>1, <2>2
<1>11. CASE SendTurnDone \/ Release \/ PromptScheduled
  BY <1>11, Untouched DEF SendTurnDone, Release, PromptScheduled, HistoryInv, StartClosed,
     OpenOnlyIfCancelled, PromptAnswered, Open
<1>12. CASE CancelRequest \/ CancelProvider \/ SetProvider \/ Deliver
  BY <1>12, Untouched DEF CancelRequest, CancelProvider, SetProvider, Deliver, HistoryInv,
     StartClosed, OpenOnlyIfCancelled, PromptAnswered, Open
<1>13. CASE ClearMessages
  BY <1>13 DEF ClearMessages, BetweenTurns, HistoryInv, ResultsFollow, CallsClosed,
     StartClosed, OpenOnlyIfCancelled, PromptAnswered
<1>14. CASE UNCHANGED agentVars
  BY <1>14, Untouched DEF agentVars, HistoryInv, StartClosed, OpenOnlyIfCancelled,
     PromptAnswered, Open
<1> QED
  BY <1>1, <1>2, <1>3, <1>4, <1>5, <1>6, <1>7, <1>8, <1>9, <1>10, <1>11, <1>12, <1>13, <1>14
     DEF AgentNext, TurnThread, HandlerThread, SystemPromptThrows, RequestThrows, ToolThrows

LEMMA HistoryInvariant == AgentSpec => []HistoryInv
<1>1. AgentInit => HistoryInv
  BY DEF AgentInit, HistoryInv, ResultsFollow, CallsClosed, StartClosed, OpenOnlyIfCancelled,
     PromptAnswered, InLoop, Settled
<1> QED
  BY <1>1, HistoryStep, Typing, PTL DEF AgentSpec

\* However its turns ended, the history between turns is well formed.
THEOREM HistoryStaysAnswered == AgentSpec => []HistoryAnswered
<1>1. AgentTypeOK /\ HistoryInv => HistoryAnswered
  <2> SUFFICES ASSUME AgentTypeOK, HistoryInv, ~InLoop
               PROVE  /\ CallsHaveResults(messages)
                      /\ messages # <<>> => messages[Len(messages)].kind # "prompt"
    BY DEF HistoryAnswered
  <2>1. DOMAIN messages = 1 .. Len(messages) /\ Open = 0
    BY DEF AgentTypeOK, InLoop, Open
  <2>2. \A k \in 1 .. Len(messages) : messages[k].n \in Nat
    BY CallCounts
  <2>3. CallsHaveResults(messages)
    BY <2>1, <2>2 DEF AgentTypeOK, HistoryInv, ResultsFollow, CallsClosed, CallsHaveResults
  <2>4. messages # <<>> => Len(messages) > 0
    BY DEF AgentTypeOK
  <2>5. Len(messages) > 0 => messages[Len(messages)].kind # "prompt"
    BY DEF HistoryInv, PromptAnswered, Settled
  <2> QED
    BY <2>3, <2>4, <2>5
<1> QED
  BY <1>1, HistoryInvariant, Typing, PTL

LEMMA KeepsHistoryStep ==
    ASSUME AgentTypeOK, HistoryInv, AgentNext, InLoop
    PROVE  /\ Len(messages') >= start
           /\ SubSeq(messages', 1, start) = SubSeq(messages, 1, start)
           /\ (pc' = "over" /\ rc' = kCancelled) => Len(messages') = start
<1> USE DEF InLoop
<1>1. start \in Nat /\ start <= Len(messages) /\ messages \in Seq(Message)
  BY DEF AgentTypeOK, HistoryInv, StartClosed
<1>2. CASE UNCHANGED messages /\ pc' # "over"
  BY <1>1, <1>2
<1>3. ASSUME messages' = RolledBack
      PROVE  Len(messages') = start /\ SubSeq(messages', 1, start) = SubSeq(messages, 1, start)
  <2>1. messages' = SubSeq(messages, 1, start)
    BY <1>1, <1>3 DEF RolledBack
  <2> QED
    BY <1>1, <2>1
<1>4. ASSUME NEW m \in Message, messages' = Append(messages, m),
             ~ (pc' = "over" /\ rc' = kCancelled)
      PROVE  /\ Len(messages') >= start
             /\ SubSeq(messages', 1, start) = SubSeq(messages, 1, start)
             /\ (pc' = "over" /\ rc' = kCancelled) => Len(messages') = start
  BY <1>1, <1>4
<1>5. CASE Throw
  BY <1>1, <1>3, <1>5 DEF Throw
<1>6. CASE DrainAndPush
  <2>1. Prompt(inbox) \in Message
    BY DEF AgentTypeOK, Prompt, Message
  <2> QED
    BY <1>4, <1>6, <2>1 DEF DrainAndPush
<1>7. ASSUME NEW n \in 0 .. MaxCalls, Answered(n)
      PROVE  /\ messages' = Append(messages, Answer(n)) /\ Answer(n) \in Message
             /\ ~ (pc' = "over" /\ rc' = kCancelled)
  BY <1>7, BoundsAssumption DEF Answered, Answer, Message, OK, kCancelled
<1>8. CASE RunTool
  <2>1. ToolResult \in Message
    BY DEF ToolResult, Message
  <2> QED
    BY <1>4, <1>8, <2>1 DEF RunTool
<1>9. CASE LoopEnded
  BY <1>1, <1>3, <1>9 DEF LoopEnded, Failed, kCancelled
<1>10. CASE ClearProviderCancel \/ SystemPrompt \/ Call \/ AnswerDropped \/ ToolsDone
  BY <1>2, <1>10 DEF ClearProviderCancel, SystemPrompt, Call, AnswerDropped, ToolsDone
<1>11. CASE CancelRequest \/ CancelProvider \/ Deliver
  BY <1>2, <1>11 DEF CancelRequest, CancelProvider, Deliver
<1>12. ~ (NoProvider \/ ResetCancel \/ SendTurnDone \/ Release
          \/ PromptScheduled \/ ClearMessages \/ SetProvider)
  BY DEF NoProvider, ResetCancel, SendTurnDone, Release, PromptScheduled, ClearMessages,
     SetProvider, BetweenTurns
<1> QED
  BY <1>4, <1>5, <1>6, <1>7, <1>8, <1>9, <1>10, <1>11, <1>12
     DEF AgentNext, TurnThread, HandlerThread, SystemPromptThrows, RequestThrows, ToolThrows

\* No step of a turn changes the history before it, and a turn that ends
\* kCancelled has put the history back.
THEOREM TurnsKeepHistory == AgentSpec => TurnKeepsHistory
<1>1. AgentTypeOK /\ HistoryInv /\ [AgentNext]_agentVars =>
        [InLoop => /\ Len(messages') >= start
                   /\ SubSeq(messages', 1, start) = SubSeq(messages, 1, start)
                   /\ pc' = "over" /\ rc' = kCancelled => Len(messages') = start]_agentVars
  BY KeepsHistoryStep
<1> QED
  BY <1>1, HistoryInvariant, Typing, PTL DEF AgentSpec, TurnKeepsHistory

-----------------------------------------------------------------------------
(***************************************************************************)
(* The other half of a well-formed request: no result without its call.    *)
(* While calls are open, the last messages belong to the answer that made  *)
(* them, so the next result has its call as well.                          *)
(***************************************************************************)
OpenAnswer ==
    Open > 0 => \E j \in 1 .. Len(messages) :
        messages[j].kind = "answer" /\ j + messages[j].n = Len(messages) + Open

ResultsInv == ResultsHaveCalls(messages) /\ OpenAnswer

LEMMA ResultsUntouched ==
    ASSUME ResultsInv, UNCHANGED messages, Open' = Open \/ Open' = 0
    PROVE  ResultsInv'
  BY DEF ResultsInv, ResultsHaveCalls, OpenAnswer, Open

\* A shorter history keeps, for each result in it, the call in front of it.
LEMMA ResultsAfterRollBack ==
    ASSUME AgentTypeOK, ResultsInv, messages' = RolledBack, pc' = "over"
    PROVE  ResultsInv'
<1>1. CASE Len(messages) > start
  <2>1. /\ messages' = SubSeq(messages, 1, start) /\ start \in Nat
        /\ Len(messages') = start /\ DOMAIN messages' = 1 .. start
        /\ DOMAIN messages = 1 .. Len(messages)
        /\ \A k \in 1 .. start : messages'[k] = messages[k]
    BY <1>1 DEF AgentTypeOK, RolledBack
  <2>2. ASSUME NEW k \in 1 .. start, messages'[k].kind = "result"
        PROVE  \E j \in 1 .. (k - 1) :
                 messages'[j].kind = "answer" /\ k <= j + messages'[j].n
    <3>1. PICK j \in 1 .. (k - 1) : messages[j].kind = "answer" /\ k <= j + messages[j].n
      BY <1>1, <2>1, <2>2 DEF ResultsInv, ResultsHaveCalls, AgentTypeOK
    <3>2. j \in 1 .. start
      BY <2>1, <3>1
    <3> QED
      BY <2>1, <3>1, <3>2
  <2> QED
    BY <2>1, <2>2 DEF ResultsInv, ResultsHaveCalls, OpenAnswer, Open
<1>2. CASE ~ (Len(messages) > start)
  BY <1>2, ResultsUntouched DEF RolledBack, Open
<1> QED
  BY <1>1, <1>2

\* What a message m at the end may be.
LEMMA ResultsAfterAppend ==
    ASSUME AgentTypeOK, ResultsInv, NEW m \in Message, messages' = Append(messages, m),
           m.kind = "result" => Open > 0
    PROVE  ResultsHaveCalls(messages)'
<1> DEFINE L == Len(messages)
<1>1. /\ L \in Nat /\ DOMAIN messages = 1 .. L /\ DOMAIN messages' = 1 .. (L + 1)
      /\ messages'[L + 1] = m /\ \A k \in 1 .. L : messages'[k] = messages[k]
  BY DEF AgentTypeOK
<1>2. \A k \in 1 .. L : messages[k].n \in Nat
  BY CallCounts
<1> SUFFICES ASSUME NEW k \in 1 .. (L + 1), messages'[k].kind = "result"
             PROVE  \E j \in 1 .. (k - 1) :
                      messages'[j].kind = "answer" /\ k <= j + messages'[j].n
  BY <1>1 DEF ResultsHaveCalls
<1>3. CASE k \in 1 .. L
  <2>1. PICK j \in 1 .. (k - 1) : messages[j].kind = "answer" /\ k <= j + messages[j].n
    BY <1>1, <1>3 DEF ResultsInv, ResultsHaveCalls
  <2>2. j \in 1 .. L
    BY <1>1, <1>3, <2>1
  <2> QED
    BY <1>1, <2>1, <2>2
<1>4. CASE k = L + 1
  <2>1. Open > 0
    BY <1>1, <1>4
  <2>2. PICK j \in 1 .. L : messages[j].kind = "answer" /\ j + messages[j].n = L + Open
    BY <2>1 DEF ResultsInv, OpenAnswer
  <2>3. Open \in Nat /\ messages[j].n \in Nat
    BY <1>2 DEF Open, AgentTypeOK
  <2>4. k <= j + messages[j].n /\ j \in 1 .. (k - 1)
    BY <1>1, <1>4, <2>1, <2>2, <2>3
  <2> QED
    BY <1>1, <2>2, <2>4
<1> QED
  BY <1>1, <1>3, <1>4

LEMMA ResultsStep ==
    ASSUME AgentTypeOK, HistoryInv, ResultsInv, [AgentNext]_agentVars
    PROVE  ResultsInv'
<1> USE BoundsAssumption DEF thread, cancel
<1>1. CASE NoProvider \/ ResetCancel \/ ClearProviderCancel
  BY <1>1, ResultsUntouched DEF NoProvider, ResetCancel, ClearProviderCancel, Open
<1>2. CASE DrainAndPush
  <2>1. Prompt(inbox) \in Message /\ Prompt(inbox).kind # "result"
    BY DEF AgentTypeOK, Prompt, Message
  <2> QED
    BY <1>2, <2>1, ResultsAfterAppend DEF DrainAndPush, ResultsInv, OpenAnswer, Open
<1>3. ASSUME Throw PROVE ResultsInv'
  BY <1>3, ResultsAfterRollBack DEF Throw
<1>4. CASE SystemPrompt
  BY <1>4, ResultsUntouched DEF SystemPrompt, HistoryInv, OpenOnlyIfCancelled, Open
<1>5. CASE Call \/ AnswerDropped \/ ToolsDone
  BY <1>5, ResultsUntouched DEF Call, AnswerDropped, ToolsDone, Open
<1>6. ASSUME NEW n \in 0 .. MaxCalls, Answered(n) PROVE ResultsInv'
  <2>1. Answer(n) \in Message /\ Answer(n).kind = "answer" /\ Answer(n).n = n
    BY DEF Answer, Message
  <2>2. messages' = Append(messages, Answer(n)) /\ pending' = n
    BY <1>6 DEF Answered
  <2>3. Len(messages') = Len(messages) + 1 /\ messages'[Len(messages) + 1] = Answer(n)
    BY <2>1, <2>2 DEF AgentTypeOK
  <2>4. OpenAnswer'
    <3> SUFFICES ASSUME (Open > 0)'
                 PROVE  \E j \in 1 .. Len(messages') :
                          messages'[j].kind = "answer" /\ j + messages'[j].n = Len(messages') + Open'
      BY DEF OpenAnswer
    <3>1. Open' = n \/ Open' = 0
      BY <2>2 DEF Open
    <3>2. pc' = "over" \/ pc' = "tools"
      BY <1>6 DEF Answered
    <3>3. Open' = n /\ Len(messages) \in Nat
      BY <3>1, <3>2 DEF Open, AgentTypeOK
    <3>4. Len(messages') + Open' = (Len(messages) + 1) + n
      BY <2>3, <3>3
    <3>5. Len(messages) + 1 \in 1 .. Len(messages')
      BY <2>3, <3>3
    <3> QED
      BY <2>1, <2>3, <3>4, <3>5
  <2> QED
    BY <2>1, <2>2, <2>4, ResultsAfterAppend DEF ResultsInv
<1>7. CASE RunTool
  <2>1. ToolResult \in Message
    BY DEF ToolResult, Message
  <2>2. /\ messages' = Append(messages, ToolResult) /\ Open = pending /\ Open > 0
        /\ Open' = Open - 1 /\ Open \in Nat
    BY <1>7 DEF RunTool, Open, AgentTypeOK
  <2>3. PICK j \in 1 .. Len(messages) :
          messages[j].kind = "answer" /\ j + messages[j].n = Len(messages) + Open
    BY <2>2 DEF ResultsInv, OpenAnswer
  <2>4. /\ Len(messages') = Len(messages) + 1 /\ messages'[j] = messages[j]
        /\ j \in 1 .. Len(messages') /\ Len(messages) \in Nat
    BY <2>1, <2>2, <2>3 DEF AgentTypeOK
  <2>5. Len(messages') + Open' = Len(messages) + Open
    BY <2>2, <2>4
  <2>6. OpenAnswer'
    BY <2>3, <2>4, <2>5 DEF OpenAnswer
  <2> QED
    BY <2>1, <2>2, <2>6, ResultsAfterAppend DEF ResultsInv
<1>8. CASE LoopEnded
  <2>1. CASE requested
    BY <1>8, <2>1, ResultsAfterRollBack DEF LoopEnded
  <2>2. CASE ~requested
    BY <1>8, <2>2, ResultsUntouched DEF LoopEnded, Open
  <2> QED
    BY <2>1, <2>2
<1>9. CASE SendTurnDone \/ Release \/ PromptScheduled
  BY <1>9, ResultsUntouched DEF SendTurnDone, Release, PromptScheduled, Open
<1>10. CASE CancelRequest \/ CancelProvider \/ SetProvider \/ Deliver \/ UNCHANGED agentVars
  BY <1>10, ResultsUntouched
     DEF CancelRequest, CancelProvider, SetProvider, Deliver, agentVars, Open
<1>11. CASE ClearMessages
  BY <1>11 DEF ClearMessages, BetweenTurns, ResultsInv, ResultsHaveCalls, OpenAnswer, Open
<1> QED
  BY <1>1, <1>2, <1>3, <1>4, <1>5, <1>6, <1>7, <1>8, <1>9, <1>10, <1>11
     DEF AgentNext, TurnThread, HandlerThread, SystemPromptThrows, RequestThrows, ToolThrows

\* Every request that can reach the provider carries a history in which calls
\* and results match, whatever earlier turns were cancelled or failed.
THEOREM RequestsAreWellFormed == AgentSpec => []RequestWellFormed
<1>1. AgentInit => ResultsInv
  BY DEF AgentInit, ResultsInv, ResultsHaveCalls, OpenAnswer, Open
<1>2. ASSUME AgentTypeOK, HistoryInv, ResultsInv PROVE RequestWellFormed
  <2> SUFFICES ASSUME pc = "wait", ~requested PROVE CallsHaveResults(messages)
    BY <1>2 DEF RequestWellFormed, ResultsInv
  <2>1. DOMAIN messages = 1 .. Len(messages) /\ Open = 0
    BY <1>2 DEF AgentTypeOK, HistoryInv, OpenOnlyIfCancelled, Open
  <2>2. \A k \in 1 .. Len(messages) : messages[k].n \in Nat
    BY <1>2, CallCounts
  <2> QED
    BY <1>2, <2>1, <2>2 DEF AgentTypeOK, HistoryInv, ResultsFollow, CallsClosed, CallsHaveResults
<1> QED
  BY <1>1, <1>2, ResultsStep, HistoryInvariant, Typing, PTL DEF AgentSpec

-----------------------------------------------------------------------------
(* Cancellation: past the reset, the flag is this turn's own. *)
CancelInv == (InLoop /\ requested => asked) /\ CancelOnlyIfAsked

LEMMA CancelStep ==
    ASSUME CancelInv, [AgentNext]_agentVars
    PROVE  CancelInv'
<1> USE DEF CancelInv, InLoop, CancelOnlyIfAsked, OK, Failed, kCancelled, thread, cancel
<1>1. CASE NoProvider \/ ResetCancel \/ ClearProviderCancel \/ DrainAndPush
  BY <1>1 DEF NoProvider, ResetCancel, ClearProviderCancel, DrainAndPush
<1>2. ASSUME InLoop, Throw PROVE CancelInv'
  BY <1>2 DEF Throw
<1>3. CASE SystemPrompt \/ Call \/ AnswerDropped \/ RunTool \/ ToolsDone
  BY <1>3 DEF SystemPrompt, Call, AnswerDropped, RunTool, ToolsDone
<1>4. ASSUME NEW n \in 0 .. MaxCalls, Answered(n) PROVE CancelInv'
  BY <1>4 DEF Answered
<1>5. CASE LoopEnded \/ SendTurnDone \/ Release
  BY <1>5 DEF LoopEnded, SendTurnDone, Release
<1>6. CASE PromptScheduled \/ CancelRequest \/ CancelProvider
  BY <1>6 DEF PromptScheduled, CancelRequest, CancelProvider
<1>7. CASE ClearMessages \/ SetProvider \/ Deliver \/ UNCHANGED agentVars
  BY <1>7 DEF ClearMessages, SetProvider, Deliver, agentVars
<1> QED
  BY <1>1, <1>2, <1>3, <1>4, <1>5, <1>6, <1>7
     DEF AgentNext, TurnThread, HandlerThread, SystemPromptThrows, RequestThrows, ToolThrows

\* A turn that ends kCancelled was cancelled, and not by an earlier cancel.
THEOREM CancelsDoNotLeak == AgentSpec => []CancelOnlyIfAsked
<1>1. AgentInit => CancelInv
  BY DEF AgentInit, CancelInv, CancelOnlyIfAsked, InLoop
<1>2. CancelInv => CancelOnlyIfAsked
  BY DEF CancelInv
<1> QED
  BY <1>1, <1>2, CancelStep, PTL DEF AgentSpec
=============================================================================
