-------------------------- MODULE RemoteTurnProofs --------------------------
(* Theorems about RemoteTurn, for any number of calls and frames, any        *)
(* capacities of the socket, and with or without a server that stops.        *)
EXTENDS RemoteTurn, TLAPS

-----------------------------------------------------------------------------
(* Sequences, as far as a channel needs them. *)

LEMMA Pushed ==
    ASSUME NEW S, NEW s \in Seq(S), NEW e \in S
    PROVE  /\ Append(s, e) \in Seq(S)
           /\ Len(s) \in Nat /\ Len(Append(s, e)) = Len(s) + 1
           /\ \A k \in 1 .. Len(s) : Append(s, e)[k] = s[k]
           /\ Append(s, e)[Len(s) + 1] = e
  OBVIOUS

LEMMA Popped ==
    ASSUME NEW S, NEW s \in Seq(S), s # <<>>
    PROVE  /\ Tail(s) \in Seq(S)
           /\ Len(s) \in Nat \ {0} /\ Len(Tail(s)) = Len(s) - 1
           /\ \A k \in 1 .. Len(s) - 1 : Tail(s)[k] = s[k + 1]
           /\ Head(s) = s[1] /\ s[1] \in S
  OBVIOUS

-----------------------------------------------------------------------------
(* Types, as far as the other proofs need them. *)

Typed ==
    /\ rpc \in {"none", "called", "checked", "marked", "sending", "waiting", "back"}
    /\ turnRc \in Results /\ trc \in Results
    /\ call \in 0 .. MaxCalls /\ tcall \in 0 .. MaxCalls
    /\ shown \in Nat /\ sent \in 0 .. MaxFrames
    /\ up \in Seq(UpFrame) /\ down \in Seq(DownFrame)
    /\ hpc \in {"loop", "warn", "reject", "removed", "gone"}
    /\ hpc \in {"warn", "reject"} => up # <<>>
    /\ tpc \in {"none", "start", "run", "over", "told"}
    /\ mpc \in {"serve", "collect", "notify", "exited"}

LEMMA FrameTypes ==
    ASSUME Typed
    PROVE  /\ \A t \in {"prompt", "cancel", "clear"} : Frame(t) \in UpFrame
           /\ \A c \in 0 .. MaxCalls : Stream(c) \in DownFrame
           /\ \A c \in 0 .. MaxCalls, r \in Results : TurnDone(c, r) \in DownFrame
           /\ Shutdown \in DownFrame
  BY CapsAssumption DEF Typed, Frame, UpFrame, Stream, TurnDone, Shutdown, DownFrame,
                        Results, OK, Failed, kCancelled

\* What SendTo and Write leave behind.
LEMMA Delivered ==
    ASSUME Typed, NEW f \in DownFrame, SendTo(f)
    PROVE  down' \in Seq(DownFrame)
  BY Pushed DEF Typed, SendTo

LEMMA Written ==
    ASSUME Typed, NEW f \in UpFrame, Write(f)
    PROVE  up' \in Seq(UpFrame) /\ (up # <<>> => up' # <<>>)
<1>1. CASE closed
  BY <1>1 DEF Typed, Write
<1>2. CASE ~closed
  <2>1. up' = Append(up, f) /\ up \in Seq(UpFrame)
    BY <1>2 DEF Typed, Write
  <2>2. up' \in Seq(UpFrame) /\ Len(up') = Len(up) + 1 /\ Len(up) \in Nat
    BY <2>1, Pushed
  <2> QED
    BY <2>2
<1> QED
  BY <1>1, <1>2

LEMMA UpType == ASSUME Typed, up # <<>> PROVE Tail(up) \in Seq(UpFrame) /\ Head(up).call \in 0 .. MaxCalls
<1>1. up \in Seq(UpFrame)
  BY DEF Typed
<1>2. Tail(up) \in Seq(UpFrame) /\ Head(up) \in UpFrame
  BY <1>1, Popped
<1> QED
  BY <1>2 DEF UpFrame

LEMMA DownType == ASSUME Typed, down # <<>> PROVE Tail(down) \in Seq(DownFrame) /\ Head(down).rc \in Results
<1>1. down \in Seq(DownFrame)
  BY DEF Typed
<1>2. Tail(down) \in Seq(DownFrame) /\ Head(down) \in DownFrame
  BY <1>1, Popped
<1> QED
  BY <1>2 DEF DownFrame

LEMMA RunTypes == ASSUME Typed, RunThread PROVE Typed'
<1> USE DEF Typed, Step
<1>1. CASE CheckConnected \/ TakeTurnMu \/ WaitOver \/ SendPromptLost
  BY <1>1 DEF CheckConnected, TakeTurnMu, WaitOver, SendPromptLost, turn, main
<1>2. CASE MarkActive \/ SendPromptFails \/ TurnOver
  BY <1>2 DEF MarkActive, SendPromptFails, TurnOver, turn, main, Results, Failed
<1>3. CASE SendPrompt
  <2>1. up' = Append(up, Frame("prompt")) /\ Frame("prompt") \in UpFrame
    BY <1>3, FrameTypes DEF SendPrompt
  <2>2. up' \in Seq(UpFrame) /\ up' # <<>>
    BY <2>1, Pushed
  <2> QED
    BY <1>3, <2>2 DEF SendPrompt, turn, main
<1> QED
  BY <1>1, <1>2, <1>3 DEF RunThread

LEMMA UiTypes == ASSUME Typed, UiThread PROVE Typed'
<1> USE DEF Typed, Step
<1>1. CASE Submit
  BY <1>1, CapsAssumption DEF Submit, turn, main
<1>2. CASE Clear
  <2>1. up' \in Seq(UpFrame) /\ (up # <<>> => up' # <<>>)
    BY <1>2, FrameTypes, Written DEF Clear
  <2> QED
    BY <1>2, <2>1 DEF Clear, client, turn, main
<1>3. CASE CancelMark
  BY <1>3 DEF CancelMark, turn, main
<1>4. CASE CancelSend
  <2>1. up' \in Seq(UpFrame) /\ (up # <<>> => up' # <<>>)
    BY <1>4, FrameTypes, Written DEF CancelSend
  <2> QED
    BY <1>4, <2>1 DEF CancelSend, turn, main
<1> QED
  BY <1>1, <1>2, <1>3, <1>4 DEF UiThread

LEMMA ReaderTypes == ASSUME Typed, ReaderThread PROVE Typed'
<1> USE DEF Typed
<1>1. ASSUME NEW type, Reads(type) PROVE down' \in Seq(DownFrame) /\ Head(down).rc \in Results
  BY <1>1, DownType DEF Reads
<1>2. CASE ReadStream
  BY <1>1, <1>2 DEF ReadStream, turn, main
<1>3. CASE ReadTurnDone
  BY <1>1, <1>3 DEF ReadTurnDone, turn, main
<1>4. CASE ReadShutdown
  BY <1>1, <1>4 DEF ReadShutdown, turn, main
<1>5. CASE ReadEof
  BY <1>5 DEF ReadEof, turn, main
<1> QED
  BY <1>2, <1>3, <1>4, <1>5 DEF ReaderThread

LEMMA HandlerTypes == ASSUME Typed, HandlerThread PROVE Typed'
<1> USE DEF Typed
<1>1. CASE HandlePrompt
  BY <1>1, UpType DEF HandlePrompt, Receives, client, main
<1>2. CASE RejectPrompt \/ Unregister \/ CloseSocket
  BY <1>2 DEF RejectPrompt, Receives, Unregister, CloseSocket, client, turn, main
<1>3. CASE SendWarning
  <2>1. Stream(Head(up).call) \in DownFrame
    BY <1>3, UpType, FrameTypes DEF SendWarning
  <2>2. down' \in Seq(DownFrame)
    BY <1>3, <2>1, Delivered DEF SendWarning
  <2> QED
    BY <1>3, <2>2 DEF SendWarning, client, turn, main
<1>4. CASE SendRejection
  <2>1. TurnDone(Head(up).call, Failed) \in DownFrame /\ Tail(up) \in Seq(UpFrame)
    BY <1>4, UpType, FrameTypes DEF SendRejection, Results
  <2>2. down' \in Seq(DownFrame)
    BY <1>4, <2>1, Delivered DEF SendRejection
  <2> QED
    BY <1>4, <2>1, <2>2 DEF SendRejection, client, turn, main
<1>5. CASE HandleCancel \/ HandleClear
  BY <1>5, UpType DEF HandleCancel, HandleClear, Receives, client, turn, main
<1> QED
  BY <1>1, <1>2, <1>3, <1>4, <1>5 DEF HandlerThread

LEMMA TurnTypes == ASSUME Typed, TurnThread PROVE Typed'
<1> USE DEF Typed, Turn
<1>1. CASE TurnStarts
  BY <1>1, CapsAssumption DEF TurnStarts, CancelForgotten, client, main
<1>2. CASE Release
  BY <1>2 DEF Release, client, main
<1>3. ASSUME NEW r \in Results, RunTurnReturns(r) PROVE Typed'
  BY <1>3 DEF RunTurnReturns, client, main
<1>4. CASE TurnRefused
  <2>1. down' \in Seq(DownFrame)
    BY <1>4, FrameTypes, Delivered DEF TurnRefused
  <2> QED
    BY <1>4, <2>1 DEF TurnRefused, client, main, Results
<1>5. CASE StreamFrame
  <2>1. down' \in Seq(DownFrame)
    BY <1>5, FrameTypes, Delivered DEF StreamFrame
  <2>2. sent' \in 0 .. MaxFrames
    BY <1>5, CapsAssumption DEF StreamFrame
  <2> QED
    BY <1>5, <2>1, <2>2 DEF StreamFrame, client, main
<1>6. CASE SendTurnDone
  <2>1. down' \in Seq(DownFrame)
    BY <1>6, FrameTypes, Delivered DEF SendTurnDone, LastFrame
  <2> QED
    BY <1>6, <2>1 DEF SendTurnDone, client, main
<1> QED
  BY <1>1, <1>2, <1>3, <1>4, <1>5, <1>6 DEF TurnThread

LEMMA MainTypes == ASSUME Typed, Stop \/ Collect \/ Notify PROVE Typed'
<1> USE DEF Typed
<1>1. CASE Stop \/ Collect
  BY <1>1 DEF Stop, Collect, client, turn
<1>2. CASE Notify
  <2>1. down' \in Seq(DownFrame)
    BY <1>2, FrameTypes, Pushed DEF Notify
  <2> QED
    BY <1>2, <2>1 DEF Notify, client, turn
<1> QED
  BY <1>1, <1>2

LEMMA TypesKept == ASSUME Typed, [Next]_vars PROVE Typed'
<1>1. CASE Offline \/ UNCHANGED vars
  BY <1>1 DEF Offline, vars, client, turn, main, Typed
<1> QED
  BY <1>1, RunTypes, UiTypes, ReaderTypes, HandlerTypes, TurnTypes, MainTypes DEF Next

-----------------------------------------------------------------------------
(* The inductive invariant.  A call is open from the moment its prompt is     *)
(* sent until its turn_done is read; while the server lives, it is in one     *)
(* place: its prompt is under way, or a turn thread works on it, or its       *)
(* turn_done is under way back.                                               *)

Open == active /\ rpc = "waiting"
Prompted == \E k \in 1 .. Len(up) : up[k].type = "prompt"
Answered == \E k \in 1 .. Len(down) : down[k].type = "turn_done"
Working == tpc \in {"start", "run", "over"}
Rejecting == hpc \in {"warn", "reject"}

ClientOK ==
    /\ active => rpc \in {"marked", "sending", "waiting"} /\ turnRc = Failed
    /\ rpc \in {"marked", "sending"} /\ mpc # "exited" => active
    /\ rpc # "none" => uiBusy
    /\ cancelling => rpc \notin {"called", "checked"}
    /\ cancelling /\ active => dropping

ServerOK ==
    /\ mpc = "exited" => closed
    /\ ~closing => mpc = "serve"
    /\ Serving => ~closed
    /\ Working => slotBusy

\* Frames to the client: those of the open call, its turn_done behind its output,
\* and behind everything the shutdown.
DownOK ==
    /\ ~Open => \A k \in 1 .. Len(down) : down[k].type = "shutdown"
    /\ \A k \in 1 .. Len(down) : down[k].type # "shutdown" => down[k].call = call
    /\ \A j, k \in 1 .. Len(down) :
          j < k /\ down[j].type = "turn_done" => down[k].type = "shutdown"
    /\ \A k \in 1 .. Len(down) :
          down[k].type = "shutdown" => k = Len(down) /\ mpc = "exited"
    /\ \A k \in 1 .. Len(down) :
          down[k].type = "turn_done" /\ down[k].rc = kCancelled => dropping

OnePlace ==
    /\ Prompted \/ Working \/ Rejecting => Open
    /\ Prompted => ~Working /\ ~Answered
    /\ Working => ~Answered /\ tcall = call
    /\ Rejecting => Len(up) > 0 /\ up[1].type = "prompt"

\* Frames to the server: nothing but cancels behind the prompt of the open call,
\* and all of them meant for it.
UpOK ==
    /\ \A k \in 1 .. Len(up) : up[k].type = "prompt" => up[k].call = call
    /\ \A j, k \in 1 .. Len(up) :
          up[k].type = "prompt" /\ k < j => up[j].type = "cancel" /\ dropping
    /\ Open /\ ~Prompted /\ ~closed =>
          \A j \in 1 .. Len(up) : up[j].type = "cancel" /\ dropping

CancelOK ==
    /\ tpc = "run" /\ requested => dropping
    /\ tpc = "over" /\ trc = kCancelled => dropping

Live == mpc # "exited"
LiveOK == Live => OnePlace /\ UpOK /\ CancelOK
Served == Serving /\ Open => Prompted \/ Working \/ Answered

IInv == Typed /\ ClientOK /\ ServerOK /\ DownOK /\ LiveOK /\ Served

-----------------------------------------------------------------------------
(* Steps that leave both channels alone. *)

LEMMA QuietClientStep ==
    ASSUME IInv, UNCHANGED <<up, down>>,
           \/ CheckConnected \/ MarkActive \/ TakeTurnMu \/ SendPromptFails
           \/ SendPromptLost \/ WaitOver \/ TurnOver \/ Submit \/ CancelMark \/ ReadEof
    PROVE  ClientOK' /\ ServerOK' /\ DownOK' /\ LiveOK' /\ Served'
<1> USE DEF IInv, Typed, Step, turn, main, ClientOK, ServerOK, Serving, Open, Failed
<1>1. CASE CheckConnected \/ TakeTurnMu \/ WaitOver \/ TurnOver \/ ReadEof
  <2>1. UNCHANGED <<active, dropping, turnRc, call, closed, hpc, turn, main>> /\ (Open' <=> Open)
    BY <1>1 DEF CheckConnected, TakeTurnMu, WaitOver, TurnOver, ReadEof
  <2>2. ClientOK' /\ ServerOK'
    BY <1>1 DEF CheckConnected, TakeTurnMu, WaitOver, TurnOver, ReadEof, Working
  <2> QED
    BY <2>1, <2>2 DEF DownOK, Live, LiveOK, OnePlace, UpOK, CancelOK, Served,
                      Prompted, Answered, Working, Rejecting
<1>2. CASE MarkActive \/ Submit
  <2>1. ~Open /\ ~Open' /\ UNCHANGED <<closed, hpc, turn, main>>
    BY <1>2 DEF MarkActive, Submit
  <2>2. ClientOK' /\ ServerOK'
    BY <1>2 DEF MarkActive, Submit, TakesInput, Working
  <2>3. DownOK'
    BY <2>1 DEF DownOK
  <2>4. LiveOK' /\ Served'
    BY <2>1 DEF Live, LiveOK, OnePlace, UpOK, CancelOK, Served,
                Prompted, Answered, Working, Rejecting
  <2> QED
    BY <2>2, <2>3, <2>4
<1>3. CASE SendPromptFails \/ SendPromptLost
  <2>1. closed /\ ~Serving /\ ~Open /\ UNCHANGED <<dropping, call, closed, hpc, turn, main>>
    BY <1>3 DEF SendPromptFails, SendPromptLost
  <2>2. ClientOK' /\ ServerOK'
    BY <1>3 DEF SendPromptFails, SendPromptLost, Working
  <2> QED
    BY <2>1, <2>2 DEF DownOK, Live, LiveOK, OnePlace, UpOK, CancelOK, Served,
                      Prompted, Answered, Working, Rejecting
<1>4. CASE CancelMark
  <2>1. (Open' <=> Open) /\ dropping' = TRUE /\ UNCHANGED <<call, closed, hpc, turn, main>>
    BY <1>4 DEF CancelMark
  <2>2. ClientOK' /\ ServerOK'
    BY <1>4 DEF CancelMark, Working
  <2> QED
    BY <2>1, <2>2 DEF DownOK, Live, LiveOK, OnePlace, UpOK, CancelOK, Served,
                      Prompted, Answered, Working, Rejecting
<1> QED
  BY <1>1, <1>2, <1>3, <1>4

LEMMA QuietServerStep ==
    ASSUME IInv, UNCHANGED <<client, up, down>>,
           \/ RejectPrompt \/ Unregister \/ CloseSocket \/ TurnStarts \/ Release
           \/ (\E r \in Results : RunTurnReturns(r)) \/ Stop \/ Collect
    PROVE  ClientOK' /\ ServerOK' /\ DownOK' /\ LiveOK' /\ Served'
<1> USE DEF IInv, Typed, client, Alive, Turn, Serving
<1>1. (Open' <=> Open) /\ UNCHANGED <<active, dropping, call, rpc, turnRc, uiBusy, cancelling>>
  BY DEF Open
<1>2. mpc # "exited" /\ mpc' # "exited"
  BY DEF RejectPrompt, Receives, Unregister, CloseSocket, TurnStarts, Release,
         RunTurnReturns, Stop, Collect, main
<1>3. ClientOK' /\ DownOK'
  <2>1. ClientOK /\ DownOK /\ down' = down
    OBVIOUS
  <2> HIDE DEF IInv, Typed
  <2>2. ClientOK'
    BY <1>1, <1>2, <2>1 DEF ClientOK
  <2>3. DownOK'
    <3> HIDE DEF Alive, Turn
    <3> QED
      BY <1>1, <1>2, <2>1 DEF DownOK
  <2> QED
    BY <2>2, <2>3
<1>4. CASE RejectPrompt
  <2>1. up # <<>> /\ up[1].type = "prompt" /\ Len(up) \in Nat \ {0}
    BY <1>4, Popped DEF RejectPrompt, Receives
  <2>2. Prompted
    BY <2>1 DEF Prompted
  <2>3. ServerOK' /\ Served'
    BY <1>1, <1>4 DEF RejectPrompt, Receives, turn, main, ServerOK, Served,
                      Prompted, Answered, Working
  <2>4. LiveOK'
    BY <1>1, <1>2, <1>4, <2>1, <2>2 DEF RejectPrompt, turn, main, Live, LiveOK, OnePlace, UpOK,
                      CancelOK, Prompted, Answered, Working, Rejecting
  <2> QED
    BY <1>3, <2>3, <2>4
<1>5. CASE Unregister \/ CloseSocket
  <2>1. ~Serving' /\ ~Rejecting /\ ~Rejecting' /\ UNCHANGED <<turn, main>> /\ (closed => closed')
    BY <1>5 DEF Unregister, CloseSocket, ServerOK, Rejecting
  <2>2. ServerOK' /\ Served'
    BY <2>1, <1>2 DEF ServerOK, Served, turn, main, Working
  <2>3. LiveOK'
    BY <1>1, <1>2, <2>1 DEF turn, main, Live, LiveOK, OnePlace, UpOK, CancelOK,
                            Prompted, Answered, Working
  <2> QED
    BY <1>3, <2>2, <2>3
<1>6. CASE TurnStarts \/ Release
  <2>1. ServerOK' /\ Served'
    <3>1. (Prompted' <=> Prompted) /\ (Answered' <=> Answered) /\ UNCHANGED <<main, closed, hpc>>
      BY <1>6 DEF TurnStarts, Release, Prompted, Answered
    <3>2. CASE TurnStarts
      BY <1>1, <3>1, <3>2 DEF TurnStarts, main, ServerOK, Served, Working
    <3>3. CASE Release
      BY <1>1, <3>1, <3>3 DEF Release, main, ServerOK, Served, Working
    <3> QED
      BY <1>6, <3>2, <3>3
  <2>2. LiveOK'
    BY <1>1, <1>2, <1>6 DEF TurnStarts, CancelForgotten, Release, main, Live, LiveOK, OnePlace,
                       UpOK, CancelOK, Prompted, Answered, Working, Rejecting
  <2> QED
    BY <1>3, <2>1, <2>2
<1>7. ASSUME NEW r \in Results, RunTurnReturns(r)
      PROVE  ServerOK' /\ Served' /\ LiveOK'
  <2>1. ServerOK' /\ Served'
    BY <1>1, <1>7 DEF RunTurnReturns, main, ServerOK, Served, Prompted, Answered, Working
  <2>2. LiveOK'
    BY <1>1, <1>2, <1>7 DEF RunTurnReturns, main, Live, LiveOK, OnePlace, UpOK, CancelOK,
                       Prompted, Answered, Working, Rejecting
  <2> QED
    BY <2>1, <2>2
<1>8. CASE Stop \/ Collect
  <2>1. closing' /\ UNCHANGED <<closed, hpc, turn>>
    BY <1>8 DEF Stop, Collect, ServerOK
  <2>2. ServerOK' /\ Served'
    BY <1>1, <1>2, <2>1 DEF ServerOK, Served, turn, Working
  <2>3. LiveOK'
    BY <1>1, <1>2, <2>1 DEF turn, Live, LiveOK, OnePlace, UpOK, CancelOK,
                       Prompted, Answered, Working, Rejecting
  <2> QED
    BY <1>3, <2>2, <2>3
<1> QED
  BY <1>3, <1>4, <1>5, <1>6, <1>7, <1>8

-----------------------------------------------------------------------------
(* Frames to the server. *)

LEMMA SendPromptStep ==
    ASSUME IInv, SendPrompt
    PROVE  ClientOK' /\ ServerOK' /\ DownOK' /\ LiveOK' /\ Served'
<1> USE DEF IInv, Typed, SendPrompt, Step, turn, main
<1>1. /\ Len(up) \in Nat /\ Len(up') = Len(up) + 1
      /\ \A k \in 1 .. Len(up) : up'[k] = up[k]
      /\ up'[Len(up) + 1].type = "prompt" /\ up'[Len(up) + 1].call = call
  <2>1. up' = Append(up, Frame("prompt")) /\ Frame("prompt") \in UpFrame
    BY FrameTypes
  <2> QED
    BY <2>1, Pushed DEF Frame
<1>2. mpc # "exited" /\ active /\ ~Open /\ Open'
  BY DEF ServerOK, ClientOK, Open
<1>3. ~Prompted /\ ~Working /\ ~Rejecting
  BY <1>2 DEF LiveOK, Live, OnePlace
<1>4. ClientOK' /\ ServerOK'
  BY <1>2 DEF ClientOK, ServerOK, Working
<1>5. DownOK' /\ ~Answered'
  BY <1>2 DEF DownOK, Answered
<1>6. Prompted'
  BY <1>1 DEF Prompted
<1>7. OnePlace'
  BY <1>2, <1>3, <1>5, <1>6 DEF OnePlace, Working, Rejecting
<1>8. \A k \in 1 .. Len(up') : up'[k].type = "prompt" <=> k = Len(up')
  BY <1>1, <1>3 DEF Prompted
<1>9. UpOK'
  BY <1>1, <1>6, <1>8 DEF UpOK
<1>10. CancelOK'
  BY <1>3 DEF CancelOK, Working
<1> QED
  BY <1>4, <1>5, <1>6, <1>7, <1>9, <1>10 DEF LiveOK, Served

\* A frame of the UI thread that is no prompt.
LEMMA UiFrameStep ==
    ASSUME IInv, Clear \/ CancelSend
    PROVE  ClientOK' /\ ServerOK' /\ DownOK' /\ LiveOK' /\ Served'
<1> USE DEF IInv, Typed, client, turn, main
<1>1. /\ UNCHANGED <<rpc, active, dropping, turnRc, uiBusy, call, down, closed, hpc, turn, main>>
      /\ cancelling' => cancelling
  BY DEF Clear, CancelSend
<1>2. ClientOK' /\ ServerOK' /\ DownOK' /\ (Open' <=> Open) /\ (Answered' <=> Answered)
  BY <1>1 DEF Serving, ClientOK, ServerOK, DownOK, Open, Working, Answered
<1>3. CASE closed
  <2>1. UNCHANGED up
    BY <1>3 DEF Clear, CancelSend, Write
  <2> QED
    BY <1>1, <1>2, <2>1 DEF Serving, LiveOK, Live, OnePlace, UpOK, CancelOK, Served,
                            Prompted, Working, Rejecting
<1>4. CASE ~closed
  <2>1. PICK type \in {"clear", "cancel"} :
            /\ up' = Append(up, Frame(type))
            /\ type = "clear" => ~Open
            /\ type = "cancel" => (Open => dropping)
    <3>1. CASE Clear
      BY <1>4, <3>1 DEF Clear, Write, TakesInput, ClientOK, Open
    <3>2. CASE CancelSend
      BY <1>4, <3>2 DEF CancelSend, Write, ClientOK, Open
    <3> QED
      BY <3>1, <3>2
  <2>2. /\ Len(up) \in Nat /\ Len(up') = Len(up) + 1
        /\ \A k \in 1 .. Len(up) : up'[k] = up[k]
        /\ up'[Len(up) + 1].type = type
    <3>1. Frame(type) \in UpFrame
      BY FrameTypes
    <3> QED
      BY <2>1, <3>1, Pushed DEF Frame
  <2>3. Prompted' <=> Prompted
    BY <2>1, <2>2 DEF Prompted
  <2>4. Served'
    BY <1>1, <1>2, <2>3 DEF Serving, Served, Working
  <2>5. ASSUME Live PROVE OnePlace' /\ UpOK' /\ CancelOK'
    <3>1. OnePlace /\ UpOK /\ CancelOK
      BY <2>5 DEF LiveOK
    <3>2. OnePlace'
      BY <1>1, <1>2, <2>2, <2>3, <3>1 DEF OnePlace, Working, Rejecting
    <3>3. \A k \in 1 .. Len(up') : up'[k].type = "prompt" => k \in 1 .. Len(up) /\ up'[k].call = call'
      BY <1>1, <2>1, <2>2, <3>1 DEF UpOK
    <3>4. \A j, k \in 1 .. Len(up') :
             up'[k].type = "prompt" /\ k < j => up'[j].type = "cancel" /\ dropping'
      <4> SUFFICES ASSUME NEW j \in 1 .. Len(up'), NEW k \in 1 .. Len(up'),
                          up'[k].type = "prompt", k < j
                   PROVE  up'[j].type = "cancel" /\ dropping'
        OBVIOUS
      <4>1. k \in 1 .. Len(up) /\ up[k].type = "prompt"
        BY <2>2, <3>3
      <4>2. CASE j \in 1 .. Len(up)
        BY <1>1, <2>2, <3>1, <4>1, <4>2 DEF UpOK
      <4>3. CASE j = Len(up) + 1
        <5>1. Open
          BY <3>1, <4>1 DEF OnePlace, Prompted
        <5> QED
          BY <1>1, <2>1, <2>2, <4>3, <5>1
      <4> QED
        BY <2>2, <4>2, <4>3
    <3>5. Open' /\ ~Prompted' /\ ~closed' =>
             \A j \in 1 .. Len(up') : up'[j].type = "cancel" /\ dropping'
      BY <1>1, <1>2, <2>1, <2>2, <2>3, <3>1 DEF UpOK
    <3>6. CancelOK'
      BY <1>1, <3>1 DEF CancelOK
    <3> QED
      BY <3>2, <3>3, <3>4, <3>5, <3>6 DEF UpOK
  <2> QED
    BY <1>1, <1>2, <2>4, <2>5 DEF LiveOK, Live
<1> QED
  BY <1>3, <1>4

\* What the handler has taken from the channel, and what is left there.
LEMMA UpPopped ==
    ASSUME Typed, up # <<>>, up' = Tail(up)
    PROVE  /\ Len(up) \in Nat \ {0} /\ Len(up') = Len(up) - 1
           /\ \A k \in 1 .. Len(up') : up'[k] = up[k + 1]
           /\ Head(up) = up[1]
<1>1. up \in Seq(UpFrame)
  BY DEF Typed
<1> QED
  BY <1>1, Popped

LEMMA UpOKPopped ==
    ASSUME Typed, UpOK, up # <<>>, up' = Tail(up), UNCHANGED <<call, dropping>>
    PROVE  /\ up[1].type = "prompt" =>
                 ~Prompted' /\ \A j \in 1 .. Len(up') : up'[j].type = "cancel" /\ dropping'
           /\ up[1].type # "prompt" => (Prompted' <=> Prompted)
           /\ \A k \in 1 .. Len(up') : up'[k].type = "prompt" => up'[k].call = call'
           /\ \A j, k \in 1 .. Len(up') :
                 up'[k].type = "prompt" /\ k < j => up'[j].type = "cancel" /\ dropping'
<1>1. /\ Len(up) \in Nat \ {0} /\ Len(up') = Len(up) - 1
      /\ \A k \in 1 .. Len(up') : up'[k] = up[k + 1] /\ k + 1 \in 1 .. Len(up)
  BY UpPopped
<1>2. ASSUME up[1].type = "prompt"
      PROVE  ~Prompted' /\ \A j \in 1 .. Len(up') : up'[j].type = "cancel" /\ dropping'
  <2>1. \A j \in 1 .. Len(up') : up'[j].type = "cancel" /\ dropping'
    BY <1>1, <1>2 DEF UpOK
  <2> QED
    BY <2>1 DEF Prompted
<1>3. ASSUME up[1].type # "prompt" PROVE Prompted' <=> Prompted
  <2>1. Prompted' => Prompted
    BY <1>1 DEF Prompted
  <2>2. ASSUME Prompted PROVE Prompted'
    <3>1. PICK k \in 1 .. Len(up) : up[k].type = "prompt"
      BY <2>2 DEF Prompted
    <3>2. k - 1 \in 1 .. Len(up') /\ up'[k - 1] = up[k]
      BY <1>1, <1>3, <3>1
    <3> QED
      BY <3>1, <3>2 DEF Prompted
  <2> QED
    BY <2>1, <2>2
<1> QED
  BY <1>1, <1>2, <1>3 DEF UpOK

LEMMA HandlePromptStep ==
    ASSUME IInv, HandlePrompt
    PROVE  ClientOK' /\ ServerOK' /\ DownOK' /\ LiveOK' /\ Served'
<1> USE DEF IInv, HandlePrompt, Receives, Alive, client, main
<1>1. up # <<>> /\ up' = Tail(up) /\ up[1].type = "prompt" /\ Head(up) = up[1] /\ 1 \in 1 .. Len(up)
  BY UpPopped
<1>2. OnePlace /\ UpOK /\ CancelOK /\ Prompted /\ mpc' # "exited"
  BY <1>1 DEF LiveOK, Live, Prompted
<1>3. Open /\ Open' /\ ~Answered /\ ~Answered'
  BY <1>2 DEF OnePlace, Open, Answered
<1>4. ClientOK' /\ ServerOK' /\ DownOK'
  BY <1>3 DEF Serving, ClientOK, ServerOK, DownOK, Working
<1>5. ~Prompted' /\ UpOK'
  BY <1>1, <1>2, UpOKPopped DEF UpOK
<1>6. OnePlace'
  BY <1>1, <1>2, <1>3, <1>5 DEF OnePlace, UpOK, Working, Rejecting
<1>7. CancelOK' /\ Served'
  BY DEF CancelOK, Served, Working
<1> QED
  BY <1>4, <1>5, <1>6, <1>7 DEF LiveOK

LEMMA OtherFrameStep ==
    ASSUME IInv, HandleCancel \/ HandleClear
    PROVE  ClientOK' /\ ServerOK' /\ DownOK' /\ LiveOK' /\ Served'
<1> USE DEF IInv, Receives, Alive, client, turn, main
<1>1. /\ UNCHANGED <<client, down, closed, hpc, slotBusy, tpc, tcall, trc, sent, main>>
      /\ up # <<>> /\ up' = Tail(up) /\ hpc = "loop" /\ mpc # "exited" /\ ~closed
  BY DEF Serving, HandleCancel, HandleClear, ServerOK
<1>2. Head(up) = up[1] /\ 1 \in 1 .. Len(up) /\ Len(up) \in Nat \ {0}
  BY <1>1, UpPopped
<1>3. up[1].type \in {"cancel", "clear"}
  BY <1>2 DEF HandleCancel, HandleClear
<1>4. OnePlace /\ UpOK /\ CancelOK
  BY <1>1 DEF LiveOK, Live
<1>5. /\ Prompted' <=> Prompted
      /\ \A k \in 1 .. Len(up') : up'[k].type = "prompt" => up'[k].call = call'
      /\ \A j, k \in 1 .. Len(up') :
            up'[k].type = "prompt" /\ k < j => up'[j].type = "cancel" /\ dropping'
  BY <1>1, <1>3, <1>4, UpOKPopped
<1>6. (Open' <=> Open) /\ (Answered' <=> Answered)
  BY <1>1 DEF Open, Answered
<1>7. ClientOK' /\ ServerOK' /\ DownOK' /\ Served'
  BY <1>1, <1>5, <1>6 DEF Serving, ClientOK, ServerOK, DownOK, Served, Working
<1>8. OnePlace'
  BY <1>1, <1>4, <1>5, <1>6 DEF OnePlace, Working, Rejecting
<1>9. UpOK'
  <2>1. Open' /\ ~Prompted' => \A j \in 1 .. Len(up') : up'[j].type = "cancel" /\ dropping'
    BY <1>1, <1>4, <1>5, <1>6, UpPopped DEF UpOK
  <2> QED
    BY <1>5, <2>1 DEF UpOK
<1>10. CancelOK'
  <2>1. CASE HandleClear
    BY <1>1, <1>4, <2>1 DEF HandleClear, CancelOK
  <2>2. CASE HandleCancel /\ tpc = "run"
    BY <1>1, <1>2, <1>4, <2>2 DEF CancelOK, OnePlace, Working, UpOK
  <2>3. CASE HandleCancel /\ tpc # "run"
    BY <1>1, <1>4, <2>3 DEF CancelOK
  <2> QED
    BY <2>1, <2>2, <2>3
<1> QED
  BY <1>7, <1>8, <1>9, <1>10 DEF LiveOK

-----------------------------------------------------------------------------
(* Frames to the client. *)

\* A frame of the open call, behind which nothing else is on its way yet.
LEMMA DownOKPushed ==
    ASSUME Typed, DownOK, Open, Open', mpc # "exited", ~Answered,
           NEW f \in DownFrame, SendTo(f), f.type # "shutdown", f.call = call,
           f.type = "turn_done" /\ f.rc = kCancelled => dropping,
           UNCHANGED <<call, dropping, mpc>>
    PROVE  /\ DownOK'
           /\ f.type # "turn_done" => ~Answered'
           /\ f.type = "turn_done" /\ hpc \notin {"removed", "gone"} /\ ~closed => Answered'
<1>1. CASE hpc \in {"removed", "gone"} \/ closed
  <2>1. UNCHANGED down
    BY <1>1 DEF SendTo
  <2> QED
    BY <1>1, <2>1 DEF DownOK, Answered
<1>2. CASE ~(hpc \in {"removed", "gone"} \/ closed)
  <2>1. down' = Append(down, f) /\ down \in Seq(DownFrame)
    BY <1>2 DEF SendTo, Typed
  <2>2. /\ Len(down) \in Nat /\ Len(down') = Len(down) + 1
        /\ \A k \in 1 .. Len(down) : down'[k] = down[k]
        /\ down'[Len(down) + 1] = f
    BY <2>1, Pushed
  <2>3. \A k \in 1 .. Len(down) : down[k].type \notin {"shutdown", "turn_done"}
    BY DEF DownOK, Answered
  <2>4. \A k \in 1 .. Len(down') : down'[k].type # "shutdown" /\ down'[k].call = call'
    BY <2>2, <2>3 DEF DownOK
  <2>5. \A k \in 1 .. Len(down') : down'[k].type = "turn_done" => k = Len(down') /\ down'[k] = f
    BY <2>2, <2>3
  <2>6. DownOK'
    BY <2>2, <2>4, <2>5 DEF DownOK
  <2>7. f.type = "turn_done" => Answered'
    BY <2>2 DEF Answered
  <2> QED
    BY <2>2, <2>5, <2>6, <2>7 DEF Answered
<1> QED
  BY <1>1, <1>2

LEMMA WarningStep ==
    ASSUME IInv, SendWarning
    PROVE  ClientOK' /\ ServerOK' /\ DownOK' /\ LiveOK' /\ Served'
<1> USE DEF IInv, SendWarning, Alive, client, turn, main
<1>1. OnePlace /\ UpOK /\ CancelOK /\ Open /\ Open'
  BY DEF LiveOK, Live, OnePlace, Rejecting, Open
<1>2. up # <<>> /\ Head(up) = up[1] /\ 1 \in 1 .. Len(up) /\ up[1].type = "prompt"
  BY <1>1, Popped DEF OnePlace, Rejecting, Typed
<1>3. Prompted /\ ~Answered /\ Head(up).call = call
  BY <1>1, <1>2 DEF Prompted, OnePlace, UpOK
<1>4. Stream(call) \in DownFrame /\ Stream(call).type = "stream" /\ Stream(call).call = call
  BY FrameTypes DEF Stream, Typed
<1>5. DownOK' /\ ~Answered'
  BY <1>1, <1>3, <1>4, DownOKPushed
<1>6. ClientOK' /\ ServerOK'
  BY DEF Serving, ClientOK, ServerOK, Working
<1>7. OnePlace'
  BY <1>1, <1>3, <1>5 DEF OnePlace, Prompted, Working, Rejecting
<1>8. UpOK' /\ CancelOK' /\ Served'
  BY <1>1, <1>3 DEF UpOK, CancelOK, Served, Prompted, Open
<1> QED
  BY <1>5, <1>6, <1>7, <1>8 DEF LiveOK

LEMMA RejectionStep ==
    ASSUME IInv, SendRejection
    PROVE  ClientOK' /\ ServerOK' /\ DownOK' /\ LiveOK' /\ Served'
<1> USE DEF IInv, SendRejection, Alive, client, turn, main
<1>1. OnePlace /\ UpOK /\ CancelOK /\ Open /\ Open'
  BY DEF LiveOK, Live, OnePlace, Rejecting, Open
<1>2. up # <<>> /\ Head(up) = up[1] /\ 1 \in 1 .. Len(up) /\ up[1].type = "prompt"
  BY <1>1, Popped DEF OnePlace, Rejecting, Typed
<1>3. Prompted /\ ~Answered /\ Head(up).call = call
  BY <1>1, <1>2 DEF Prompted, OnePlace, UpOK
<1>4. /\ TurnDone(call, Failed) \in DownFrame /\ TurnDone(call, Failed).type = "turn_done"
      /\ TurnDone(call, Failed).call = call /\ TurnDone(call, Failed).rc # kCancelled
  <2>1. call \in 0 .. MaxCalls /\ Failed \in Results /\ Failed # kCancelled
    BY DEF Typed, Results, Failed, kCancelled
  <2>2. TurnDone(call, Failed) \in DownFrame
    BY <2>1, FrameTypes
  <2> QED
    BY <2>1, <2>2 DEF TurnDone
<1>5. DownOK' /\ (~closing => Answered')
  BY <1>1, <1>3, <1>4, DownOKPushed DEF ServerOK, Serving
<1>6. ClientOK' /\ ServerOK'
  BY DEF Serving, ClientOK, ServerOK, Working
<1>7. ~Prompted' /\ UpOK'
  BY <1>1, <1>2, UpOKPopped DEF UpOK
<1>8. OnePlace'
  BY <1>1, <1>3, <1>7 DEF OnePlace, Working, Rejecting
<1>9. CancelOK' /\ Served'
  BY <1>1, <1>5 DEF Serving, CancelOK, Served
<1> QED
  BY <1>5, <1>6, <1>7, <1>8, <1>9 DEF LiveOK

\* A turn thread's frame before the last one.
LEMMA OutputStep ==
    ASSUME IInv, TurnRefused \/ StreamFrame
    PROVE  ClientOK' /\ ServerOK' /\ DownOK' /\ LiveOK' /\ Served'
<1> USE DEF IInv, Turn, Alive, client, main
<1>1. /\ UNCHANGED <<client, up, closed, hpc, slotBusy, tcall, requested, main>>
      /\ Working /\ Working' /\ mpc # "exited" /\ SendTo(Stream(tcall))
  BY DEF TurnRefused, StreamFrame, Working
<1>2. OnePlace /\ UpOK /\ CancelOK /\ Open /\ Open' /\ ~Answered /\ ~Prompted /\ tcall = call
  BY <1>1 DEF LiveOK, Live, OnePlace, Open
<1>3. Stream(call) \in DownFrame /\ Stream(call).type = "stream" /\ Stream(call).call = call
  BY FrameTypes DEF Stream, Typed
<1>4. DownOK' /\ ~Answered'
  BY <1>1, <1>2, <1>3, DownOKPushed
<1>5. ClientOK' /\ ServerOK'
  BY <1>1 DEF Serving, ClientOK, ServerOK
<1>6. OnePlace'
  BY <1>1, <1>2, <1>4 DEF OnePlace, Prompted, Rejecting
<1>7. UpOK' /\ Served'
  BY <1>1, <1>2 DEF UpOK, Served, Prompted, Open
<1>8. CancelOK'
  BY <1>1, <1>2 DEF TurnRefused, StreamFrame, CancelOK, Failed, kCancelled
<1> QED
  BY <1>4, <1>5, <1>6, <1>7, <1>8 DEF LiveOK

LEMMA TurnDoneStep ==
    ASSUME IInv, SendTurnDone
    PROVE  ClientOK' /\ ServerOK' /\ DownOK' /\ LiveOK' /\ Served'
<1> USE DEF IInv, SendTurnDone, LastFrame, Turn, Alive, client, main
<1>1. OnePlace /\ UpOK /\ CancelOK /\ Open /\ Open' /\ ~Answered /\ ~Prompted /\ tcall = call
  BY DEF LiveOK, Live, OnePlace, Open, Working
<1>2. /\ TurnDone(call, trc) \in DownFrame /\ TurnDone(call, trc).type = "turn_done"
      /\ TurnDone(call, trc).call = call /\ TurnDone(call, trc).rc = trc
  BY FrameTypes DEF TurnDone, Typed
<1>3. trc = kCancelled => dropping
  BY <1>1 DEF CancelOK
<1>4. DownOK' /\ (Serving => Answered')
  BY <1>1, <1>2, <1>3, DownOKPushed DEF ServerOK, Serving
<1>5. ClientOK' /\ ServerOK'
  BY DEF Serving, ClientOK, ServerOK, Working
<1>6. ~Prompted' /\ ~Working'
  BY <1>1 DEF Prompted, Working
<1>7. OnePlace' /\ UpOK' /\ CancelOK' /\ Served'
  BY <1>1, <1>4, <1>6 DEF Serving, OnePlace, UpOK, CancelOK, Served, Rejecting, Open
<1> QED
  BY <1>4, <1>5, <1>7 DEF LiveOK

LEMMA NotifyStep ==
    ASSUME IInv, Notify
    PROVE  ClientOK' /\ ServerOK' /\ DownOK' /\ LiveOK' /\ Served'
<1> USE DEF IInv, Notify, client, turn
<1>1. closing /\ closing' /\ mpc' = "exited" /\ closed' /\ (Open' <=> Open)
  BY DEF ServerOK, Open
<1>2. ClientOK' /\ ServerOK' /\ LiveOK' /\ Served'
  BY <1>1 DEF Serving, ClientOK, ServerOK, LiveOK, Live, Served, Working
<1>3. DownOK'
  <2>1. \A k \in 1 .. Len(down) : down[k].type # "shutdown"
    BY DEF DownOK
  <2>2. CASE UNCHANGED down
    BY <1>1, <2>1, <2>2 DEF DownOK
  <2>3. CASE down' = Append(down, Shutdown)
    <3>1. /\ Len(down) \in Nat /\ Len(down') = Len(down) + 1
          /\ \A k \in 1 .. Len(down) : down'[k] = down[k]
          /\ down'[Len(down) + 1].type = "shutdown"
      BY <2>3, Pushed, FrameTypes DEF Typed, Shutdown
    <3>2. \A k \in 1 .. Len(down') : down'[k].type = "shutdown" <=> k = Len(down')
      BY <2>1, <3>1
    <3> QED
      BY <1>1, <2>1, <3>1, <3>2 DEF DownOK
  <2> QED
    BY <2>2, <2>3
<1> QED
  BY <1>2, <1>3

\* What the reader has taken from the channel, and what is left there.
LEMMA DownPopped ==
    ASSUME Typed, DownOK, down # <<>>, down' = Tail(down)
    PROVE  /\ Len(down) \in Nat \ {0} /\ Len(down') = Len(down) - 1
           /\ \A k \in 1 .. Len(down') : down'[k] = down[k + 1] /\ k + 1 \in 1 .. Len(down)
           /\ Head(down) = down[1] /\ down[1].rc \in Results /\ 1 \in 1 .. Len(down)
<1>1. down \in Seq(DownFrame)
  BY DEF Typed
<1>2. /\ Len(down) \in Nat \ {0} /\ Len(down') = Len(down) - 1
      /\ \A k \in 1 .. Len(down) - 1 : down'[k] = down[k + 1]
      /\ Head(down) = down[1] /\ down[1] \in DownFrame
  BY <1>1, Popped
<1>3. \A k \in 1 .. Len(down') : k + 1 \in 1 .. Len(down)
  BY <1>2
<1>4. down[1].rc \in Results
  BY <1>2 DEF DownFrame
<1> QED
  BY <1>2, <1>3, <1>4

LEMMA DownOKPopped ==
    ASSUME Typed, DownOK, down # <<>>, down' = Tail(down), UNCHANGED <<call, mpc>>,
           UNCHANGED dropping \/ down[1].type # "stream",
           Open' \/ down[1].type # "stream", down[1].type = "stream" => Open
    PROVE  DownOK'
<1>1. /\ Len(down) \in Nat \ {0} /\ Len(down') = Len(down) - 1
      /\ \A k \in 1 .. Len(down') : down'[k] = down[k + 1] /\ k + 1 \in 1 .. Len(down)
      /\ 1 \in 1 .. Len(down)
  BY DownPopped
<1>2. \A k \in 1 .. Len(down') : down'[k].type # "shutdown" => down'[k].call = call'
  <2> SUFFICES ASSUME NEW k \in 1 .. Len(down'), down'[k].type # "shutdown"
               PROVE  down'[k].call = call
    OBVIOUS
  <2>1. k + 1 \in 1 .. Len(down) /\ down'[k] = down[k + 1]
    BY <1>1
  <2> QED
    BY <2>1 DEF DownOK
<1>3. \A k \in 1 .. Len(down') :
          down'[k].type = "shutdown" => k = Len(down') /\ mpc' = "exited"
  <2> SUFFICES ASSUME NEW k \in 1 .. Len(down'), down'[k].type = "shutdown"
               PROVE  k = Len(down') /\ mpc = "exited"
    OBVIOUS
  <2>1. k + 1 \in 1 .. Len(down) /\ down'[k] = down[k + 1]
    BY <1>1
  <2>2. k + 1 = Len(down) /\ mpc = "exited"
    BY <2>1 DEF DownOK
  <2>3. \A n, m \in Nat : m = n - 1 /\ k + 1 = n => k = m
    OBVIOUS
  <2>4. Len(down) \in Nat /\ Len(down') \in Nat /\ Len(down') = Len(down) - 1
    BY <1>1
  <2> QED
    BY <2>2, <2>3, <2>4
<1>4. \A j, k \in 1 .. Len(down') :
          j < k /\ down'[j].type = "turn_done" => down'[k].type = "shutdown"
  <2> SUFFICES ASSUME NEW j \in 1 .. Len(down'), NEW k \in 1 .. Len(down'),
                      j < k, down'[j].type = "turn_done"
               PROVE  down'[k].type = "shutdown"
    OBVIOUS
  <2>1. /\ j + 1 \in 1 .. Len(down) /\ k + 1 \in 1 .. Len(down) /\ j + 1 < k + 1
        /\ down[j + 1].type = "turn_done" /\ down'[k] = down[k + 1]
    BY <1>1
  <2>2. down[k + 1].type = "shutdown"
    BY <2>1 DEF DownOK
  <2> QED
    BY <2>1, <2>2
<1>5. CASE down[1].type = "stream"
  <2>1. Open' /\ UNCHANGED dropping
    BY <1>5
  <2>2. \A k \in 1 .. Len(down') :
            down'[k].type = "turn_done" /\ down'[k].rc = kCancelled => dropping'
    BY <1>1, <2>1 DEF DownOK
  <2> QED
    BY <1>2, <1>3, <1>4, <2>1, <2>2 DEF DownOK
<1>6. CASE down[1].type = "turn_done"
  <2>1. ASSUME NEW k \in 1 .. Len(down') PROVE down'[k].type = "shutdown"
    <3>1. k + 1 \in 1 .. Len(down) /\ 1 < k + 1 /\ down'[k] = down[k + 1]
      BY <1>1
    <3> QED
      BY <1>1, <1>6, <3>1 DEF DownOK
  <2> QED
    BY <1>2, <1>3, <1>4, <2>1 DEF DownOK
<1>7. CASE down[1].type = "shutdown"
  <2>1. 1 = Len(down)
    BY <1>1, <1>7 DEF DownOK
  <2>2. Len(down') = 0
    BY <1>1, <2>1
  <2>3. 1 .. 0 = {}
    OBVIOUS
  <2> QED
    BY <1>2, <1>3, <1>4, <2>2, <2>3 DEF DownOK
<1>8. down[1].type \in {"stream", "turn_done", "shutdown"}
  <2>1. down[1] \in DownFrame
    BY Popped DEF Typed
  <2> QED
    BY <2>1 DEF DownFrame
<1> QED
  BY <1>5, <1>6, <1>7, <1>8

LEMMA ReadStreamStep ==
    ASSUME IInv, ReadStream
    PROVE  ClientOK' /\ ServerOK' /\ DownOK' /\ LiveOK' /\ Served'
<1> USE DEF IInv, ReadStream, Reads, turn, main
<1>1. /\ Len(down) \in Nat \ {0} /\ Len(down') = Len(down) - 1
      /\ \A k \in 1 .. Len(down') : down'[k] = down[k + 1] /\ k + 1 \in 1 .. Len(down)
      /\ down[1].type = "stream" /\ 1 \in 1 .. Len(down)
  BY DownPopped
<1>2. Open /\ Open'
  BY <1>1 DEF DownOK, Open
<1>3. Answered' <=> Answered
  <2>1. Answered' => Answered
    BY <1>1 DEF Answered
  <2>2. ASSUME Answered PROVE Answered'
    <3>1. PICK k \in 1 .. Len(down) : down[k].type = "turn_done"
      BY <2>2 DEF Answered
    <3>2. k - 1 \in 1 .. Len(down') /\ down'[k - 1] = down[k]
      BY <1>1, <3>1
    <3> QED
      BY <3>1, <3>2 DEF Answered
  <2> QED
    BY <2>1, <2>2
<1>4. ClientOK' /\ ServerOK'
  BY DEF Serving, ClientOK, ServerOK, Working
<1>5. DownOK'
  BY <1>1, <1>2, DownOKPopped
<1>6. LiveOK' /\ Served'
  BY <1>2, <1>3 DEF Serving, Live, LiveOK, OnePlace, UpOK, CancelOK, Served, Prompted, Working, Rejecting
<1> QED
  BY <1>4, <1>5, <1>6

LEMMA ReadTurnDoneStep ==
    ASSUME IInv, ReadTurnDone
    PROVE  ClientOK' /\ ServerOK' /\ DownOK' /\ LiveOK' /\ Served'
<1> USE DEF IInv, ReadTurnDone, Reads, turn, main
<1>1. down[1].type = "turn_done" /\ 1 \in 1 .. Len(down)
  BY DownPopped
<1>2. Open /\ Answered /\ ~Open'
  BY <1>1 DEF DownOK, Open, Answered
<1>3. ClientOK' /\ ServerOK'
  BY <1>2 DEF Serving, ClientOK, ServerOK, Working, Open
<1>4. DownOK'
  BY <1>1, DownOKPopped
<1>5. ASSUME Live PROVE ~Prompted /\ ~Working /\ ~Rejecting
  <2>1. OnePlace
    BY <1>5 DEF LiveOK
  <2>2. ~Prompted /\ ~Working
    BY <1>2, <2>1 DEF OnePlace
  <2>3. ~Rejecting
    <3>1. SUFFICES ASSUME Rejecting PROVE Prompted
      BY <2>2
    <3>2. Len(up) > 0 /\ up[1].type = "prompt" /\ up \in Seq(UpFrame)
      BY <2>1, <3>1 DEF OnePlace, Typed
    <3>3. 1 \in 1 .. Len(up)
      BY <3>2
    <3> QED
      BY <3>2, <3>3 DEF Prompted
  <2> QED
    BY <2>2, <2>3
<1>6. UNCHANGED <<closing, mpc, up, call, tpc, tcall, requested, trc, hpc, closed>>
  OBVIOUS
<1>7. Served'
  BY <1>2 DEF Served
<1>8. ASSUME Live' PROVE OnePlace' /\ UpOK' /\ CancelOK'
  <2>1. Live /\ ~Prompted /\ ~Working /\ ~Rejecting
    BY <1>5, <1>6, <1>8 DEF Live
  <2>2. ~Prompted' /\ ~Working' /\ ~Rejecting'
    BY <1>6, <2>1 DEF Prompted, Working, Rejecting
  <2> QED
    BY <1>2, <2>2 DEF OnePlace, UpOK, CancelOK, Prompted, Working
<1> QED
  BY <1>3, <1>4, <1>7, <1>8 DEF LiveOK

LEMMA ReadShutdownStep ==
    ASSUME IInv, ReadShutdown
    PROVE  ClientOK' /\ ServerOK' /\ DownOK' /\ LiveOK' /\ Served'
<1> USE DEF IInv, ReadShutdown, Reads, turn, main
<1>1. down[1].type = "shutdown" /\ 1 \in 1 .. Len(down)
  BY DownPopped
<1>2. mpc = "exited" /\ closing /\ ~Open'
  BY <1>1 DEF DownOK, ServerOK, Open
<1>3. ClientOK' /\ ServerOK'
  BY <1>2 DEF Serving, ClientOK, ServerOK, Working
<1>4. DownOK'
  BY <1>1, DownOKPopped
<1>5. LiveOK' /\ Served'
  BY <1>2 DEF LiveOK, Live, Served
<1> QED
  BY <1>3, <1>4, <1>5
-----------------------------------------------------------------------------
(* Every step keeps the invariant. *)

LEMMA StepKept == ASSUME IInv, [Next]_vars PROVE IInv'
<1>1. Typed'
  BY TypesKept DEF IInv
<1> SUFFICES ClientOK' /\ ServerOK' /\ DownOK' /\ LiveOK' /\ Served'
  BY <1>1 DEF IInv
<1>2. CASE RunThread
  <2>1. CASE SendPrompt
    BY <2>1, SendPromptStep
  <2>2. CASE ~SendPrompt
    <3>1. \/ CheckConnected \/ MarkActive \/ TakeTurnMu \/ SendPromptFails
          \/ SendPromptLost \/ WaitOver \/ TurnOver
      BY <1>2, <2>2 DEF RunThread
    <3>2. UNCHANGED <<up, down>>
      BY <3>1 DEF CheckConnected, MarkActive, TakeTurnMu, SendPromptFails,
                  SendPromptLost, WaitOver, TurnOver
    <3> QED
      BY <3>1, <3>2, QuietClientStep
  <2> QED
    BY <2>1, <2>2
<1>3. CASE UiThread
  <2>1. CASE Clear \/ CancelSend
    BY <2>1, UiFrameStep
  <2>2. CASE Submit \/ CancelMark
    BY <2>2, QuietClientStep DEF Submit, CancelMark
  <2> QED
    BY <1>3, <2>1, <2>2 DEF UiThread
<1>4. CASE ReaderThread
  <2>1. CASE ReadEof
    BY <2>1, QuietClientStep DEF ReadEof
  <2> QED
    BY <1>4, <2>1, ReadStreamStep, ReadTurnDoneStep, ReadShutdownStep DEF ReaderThread
<1>5. CASE HandlerThread
  <2>1. CASE RejectPrompt \/ Unregister \/ CloseSocket
    BY <2>1, QuietServerStep DEF RejectPrompt, Unregister, CloseSocket
  <2> QED
    BY <1>5, <2>1, HandlePromptStep, WarningStep, RejectionStep, OtherFrameStep
    DEF HandlerThread
<1>6. CASE TurnThread
  <2>1. CASE TurnStarts \/ Release \/ (\E r \in Results : RunTurnReturns(r))
    <3>1. UNCHANGED <<client, up, down>>
      BY <2>1 DEF TurnStarts, Release, RunTurnReturns
    <3> QED
      BY <2>1, <3>1, QuietServerStep
  <2> QED
    BY <1>6, <2>1, OutputStep, TurnDoneStep DEF TurnThread
<1>7. CASE Stop \/ Collect
  BY <1>7, QuietServerStep DEF Stop, Collect
<1>8. CASE Notify
  BY <1>8, NotifyStep
<1>9. CASE Offline \/ UNCHANGED vars
  <2>1. UNCHANGED vars
    BY <1>9 DEF Offline
  <2> QED
    BY <2>1 DEF Serving, IInv, Typed, vars, client, turn, main, ClientOK, ServerOK, DownOK, Live, LiveOK,
                OnePlace, UpOK, CancelOK, Served, Open, Prompted, Answered, Working, Rejecting
<1> QED
  BY <1>2, <1>3, <1>4, <1>5, <1>6, <1>7, <1>8, <1>9 DEF Next

LEMMA Inductive == Spec => []IInv
<1>1. Init => IInv
  <2> SUFFICES ASSUME Init PROVE IInv
    OBVIOUS
  <2>1. Len(up) = 0 /\ Len(down) = 0 /\ 1 .. 0 = {}
    BY DEF Init
  <2>2. Typed
    BY CapsAssumption DEF Init, Typed, Results, Failed
  <2>3. ClientOK /\ ServerOK
    BY DEF Init, ClientOK, ServerOK, Working, Failed
  <2>4. DownOK /\ ~Prompted /\ ~Working /\ ~Rejecting /\ ~Open
    BY <2>1 DEF Init, DownOK, Prompted, Working, Rejecting, Open
  <2>5. LiveOK /\ Served
    BY <2>1, <2>4 DEF Init, LiveOK, OnePlace, UpOK, CancelOK, Served
  <2> QED
    BY <2>2, <2>3, <2>4, <2>5 DEF IInv
<1> QED
  BY <1>1, StepKept, PTL DEF Spec

-----------------------------------------------------------------------------
\* No output and no result of an earlier turn, or of its rejection, is taken for
\* the open call's own (remote_agent.cpp 273-293).
THEOREM OwnFramesOnly == Spec => []FramesAreOwn
<1>1. IInv => FramesAreOwn
  <2> SUFFICES ASSUME IInv, active, NEW k \in DOMAIN down, down[k].type # "shutdown"
               PROVE  down[k].call = call
    BY DEF FramesAreOwn
  <2>1. k \in 1 .. Len(down)
    BY DEF IInv, Typed
  <2> QED
    BY <2>1 DEF IInv, DownOK
<1> QED
  BY <1>1, Inductive, PTL

\* As long as the server goes on with the client, a run_turn that waits has its prompt or its
\* turn_done somewhere on the way: no wakeup is lost (remote_agent.cpp 160-169).
THEOREM NoWakeupLost == Spec => []WaitIsServed
<1>1. IInv => WaitIsServed
  <2> SUFFICES ASSUME IInv, rpc = "waiting", active, Serving PROVE
                 \/ \E k \in DOMAIN up : up[k] = Frame("prompt")
                 \/ tpc \in {"start", "run", "over"} /\ tcall = call
                 \/ \E k \in DOMAIN down : down[k].type = "turn_done"
    BY DEF WaitIsServed
  <2>1. mpc # "exited" /\ OnePlace /\ UpOK
    BY DEF IInv, ServerOK, LiveOK, Live, Serving
  <2>2. Prompted \/ Working \/ Answered
    BY DEF IInv, Served, Open
  <2>3. CASE Prompted
    <3>1. PICK k \in 1 .. Len(up) : up[k].type = "prompt"
      BY <2>3 DEF Prompted
    <3>2. up \in Seq(UpFrame) /\ k \in DOMAIN up
      BY DEF IInv, Typed
    <3>3. up[k] \in UpFrame /\ up[k].call = call
      BY <2>1, <3>1, <3>2 DEF UpOK
    <3>4. up[k] = [type |-> up[k].type, call |-> up[k].call]
      BY <3>3 DEF UpFrame
    <3> QED
      BY <3>1, <3>2, <3>3, <3>4 DEF Frame
  <2>4. CASE Working
    BY <2>1, <2>4 DEF OnePlace, Working
  <2>5. CASE Answered
    <3>1. DOMAIN down = 1 .. Len(down)
      BY DEF IInv, Typed
    <3> QED
      BY <2>5, <3>1 DEF Answered
  <2> QED
    BY <2>2, <2>3, <2>4, <2>5
<1> QED
  BY <1>1, Inductive, PTL

\* A clear is never handled while run_turn works on the history it clears: the
\* handlers do not look at busy (server.cpp 282-287 and 300-315), the client's
\* order of events does it for them.
THEOREM ClearAfterTurn == Spec => []ClearNeverMidTurn
<1>1. IInv => ClearNeverMidTurn
  <2> SUFFICES ASSUME IInv, Receives("clear"), Working PROVE FALSE
    BY DEF ClearNeverMidTurn, Working, IInv, Typed
  <2>1. up \in Seq(UpFrame) /\ up # <<>> /\ Head(up).type = "clear" /\ mpc # "exited" /\ ~closing
    BY DEF Receives, Alive, IInv, Typed
  <2>2. 1 \in 1 .. Len(up) /\ up[1].type = "clear"
    BY <2>1, Popped
  <2>3. OnePlace /\ UpOK /\ ~closed
    BY <2>1 DEF IInv, LiveOK, Live, ServerOK, Serving, Receives
  <2>4. Open /\ ~Prompted
    BY <2>3 DEF OnePlace
  <2>5. up[1].type = "cancel"
    BY <2>2, <2>3, <2>4 DEF UpOK
  <2> QED
    BY <2>2, <2>5
<1> QED
  BY <1>1, Inductive, PTL

-----------------------------------------------------------------------------
(* The facade implements the local Agent's promise. *)

Flagged == active \in BOOLEAN

LEMMA ActiveIsFlag == Spec => []Flagged
<1>1. Init => Flagged
  BY DEF Init, Flagged
<1>2. ASSUME Flagged, [Next]_vars PROVE Flagged'
  <2>1. active' \in {active, TRUE, FALSE}
    BY <1>2 DEF Next, Offline, vars, client, RunThread, CheckConnected, MarkActive, TakeTurnMu,
       SendPrompt, SendPromptFails, SendPromptLost, WaitOver, TurnOver, UiThread, Submit, Clear,
       CancelMark, CancelSend, ReaderThread, ReadStream, ReadTurnDone, ReadShutdown, ReadEof,
       HandlerThread, HandlePrompt, RejectPrompt, SendWarning, SendRejection, HandleCancel,
       HandleClear, Unregister, CloseSocket, TurnThread, TurnStarts, TurnRefused, StreamFrame,
       RunTurnReturns, SendTurnDone, Release, Stop, Collect, Notify
  <2> QED
    BY <1>2, <2>1 DEF Flagged
<1> QED
  BY <1>1, <1>2, PTL DEF Spec

\* Steps the caller of run_turn does not notice.
LEMMA Unnoticed ==
    ASSUME UNCHANGED <<active, dropping, turnRc, shown>>
    PROVE  UNCHANGED Service!vars
  BY DEF Service!vars

LEMMA EndOfCall ==
    ASSUME active \in BOOLEAN, active' = FALSE, shown' = shown, turnRc' \in Results,
           turnRc' = kCancelled => dropping, ~active => turnRc' = turnRc
    PROVE  [Service!Next]_(Service!vars)
<1>1. CASE active
  <2>1. turnRc' \in {Service!OK, Service!Failed} \cup
                    (IF active /\ dropping THEN {Service!kCancelled} ELSE {})
    BY <1>1 DEF Results, OK, Failed, kCancelled, Service!OK, Service!Failed, Service!kCancelled
  <2>2. Service!End
    BY <1>1, <2>1 DEF Service!End
  <2> QED
    BY <2>2 DEF Service!Next
<1>2. CASE ~active
  <2>1. active' = active /\ (active /\ dropping)' = (active /\ dropping)
    BY <1>2
  <2> QED
    BY <1>2, <2>1 DEF Service!vars
<1> QED
  BY <1>1, <1>2

LEMMA ServiceStep ==
    ASSUME IInv, active \in BOOLEAN, [Next]_vars
    PROVE  [Service!Next]_(Service!vars)
<1> USE DEF client
<1>1. CASE MarkActive
  <2>1. ~active /\ active' = TRUE /\ dropping' = FALSE /\ shown' = 0 /\ turnRc' = Failed
    BY <1>1 DEF MarkActive, Step, IInv, ClientOK
  <2>2. Service!Begin
    BY <2>1 DEF Service!Begin, Failed, Service!Failed
  <2> QED
    BY <2>2 DEF Service!Next
<1>2. CASE SendPromptFails
  <2>1. active' = FALSE /\ UNCHANGED <<shown, turnRc, dropping>> /\ turnRc \in Results
    BY <1>2 DEF SendPromptFails, IInv, Typed
  <2>2. CASE active
    <3>1. turnRc = Failed /\ Failed # kCancelled
      BY <2>2 DEF IInv, ClientOK, Failed, kCancelled
    <3> QED
      BY <2>1, <2>2, <3>1, EndOfCall
  <2>3. CASE ~active
    <3>1. active' = active /\ (active /\ dropping)' = (active /\ dropping)
      BY <2>1, <2>3
    <3> QED
      BY <2>1, <3>1 DEF Service!vars
  <2> QED
    BY <2>2, <2>3
<1>3. CASE CancelMark
  <2>1. active /\ dropping' = TRUE /\ UNCHANGED <<active, shown, turnRc>>
    BY <1>3 DEF CancelMark
  <2>2. Service!Cancel
    BY <2>1 DEF Service!Cancel
  <2> QED
    BY <2>2 DEF Service!Next
<1>4. CASE ReadStream
  <2>1. /\ UNCHANGED <<active, dropping, turnRc>>
        /\ shown' = IF active /\ ~dropping THEN shown + 1 ELSE shown
    BY <1>4 DEF ReadStream, ShowsOutput
  <2>2. CASE active /\ ~dropping
    <3>1. Service!Show
      BY <2>1, <2>2 DEF Service!Show
    <3> QED
      BY <3>1 DEF Service!Next
  <2>3. CASE ~(active /\ ~dropping)
    BY <2>1, <2>3, Unnoticed
  <2> QED
    BY <2>2, <2>3
<1>5. CASE ReadTurnDone
  <2>1. /\ active' = FALSE /\ shown' = shown /\ turnRc' = Head(down).rc
        /\ down # <<>> /\ Head(down).type = "turn_done" /\ down' = Tail(down)
    BY <1>5 DEF ReadTurnDone, Reads
  <2>2. /\ Head(down) = down[1] /\ down[1].rc \in Results /\ 1 \in 1 .. Len(down)
    BY <2>1, DownPopped DEF IInv
  <2>3. active /\ (turnRc' = kCancelled => dropping)
    BY <2>1, <2>2 DEF IInv, DownOK, Open
  <2> QED
    BY <2>1, <2>2, <2>3, EndOfCall
<1>6. CASE ReadShutdown
  <2>1. active' = FALSE /\ UNCHANGED <<shown, turnRc, dropping>> /\ turnRc \in Results
    BY <1>6 DEF ReadShutdown, IInv, Typed
  <2>2. CASE active
    <3>1. turnRc = Failed /\ Failed # kCancelled
      BY <2>2 DEF IInv, ClientOK, Failed, kCancelled
    <3> QED
      BY <2>1, <2>2, <3>1, EndOfCall
  <2>3. CASE ~active
    <3>1. active' = active /\ (active /\ dropping)' = (active /\ dropping)
      BY <2>1, <2>3
    <3> QED
      BY <2>1, <3>1 DEF Service!vars
  <2> QED
    BY <2>2, <2>3
<1>7. CASE \/ CheckConnected \/ TakeTurnMu \/ SendPrompt \/ SendPromptLost \/ WaitOver \/ TurnOver
           \/ Submit \/ Clear \/ CancelSend \/ ReadEof
  <2>1. UNCHANGED <<active, dropping, turnRc, shown>>
    BY <1>7 DEF CheckConnected, TakeTurnMu, SendPrompt, SendPromptLost, WaitOver, TurnOver,
                Submit, Clear, CancelSend, ReadEof
  <2> QED
    BY <2>1, Unnoticed
<1>8. CASE HandlerThread \/ TurnThread \/ Stop \/ Collect \/ Notify \/ Offline \/ UNCHANGED vars
  <2>1. UNCHANGED client
    BY <1>8 DEF HandlerThread, HandlePrompt, RejectPrompt, SendWarning, SendRejection,
                HandleCancel, HandleClear, Unregister, CloseSocket, TurnThread, TurnStarts,
                TurnRefused, StreamFrame, RunTurnReturns, SendTurnDone, Release, Stop, Collect,
                Notify, Offline, vars
  <2> QED
    BY <2>1, Unnoticed
<1> QED
  BY <1>1, <1>2, <1>3, <1>4, <1>5, <1>6, <1>7, <1>8
  DEF Next, RunThread, UiThread, ReaderThread

\* Calls are answered in order, nothing of a cancelled call is shown, and only a
\* call the user cancelled comes back as cancelled (agent.h 66-68).
THEOREM RefinesTurnService == Spec => ImplementsTurnService
<1>1. Init => Service!Init
  BY DEF Init, Service!Init, Failed, Service!Failed
<1>2. IInv /\ Flagged /\ [Next]_vars => [Service!Next]_(Service!vars)
  BY ServiceStep DEF Flagged
<1> QED
  BY <1>1, <1>2, Inductive, ActiveIsFlag, PTL DEF Spec, ImplementsTurnService, Service!Spec

-----------------------------------------------------------------------------
(* What a call shows is bounded by what its turn has emitted, the frames that *)
(* are still under way included.                                              *)

Emitted == IF Live /\ tpc = "run" THEN sent ELSE MaxFrames

\* Nothing has been sent for the call yet.
Early ==
    /\ Live
    /\ rpc \in {"marked", "sending"} \/ tpc = "start" \/ (Prompted /\ hpc # "reject")

Silent == shown = 0 /\ \A k \in 1 .. Len(down) : down[k].type # "stream"

Counted ==
    /\ shown <= MaxFrames /\ shown <= Emitted
    /\ \A k \in 1 .. Len(down) : down[k].type = "stream" => shown + k <= Emitted
    /\ Early => Silent

Bounded == Len(up) <= UpCap /\ Len(down) <= DownCap

Flags == {uiBusy, cancelling, active, dropping, connected, reading, closed, slotBusy,
          requested, closing, doomed} \subseteq BOOLEAN

\* A step that shows nothing and sends the client nothing.
LEMMA QuietCount ==
    ASSUME Typed, Counted, UNCHANGED <<shown, down>>,
           Emitted' = Emitted \/ (Emitted' = MaxFrames /\ Emitted \in 0 .. MaxFrames),
           Early' => Early
    PROVE  Counted'
<1>1. Silent' <=> Silent
  BY DEF Silent
<1>2. CASE Emitted' = Emitted
  BY <1>1, <1>2 DEF Counted
<1>3. CASE Emitted' = MaxFrames /\ Emitted \in 0 .. MaxFrames
  <2>1. ASSUME NEW k \in 1 .. Len(down'), down'[k].type = "stream" PROVE shown' + k <= Emitted'
    <3>1. k \in Nat /\ shown \in Nat /\ shown + k <= Emitted
      BY <2>1 DEF Counted, Typed
    <3> QED
      BY <1>3, <3>1, CapsAssumption
  <2> QED
    BY <1>1, <1>3, <2>1 DEF Counted
<1> QED
  BY <1>2, <1>3

LEMMA EmittedFits ==
    ASSUME Typed
    PROVE  Emitted \in 0 .. MaxFrames /\ sent \in 0 .. MaxFrames /\ MaxFrames \in Nat \ {0} /\ shown \in Nat
  BY CapsAssumption DEF Typed, Emitted

LEMMA RunCount == ASSUME IInv, Counted, RunThread PROVE Counted'
<1> USE DEF Step, turn, main, Live, Emitted
<1>1. CASE CheckConnected \/ TakeTurnMu \/ SendPromptFails \/ SendPromptLost \/ WaitOver \/ TurnOver
  <2>1. UNCHANGED <<shown, down, up, hpc, tpc, sent, mpc>> /\ (rpc' \in {"marked", "sending"} => rpc \in {"marked", "sending"})
    BY <1>1 DEF CheckConnected, TakeTurnMu, SendPromptFails, SendPromptLost, WaitOver, TurnOver
  <2>2. Early' => Early
    BY <2>1 DEF Early, Prompted
  <2> QED
    BY <2>1, <2>2, QuietCount DEF IInv
<1>2. CASE MarkActive
  <2>1. ~Open /\ shown' = 0 /\ UNCHANGED <<down, tpc, sent, mpc>>
    BY <1>2 DEF MarkActive, Open
  <2>2. \A k \in 1 .. Len(down) : down[k].type # "stream"
    BY <2>1 DEF IInv, DownOK
  <2>3. 0 <= MaxFrames /\ 0 <= Emitted
    BY EmittedFits DEF IInv
  <2> QED
    BY <2>1, <2>2, <2>3 DEF Counted, Silent
<1>3. CASE SendPrompt
  <2>1. Early /\ UNCHANGED <<shown, down, tpc, sent, mpc>>
    BY <1>3 DEF SendPrompt, Early, IInv, ServerOK
  <2> QED
    BY <2>1, QuietCount DEF IInv
<1> QED
  BY <1>1, <1>2, <1>3 DEF RunThread

LEMMA UiCount == ASSUME IInv, Counted, UiThread PROVE Counted'
<1> USE DEF client, turn, main, Live, Emitted
<1>1. /\ UNCHANGED <<shown, down, hpc, tpc, sent, mpc>>
      /\ rpc' \in {"marked", "sending"} => rpc \in {"marked", "sending"}
  BY DEF UiThread, Submit, Clear, CancelMark, CancelSend
<1>2. Prompted' => Prompted
  <2>1. CASE UNCHANGED up
    BY <2>1 DEF Prompted
  <2>2. ASSUME NEW type \in {"clear", "cancel"}, up' = Append(up, Frame(type))
        PROVE  Prompted' => Prompted
    <3>1. /\ Len(up) \in Nat /\ Len(up') = Len(up) + 1
          /\ \A k \in 1 .. Len(up) : up'[k] = up[k]
          /\ up'[Len(up) + 1].type # "prompt"
      <4>1. Frame(type) \in UpFrame /\ up \in Seq(UpFrame)
        BY FrameTypes DEF IInv, Typed
      <4> QED
        BY <2>2, <4>1, Pushed DEF Frame
    <3> QED
      BY <3>1 DEF Prompted
  <2> QED
    BY <2>1, <2>2 DEF UiThread, Submit, Clear, CancelMark, CancelSend, Write
<1>3. Early' => Early
  BY <1>1, <1>2 DEF Early
<1> QED
  BY <1>1, <1>3, QuietCount DEF IInv

LEMMA ReaderCount == ASSUME IInv, Counted, ReaderThread PROVE Counted'
<1> USE DEF turn, main, Live
<1>1. /\ UNCHANGED <<rpc, up, hpc, tpc, sent, mpc>> /\ Emitted' = Emitted
      /\ (Early' <=> Early)
  BY DEF ReaderThread, ReadStream, ReadTurnDone, ReadShutdown, ReadEof, Emitted, Early, Prompted
<1>2. CASE ReadEof
  BY <1>1, <1>2, QuietCount DEF ReadEof, IInv
<1>3. ASSUME down # <<>>, down' = Tail(down), shown' \in {shown, shown + 1},
             shown' = shown + 1 => down[1].type = "stream"
      PROVE  Counted'
  <2>1. /\ Len(down) \in Nat \ {0} /\ Len(down') = Len(down) - 1 /\ shown \in Nat
        /\ \A k \in 1 .. Len(down') : down'[k] = down[k + 1] /\ k + 1 \in 1 .. Len(down)
        /\ 1 \in 1 .. Len(down) /\ Emitted \in 0 .. MaxFrames /\ MaxFrames \in Nat
    BY <1>3, DownPopped, EmittedFits DEF IInv
  <2>2. shown' <= Emitted /\ shown' <= MaxFrames
    BY <1>3, <2>1 DEF Counted
  <2>3. ASSUME NEW k \in 1 .. Len(down'), down'[k].type = "stream" PROVE shown' + k <= Emitted
    <3>1. k + 1 \in 1 .. Len(down) /\ down[k + 1].type = "stream"
      BY <2>1, <2>3
    <3>2. shown + (k + 1) <= Emitted
      BY <3>1 DEF Counted
    <3>3. k \in Nat /\ (shown' = shown \/ shown' = shown + 1)
      BY <1>3
    <3> QED
      BY <2>1, <3>2, <3>3
  <2>4. Silent => Silent'
    BY <1>3, <2>1 DEF Silent
  <2> QED
    BY <1>1, <2>2, <2>3, <2>4 DEF Counted
<1>4. CASE ReadStream
  <2>1. Head(down) = down[1]
    BY <1>4, DownPopped DEF ReadStream, Reads, IInv
  <2> QED
    BY <1>3, <1>4, <2>1 DEF ReadStream, Reads
<1>5. CASE ReadTurnDone \/ ReadShutdown
  <2>1. shown \in Nat
    BY DEF IInv, Typed
  <2> QED
    BY <1>3, <1>5, <2>1 DEF ReadTurnDone, ReadShutdown, Reads
<1> QED
  BY <1>2, <1>4, <1>5 DEF ReaderThread

\* A frame for the open call goes out: a stream is counted.
LEMMA SentCount ==
    ASSUME IInv, Counted, Live, Open, ~Answered, NEW f \in DownFrame, SendTo(f),
           f.type = "stream" => Emitted' > Emitted \/ (Silent /\ Emitted' = MaxFrames),
           f.type # "stream" => Emitted' >= Emitted,
           UNCHANGED shown, Emitted' \in 0 .. MaxFrames, ~Early'
    PROVE  Counted'
<1>1. /\ Emitted \in 0 .. MaxFrames /\ MaxFrames \in Nat \ {0} /\ shown \in Nat
      /\ shown <= Emitted /\ Emitted' \in 0 .. MaxFrames
  BY EmittedFits DEF IInv, Counted
<1>2. Emitted' >= Emitted
  BY <1>1
<1>3. CASE UNCHANGED down
  <2>1. ASSUME NEW k \in 1 .. Len(down'), down'[k].type = "stream" PROVE shown' + k <= Emitted'
    <3>1. shown + k <= Emitted /\ k \in Nat
      BY <1>3, <2>1 DEF Counted
    <3> QED
      BY <1>1, <1>2, <3>1
  <2> QED
    BY <1>1, <1>2, <2>1 DEF Counted
<1>4. CASE down' = Append(down, f)
  <2>1. /\ Len(down) \in Nat /\ Len(down') = Len(down) + 1
        /\ \A k \in 1 .. Len(down) : down'[k] = down[k]
        /\ down'[Len(down) + 1] = f
    BY <1>4, Pushed DEF IInv, Typed
  <2>2. ASSUME NEW k \in 1 .. Len(down) PROVE down[k].type = "stream"
    <3>1. down[k].type \in {"stream", "turn_done", "shutdown"}
      <4>1. down[k] \in DownFrame
        BY DEF IInv, Typed
      <4> QED
        BY <4>1 DEF DownFrame
    <3> QED
      BY <3>1 DEF IInv, DownOK, Live, Answered
  <2>3. \A k \in 1 .. Len(down) : shown + k <= Emitted
    BY <2>2 DEF Counted
  <2>4. f.type = "stream" => shown + (Len(down) + 1) <= Emitted'
    <3>1. CASE Silent /\ Emitted' = MaxFrames
      <4>1. Len(down) = 0 /\ shown = 0
        BY <2>1, <2>2, <3>1 DEF Silent
      <4> QED
        BY <1>1, <3>1, <4>1
    <3>2. CASE Emitted' > Emitted
      <4>1. shown + Len(down) <= Emitted
        BY <1>1, <2>1, <2>3
      <4> QED
        BY <1>1, <2>1, <3>2, <4>1
    <3> QED
      BY <3>1, <3>2
  <2>5. ASSUME NEW k \in 1 .. Len(down'), down'[k].type = "stream" PROVE shown' + k <= Emitted'
    <3>1. CASE k \in 1 .. Len(down)
      <4>1. shown + k <= Emitted
        BY <2>3, <3>1
      <4> QED
        BY <1>1, <1>2, <2>1, <4>1
    <3>2. CASE k = Len(down) + 1
      BY <2>1, <2>4, <2>5, <3>2
    <3> QED
      BY <2>1, <3>1, <3>2
  <2> QED
    BY <1>1, <1>2, <2>5 DEF Counted
<1> QED
  BY <1>3, <1>4 DEF SendTo

LEMMA HandlerCount == ASSUME IInv, Counted, HandlerThread PROVE Counted'
<1> USE DEF client, turn, main, Alive
<1>1. Live /\ Live' /\ UNCHANGED <<shown, rpc, sent, mpc>>
  BY DEF HandlerThread, HandlePrompt, RejectPrompt, SendWarning, SendRejection, HandleCancel,
         HandleClear, Unregister, CloseSocket, Receives, Live
<1>2. OnePlace /\ UpOK
  BY <1>1 DEF IInv, LiveOK
<1>3. CASE HandlePrompt
  <2>1. up # <<>> /\ up[1].type = "prompt" /\ hpc = "loop" /\ 1 \in 1 .. Len(up)
    BY <1>3, UpPopped DEF HandlePrompt, Receives, IInv
  <2>2. Prompted /\ Early
    BY <1>1, <2>1 DEF Prompted, Early
  <2>3. UNCHANGED down /\ tpc # "run" /\ tpc' = "start"
    BY <1>2, <1>3, <2>2 DEF HandlePrompt, OnePlace, Working
  <2> QED
    BY <1>1, <2>2, <2>3, QuietCount DEF IInv, Emitted
<1>4. CASE RejectPrompt \/ Unregister \/ CloseSocket
  <2>1. UNCHANGED <<up, down, tpc>> /\ hpc # "reject"
    BY <1>4 DEF RejectPrompt, Receives, Unregister, CloseSocket
  <2>2. (Early' => Early) /\ Emitted' = Emitted
    BY <1>1, <2>1 DEF Early, Prompted, Emitted
  <2> QED
    BY <1>1, <2>1, <2>2, QuietCount DEF IInv
<1>5. CASE HandleCancel \/ HandleClear
  <2>1. UNCHANGED <<down, tpc, hpc, call, dropping>> /\ up # <<>> /\ up' = Tail(up)
    BY <1>5 DEF HandleCancel, HandleClear, Receives
  <2>2. Prompted' => Prompted
    BY <1>2, <2>1, UpOKPopped DEF IInv
  <2>3. (Early' => Early) /\ Emitted' = Emitted
    BY <1>1, <2>1, <2>2 DEF Early, Emitted
  <2> QED
    BY <1>1, <2>1, <2>3, QuietCount DEF IInv
<1>6. CASE SendWarning \/ SendRejection
  <2>1. Rejecting /\ Len(up) > 0 /\ up[1].type = "prompt" /\ Open
    BY <1>2, <1>6 DEF SendWarning, SendRejection, Rejecting, OnePlace
  <2>2. up \in Seq(UpFrame)
    BY DEF IInv, Typed
  <2>3. Prompted /\ ~Answered /\ ~Working /\ up # <<>> /\ Head(up) = up[1] /\ Head(up).call \in 0 .. MaxCalls
    BY <1>2, <2>1, <2>2, UpType DEF Prompted, OnePlace, IInv
  <2>4. Emitted = MaxFrames /\ Emitted' = MaxFrames /\ UNCHANGED <<tpc, active, rpc>> /\ MaxFrames \in 0 .. MaxFrames
    BY <1>1, <1>6, <2>3, EmittedFits DEF SendWarning, SendRejection, Emitted, Working, IInv
  <2>5. ~Early'
    <3>1. CASE SendWarning
      BY <2>1, <2>3, <2>4, <3>1 DEF SendWarning, Early, Open, Working
    <3>2. CASE SendRejection
      <4>1. ~Prompted'
        BY <1>2, <2>1, <2>3, <3>2, UpOKPopped DEF SendRejection, IInv
      <4> QED
        BY <2>1, <2>3, <2>4, <4>1 DEF Early, Open, Working
    <3> QED
      BY <1>6, <3>1, <3>2
  <2>6. CASE SendWarning
    <3>1. Early
      BY <1>1, <2>3, <2>6 DEF SendWarning, Early
    <3>2. Silent
      BY <3>1 DEF Counted
    <3>3. Stream(Head(up).call) \in DownFrame /\ SendTo(Stream(Head(up).call))
      BY <2>3, <2>6, FrameTypes DEF SendWarning, IInv
    <3>4. Stream(Head(up).call).type = "stream"
      BY DEF Stream
    <3> QED
      BY <1>1, <2>1, <2>3, <2>4, <2>5, <3>2, <3>3, <3>4, SentCount
  <2>7. CASE SendRejection
    <3>1. /\ TurnDone(Head(up).call, Failed) \in DownFrame
          /\ SendTo(TurnDone(Head(up).call, Failed))
      BY <2>3, <2>7, FrameTypes DEF SendRejection, IInv, Results
    <3>2. TurnDone(Head(up).call, Failed).type # "stream" /\ Emitted' >= Emitted
      BY <2>4 DEF TurnDone
    <3> QED
      BY <1>1, <2>1, <2>3, <2>4, <2>5, <3>1, <3>2, SentCount
  <2> QED
    BY <1>6, <2>6, <2>7
<1> QED
  BY <1>3, <1>4, <1>5, <1>6 DEF HandlerThread

LEMMA TurnCount == ASSUME IInv, Counted, TurnThread PROVE Counted'
<1> USE DEF Turn, client, main, Alive
<1>1. Live /\ Live' /\ UNCHANGED <<shown, rpc, active, up, hpc, mpc>> /\ tpc' # "start"
  BY DEF TurnThread, TurnStarts, TurnRefused, StreamFrame, RunTurnReturns, SendTurnDone, Release, Live
<1>2. OnePlace /\ MaxFrames \in Nat \ {0} /\ sent \in 0 .. MaxFrames
  BY <1>1, EmittedFits DEF IInv, LiveOK
<1>3. Early' => Early
  BY <1>1 DEF Early, Prompted
<1>4. CASE TurnStarts
  <2>1. Silent /\ Emitted' = 0 /\ UNCHANGED down
    BY <1>1, <1>4 DEF TurnStarts, Early, Counted, Emitted
  <2>2. Silent'
    BY <1>1, <2>1 DEF Silent
  <2> QED
    BY <1>1, <1>2, <2>1, <2>2 DEF Counted, Silent
<1>5. CASE Release \/ \E r \in Results : RunTurnReturns(r)
  <2>1. UNCHANGED <<down, sent>> /\ tpc' # "run"
    BY <1>5 DEF Release, RunTurnReturns
  <2>2. Emitted' = MaxFrames /\ Emitted \in 0 .. MaxFrames
    BY <2>1, EmittedFits DEF Emitted, IInv
  <2> QED
    BY <1>1, <1>3, <2>1, <2>2, QuietCount DEF IInv
<1>6. CASE TurnRefused \/ StreamFrame \/ SendTurnDone
  <2>1. Working /\ Open /\ ~Answered /\ ~Prompted /\ tcall \in 0 .. MaxCalls /\ trc \in Results
    BY <1>2, <1>6 DEF TurnRefused, StreamFrame, SendTurnDone, Working, OnePlace, IInv, Typed
  <2>2. ~Early'
    BY <1>1, <2>1 DEF Early, Prompted, Open
  <2>3. Stream(tcall) \in DownFrame /\ Stream(tcall).type = "stream"
    BY <2>1, FrameTypes DEF Stream, IInv
  <2>4. CASE TurnRefused
    <3>1. Silent /\ Emitted' = MaxFrames /\ SendTo(Stream(tcall))
      BY <1>1, <2>4 DEF TurnRefused, Early, Counted, Emitted
    <3> QED
      BY <1>1, <1>2, <2>1, <2>2, <2>3, <3>1, SentCount
  <2>5. CASE StreamFrame
    <3>1. Emitted' = Emitted + 1 /\ Emitted = sent /\ sent < MaxFrames /\ SendTo(Stream(tcall))
      BY <1>1, <2>5 DEF StreamFrame, Emitted
    <3>2. Emitted' > Emitted /\ Emitted' \in 0 .. MaxFrames
      BY <1>2, <3>1
    <3> QED
      BY <1>1, <2>1, <2>2, <2>3, <3>1, <3>2, SentCount
  <2>6. CASE SendTurnDone
    <3>1. Emitted' = MaxFrames /\ Emitted = MaxFrames /\ SendTo(TurnDone(tcall, trc))
      BY <2>6 DEF SendTurnDone, LastFrame, Emitted
    <3>2. TurnDone(tcall, trc) \in DownFrame /\ TurnDone(tcall, trc).type # "stream"
      BY <2>1, FrameTypes DEF TurnDone, IInv
    <3>3. Emitted' >= Emitted /\ Emitted' \in 0 .. MaxFrames
      BY <1>2, <3>1
    <3> QED
      BY <1>1, <2>1, <2>2, <3>1, <3>2, <3>3, SentCount
  <2> QED
    BY <1>6, <2>4, <2>5, <2>6
<1> QED
  BY <1>4, <1>5, <1>6 DEF TurnThread

LEMMA MainCount == ASSUME IInv, Counted, Stop \/ Collect \/ Notify PROVE Counted'
<1> USE DEF client, turn
<1>1. CASE Stop \/ Collect
  <2>1. UNCHANGED <<shown, down, up, rpc, hpc, tpc, sent>> /\ Live /\ Live'
    BY <1>1 DEF Stop, Collect, Live
  <2>2. (Early' => Early) /\ Emitted' = Emitted
    BY <2>1 DEF Early, Prompted, Emitted
  <2> QED
    BY <2>1, <2>2, QuietCount DEF IInv
<1>2. CASE Notify
  <2>1. UNCHANGED shown /\ ~Live' /\ Emitted' = MaxFrames /\ ~Early'
    BY <1>2 DEF Notify, Live, Early, Emitted
  <2>2. Emitted \in 0 .. MaxFrames /\ MaxFrames \in Nat /\ shown \in Nat
    BY EmittedFits DEF IInv
  <2>3. CASE UNCHANGED down
    BY <2>1, <2>2, <2>3, QuietCount DEF IInv
  <2>4. CASE down' = Append(down, Shutdown)
    <3>1. /\ Len(down) \in Nat /\ Len(down') = Len(down) + 1
          /\ \A k \in 1 .. Len(down) : down'[k] = down[k]
          /\ down'[Len(down) + 1].type # "stream"
      BY <2>4, Pushed, FrameTypes DEF IInv, Typed, Shutdown
    <3>2. ASSUME NEW k \in 1 .. Len(down'), down'[k].type = "stream" PROVE shown + k <= MaxFrames
      <4>1. k \in 1 .. Len(down) /\ down[k].type = "stream"
        BY <3>1, <3>2
      <4>2. shown + k <= Emitted
        BY <4>1 DEF Counted
      <4> QED
        BY <2>2, <4>2
    <3> QED
      BY <2>1, <2>2, <3>2 DEF Counted
  <2> QED
    BY <1>2, <2>3, <2>4 DEF Notify
<1> QED
  BY <1>1, <1>2

LEMMA CountKept == ASSUME IInv, Counted, [Next]_vars PROVE Counted'
<1>1. CASE Offline \/ UNCHANGED vars
  <2>1. UNCHANGED <<shown, down, up, rpc, hpc, tpc, sent, mpc>>
    BY <1>1 DEF Offline, vars, client, turn, main
  <2>2. (Early' <=> Early) /\ Emitted' = Emitted
    BY <2>1 DEF Early, Prompted, Live, Emitted
  <2> QED
    BY <2>1, <2>2, QuietCount DEF IInv
<1> QED
  BY <1>1, RunCount, UiCount, ReaderCount, HandlerCount, TurnCount, MainCount DEF Next

-----------------------------------------------------------------------------
(* Capacities and flags. *)

LEMMA CapsKept == ASSUME Typed, Bounded, [Next]_vars PROVE Bounded'
<1> USE CapsAssumption DEF Bounded, Typed
<1>1. UpCap \in Nat /\ DownCap \in Nat /\ Len(up) \in Nat /\ Len(down) \in Nat
  OBVIOUS
<1>2. ASSUME NEW f \in UpFrame, Len(up) < UpCap, up' = Append(up, f) PROVE Len(up') <= UpCap
  <2>1. Len(up') = Len(up) + 1
    BY <1>2, Pushed
  <2> QED
    BY <1>1, <1>2, <2>1
<1>3. ASSUME NEW f \in DownFrame, Len(down) < DownCap, down' = Append(down, f) PROVE Len(down') <= DownCap
  <2>1. Len(down') = Len(down) + 1
    BY <1>3, Pushed
  <2> QED
    BY <1>1, <1>3, <2>1
<1>4. ASSUME up # <<>>, up' = Tail(up) PROVE Len(up') <= UpCap
  <2>1. Len(up') = Len(up) - 1
    BY <1>4, Popped
  <2> QED
    BY <1>1, <2>1
<1>5. ASSUME down # <<>>, down' = Tail(down) PROVE Len(down') <= DownCap
  <2>1. Len(down') = Len(down) - 1
    BY <1>5, Popped
  <2> QED
    BY <1>1, <2>1
<1>6. ASSUME NEW f \in UpFrame, Write(f) PROVE Len(up') <= UpCap
  BY <1>2, <1>6 DEF Write
<1>7. ASSUME NEW f \in DownFrame, SendTo(f) PROVE Len(down') <= DownCap
  BY <1>3, <1>7 DEF SendTo
<1> HIDE DEF Bounded, Typed
<1>8. Len(up) <= UpCap /\ Len(down) <= DownCap
  BY DEF Bounded
<1>9. Bounded' <=> Len(up') <= UpCap /\ Len(down') <= DownCap
  BY DEF Bounded
<1>10. CASE RunThread \/ UiThread
  <2>1. Frame("prompt") \in UpFrame /\ Frame("clear") \in UpFrame /\ Frame("cancel") \in UpFrame
    BY FrameTypes
  <2>2. UNCHANGED down
    BY <1>10 DEF RunThread, CheckConnected, MarkActive, TakeTurnMu, SendPrompt, SendPromptFails,
       SendPromptLost, WaitOver, TurnOver, UiThread, Submit, Clear, CancelMark, CancelSend
  <2>3. UNCHANGED up \/ SendPrompt \/ Clear \/ CancelSend
    BY <1>10 DEF RunThread, CheckConnected, MarkActive, TakeTurnMu, SendPromptFails,
       SendPromptLost, WaitOver, TurnOver, UiThread, Submit, CancelMark
  <2>4. Len(up') <= UpCap
    BY <1>2, <1>6, <1>8, <2>1, <2>3 DEF SendPrompt, Clear, CancelSend
  <2> QED
    BY <1>8, <1>9, <2>2, <2>4
<1>11. CASE ReaderThread
  BY <1>5, <1>8, <1>9, <1>11 DEF ReaderThread, ReadStream, ReadTurnDone, ReadShutdown, ReadEof, Reads
<1>12. CASE HandlerThread
  <2>1. UNCHANGED up \/ (up # <<>> /\ up' = Tail(up)) \/ SendRejection
    BY <1>12 DEF HandlerThread, HandlePrompt, RejectPrompt, SendWarning, HandleCancel,
       HandleClear, Unregister, CloseSocket, Receives
  <2>2. SendRejection \/ SendWarning => up # <<>> /\ Head(up).call \in 0 .. MaxCalls
    BY UpType DEF SendRejection, SendWarning, Typed
  <2>3. Len(up') <= UpCap
    BY <1>4, <1>8, <2>1, <2>2 DEF SendRejection
  <2>4. UNCHANGED down \/ SendRejection \/ SendWarning
    BY <1>12 DEF HandlerThread, HandlePrompt, RejectPrompt, HandleCancel,
       HandleClear, Unregister, CloseSocket, client
  <2>5. \A c \in 0 .. MaxCalls : Stream(c) \in DownFrame /\ TurnDone(c, Failed) \in DownFrame
    BY FrameTypes DEF Results
  <2>6. Len(down') <= DownCap
    BY <1>7, <1>8, <2>2, <2>4, <2>5 DEF SendRejection, SendWarning
  <2> QED
    BY <1>9, <2>3, <2>6
<1>13. CASE TurnThread
  <2>1. UNCHANGED up /\ (UNCHANGED down \/ SendTo(Stream(tcall)) \/ SendTo(TurnDone(tcall, trc)))
    BY <1>13 DEF TurnThread, TurnStarts, TurnRefused, StreamFrame, RunTurnReturns, SendTurnDone,
       LastFrame, Release
  <2>2. Stream(tcall) \in DownFrame /\ TurnDone(tcall, trc) \in DownFrame
    BY FrameTypes DEF Typed
  <2> QED
    BY <1>7, <1>8, <1>9, <2>1, <2>2
<1>14. CASE Stop \/ Collect \/ Notify
  <2>1. Shutdown \in DownFrame
    BY FrameTypes
  <2> QED
    BY <1>3, <1>8, <1>9, <1>14, <2>1 DEF Stop, Collect, Notify
<1>15. CASE Offline \/ UNCHANGED vars
  BY <1>8, <1>9, <1>15 DEF Offline, vars
<1> QED
  BY <1>10, <1>11, <1>12, <1>13, <1>14, <1>15 DEF Next

LEMMA FlagsKept == ASSUME Flags, [Next]_vars PROVE Flags'
<1> USE DEF Flags, client, turn, main
<1>1. CASE RunThread
  BY <1>1 DEF RunThread, CheckConnected, MarkActive, TakeTurnMu, SendPrompt, SendPromptFails,
     SendPromptLost, WaitOver, TurnOver
<1>2. CASE UiThread
  BY <1>2 DEF UiThread, Submit, Clear, CancelMark, CancelSend
<1>3. CASE ReaderThread
  BY <1>3 DEF ReaderThread, ReadStream, ReadTurnDone, ReadShutdown, ReadEof
<1>4. CASE HandlerThread
  BY <1>4 DEF HandlerThread, HandlePrompt, RejectPrompt, SendWarning, SendRejection, HandleCancel,
     HandleClear, Unregister, CloseSocket
<1>5. CASE TurnThread
  BY <1>5 DEF TurnThread, TurnStarts, CancelForgotten, TurnRefused, StreamFrame, RunTurnReturns,
     SendTurnDone, Release
<1>6. CASE Stop \/ Collect \/ Notify
  BY <1>6 DEF Stop, Collect, Notify
<1>7. CASE Offline \/ UNCHANGED vars
  BY <1>7 DEF Offline, vars
<1> QED
  BY <1>1, <1>2, <1>3, <1>4, <1>5, <1>6, <1>7 DEF Next

\* No call shows more than its turn may emit, no channel holds more than it can.
THEOREM TypeCorrect == Spec => []TypeOK
<1>1. Init => Counted /\ Bounded /\ Flags
  <2> SUFFICES ASSUME Init PROVE Counted /\ Bounded /\ Flags
    OBVIOUS
  <2>1. Len(up) = 0 /\ Len(down) = 0 /\ 1 .. 0 = {}
    BY DEF Init
  <2>2. Counted
    BY <2>1, CapsAssumption DEF Init, Counted, Emitted, Silent, Live
  <2>3. Bounded
    BY <2>1, CapsAssumption DEF Bounded
  <2>4. Flags
    BY DEF Init, Flags
  <2> QED
    BY <2>2, <2>3, <2>4
<1>2. ASSUME IInv, Counted, Bounded, Flags, [Next]_vars PROVE Counted' /\ Bounded' /\ Flags'
  BY <1>2, CountKept, CapsKept, FlagsKept DEF IInv
<1>3. IInv /\ Counted /\ Bounded /\ Flags => TypeOK
  <2> SUFFICES ASSUME IInv, Counted, Bounded, Flags PROVE TypeOK
    OBVIOUS
  <2>1. shown \in 0 .. MaxFrames
    BY CapsAssumption DEF Counted, IInv, Typed
  <2> QED
    BY <2>1 DEF IInv, Typed, Bounded, Flags, TypeOK
<1> QED
  BY <1>1, <1>2, <1>3, Inductive, PTL DEF Spec
=============================================================================
