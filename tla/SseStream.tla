------------------------------ MODULE SseStream ------------------------------
(***************************************************************************)
(* One streamed answer of the provider (src/provider/openrouter.cpp) and   *)
(* the reply the turn builds from it (TurnBridge, src/agent.cpp).          *)
(*                                                                         *)
(* The body is a sequence of lines of server-sent events.  The transport   *)
(* hands it over in pieces of any size, so a line arrives in parts; the    *)
(* connection may break anywhere.  A line is three symbols, <<l, 1>>,      *)
(* <<l, 2>> and EOL, of which a piece may hold any number.                  *)
(***************************************************************************)
EXTENDS Integers, Sequences, FiniteSets, SequencesExt

CONSTANTS
    Chunks,  \* what a data line may hold, see Chunk
    Other,   \* a line that is no data, or holds no JSON: comments, [DONE], garbage
    EOL,
    MaxLines \* bound: lines of a body

\* A chunk: a text delta and tool call deltas [index, id, args], with id or args
\* Missing when the delta does not have them, and whether it has a finish_reason.
Missing == "none"
IsChunk(c) ==
    /\ c.finish \in BOOLEAN
    /\ c.text \in Seq(Range(c.text))
    /\ c.calls \in Seq(Range(c.calls))
    /\ \A i \in DOMAIN c.calls : c.calls[i].index \in Nat

\* No piece of a line is taken for its end.
StreamFits ==
    /\ MaxLines \in Nat
    /\ \A c \in Chunks : IsChunk(c)
    /\ \A l \in Chunks \cup {Other}, i \in {1, 2} : <<l, i>> # EOL

VARIABLES
    body,        \* the symbols of the answer
    at,          \* how many of them have arrived
    pending,     \* pending_line
    currentTool, \* current_tool_id
    text,        \* response_text
    calls,       \* tool_calls: [id, args]
    indexOf,     \* tool_index: index in the stream -> position in calls
    how,         \* how complete() ended
    input        \* the arguments each call is executed with

sseVars == <<body, at, pending, currentTool, text, calls, indexOf, how, input>>

TypeOK ==
    /\ currentTool = Missing \/ \E i \in DOMAIN calls : calls[i].id = currentTool
    /\ DOMAIN indexOf \subseteq Nat
    /\ \A i \in DOMAIN indexOf : indexOf[i] \in DOMAIN calls
    /\ how \in {"idle", "streaming", "done", "threw"}
    /\ EOL \notin {pending[i] : i \in DOMAIN pending}

Init ==
    /\ body = <<>> /\ at = 0 /\ pending = <<>>
    /\ currentTool = Missing
    /\ text = <<>> /\ calls = <<>>
    /\ indexOf = [i \in {} |-> 0]
    /\ how = "idle"
    /\ input = <<>>

\* The request is out and the server will answer with these lines.  The last one
\* may lack its end.
Request ==
    /\ how = "idle"
    /\ \E n \in 1 .. MaxLines : \E ls \in [1 .. n -> Chunks \cup {Other}], size \in {3 * n - 1, 3 * n} :
          body' = [i \in 1 .. size |-> IF i % 3 = 0 THEN EOL ELSE <<ls[(i + 2) \div 3], i % 3>>]
    /\ how' = "streaming"
    /\ UNCHANGED <<at, pending, currentTool, text, calls, indexOf, input>>

-----------------------------------------------------------------------------
(* emit_sse_data and TurnBridge: reply is [current, text, calls, index] *)

\* A bug: the index of the stream is taken for the position.
PutArgsByIndex(reply, delta) ==
    IF delta.args = Missing \/ delta.index + 1 \notin DOMAIN reply.calls THEN reply
    ELSE [reply EXCEPT !.calls[delta.index + 1].args = Append(@, delta.args)]

\* ToolInputDelta: arguments for an index nobody has started are dropped.
PutArgs(reply, delta) ==
    IF delta.args = Missing \/ delta.index \notin DOMAIN reply.index THEN reply
    ELSE [reply EXCEPT !.calls[reply.index[delta.index]].args = Append(@, delta.args)]

\* ToolUseStart: an index that is started again means the newer call from now on.
PutStart(reply, delta) ==
    IF delta.id = Missing THEN reply
    ELSE LET new == Len(reply.calls) + 1
         IN  [reply EXCEPT !.current = delta.id,
                           !.calls = Append(@, [id |-> delta.id, args |-> <<>>]),
                           !.index = [i \in DOMAIN @ \cup {delta.index} |->
                                         IF i = delta.index THEN new ELSE @[i]]]

EmitSseData(reply, chunk) ==
    LET after[k \in 0 .. Len(chunk.calls)] ==
            IF k = 0 THEN [reply EXCEPT !.current = IF chunk.finish THEN Missing ELSE @,
                                        !.text = @ \o chunk.text]
            ELSE PutArgs(PutStart(after[k - 1], chunk.calls[k]), chunk.calls[k])
    IN  IF chunk = Other THEN reply ELSE after[Len(chunk.calls)]

-----------------------------------------------------------------------------
\* One symbol behind the lines that are complete: [line, reply].
Take(s, symbol) ==
    IF symbol # EOL THEN [s EXCEPT !.line = Append(@, symbol)]
    ELSE [line |-> <<>>, reply |-> EmitSseData(s.reply, s.line[1][1])]

\* A bug: a piece is split into lines by itself.
TakeAlone(s, symbol) ==
    IF symbol # EOL THEN [s EXCEPT !.line = Append(@, symbol)]
    ELSE [line |-> <<>>, reply |-> IF Len(s.line) = 2 THEN EmitSseData(s.reply, s.line[1][1]) ELSE s.reply]
ReceiveAlone(n) ==
    /\ how = "streaming" /\ at + n <= Len(body)
    /\ LET after[k \in 0 .. n] ==
               IF k = 0 THEN [line |-> <<>>, reply |-> [current |-> currentTool, text |-> text,
                                                        calls |-> calls, index |-> indexOf]]
               ELSE TakeAlone(after[k - 1], body[at + k])
       IN  /\ pending' = after[n].line
           /\ currentTool' = after[n].reply.current /\ text' = after[n].reply.text
           /\ calls' = after[n].reply.calls /\ indexOf' = after[n].reply.index
    /\ at' = at + n
    /\ UNCHANGED <<body, how, input>>

\* The write callback, for a piece of n symbols.
Receive(n) ==
    /\ how = "streaming" /\ at + n <= Len(body)
    /\ LET after[k \in 0 .. n] ==
               IF k = 0 THEN [line |-> pending, reply |-> [current |-> currentTool, text |-> text,
                                                          calls |-> calls, index |-> indexOf]]
               ELSE Take(after[k - 1], body[at + k])
       IN  /\ pending' = after[n].line
           /\ currentTool' = after[n].reply.current /\ text' = after[n].reply.text
           /\ calls' = after[n].reply.calls /\ indexOf' = after[n].reply.index
    /\ at' = at + n
    /\ UNCHANGED <<body, how, input>>

\* The transport or the status tells of an error: the turn gets an exception.
Fail ==
    /\ how = "streaming"
    /\ how' = "threw"
    /\ UNCHANGED <<body, at, pending, currentTool, text, calls, indexOf, input>>

\* The arguments as JSON: what does not parse is an empty object, and so is a
\* call without any.
Complete(args) == args # <<>> /\ Last(args) = "}"

\* The answer is over; what is in pending_line is not looked at.
Finish ==
    /\ how = "streaming" /\ at = Len(body)
    /\ how' = "done"
    /\ input' = [i \in DOMAIN calls |-> IF Complete(calls[i].args) THEN calls[i].args ELSE <<"{", "}">>]
    /\ UNCHANGED <<body, at, pending, currentTool, text, calls, indexOf>>

Next == Request \/ (\E n \in 1 .. 3 * MaxLines : Receive(n)) \/ Fail \/ Finish

Spec == Init /\ [][Next]_sseVars

-----------------------------------------------------------------------------
(* Properties. *)

\* What the first n lines hold, and all their deltas and texts in order.
LinesOf(n) == [i \in 1 .. n |-> body[3 * i - 2][1]]
DeltasOf(n) == FlattenSeq([i \in 1 .. n |-> IF LinesOf(n)[i] = Other THEN <<>> ELSE LinesOf(n)[i].calls])
TextOf(n) == FlattenSeq([i \in 1 .. n |-> IF LinesOf(n)[i] = Other THEN <<>> ELSE LinesOf(n)[i].text])

\* Of the deltas d: those that start a call, and those whose arguments belong to
\* the call that s starts, the ones of its index up to the next start of that index.
Begins(d) == {s \in DOMAIN d : d[s].id # Missing}
Owned(d, s) ==
    {j \in s .. Len(d) : /\ d[j].args # Missing /\ d[j].index = d[s].index
                         /\ \A r \in Begins(d) : s < r /\ r <= j => d[r].index # d[s].index}

\* Which of S the number j is.
Rank(S, j) == Cardinality({i \in S : i <= j})

\* The calls that d spells, from the text alone: one for each start, in order, with
\* the arguments that are its own, in order.
Spells(d, made) ==
    /\ Len(made) = Cardinality(Begins(d))
    /\ \A s \in Begins(d) :
          LET call == made[Rank(Begins(d), s)]
          IN  /\ call.id = d[s].id
              /\ Len(call.args) = Cardinality(Owned(d, s))
              /\ \A j \in Owned(d, s) : call.args[Rank(Owned(d, s), j)] = d[j].args

\* Whatever the pieces the body comes in, and however the deltas of several tool
\* calls are mixed, the calls of a turn have the names and the arguments the
\* provider has sent for them (openrouter.cpp 78-134 and 236-250, agent.cpp
\* 286-317).
CallsAsSent == Spells(DeltasOf(at \div 3), calls) /\ text = TextOf(at \div 3)
=============================================================================
