--------------------------- MODULE ClientHandshake ---------------------------
(***************************************************************************)
(* The client's side of a connection (src/server/client.cpp) on top of     *)
(* LineReader (src/server/protocol.h): connect reads the hello_ack with a  *)
(* reader of its own, and reader_loop reads the rest with another.  A frame *)
(* is a few pieces; its last one has the newline.  The server, which sends *)
(* whole frames, is reduced to what it sends.                              *)
(***************************************************************************)
EXTENDS Integers, Sequences, SequencesExt

CONSTANTS
    MaxFrames, \* bound: frames the server sends
    Chunk,     \* pieces a recv can return: kReadChunkBytes
    Cap,       \* pieces without a newline a reader accepts: kMaxFrameBytes
    MaxTicks   \* polls the handshake may take: 5000 ms in ticks of 200 ms

LimitsFit ==
    MaxFrames \in Nat /\ Chunk \in Nat /\ Cap \in Nat /\ MaxTicks \in Nat \ {0}

Kinds == {"hello_ack", "state", "long", "shutdown"}
Size(kind) == IF kind = "long" THEN Cap + 2 ELSE 2

VARIABLES
    sent,     \* the frames the server sent: their kinds
    net,      \* their pieces that were not received: <<number, piece>>
    closed,   \* the server has closed its end
    stage,    \* "ack", "up", "failed" or "over"
    buf,      \* buf_ of the reader at work, from pos_ on
    ticks,    \* elapsed_ms_ of the reader of the handshake
    received, \* history: the last frame of which a piece was received in the handshake
    handled   \* history: the frames reader_loop handled

handshakeVars == <<sent, net, closed, stage, buf, ticks, received, handled>>

TypeOK ==
    /\ \A i \in DOMAIN sent : sent[i] \in Kinds
    /\ stage \in {"ack", "up", "failed", "over"}
    /\ Len(buf) <= Cap + Chunk
    /\ ticks \in 0 .. MaxTicks /\ received \in 0 .. MaxFrames

Init ==
    /\ sent = <<>> /\ net = <<>> /\ closed = FALSE
    /\ stage = "ack" /\ buf = <<>> /\ ticks = 0
    /\ received = 0 /\ handled = <<>>

-----------------------------------------------------------------------------
(* The server (handle_client, send_to): the ack comes first, or a shutdown. *)

Send(kind) ==
    /\ ~closed /\ Len(sent) < MaxFrames
    /\ (sent = <<>>) <=> (kind = "hello_ack")
    /\ sent' = Append(sent, kind)
    /\ net' = net \o [p \in 1 .. Size(kind) |-> <<Len(sent) + 1, p>>]
    /\ UNCHANGED <<closed, stage, buf, ticks, received, handled>>

\* shutdown_clients, also between a client's registration and its ack.
Shutdown ==
    /\ ~closed /\ Len(sent) < MaxFrames
    /\ sent' = Append(sent, "shutdown")
    /\ net' = net \o <<<<Len(sent) + 1, 1>>, <<Len(sent) + 1, 2>>>>
    /\ closed' = TRUE
    /\ UNCHANGED <<stage, buf, ticks, received, handled>>

-----------------------------------------------------------------------------
(* LineReader::next_line. *)

EndsLine(piece) == piece[2] = Size(sent[piece[1]])
HasLine == \E i \in DOMAIN buf : EndsLine(buf[i])
LineEnd == CHOOSE i \in DOMAIN buf : EndsLine(buf[i]) /\ \A j \in 1 .. i - 1 : ~EndsLine(buf[j])
Line == SubSeq(buf, 1, LineEnd)

\* A bug: the buffer ends with the line.
RestForgotten == <<>>

\* What is behind the newline stays for the next call.
Rest == SubSeq(buf, LineEnd + 1, Len(buf))

TooLong == ~HasLine /\ Len(buf) > Cap

\* One poll that finds something, and its recv.
CanReceive == ~HasLine /\ ~TooLong /\ net # <<>>
Receive(n) ==
    /\ n \in 1 .. Chunk /\ n <= Len(net)
    /\ buf' = buf \o SubSeq(net, 1, n)
    /\ net' = SubSeq(net, n + 1, Len(net))

AtEof == ~HasLine /\ ~TooLong /\ net = <<>> /\ closed

\* The line parses: it is one frame from its first piece on.
IsFrame == buf[1][2] = 1 /\ LineEnd = Size(sent[buf[1][1]])
Kind == sent[buf[1][1]]

-----------------------------------------------------------------------------
(* connect. *)

\* A poll counts as a tick whether or not it waited, and the last one receives nothing.
AckTick ==
    /\ stage = "ack" /\ ~HasLine /\ ~TooLong
    /\ ticks' = ticks + 1
    /\ IF ticks + 1 = MaxTicks THEN stage' = "failed" /\ UNCHANGED <<buf, net, received>>
       ELSE /\ UNCHANGED stage
            /\ \/ net = <<>> /\ ~closed /\ UNCHANGED <<buf, net, received>>
               \/ \E n \in 1 .. Chunk : Receive(n) /\ received' = net[n][1]
    /\ UNCHANGED <<sent, closed, handled>>

AckFails ==
    /\ stage = "ack"
    /\ TooLong \/ AtEof \/ (HasLine /\ ~(IsFrame /\ Kind = "hello_ack"))
    /\ stage' = "failed"
    /\ UNCHANGED <<sent, net, closed, buf, ticks, received, handled>>

\* The reader of the handshake goes with what it has read behind the ack.
AckArrives ==
    /\ stage = "ack" /\ HasLine
    /\ IsFrame /\ Kind = "hello_ack"
    /\ stage' = "up" /\ buf' = <<>>
    /\ UNCHANGED <<sent, net, closed, ticks, received, handled>>

-----------------------------------------------------------------------------
(* reader_loop. *)

LoopReceive ==
    /\ stage = "up" /\ CanReceive
    /\ \E n \in 1 .. Chunk : Receive(n)
    /\ UNCHANGED <<sent, closed, stage, ticks, received, handled>>

\* The frame goes to the handler; one that does not parse is skipped.
LoopLine ==
    /\ stage = "up" /\ HasLine
    /\ buf' = Rest
    /\ IF IsFrame THEN handled' = Append(handled, buf[1][1]) ELSE UNCHANGED handled
    /\ stage' = IF IsFrame /\ Kind = "shutdown" THEN "over" ELSE "up"
    /\ UNCHANGED <<sent, net, closed, ticks, received>>

LoopEnds ==
    /\ stage = "up" /\ (TooLong \/ AtEof)
    /\ stage' = "over"
    /\ UNCHANGED <<sent, net, closed, buf, ticks, received, handled>>

\* disconnect: bye, shutdown of the socket, join.
Disconnect ==
    /\ stage = "up"
    /\ stage' = "over"
    /\ UNCHANGED <<sent, net, closed, buf, ticks, received, handled>>

Next ==
    \/ \E kind \in Kinds \ {"shutdown"} : Send(kind)
    \/ Shutdown
    \/ AckTick \/ AckFails \/ AckArrives
    \/ LoopReceive \/ LoopLine \/ LoopEnds \/ Disconnect

Spec == Init /\ [][Next]_handshakeVars

-----------------------------------------------------------------------------
(* Properties. *)

\* However TCP cuts the stream, reader_loop handles what its own reader is given: whole
\* frames, in order and without a gap, from the one behind those of which the
\* handshake's reader took something (client.cpp 74-110, protocol.h 268-313).
LoopKeepsFrames ==
    \A i \in DOMAIN handled :
        handled[i] = IF i > 1 THEN handled[i - 1] + 1 ELSE received + 1

\* client.h 19: "Inbound traffic after hello_ack is forwarded to a caller-set handler".
\* The first frame that is handled is the one behind the ack, and none is left out.
FramesForwarded == \A i \in DOMAIN handled : handled[i] = i + 1

\* A connection that is up was acknowledged.
UpIsAcknowledged == stage \in {"up", "over"} => sent[1] = "hello_ack"
=============================================================================
