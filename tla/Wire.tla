--------------------------------- MODULE Wire ---------------------------------
(***************************************************************************)
(* One direction of a transport: IrohSink and IrohRead of                  *)
(* zyris-p2p/src/transport.rs over the framing of zyris-p2p/src/frame.rs,  *)
(* and the websocket and channel transports of                             *)
(* zyris-core/src/transport.rs.                                            *)
(*                                                                         *)
(* QUIC carries bytes: they arrive in order, one here, are acknowledged on *)
(* arrival, and those still under way are lost when the connection is      *)
(* closed or breaks; what has arrived can still be read.  A websocket      *)
(* carries messages and control frames; a channel carries messages.        *)
(***************************************************************************)
EXTENDS Naturals, Sequences

CONSTANTS Base,        \* values of a byte
          MaxFrame,    \* MAX_FRAME
          Bodies,      \* payloads that are sent
          MaxSent      \* bound on the messages

ASSUME WireAssumption ==
    /\ Base > 1 /\ MaxFrame < Base * Base
    /\ \A b \in Bodies : Len(b) < Base * Base

VARIABLES
    wrKind,     \* "quic", "ws" or "channel"
    wrSink,     \* "open", "stopping", "closed"
    wrNet,      \* what is under way: bytes, or frames
    wrBuf,      \* bytes or frames that have arrived
    wrUp,       \* the connection is up; FALSE once closed or broken
    wrRead,     \* "header", [kind, len] of a body awaited, "ended" or "failed"
    wrFirst,    \* first_read
    wrSent,     \* history: messages that send took
    wrGot,      \* history: messages that next returned
    wrLost      \* history: broken, or closed before all was acknowledged

wrVars == <<wrKind, wrSink, wrNet, wrBuf, wrUp, wrRead, wrFirst, wrSent, wrGot, wrLost>>

HeaderLen == 3         \* a kind and a two-byte length, for [u8 kind][u32 BE len]
Header == [at |-> "header", kind |-> 0, len |-> 0]
Stopped(how) == [at |-> how, kind |-> 0, len |-> 0]
Reading == wrRead.at \in {"header", "body"}

WrTypeOK ==
    /\ wrSink \in {"open", "stopping", "closed"}
    /\ wrRead.at \in {"header", "body", "ended", "failed"} /\ wrRead.len <= MaxFrame
    /\ Len(wrSent) <= MaxSent /\ Len(wrGot) <= Len(wrSent)

WrInit ==
    /\ wrKind \in {"quic", "ws", "channel"} /\ wrSink = "open" /\ wrNet = <<>> /\ wrBuf = <<>>
    /\ wrUp = TRUE /\ wrRead = Header /\ wrFirst = TRUE
    /\ wrSent = <<>> /\ wrGot = <<>> /\ wrLost = FALSE

-------------------------------------------------------------------------------
(* frame.rs *)

\* Binary is kind 0 and text kind 1; the length is big-endian.
encode(msg) ==
    LET len == Len(msg.body)
    IN  <<msg.kind, len \div Base, len % Base>> \o msg.body

decode_header(buf) ==
    LET len == buf[2] * Base + buf[3]
    IN  [ok |-> buf[1] <= 1 /\ len <= MaxFrame, kind |-> buf[1], len |-> len]

-------------------------------------------------------------------------------
(* The sink *)

Frame(type, msg) == [type |-> type, msg |-> msg]
NoMsg == [kind |-> 0, body |-> <<>>]

Units(msg) == IF wrKind = "quic" THEN encode(msg) ELSE <<Frame("message", msg)>>

Send(msg) ==
    /\ wrSink = "open" /\ wrUp /\ Len(wrSent) < MaxSent
    /\ wrNet' = wrNet \o Units(msg) /\ wrSent' = Append(wrSent, msg)
    /\ UNCHANGED <<wrKind, wrSink, wrBuf, wrUp, wrRead, wrFirst, wrGot, wrLost>>

\* External: a websocket peer also sends pings and pongs.
Ping ==
    /\ wrKind = "ws" /\ wrSink = "open" /\ wrUp /\ Len(wrNet) + Len(wrBuf) < 2
    /\ wrNet' = Append(wrNet, Frame("ping", NoMsg))
    /\ UNCHANGED <<wrKind, wrSink, wrBuf, wrUp, wrRead, wrFirst, wrSent, wrGot, wrLost>>

\* A websocket close is one more frame; a channel's sink is dropped; QUIC's close
\* finishes the stream and waits.
Close ==
    /\ wrSink = "open"
    /\ wrSink' = IF wrKind = "quic" /\ wrUp THEN "stopping" ELSE "closed"
    /\ wrNet' = IF wrKind = "ws" /\ wrUp THEN Append(wrNet, Frame("close", NoMsg)) ELSE wrNet
    /\ UNCHANGED <<wrKind, wrBuf, wrUp, wrRead, wrFirst, wrSent, wrGot, wrLost>>

\* Slip: the connection is closed right after finish.
MayCloseAtOnce == TRUE

\* The peer has acknowledged everything.
MayClose == wrNet = <<>>

\* stopped() resolves, and the connection is closed.
CloseConnection ==
    /\ wrSink = "stopping" /\ MayClose
    /\ wrSink' = "closed" /\ wrUp' = FALSE /\ wrNet' = <<>>
    /\ UNCHANGED <<wrKind, wrBuf, wrRead, wrFirst, wrSent, wrGot, wrLost>>

\* CLOSE_STOPPED_WAIT runs out first.
CloseWaitExpires ==
    /\ wrSink = "stopping" /\ wrNet # <<>>
    /\ wrSink' = "closed" /\ wrUp' = FALSE /\ wrNet' = <<>> /\ wrLost' = TRUE
    /\ UNCHANGED <<wrKind, wrBuf, wrRead, wrFirst, wrSent, wrGot>>

-------------------------------------------------------------------------------
(* External: the network *)

BytesArrive ==
    /\ wrUp /\ wrNet # <<>>
    /\ wrNet' = Tail(wrNet) /\ wrBuf' = Append(wrBuf, Head(wrNet))
    /\ UNCHANGED <<wrKind, wrSink, wrUp, wrRead, wrFirst, wrSent, wrGot, wrLost>>

Breaks ==
    /\ wrUp /\ wrKind # "channel"
    /\ wrUp' = FALSE /\ wrNet' = <<>> /\ wrLost' = TRUE
    /\ UNCHANGED <<wrKind, wrSink, wrBuf, wrRead, wrFirst, wrSent, wrGot>>

-------------------------------------------------------------------------------
(* The stream *)

Consume(n, read, got) ==
    /\ wrBuf' = SubSeq(wrBuf, n + 1, Len(wrBuf)) /\ wrRead' = read /\ wrGot' = wrGot \o got
    /\ UNCHANGED <<wrKind, wrSink, wrNet, wrUp, wrSent, wrLost>>

ReadHeader ==
    /\ wrKind = "quic" /\ wrRead.at = "header" /\ Len(wrBuf) >= HeaderLen
    /\ LET head == decode_header(SubSeq(wrBuf, 1, HeaderLen))
       IN  Consume(HeaderLen, IF head.ok THEN [at |-> "body", kind |-> head.kind, len |-> head.len]
                           ELSE Stopped("failed"), <<>>)
    /\ UNCHANGED wrFirst

\* body(kind, payload), and next returns.
ReadBody ==
    /\ wrRead.at = "body" /\ Len(wrBuf) >= wrRead.len
    /\ Consume(wrRead.len, Header, <<[kind |-> wrRead.kind, body |-> SubSeq(wrBuf, 1, wrRead.len)]>>)
    /\ wrFirst' = FALSE

\* read_exact finds the connection gone and too few bytes.
ReadFails ==
    /\ wrKind = "quic" /\ Reading /\ ~wrUp
    /\ Len(wrBuf) < (IF wrRead.at = "header" THEN HeaderLen ELSE wrRead.len)
    /\ Consume(0, Stopped("failed"), <<>>) /\ UNCHANGED wrFirst

\* FIRST_MESSAGE_DEADLINE
FirstReadExpires ==
    /\ wrKind = "quic" /\ wrFirst /\ Reading
    /\ wrRead' = Stopped("failed") /\ wrLost' = TRUE
    /\ UNCHANGED <<wrKind, wrSink, wrNet, wrBuf, wrUp, wrFirst, wrSent, wrGot>>

\* WsRead::next skips control frames, and a close ends the stream.
NextFrame ==
    /\ wrKind # "quic" /\ Reading /\ wrBuf # <<>>
    /\ LET frame == Head(wrBuf)
       IN  Consume(1, IF frame.type = "close" THEN Stopped("ended") ELSE Header,
                IF frame.type = "message" THEN <<frame.msg>> ELSE <<>>)
    /\ UNCHANGED wrFirst

\* The other end is gone and nothing is left.
StreamEnded ==
    /\ wrKind # "quic" /\ Reading /\ wrBuf = <<>> /\ wrNet = <<>>
    /\ ~wrUp \/ (wrKind = "channel" /\ wrSink = "closed")
    /\ Consume(0, Stopped("ended"), <<>>) /\ UNCHANGED wrFirst

WrNext ==
    \/ \E kind \in {0, 1}, body \in Bodies : Send([kind |-> kind, body |-> body])
    \/ Ping \/ Close \/ CloseConnection \/ CloseWaitExpires \/ BytesArrive \/ Breaks
    \/ ReadHeader \/ ReadBody \/ ReadFails \/ FirstReadExpires \/ NextFrame \/ StreamEnded

-------------------------------------------------------------------------------
Fits(msg) == wrKind = "quic" => Len(msg.body) <= MaxFrame

\* What is read is what was sent, in order, with its kind and its exact payload; and when
\* a sender closes, everything it has sent is read before the stream ends, unless the
\* connection broke, a wait ran out, or a frame was over the cap, which the sender does
\* not look at (encode, decode_header, read_one, close).
SentIsRead ==
    /\ WrTypeOK
    /\ Len(wrGot) <= Len(wrSent) /\ wrGot = SubSeq(wrSent, 1, Len(wrGot))
    /\ ~Reading /\ ~wrLost /\ (\A i \in DOMAIN wrSent : Fits(wrSent[i])) => wrGot = wrSent
===============================================================================
