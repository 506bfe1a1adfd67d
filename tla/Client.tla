------------------------------- MODULE Client -------------------------------
(***************************************************************************)
(* The synchronous client after its handshake: one thread calls send,      *)
(* write, flush, recv, close and closeNoAck; recv answers pings, replies   *)
(* to a Close and reports violations by sending frames of its own.  The    *)
(* transport sends and delivers any part of what it is given, and may fail *)
(* at any time.                                                            *)
(*                                                                         *)
(* Below the caller sits one of two loops: recv's, or the one of flush,    *)
(* entered for one of six reasons.  pc names the loop by its reason, call  *)
(* the public function it runs for.  Incoming messages are what the frame  *)
(* reader makes of the bytes (MessageStream); "Bad" is its error.          *)
(***************************************************************************)
EXTENDS Integers, Sequences

CONSTANTS
  FrameSize,     \* bytes of a frame on the wire (all alike here)
  MaxWrites,     \* frames the application writes (bounds the model)
  MaxIncoming    \* messages the server sends, its acknowledgement of a
                 \* Close not counted (bounds the model)

ASSUME ClientAssumption ==
  /\ FrameSize \in Nat \ {0}
  /\ MaxWrites \in Nat
  /\ MaxIncoming \in Nat

VARIABLES
  connected,   \* m_transport is not null
  written,     \* the frames written to m_wbuf so far (history)
  wbuf,        \* m_wbuf; a byte is its position in the stream of all bytes
  wire,        \* the bytes the transport has sent, in order (history)
  sent,        \* the messages the server has sent (history)
  net,         \* those on their way
  rbuf,        \* those in m_rbuf
  call,        \* the public function running, or the last one that ran
  pc,          \* "idle", "recv", or the reason for which flush runs
  result,      \* what the last call returned, "none" while one runs
  sendFailed   \* the transport has refused to send (history)

clientVars == <<connected, written, wbuf, call, pc, result>>
vars == <<clientVars, wire, sent, net, rbuf, sendFailed>>

Incoming == {"Data", "Ping", "Pong", "Close", "Bad"}
Reasons  == {"send", "pong", "reply", "violation", "close", "closeNoAck"}
Calls    == {"write", "send", "flush", "recv", "close", "closeNoAck"}

AppFrames == SelectSeq(written, LAMBDA f : f.type \in {"Data", "Ping"})

\* The bytes of the k-th frame written.
FrameBytes(k) == [i \in 1 .. FrameSize |-> FrameSize * (k - 1) + i]

Init ==
  /\ connected = TRUE
  /\ written = << >> /\ wbuf = << >> /\ wire = << >>
  /\ sent = << >> /\ net = << >> /\ rbuf = << >>
  /\ call = "none" /\ pc = "idle" /\ result = "none"
  /\ sendFailed = FALSE

-----------------------------------------------------------------------------
(* The server *)

ServerSends(type) ==
  /\ sent' = Append(sent, [type |-> type, tag |-> Len(sent) + 1])
  /\ net' = Append(net, [type |-> type, tag |-> Len(sent) + 1])
  /\ UNCHANGED <<clientVars, wire, rbuf, sendFailed>>

ServerSend ==
  /\ Len(sent) < MaxIncoming
  /\ \E type \in Incoming : ServerSends(type)

\* The number of whole frames the server has.
Arrived == Len(wire) \div FrameSize

\* A server that has read a Close answers it, once.
ServerAck ==
  /\ \E k \in DOMAIN written : k <= Arrived /\ written[k].type = "Close"
  /\ \A k \in 1 .. Len(sent) : sent[k].type # "Close"
  /\ ServerSends("Close")

-----------------------------------------------------------------------------
(* Parts of the calls *)

\* _writeMessage of a message that validates.
WriteFrame(type, tag) ==
  /\ written' = Append(written, [type |-> type, tag |-> tag])
  /\ wbuf' = wbuf \o FrameBytes(Len(written) + 1)

\* (mutant) A function does not look at m_transport.
Begin_Unchecked(function) ==
  /\ pc = "idle"
  /\ call' = function

Begin(function) ==
  /\ pc = "idle"
  /\ connected
  /\ call' = function

Finish(value) == pc' = "idle" /\ result' = value

\* recv returns, leaving the transport up or not.  close() goes on with what
\* its inner recv() returned; otherwise the application gets it.
RecvReturns(value, up) ==
  CASE call # "close"                     -> Finish(value) /\ connected' = up
    [] call = "close" /\ value = "Data"  -> pc' = "recv" /\ UNCHANGED <<connected, result>>
    [] call = "close" /\ value = "Close" -> Finish("ok") /\ connected' = FALSE
    [] call = "close" /\ value = "err"   -> Finish("err") /\ connected' = FALSE

-----------------------------------------------------------------------------
(* The calls *)

\* Every function starts by looking at m_transport.
CallDisconnected ==
  /\ pc = "idle"
  /\ ~ connected
  /\ call' \in Calls
  /\ result' = "err"
  /\ UNCHANGED <<connected, written, wbuf, pc, wire, sent, net, rbuf, sendFailed>>

\* The application sends data and pings; a Close it leaves to close().
CallWrite(type) ==
  /\ Len(AppFrames) < MaxWrites
  /\ Begin("write")
  /\ WriteFrame(type, 0)
  /\ Finish("ok")
  /\ UNCHANGED <<connected, wire, sent, net, rbuf, sendFailed>>

CallSend(type) ==
  /\ Len(AppFrames) < MaxWrites
  /\ Begin("send")
  /\ WriteFrame(type, 0)
  /\ pc' = "send" /\ result' = "none"
  /\ UNCHANGED <<connected, wire, sent, net, rbuf, sendFailed>>

\* A message that does not validate, or of type Fragment.
CallSendInvalid ==
  /\ Begin("send")
  /\ Finish("err")
  /\ UNCHANGED <<connected, written, wbuf, wire, sent, net, rbuf, sendFailed>>

CallFlush ==
  /\ Begin("flush")
  /\ pc' = "send" /\ result' = "none"
  /\ UNCHANGED <<connected, written, wbuf, wire, sent, net, rbuf, sendFailed>>

CallRecv ==
  /\ Begin("recv")
  /\ pc' = "recv" /\ result' = "none"
  /\ UNCHANGED <<connected, written, wbuf, wire, sent, net, rbuf, sendFailed>>

CallClose(function) ==
  /\ Begin(function)
  /\ WriteFrame("Close", 0)
  /\ pc' = function /\ result' = "none"
  /\ UNCHANGED <<connected, wire, sent, net, rbuf, sendFailed>>

\* A code or a reason that makeCloseFrame's message does not validate with:
\* sendCloseFrame gives the connection up.
CallCloseInvalid(function) ==
  /\ Begin(function)
  /\ connected' = FALSE
  /\ Finish("err")
  /\ UNCHANGED <<written, wbuf, wire, sent, net, rbuf, sendFailed>>

-----------------------------------------------------------------------------
(* The loop of flush *)

\* (mutant) The whole buffer is dropped after a short send.
FlushSome_DropsRest(n) ==
  /\ pc \in Reasons
  /\ wire' = wire \o SubSeq(wbuf, 1, n)
  /\ wbuf' = << >>
  /\ UNCHANGED <<connected, written, call, pc, result, sent, net, rbuf, sendFailed>>

\* The transport sends some of the bytes, which are then skipped.
FlushSome(n) ==
  /\ pc \in Reasons
  /\ wire' = wire \o SubSeq(wbuf, 1, n)
  /\ wbuf' = SubSeq(wbuf, n + 1, Len(wbuf))
  /\ UNCHANGED <<connected, written, call, pc, result, sent, net, rbuf, sendFailed>>

\* (mutant) sendCloseFrame keeps the connection when it fails.
FlushFails_CloseKeeps ==
  /\ pc \in Reasons
  /\ wbuf # << >>
  /\ sendFailed' = TRUE
  /\ IF pc \in {"send", "close", "closeNoAck"}
     THEN Finish("err") /\ UNCHANGED connected
     ELSE RecvReturns("err", connected)
  /\ UNCHANGED <<written, wbuf, call, wire, sent, net, rbuf>>

\* The transport refuses.  The bytes stay in m_wbuf; sendCloseFrame resets
\* the transport, send and the sending of a Pong do not.
FlushFails ==
  /\ pc \in Reasons
  /\ wbuf # << >>
  /\ sendFailed' = TRUE
  /\ CASE pc = "send" -> Finish("err") /\ UNCHANGED connected
       [] pc = "pong" -> RecvReturns("err", connected)
       [] pc \in {"reply", "violation"}    -> RecvReturns("err", FALSE)
       [] pc \in {"close", "closeNoAck"}   -> Finish("err") /\ connected' = FALSE
  /\ UNCHANGED <<written, wbuf, call, wire, sent, net, rbuf>>

\* (mutant) One send per flush.
Flushed_OneSend == TRUE

Flushed == wbuf = << >>

FlushDone ==
  /\ pc \in Reasons
  /\ Flushed
  /\ CASE pc = "send"       -> Finish("ok") /\ UNCHANGED connected
       [] pc = "pong"       -> pc' = "recv" /\ UNCHANGED <<connected, result>>
       [] pc = "close"      -> pc' = "recv" /\ UNCHANGED <<connected, result>>
       [] pc = "closeNoAck" -> Finish("ok") /\ connected' = FALSE
       [] pc = "reply"      -> RecvReturns("Close", FALSE)
       [] pc = "violation"  -> RecvReturns("err", FALSE)
  /\ UNCHANGED <<written, wbuf, call, wire, sent, net, rbuf, sendFailed>>

-----------------------------------------------------------------------------
(* The loop of recv *)

\* readFromBuffer takes the first message of the buffer.
Take(type) ==
  /\ pc = "recv"
  /\ rbuf # << >>
  /\ Head(rbuf).type = type
  /\ rbuf' = Tail(rbuf)
  /\ UNCHANGED <<call, wire, sent, net, sendFailed>>

TakeData ==
  /\ Take("Data")
  /\ RecvReturns("Data", connected)
  /\ UNCHANGED <<written, wbuf>>

TakePong ==
  /\ Take("Pong")
  /\ UNCHANGED <<connected, written, wbuf, pc, result>>

\* (mutant) The Pong is written but not flushed.
TakePing_NoFlush ==
  /\ Take("Ping")
  /\ WriteFrame("Pong", Head(rbuf).tag)
  /\ UNCHANGED <<connected, pc, result>>

TakePing ==
  /\ Take("Ping")
  /\ WriteFrame("Pong", Head(rbuf).tag)
  /\ pc' = "pong"
  /\ UNCHANGED <<connected, result>>

\* (mutant) A client that is closing does not reply a second time, and
\* forgets that this was the answer it waits for.
TakeClose_IgnoredWhenClosing ==
  /\ Take("Close")
  /\ IF call = "close" THEN UNCHANGED <<written, wbuf, pc>>
     ELSE WriteFrame("Close", 0) /\ pc' = "reply"
  /\ UNCHANGED <<connected, result>>

TakeClose ==
  /\ Take("Close")
  /\ WriteFrame("Close", 0)
  /\ pc' = "reply"
  /\ UNCHANGED <<connected, result>>

\* handleProtocolError.
TakeBad ==
  /\ Take("Bad")
  /\ WriteFrame("Close", 0)
  /\ pc' = "violation"
  /\ UNCHANGED <<connected, result>>

\* readFromBuffer wants more bytes.
Receive(n) ==
  /\ pc = "recv"
  /\ rbuf = << >>
  /\ rbuf' = SubSeq(net, 1, n)
  /\ net' = SubSeq(net, n + 1, Len(net))
  /\ UNCHANGED <<clientVars, wire, sent, sendFailed>>

ReceiveFails ==
  /\ pc = "recv"
  /\ rbuf = << >>
  /\ RecvReturns("err", connected)
  /\ UNCHANGED <<written, wbuf, call, wire, sent, net, rbuf, sendFailed>>

-----------------------------------------------------------------------------
Call ==
  \/ CallDisconnected
  \/ \E type \in {"Data", "Ping"} : CallWrite(type) \/ CallSend(type)
  \/ CallSendInvalid
  \/ CallFlush
  \/ CallRecv
  \/ \E function \in {"close", "closeNoAck"} :
       CallClose(function) \/ CallCloseInvalid(function)

\* What a running call does when the transport works.
Progress ==
  \/ \E n \in 1 .. Len(wbuf) : FlushSome(n)
  \/ FlushDone
  \/ TakeData \/ TakePong \/ TakePing \/ TakeClose \/ TakeBad
  \/ \E n \in 1 .. Len(net) : Receive(n)

Next == Call \/ Progress \/ FlushFails \/ ReceiveFails \/ ServerSend \/ ServerAck

\* A running call goes on as long as the transport lets it, and the server
\* answers a Close.  Nothing obliges the application to call.
Spec == Init /\ [][Next]_vars /\ WF_vars(Progress) /\ WF_vars(ServerAck)

-----------------------------------------------------------------------------
(* Properties *)

TypeOK ==
  /\ connected \in BOOLEAN
  /\ written \in Seq([type : {"Data", "Ping", "Pong", "Close"}, tag : Nat])
  /\ wbuf \in Seq(Nat)
  /\ wire \in Seq(Nat)
  /\ sent \in Seq([type : Incoming, tag : Nat])
  /\ net \in Seq([type : Incoming, tag : Nat])
  /\ rbuf \in Seq([type : Incoming, tag : Nat])
  /\ call \in Calls \cup {"none"}
  /\ pc \in Reasons \cup {"idle", "recv"}
  /\ result \in {"none", "ok", "err", "Data", "Close"}
  /\ sendFailed \in BOOLEAN
  /\ pc # "idle" => connected /\ result = "none"

\* The frames the server has, and the messages recv has taken.
OnWire == SubSeq(written, 1, Arrived)
Taken  == SubSeq(sent, 1, Len(sent) - Len(net) - Len(rbuf))

\* The tags of the frames of one type, in order.
Tags(frames, type) ==
  LET upTo[n \in 0 .. Len(frames)] ==
        IF n = 0 THEN << >>
        ELSE IF frames[n].type = type THEN Append(upTo[n - 1], frames[n].tag)
        ELSE upTo[n - 1]
  IN  upTo[Len(frames)]

\* Unless a send has failed, recv looks at the next message only when every
\* Ping so far has been answered: the Pongs are with the server, whole, one
\* per Ping, with its payload and in its order, whatever the application had
\* left unflushed in the buffer before them.
PongsAnswerPings ==
  pc = "recv" /\ ~ sendFailed => Tags(OnWire, "Pong") = Tags(Taken, "Ping")

\* A call that reports an orderly end has finished the closing handshake on
\* its side: everything written, the Close at the end of it included, is
\* with the server, and the client is disconnected.
OrderlyEnd ==
  \/ result = "Close"
  \/ result = "ok" /\ call \in {"close", "closeNoAck"}

OrderlyEndIsFlushed ==
  OrderlyEnd =>
    /\ ~ connected
    /\ Arrived = Len(written)
    /\ written[Len(written)].type = "Close"

\* "Closes the connection. All future sends and recv calls will fail":
\* however close and closeNoAck end, and whatever failed inside them.
CloseDisconnects ==
  pc = "idle" /\ call \in {"close", "closeNoAck"} => ~ connected

\* close() does not wait for ever: whatever is in the read buffer and on the
\* way, it returns when the server acknowledges or the transport fails.
CloseReturns == (call = "close" /\ pc # "idle") ~> (pc = "idle")

\* "If this returns an error, the error is fatal and the client will be
\* disconnected."  (Not so: see the runs.)
RecvErrorDisconnects ==
  pc = "idle" /\ call = "recv" /\ result = "err" => ~ connected

\* The sending half keeps the promise of Connection.
Out ==
  INSTANCE Connection
    WITH open <- connected,
         accepted <- [k \in 1 .. Len(written) |-> written[k].type]

ClientImplementsConnection == Out!Spec

=============================================================================
