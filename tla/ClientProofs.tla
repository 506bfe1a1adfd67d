---------------------------- MODULE ClientProofs ----------------------------
(***************************************************************************)
(* Safety of the synchronous client, for every frame size and number of    *)
(* messages: where the bytes are, what a Close forbids, and that the       *)
(* sending half implements Connection.                                     *)
(***************************************************************************)
EXTENDS Client, StreamLemmas

Frame   == [type : {"Data", "Ping", "Pong", "Close"}, tag : Nat]
Message == [type : Incoming, tag : Nat]

ClosingReasons == {"reply", "violation", "close", "closeNoAck"}

\* m_wbuf continues the wire: together they are the stream of all frames.
BytesInOrder == InOrder(wire, wbuf, FrameSize * Len(written))

\* Which functions run which loop.
LoopOfCall ==
  /\ pc = "send" => call \in {"send", "flush"}
  /\ pc \in {"recv", "pong", "reply", "violation"} => call \in {"recv", "close"}
  /\ pc \in {"close", "closeNoAck"} => call = pc

HasClose == \E k \in 1 .. Len(written) : written[k].type = "Close"

LastIsClose == Len(written) > 0 /\ written[Len(written)].type = "Close"

ClosePending == pc \in ClosingReasons => LastIsClose

\* While the client is up, a Close has been written only by a call that is
\* still running and will not hand control back with the client up.
CloseIsLast ==
  HasClose =>
    \/ ~ connected
    \/ pc \in ClosingReasons
    \/ pc \in {"recv", "pong"} /\ call = "close"

IInv ==
  /\ TypeOK
  /\ BytesInOrder
  /\ LoopOfCall
  /\ ClosePending
  /\ CloseIsLast
  /\ CloseDisconnects
  /\ OrderlyEndIsFlushed

-----------------------------------------------------------------------------
(* The bytes *)

\* A frame of FrameSize bytes ends where the next one begins.
LEMMA FrameBoundary ==
  ASSUME NEW n \in Nat
  PROVE  /\ FrameSize * (n + 1) = FrameSize * n + FrameSize
         /\ FrameSize * n \in Nat
         /\ (FrameSize * n) \div FrameSize = n
<1>1. /\ FrameSize * (n + 1) = FrameSize * n + FrameSize
      /\ FrameSize * n \in Nat
  BY ClientAssumption, SMT
<1>2. (FrameSize * n) \div FrameSize = n
  BY ClientAssumption, SMT
<1> QED BY <1>1, <1>2

\* Writing a frame appends its bytes to the stream.
LEMMA WriteExtends ==
  ASSUME TypeOK, BytesInOrder, wire' = wire,
         NEW type \in {"Data", "Ping", "Pong", "Close"}, NEW tag \in Nat,
         WriteFrame(type, tag)
  PROVE  /\ written' \in Seq(Frame) /\ wbuf' \in Seq(Nat)
         /\ Len(written') = Len(written) + 1
         /\ written'[Len(written')].type = type
         /\ \A k \in 1 .. Len(written) : written'[k] = written[k]
         /\ BytesInOrder'
<1> DEFINE total == FrameSize * Len(written)
           frame == [type |-> type, tag |-> tag]
<1>1. /\ written \in Seq(Frame) /\ wbuf \in Seq(Nat) /\ wire \in Seq(Nat)
      /\ FrameSize \in Nat
  BY ClientAssumption DEF TypeOK, Frame
<1>2. Len(written) \in Nat /\ Len(wbuf) \in Nat /\ Len(wire) \in Nat
  BY <1>1
<1>3. /\ total \in Nat
      /\ FrameSize * (Len(written) + 1) = total + FrameSize
  BY <1>2, FrameBoundary
<1>5. frame \in Frame /\ frame.type = type
  BY DEF Frame
<1>6. /\ written' = Append(written, frame)
      /\ wbuf' = wbuf \o FrameBytes(Len(written) + 1)
  BY DEF WriteFrame
<1>7. FrameBytes(Len(written) + 1) = Run(total, FrameSize)
  <2>1. (Len(written) + 1) - 1 = Len(written)
    BY <1>2
  <2> QED BY <2>1 DEF FrameBytes, Run
<1>i. InOrder(wire, wbuf, total)
  BY DEF BytesInOrder
<1> HIDE DEF total, frame
<1>8. /\ written' \in Seq(Frame) /\ Len(written') = Len(written) + 1
      /\ written'[Len(written')] = frame
      /\ \A k \in 1 .. Len(written) : written'[k] = written[k]
  BY <1>1, <1>5, <1>6, AppendProperties
<1>9. wbuf' \in Seq(Nat) /\ InOrder(wire, wbuf', total + FrameSize)
  BY <1>1, <1>3, <1>6, <1>7, <1>i, StreamGrows
<1>10. BytesInOrder'
  <2>1. FrameSize * Len(written') = total + FrameSize
    BY <1>3, <1>8
  <2> QED BY <1>9, <2>1 DEF BytesInOrder
<1> QED BY <1>5, <1>8, <1>9, <1>10

\* A short send moves bytes from the front of m_wbuf to the wire.
LEMMA FlushMoves ==
  ASSUME TypeOK, BytesInOrder, written' = written,
         NEW n \in 1 .. Len(wbuf),
         wire' = wire \o SubSeq(wbuf, 1, n),
         wbuf' = SubSeq(wbuf, n + 1, Len(wbuf))
  PROVE  /\ wire' \in Seq(Nat) /\ wbuf' \in Seq(Nat)
         /\ wire' = wire \o Run(Len(wire), n)
         /\ BytesInOrder'
<1>1. /\ wbuf \in Seq(Nat) /\ wire \in Seq(Nat) /\ n \in 0 .. Len(wbuf)
      /\ InOrder(wire, wbuf, FrameSize * Len(written))
  BY DEF TypeOK, BytesInOrder
<1>2. /\ SubSeq(wbuf, 1, n) = Run(Len(wire), n)
      /\ wire' \in Seq(Nat) /\ wbuf' \in Seq(Nat)
      /\ InOrder(wire', wbuf', FrameSize * Len(written))
  BY <1>1, StreamMoves
<1> QED BY <1>2 DEF BytesInOrder

\* With an empty m_wbuf every frame written has arrived.
LEMMA EmptyMeansArrived ==
  ASSUME TypeOK, BytesInOrder, wbuf = << >>
  PROVE  Arrived = Len(written)
<1>1. Len(written) \in Nat /\ Len(wire) \in Nat /\ Len(wbuf) = 0
  BY DEF TypeOK
<1>2. Len(wire) = FrameSize * Len(written)
  BY <1>1 DEF BytesInOrder, InOrder
<1>3. (FrameSize * Len(written)) \div FrameSize = Len(written)
  BY <1>1, FrameBoundary
<1> QED BY <1>2, <1>3 DEF Arrived

-----------------------------------------------------------------------------
(* The control *)

Queues == sent \in Seq(Message) /\ net \in Seq(Message) /\ rbuf \in Seq(Message)

Bytes == written \in Seq(Frame) /\ wbuf \in Seq(Nat) /\ wire \in Seq(Nat)

\* TypeOK without the sequences.
Control ==
  /\ connected \in BOOLEAN
  /\ call \in Calls \cup {"none"}
  /\ pc \in Reasons \cup {"idle", "recv"}
  /\ result \in {"none", "ok", "err", "Data", "Close"}
  /\ sendFailed \in BOOLEAN
  /\ pc # "idle" => connected /\ result = "none"

LEMMA TypeParts == TypeOK <=> Queues /\ Bytes /\ Control
BY DEF TypeOK, Queues, Bytes, Control, Frame, Message

\* What is left of the invariant when the bytes are settled.
CallsOK ==
  /\ Control
  /\ LoopOfCall
  /\ ClosePending
  /\ CloseIsLast
  /\ CloseDisconnects
  /\ OrderlyEndIsFlushed

LEMMA Parts == IInv <=> Queues /\ Bytes /\ BytesInOrder /\ CallsOK
BY TypeParts DEF IInv, CallsOK

LEMMA NextParts ==
  ASSUME Queues', Bytes', BytesInOrder', CallsOK'
  PROVE  IInv'
BY DEF IInv, CallsOK, TypeOK, Queues, Bytes, Control, Frame, Message

\* The four ways in which a recv may return.
LEMMA RecvReturnsWays ==
  ASSUME NEW value \in {"Data", "Close", "err"}, NEW up \in BOOLEAN,
         RecvReturns(value, up)
  PROVE  \/ /\ call # "close"
            /\ pc' = "idle" /\ result' = value /\ connected' = up
         \/ /\ call = "close" /\ value = "Data"
            /\ pc' = "recv" /\ result' = result /\ connected' = connected
         \/ /\ call = "close" /\ value = "Close"
            /\ pc' = "idle" /\ result' = "ok" /\ connected' = FALSE
         \/ /\ call = "close" /\ value = "err"
            /\ pc' = "idle" /\ result' = "err" /\ connected' = FALSE
<1>1. CASE call # "close"
  BY <1>1 DEF RecvReturns, Finish
<1>2. CASE call = "close" /\ value = "Data"
  BY <1>2 DEF RecvReturns, Finish
<1>3. CASE call = "close" /\ value = "Close"
  BY <1>3 DEF RecvReturns, Finish
<1>4. CASE call = "close" /\ value = "err"
  BY <1>4 DEF RecvReturns, Finish
<1> QED BY <1>1, <1>2, <1>3, <1>4

LEMMA WriteStep ==
  ASSUME IInv, wire' = wire,
         NEW type \in {"Data", "Ping", "Pong", "Close"}, NEW tag \in Nat,
         WriteFrame(type, tag)
  PROVE  /\ Bytes' /\ BytesInOrder'
         /\ HasClose' => HasClose \/ type = "Close"
         /\ type = "Close" => LastIsClose'
<1>1. /\ written' \in Seq(Frame) /\ wbuf' \in Seq(Nat)
      /\ Len(written') = Len(written) + 1
      /\ written'[Len(written')].type = type
      /\ \A k \in 1 .. Len(written) : written'[k] = written[k]
      /\ BytesInOrder'
  BY WriteExtends DEF IInv
<1>2. Bytes /\ Bytes'
  BY <1>1, Parts DEF Bytes
<1>3. Len(written) \in Nat
  BY <1>2 DEF Bytes
<1>4. type = "Close" => LastIsClose'
  BY <1>1, <1>3 DEF LastIsClose
<1>5. HasClose' => HasClose \/ type = "Close"
  BY <1>1, <1>3 DEF HasClose
<1> QED BY <1>1, <1>2, <1>4, <1>5

LEMMA NoWriteStep ==
  ASSUME IInv, UNCHANGED <<written, wbuf, wire>>
  PROVE  /\ Bytes' /\ BytesInOrder'
         /\ HasClose' = HasClose /\ LastIsClose' = LastIsClose
         /\ Arrived' = Arrived
<1>1. Bytes /\ BytesInOrder
  BY Parts
<1> QED BY <1>1 DEF Bytes, BytesInOrder, HasClose, LastIsClose, Arrived

\* The calls a program makes.
LEMMA CallKeeps ==
  ASSUME IInv, Call
  PROVE  IInv'
<1> USE DEF CallsOK, Control, LoopOfCall, ClosePending, CloseIsLast,
            CloseDisconnects, OrderlyEndIsFlushed, OrderlyEnd,
            Reasons, ClosingReasons, Calls
<1>0. Queues /\ Bytes /\ BytesInOrder /\ CallsOK
  BY Parts
<1>q. Queues'
  <2>1. UNCHANGED <<sent, net, rbuf>>
    BY DEF Call, CallDisconnected, CallWrite, CallSend, CallSendInvalid, CallFlush,
           CallRecv, CallClose, CallCloseInvalid
  <2> QED BY <1>0, <2>1 DEF Queues
<1>1. CASE CallDisconnected
  <2>1. UNCHANGED <<written, wbuf, wire>>
    BY <1>1 DEF CallDisconnected
  <2>2. Bytes' /\ BytesInOrder' /\ HasClose' = HasClose /\ LastIsClose' = LastIsClose
    BY <2>1, NoWriteStep
  <2>3. CallsOK'
    BY <1>0, <1>1, <2>2 DEF CallDisconnected
  <2> QED BY <1>q, <2>2, <2>3, NextParts
<1>2. ASSUME NEW type \in {"Data", "Ping"}, CallWrite(type)
      PROVE  IInv'
  <2>1. wire' = wire /\ WriteFrame(type, 0)
    BY <1>2 DEF CallWrite
  <2>2. Bytes' /\ BytesInOrder' /\ (HasClose' => HasClose)
    BY <2>1, WriteStep
  <2>3. CallsOK'
    BY <1>0, <1>2, <2>2 DEF CallWrite, Begin, Finish
  <2> QED BY <1>q, <2>2, <2>3, NextParts
<1>3. ASSUME NEW type \in {"Data", "Ping"}, CallSend(type)
      PROVE  IInv'
  <2>1. wire' = wire /\ WriteFrame(type, 0)
    BY <1>3 DEF CallSend
  <2>2. Bytes' /\ BytesInOrder' /\ (HasClose' => HasClose)
    BY <2>1, WriteStep
  <2>3. CallsOK'
    BY <1>0, <1>3, <2>2 DEF CallSend, Begin
  <2> QED BY <1>q, <2>2, <2>3, NextParts
<1>4. CASE CallSendInvalid
  <2>1. UNCHANGED <<written, wbuf, wire>>
    BY <1>4 DEF CallSendInvalid
  <2>2. Bytes' /\ BytesInOrder' /\ HasClose' = HasClose /\ LastIsClose' = LastIsClose
    BY <2>1, NoWriteStep
  <2>3. CallsOK'
    BY <1>0, <1>4, <2>2 DEF CallSendInvalid, Begin, Finish
  <2> QED BY <1>q, <2>2, <2>3, NextParts
<1>5. CASE CallFlush
  <2>1. UNCHANGED <<written, wbuf, wire>>
    BY <1>5 DEF CallFlush
  <2>2. Bytes' /\ BytesInOrder' /\ HasClose' = HasClose /\ LastIsClose' = LastIsClose
    BY <2>1, NoWriteStep
  <2>3. CallsOK'
    BY <1>0, <1>5, <2>2 DEF CallFlush, Begin
  <2> QED BY <1>q, <2>2, <2>3, NextParts
<1>6. CASE CallRecv
  <2>1. UNCHANGED <<written, wbuf, wire>>
    BY <1>6 DEF CallRecv
  <2>2. Bytes' /\ BytesInOrder' /\ HasClose' = HasClose /\ LastIsClose' = LastIsClose
    BY <2>1, NoWriteStep
  <2>3. CallsOK'
    BY <1>0, <1>6, <2>2 DEF CallRecv, Begin
  <2> QED BY <1>q, <2>2, <2>3, NextParts
<1>7. ASSUME NEW function \in {"close", "closeNoAck"}, CallClose(function)
      PROVE  IInv'
  <2>1. wire' = wire /\ WriteFrame("Close", 0)
    BY <1>7 DEF CallClose
  <2>2. Bytes' /\ BytesInOrder' /\ LastIsClose'
    BY <2>1, WriteStep
  <2>3. CallsOK'
    BY <1>0, <1>7, <2>2 DEF CallClose, Begin
  <2> QED BY <1>q, <2>2, <2>3, NextParts
<1>8. ASSUME NEW function \in {"close", "closeNoAck"}, CallCloseInvalid(function)
      PROVE  IInv'
  <2>1. UNCHANGED <<written, wbuf, wire>>
    BY <1>8 DEF CallCloseInvalid
  <2>2. Bytes' /\ BytesInOrder' /\ HasClose' = HasClose /\ LastIsClose' = LastIsClose
    BY <2>1, NoWriteStep
  <2>3. CallsOK'
    BY <1>0, <1>8, <2>2 DEF CallCloseInvalid, Begin, Finish
  <2> QED BY <1>q, <2>2, <2>3, NextParts
<1> QED
  BY <1>1, <1>2, <1>3, <1>4, <1>5, <1>6, <1>7, <1>8 DEF Call

\* The loop of flush.
LEMMA FlushSomeKeeps ==
  ASSUME IInv, NEW n \in 1 .. Len(wbuf), FlushSome(n)
  PROVE  IInv'
<1>0. Queues /\ Bytes /\ BytesInOrder /\ CallsOK /\ TypeOK
  BY Parts DEF IInv
<1>1. /\ wire' \in Seq(Nat) /\ wbuf' \in Seq(Nat)
      /\ BytesInOrder'
  BY <1>0, FlushMoves DEF FlushSome
<1>2. Queues' /\ Bytes'
  BY <1>0, <1>1 DEF FlushSome, Queues, Bytes
<1>3. HasClose' = HasClose /\ LastIsClose' = LastIsClose
  BY DEF FlushSome, HasClose, LastIsClose
<1>4. pc # "idle" /\ result = "none"
  BY <1>0 DEF FlushSome, Reasons, CallsOK, Control
<1>5. CallsOK'
  BY <1>0, <1>3, <1>4
  DEF FlushSome, CallsOK, Control, LoopOfCall, ClosePending, CloseIsLast,
      CloseDisconnects, OrderlyEndIsFlushed, OrderlyEnd
<1> QED BY <1>1, <1>2, <1>5, NextParts

LEMMA FlushFailsKeeps ==
  ASSUME IInv, FlushFails
  PROVE  IInv'
<1> USE DEF CallsOK, Control, LoopOfCall, ClosePending, CloseIsLast,
            CloseDisconnects, OrderlyEndIsFlushed, OrderlyEnd,
            Reasons, ClosingReasons, Calls
<1>0. Queues /\ Bytes /\ BytesInOrder /\ CallsOK
  BY Parts
<1>1. /\ UNCHANGED <<written, wbuf, wire, sent, net, rbuf, call>>
      /\ pc \in Reasons /\ sendFailed' = TRUE
  BY DEF FlushFails
<1>2. /\ Bytes' /\ BytesInOrder' /\ Queues'
      /\ HasClose' = HasClose /\ LastIsClose' = LastIsClose
  BY <1>0, <1>1, NoWriteStep DEF Queues
<1>3. /\ pc' = "idle" /\ result' = "err"
      /\ connected' \in BOOLEAN
      /\ pc \in ClosingReasons \/ call = "close" => connected' = FALSE
      /\ pc \notin ClosingReasons /\ call # "close" => connected' = connected
  <2>1. CASE pc = "send"
    BY <1>0, <2>1 DEF FlushFails, Finish
  <2>2. CASE pc = "pong"
    <3>1. RecvReturns("err", connected)
      BY <2>2 DEF FlushFails
    <3> QED BY <1>0, <2>2, <3>1, RecvReturnsWays
  <2>3. CASE pc \in {"reply", "violation"}
    <3>1. RecvReturns("err", FALSE)
      BY <2>3 DEF FlushFails
    <3> QED BY <1>0, <2>3, <3>1, RecvReturnsWays
  <2>4. CASE pc \in {"close", "closeNoAck"}
    BY <1>0, <2>4 DEF FlushFails, Finish
  <2> QED BY <1>1, <2>1, <2>2, <2>3, <2>4
<1>4. CallsOK'
  BY <1>0, <1>1, <1>2, <1>3
<1> QED BY <1>2, <1>4, NextParts

LEMMA FlushDoneKeeps ==
  ASSUME IInv, FlushDone
  PROVE  IInv'
<1> USE DEF CallsOK, Control, LoopOfCall, ClosePending, CloseIsLast,
            CloseDisconnects, OrderlyEndIsFlushed, OrderlyEnd,
            Reasons, ClosingReasons, Calls
<1>0. Queues /\ Bytes /\ BytesInOrder /\ CallsOK /\ TypeOK
  BY Parts DEF IInv
<1>1. /\ UNCHANGED <<written, wbuf, wire, sent, net, rbuf, call, sendFailed>>
      /\ pc \in Reasons /\ wbuf = << >>
  BY DEF FlushDone, Flushed
<1>2. /\ Bytes' /\ BytesInOrder' /\ Queues'
      /\ HasClose' = HasClose /\ LastIsClose' = LastIsClose
      /\ Arrived' = Arrived
  BY <1>0, <1>1, NoWriteStep DEF Queues
<1>3. Arrived' = Len(written')
  BY <1>0, <1>1, <1>2, EmptyMeansArrived
<1>4. CASE pc = "send"
  <2>1. pc' = "idle" /\ result' = "ok" /\ connected' = connected
    BY <1>4 DEF FlushDone, Finish
  <2>2. CallsOK'
    BY <1>0, <1>1, <1>2, <1>4, <2>1
  <2> QED BY <1>2, <2>2, NextParts
<1>5. CASE pc \in {"pong", "close"}
  <2>1. pc' = "recv" /\ result' = result /\ connected' = connected
    BY <1>5 DEF FlushDone
  <2>2. CallsOK'
    BY <1>0, <1>1, <1>2, <1>5, <2>1
  <2> QED BY <1>2, <2>2, NextParts
<1>6. CASE pc \in {"closeNoAck", "reply", "violation"}
  <2>1. /\ pc' = "idle" /\ connected' = FALSE
        /\ result' \in {"ok", "err", "Close"}
    <3>1. CASE pc = "closeNoAck"
      BY <3>1 DEF FlushDone, Finish
    <3>2. CASE pc = "reply"
      <4>1. RecvReturns("Close", FALSE)
        BY <3>2 DEF FlushDone
      <4> QED BY <4>1, RecvReturnsWays
    <3>3. CASE pc = "violation"
      <4>1. RecvReturns("err", FALSE)
        BY <3>3 DEF FlushDone
      <4> QED BY <4>1, RecvReturnsWays
    <3> QED BY <1>6, <3>1, <3>2, <3>3
  <2>2. LastIsClose'
    BY <1>0, <1>2, <1>6
  <2>3. written'[Len(written')].type = "Close"
    BY <2>2 DEF LastIsClose
  <2>4. CallsOK'
    BY <1>0, <1>1, <1>2, <1>3, <1>6, <2>1, <2>2, <2>3
  <2> QED BY <1>2, <2>4, NextParts
<1> QED BY <1>1, <1>4, <1>5, <1>6

\* The loop of recv.
LEMMA TakeQueues ==
  ASSUME Queues, NEW type, Take(type)
  PROVE  Queues' /\ Head(rbuf) \in Message
BY HeadTailProperties DEF Take, Queues

\* recv goes on, or returns, without having written anything.
LEMMA QuietRecvKeeps ==
  ASSUME IInv, TakeData \/ TakePong \/ ReceiveFails
  PROVE  IInv'
<1> USE DEF CallsOK, Control, LoopOfCall, ClosePending, CloseIsLast,
            CloseDisconnects, OrderlyEndIsFlushed, OrderlyEnd,
            Reasons, ClosingReasons, Calls
<1>0. Queues /\ Bytes /\ BytesInOrder /\ CallsOK
  BY Parts
<1>1. /\ UNCHANGED <<written, wbuf, wire, call, sendFailed>>
      /\ pc = "recv"
  BY DEF TakeData, TakePong, ReceiveFails, Take
<1>2. Queues'
  BY <1>0, TakeQueues DEF TakeData, TakePong, ReceiveFails, Queues
<1>3. /\ Bytes' /\ BytesInOrder'
      /\ HasClose' = HasClose /\ LastIsClose' = LastIsClose
  BY <1>0, <1>1, NoWriteStep
<1>4. \/ /\ pc' = "recv" /\ connected' = connected /\ result' = result
      \/ /\ pc' = "idle" /\ call # "close"
         /\ connected' = connected /\ result' \in {"Data", "err"}
      \/ /\ pc' = "idle" /\ connected' = FALSE /\ result' = "err"
  <2>1. CASE TakeData
    <3>1. RecvReturns("Data", connected)
      BY <2>1 DEF TakeData
    <3> QED BY <1>0, <3>1, RecvReturnsWays
  <2>2. CASE TakePong
    BY <1>1, <2>2 DEF TakePong
  <2>3. CASE ReceiveFails
    <3>1. RecvReturns("err", connected)
      BY <2>3 DEF ReceiveFails
    <3> QED BY <1>0, <3>1, RecvReturnsWays
  <2> QED BY <2>1, <2>2, <2>3
<1>5. CallsOK'
  BY <1>0, <1>1, <1>3, <1>4
<1> QED BY <1>2, <1>3, <1>5, NextParts

\* recv answers: with a Pong and goes on, or with a Close and ends.
LEMMA AnswerKeeps ==
  ASSUME IInv, TakePing \/ TakeClose \/ TakeBad
  PROVE  IInv'
<1> USE DEF CallsOK, Control, LoopOfCall, ClosePending, CloseIsLast,
            CloseDisconnects, OrderlyEndIsFlushed, OrderlyEnd,
            Reasons, ClosingReasons, Calls
<1>0. Queues /\ Bytes /\ BytesInOrder /\ CallsOK
  BY Parts
<1>1. /\ UNCHANGED <<wire, call, sendFailed, connected, result>>
      /\ pc = "recv"
  BY DEF TakePing, TakeClose, TakeBad, Take
<1>2. Queues' /\ Head(rbuf) \in Message
  BY <1>0, TakeQueues DEF TakePing, TakeClose, TakeBad
<1>3. CASE TakePing
  <2>1. Head(rbuf).tag \in Nat
    BY <1>2 DEF Message
  <2>2. WriteFrame("Pong", Head(rbuf).tag) /\ pc' = "pong"
    BY <1>3 DEF TakePing
  <2>3. Bytes' /\ BytesInOrder' /\ (HasClose' => HasClose)
    BY <1>1, <2>1, <2>2, WriteStep
  <2>4. CallsOK'
    BY <1>0, <1>1, <2>2, <2>3
  <2> QED BY <1>2, <2>3, <2>4, NextParts
<1>4. CASE TakeClose \/ TakeBad
  <2>1. WriteFrame("Close", 0) /\ pc' \in {"reply", "violation"}
    BY <1>4 DEF TakeClose, TakeBad
  <2>2. Bytes' /\ BytesInOrder' /\ LastIsClose'
    BY <1>1, <2>1, WriteStep
  <2>3. CallsOK'
    BY <1>0, <1>1, <2>1, <2>2
  <2> QED BY <1>2, <2>2, <2>3, NextParts
<1> QED BY <1>3, <1>4

\* Messages travel: the client's own state stays.
LEMMA TravelKeeps ==
  ASSUME IInv, UNCHANGED <<clientVars, wire, sendFailed>>, Queues'
  PROVE  IInv'
<1>0. Queues /\ Bytes /\ BytesInOrder /\ CallsOK
  BY Parts
<1>1. Bytes' /\ BytesInOrder'
  BY <1>0 DEF clientVars, Bytes, BytesInOrder
<1>2. CallsOK'
  BY <1>0
  DEF clientVars, CallsOK, Control, LoopOfCall, ClosePending, CloseIsLast, HasClose,
      LastIsClose, CloseDisconnects, OrderlyEndIsFlushed, OrderlyEnd, Arrived
<1> QED BY <1>1, <1>2, NextParts

LEMMA ServerKeeps ==
  ASSUME IInv, ServerSend \/ ServerAck
  PROVE  IInv'
<1>1. PICK type \in Incoming : ServerSends(type)
  BY DEF ServerSend, ServerAck, Incoming
<1>2. Queues
  BY Parts
<1> DEFINE message == [type |-> type, tag |-> Len(sent) + 1]
<1>3. message \in Message
  BY <1>2 DEF Queues, Message
<1>4. sent' = Append(sent, message) /\ net' = Append(net, message) /\ rbuf' = rbuf
  BY <1>1 DEF ServerSends
<1> HIDE DEF message
<1>5. Queues'
  BY <1>2, <1>3, <1>4, AppendProperties DEF Queues
<1> QED BY <1>1, <1>5, TravelKeeps DEF ServerSends

LEMMA ReceiveKeeps ==
  ASSUME IInv, NEW n \in 1 .. Len(net), Receive(n)
  PROVE  IInv'
<1>1. Queues
  BY Parts
<1>2. SubSeq(net, 1, n) \in Seq(Message)
  BY <1>1 DEF Queues
<1>3. SubSeq(net, n + 1, Len(net)) \in Seq(Message)
  BY <1>1 DEF Queues
<1>4. Queues'
  BY <1>1, <1>2, <1>3 DEF Receive, Queues
<1> QED BY <1>4, TravelKeeps DEF Receive

-----------------------------------------------------------------------------
LEMMA StepKeeps ==
  ASSUME IInv, [Next]_vars
  PROVE  IInv'
<1>1. CASE Call
  BY <1>1, CallKeeps
<1>2. CASE Progress
  BY <1>2, FlushSomeKeeps, FlushDoneKeeps, QuietRecvKeeps, AnswerKeeps, ReceiveKeeps
  DEF Progress
<1>3. CASE FlushFails \/ ReceiveFails
  BY <1>3, FlushFailsKeeps, QuietRecvKeeps
<1>4. CASE ServerSend \/ ServerAck
  BY <1>4, ServerKeeps
<1>5. CASE UNCHANGED vars
  <2>1. Queues'
    BY <1>5, Parts DEF vars, Queues
  <2> QED BY <1>5, <2>1, TravelKeeps DEF vars
<1> QED BY <1>1, <1>2, <1>3, <1>4, <1>5 DEF Next

LEMMA InitiallyTrue ==
  ASSUME Init
  PROVE  IInv
<1>1. Queues /\ Bytes
  BY EmptySeq DEF Init, Queues, Bytes
<1>2. Len(written) = 0 /\ Len(wbuf) = 0 /\ Len(wire) = 0
  BY DEF Init
<1>3. BytesInOrder
  <2>1. Run(0, 0) = << >>
    BY DEF Run
  <2> QED BY <1>2, <2>1, ClientAssumption DEF Init, BytesInOrder, InOrder
<1>4. CallsOK
  <2>1. ~ HasClose
    BY <1>2 DEF HasClose
  <2> QED BY <2>1
  DEF Init, CallsOK, Control, LoopOfCall, ClosePending, CloseIsLast, Reasons, Calls,
      CloseDisconnects, OrderlyEndIsFlushed, OrderlyEnd, ClosingReasons
<1> QED BY <1>1, <1>3, <1>4, Parts

LEMMA InductiveInvariant == Spec => []IInv
<1>1. Init => IInv
  BY InitiallyTrue
<1>2. IInv /\ [Next]_vars => IInv'
  BY StepKeeps
<1> QED BY <1>1, <1>2, PTL DEF Spec

\* The variables keep their types; while a call runs the transport is there.
THEOREM TypeCorrect == Spec => []TypeOK
<1>1. IInv => TypeOK
  BY DEF IInv
<1> QED BY <1>1, InductiveInvariant, PTL

\* However close and closeNoAck end, the client is disconnected after them.
THEOREM ClosesDisconnect == Spec => []CloseDisconnects
<1>1. IInv => CloseDisconnects
  BY DEF IInv
<1> QED BY <1>1, InductiveInvariant, PTL

\* After a call that reports an orderly end everything written is with the
\* server, and a Close is the last of it.
THEOREM OrderlyEndsFlushed == Spec => []OrderlyEndIsFlushed
<1>1. IInv => OrderlyEndIsFlushed
  BY DEF IInv
<1> QED BY <1>1, InductiveInvariant, PTL

-----------------------------------------------------------------------------
(* Tags, read from the end *)

\* The function Tags is the last value of.
TagsUpTo(frames, type, n, g) ==
  g = [i \in 0 .. n |->
         IF i = 0 THEN << >>
         ELSE IF frames[i].type = type THEN Append(g[i - 1], frames[i].tag)
         ELSE g[i - 1]]

LEMMA TagsUpToExists ==
  ASSUME NEW frames, NEW type
  PROVE  \A n \in Nat : \E g : TagsUpTo(frames, type, n, g)
<1> DEFINE S == {n \in Nat : \E g : TagsUpTo(frames, type, n, g)}
<1>1. 0 \in S
  <2> DEFINE g == [i \in 0 .. 0 |-> << >>]
  <2>1. TagsUpTo(frames, type, 0, g)
    BY DEF TagsUpTo
  <2> QED BY <2>1
<1>2. ASSUME NEW n \in Nat, n \in S PROVE n + 1 \in S
  <2>1. PICK g : TagsUpTo(frames, type, n, g)
    BY <1>2
  <2> DEFINE last == IF frames[n + 1].type = type THEN Append(g[n], frames[n + 1].tag)
                     ELSE g[n]
             h == [i \in 0 .. n + 1 |-> IF i = n + 1 THEN last ELSE g[i]]
  <2> HIDE DEF last
  <2>2. \A i \in 0 .. n : h[i] = g[i]
    OBVIOUS
  <2>3. h[n + 1] = last
    OBVIOUS
  <2> DEFINE e(i) == IF i = 0 THEN << >>
                     ELSE IF frames[i].type = type THEN Append(h[i - 1], frames[i].tag)
                     ELSE h[i - 1]
  <2>4. ASSUME NEW i \in 0 .. n + 1 PROVE h[i] = e(i)
    <3>1. CASE i = n + 1
      <4>1. i # 0 /\ i - 1 = n /\ n \in 0 .. n
        BY <3>1
      <4>2. h[i - 1] = g[n]
        BY <2>2, <4>1
      <4> QED BY <2>3, <3>1, <4>1, <4>2 DEF last
    <3>2. CASE i # n + 1
      <4>1. i \in 0 .. n /\ (i # 0 => i - 1 \in 0 .. n)
        BY <3>2
      <4>2. h[i] = g[i] /\ (i # 0 => h[i - 1] = g[i - 1])
        BY <2>2, <4>1
      <4>3. g[i] = IF i = 0 THEN << >>
                   ELSE IF frames[i].type = type THEN Append(g[i - 1], frames[i].tag)
                   ELSE g[i - 1]
        BY <2>1, <4>1 DEF TagsUpTo
      <4> QED BY <4>2, <4>3
    <3> QED BY <3>1, <3>2
  <2>5. h = [i \in 0 .. n + 1 |-> e(i)]
    <3> HIDE DEF e
    <3>1. h = [i \in 0 .. n + 1 |-> h[i]]
      OBVIOUS
    <3> HIDE DEF h
    <3> QED BY <2>4, <3>1
  <2>6. TagsUpTo(frames, type, n + 1, h)
    BY <2>5 DEF TagsUpTo
  <2> HIDE DEF h
  <2> QED BY <2>6
<1> HIDE DEF S
<1>3. Nat \subseteq S
  BY <1>1, <1>2, InductionOverSet
<1> QED BY <1>3 DEF S

LEMMA TagsValue ==
  ASSUME NEW frames, Len(frames) \in Nat, NEW type
  PROVE  \E g : TagsUpTo(frames, type, Len(frames), g) /\ Tags(frames, type) = g[Len(frames)]
<1>1. \E g : TagsUpTo(frames, type, Len(frames), g)
  BY TagsUpToExists
<1> DEFINE c == CHOOSE g : TagsUpTo(frames, type, Len(frames), g)
<1>2. TagsUpTo(frames, type, Len(frames), c)
  BY <1>1
<1>3. c = CHOOSE g : g = [i \in 0 .. Len(frames) |->
         IF i = 0 THEN << >>
         ELSE IF frames[i].type = type THEN Append(g[i - 1], frames[i].tag)
         ELSE g[i - 1]]
  BY DEF TagsUpTo
<1>4. Tags(frames, type) = c[Len(frames)]
  BY <1>3 DEF Tags
<1> QED BY <1>2, <1>4

\* Reading Tags from the end: what the last frame adds.
LEMMA TagsOfNone == ASSUME NEW type PROVE Tags(<< >>, type) = << >>
<1>1. Len(<< >>) = 0
  OBVIOUS
<1>2. PICK g : TagsUpTo(<< >>, type, 0, g) /\ Tags(<< >>, type) = g[0]
  BY <1>1, TagsValue
<1>3. g[0] = << >>
  BY <1>2 DEF TagsUpTo
<1> QED BY <1>2, <1>3

LEMMA TagsOfMore ==
  ASSUME NEW frames, NEW more, NEW type, Len(frames) \in Nat,
         Len(more) = Len(frames) + 1,
         \A i \in 1 .. Len(frames) : frames[i] = more[i]
  PROVE  Tags(more, type) =
           IF more[Len(more)].type = type
           THEN Append(Tags(frames, type), more[Len(more)].tag)
           ELSE Tags(frames, type)
<1> DEFINE n == Len(frames)
<1>1. n \in Nat /\ n + 1 \in Nat /\ Len(more) = n + 1
  OBVIOUS
<1>2. PICK g : TagsUpTo(frames, type, n, g) /\ Tags(frames, type) = g[n]
  BY <1>1, TagsValue
<1>3. PICK h : TagsUpTo(more, type, n + 1, h) /\ Tags(more, type) = h[n + 1]
  BY <1>1, TagsValue
<1>7. \A i \in 1 .. n : frames[i] = more[i]
  OBVIOUS
<1> HIDE DEF n
<1>8. n <= n + 1
  BY <1>1
<1>4. \A i \in 0 .. n : g[i] = h[i]
  <2> DEFINE S == {i \in Nat : i <= n => g[i] = h[i]}
  <2>1. 0 \in S
    <3>1. g[0] = << >> /\ h[0] = << >>
      BY <1>1, <1>2, <1>3 DEF TagsUpTo
    <3> QED BY <3>1
  <2>2. ASSUME NEW i \in Nat, i \in S PROVE i + 1 \in S
    <3>1. ASSUME i + 1 <= n PROVE g[i + 1] = h[i + 1]
      <4>1. i + 1 \in 0 .. n /\ i + 1 \in 0 .. n + 1 /\ i + 1 \in 1 .. n /\ i + 1 # 0
            /\ (i + 1) - 1 = i /\ i <= n
        BY <1>1, <3>1
      <4>2. frames[i + 1] = more[i + 1] /\ g[i] = h[i]
        BY <1>7, <2>2, <4>1
      <4>3. g[i + 1] = IF frames[i + 1].type = type THEN Append(g[i], frames[i + 1].tag)
                       ELSE g[i]
        BY <1>2, <4>1 DEF TagsUpTo
      <4>4. h[i + 1] = IF more[i + 1].type = type THEN Append(h[i], more[i + 1].tag)
                       ELSE h[i]
        BY <1>3, <4>1 DEF TagsUpTo
      <4> QED BY <4>2, <4>3, <4>4
    <3> QED BY <3>1
  <2> HIDE DEF S
  <2>3. Nat \subseteq S
    BY <2>1, <2>2, InductionOverSet
  <2> QED BY <1>1, <2>3 DEF S
<1>5. n \in 0 .. n /\ n + 1 \in 0 .. n + 1 /\ n + 1 # 0 /\ (n + 1) - 1 = n
  BY <1>1
<1>6. h[n + 1] = IF more[n + 1].type = type THEN Append(h[n], more[n + 1].tag) ELSE h[n]
  BY <1>3, <1>5 DEF TagsUpTo
<1> QED BY <1>1, <1>2, <1>3, <1>4, <1>5, <1>6 DEF n

\* Frames of other types at the end add nothing.
LEMMA TagsOfPrefix ==
  ASSUME NEW T, NEW frames \in Seq(T), NEW type, NEW m \in 0 .. Len(frames),
         \A i \in m + 1 .. Len(frames) : frames[i].type # type
  PROVE  Tags(SubSeq(frames, 1, m), type) = Tags(frames, type)
<1> DEFINE n == Len(frames)
           S == {k \in Nat : m + k <= n =>
                   Tags(SubSeq(frames, 1, m + k), type) = Tags(SubSeq(frames, 1, m), type)}
<1>0. n \in Nat /\ m \in Nat /\ m <= n
  OBVIOUS
<1>1. 0 \in S
  OBVIOUS
<1>2. ASSUME NEW k \in Nat, k \in S PROVE k + 1 \in S
  <2>1. ASSUME m + (k + 1) <= n
        PROVE  Tags(SubSeq(frames, 1, m + (k + 1)), type) = Tags(SubSeq(frames, 1, m), type)
    <3> DEFINE less == SubSeq(frames, 1, m + k)  more == SubSeq(frames, 1, m + (k + 1))
    <3>1. m + k \in 0 .. n /\ m + (k + 1) \in m + 1 .. n /\ m + (k + 1) \in 0 .. n
          /\ m + (k + 1) = (m + k) + 1
      BY <1>0, <2>1
    <3>2. /\ Len(less) = m + k /\ Len(more) = (m + k) + 1
          /\ \A i \in 1 .. m + k : less[i] = more[i]
          /\ more[(m + k) + 1] = frames[(m + k) + 1]
      BY <3>1
    <3>3. frames[(m + k) + 1].type # type
      BY <3>1
    <3> HIDE DEF less, more
    <3>4. Tags(more, type) = Tags(less, type)
      BY <3>1, <3>2, <3>3, TagsOfMore
    <3>5. Tags(less, type) = Tags(SubSeq(frames, 1, m), type)
      BY <1>0, <1>2, <2>1 DEF less
    <3> QED BY <3>4, <3>5 DEF more
  <2> QED BY <2>1
<1>3. Nat \subseteq S
  <2> HIDE DEF S
  <2> QED BY <1>1, <1>2, InductionOverSet
<1>4. n - m \in Nat /\ m + (n - m) = n
  BY <1>0
<1>5. SubSeq(frames, 1, n) = frames
  OBVIOUS
<1>6. n - m \in S
  <2> HIDE DEF S
  <2> QED BY <1>3, <1>4
<1>7. m + (n - m) <= n => Tags(SubSeq(frames, 1, m + (n - m)), type)
                          = Tags(SubSeq(frames, 1, m), type)
  BY <1>6
<1> HIDE DEF S, n
<1>8. Tags(SubSeq(frames, 1, n), type) = Tags(SubSeq(frames, 1, m), type)
  BY <1>0, <1>4, <1>7
<1> QED BY <1>5, <1>8 DEF n

-----------------------------------------------------------------------------
(* Every Ping is answered *)

\* How many messages recv has taken.
TakenCount == Len(sent) - Len(net) - Len(rbuf)

\* The messages not taken yet are the end of those sent.
InFlight ==
  /\ TakenCount \in Nat
  /\ \A i \in 1 .. Len(rbuf) : rbuf[i] = sent[TakenCount + i]
  /\ \A i \in 1 .. Len(net) : net[i] = sent[(TakenCount + Len(rbuf)) + i]

\* A Pong is written for every Ping when it is taken ...
Answered == Tags(written, "Pong") = Tags(Taken, "Ping")

\* ... and stays in the buffer only while it is being flushed.
PongsFlushed ==
  ~ sendFailed /\ pc # "pong" =>
    \A k \in Arrived + 1 .. Len(written) : written[k].type # "Pong"

PongInv == InFlight /\ Answered /\ PongsFlushed

LEMMA QuotientGrows ==
  ASSUME NEW a \in Nat, NEW b \in Nat, a <= b
  PROVE  /\ a \div FrameSize \in Nat
         /\ a \div FrameSize <= b \div FrameSize
<1>1. FrameSize \in Nat \ {0}
  BY ClientAssumption
<1> DEFINE p == a \div FrameSize  q == b \div FrameSize
<1>2. p \in Int /\ q \in Int
  BY <1>1, SMT
<1>3. FrameSize * p <= a /\ a < FrameSize * p + FrameSize
      /\ FrameSize * q <= b /\ b < FrameSize * q + FrameSize
  BY <1>1, SMT
<1> HIDE DEF p, q
<1>4. p <= q /\ p \in Nat
  BY <1>1, <1>2, <1>3, SMT
<1> QED BY <1>4 DEF p, q

LEMMA ArrivedRange ==
  ASSUME TypeOK, BytesInOrder
  PROVE  Arrived \in 0 .. Len(written)
<1>1. Len(written) \in Nat /\ Len(wire) \in Nat /\ Len(wbuf) \in Nat
  BY DEF TypeOK
<1>2. FrameSize * Len(written) \in Nat
      /\ (FrameSize * Len(written)) \div FrameSize = Len(written)
  BY <1>1, FrameBoundary
<1>3. Len(wire) <= FrameSize * Len(written)
  BY <1>1, <1>2 DEF BytesInOrder, InOrder
<1>4. Arrived \in Nat /\ Arrived <= Len(written)
  BY <1>1, <1>2, <1>3, QuotientGrows DEF Arrived
<1> QED BY <1>1, <1>4

LEMMA PongsOnWire ==
  ASSUME IInv, PongInv
  PROVE  PongsAnswerPings
<1> SUFFICES ASSUME pc = "recv", ~ sendFailed
             PROVE  Tags(OnWire, "Pong") = Tags(Taken, "Ping")
  BY DEF PongsAnswerPings
<1>1. written \in Seq(Frame) /\ Arrived \in 0 .. Len(written)
  BY ArrivedRange, Parts DEF IInv, Bytes
<1>2. \A k \in Arrived + 1 .. Len(written) : written[k].type # "Pong"
  BY DEF PongInv, PongsFlushed
<1>3. Tags(SubSeq(written, 1, Arrived), "Pong") = Tags(written, "Pong")
  BY <1>1, <1>2, TagsOfPrefix
<1> QED BY <1>3 DEF PongInv, Answered, OnWire

-----------------------------------------------------------------------------
LEMMA TakenKeeps ==
  ASSUME Queues, InFlight,
         \/ UNCHANGED <<sent, net, rbuf>>
         \/ ServerSend \/ ServerAck
         \/ \E n \in 1 .. Len(net) : Receive(n)
  PROVE  InFlight' /\ Taken' = Taken
<1>1. sent \in Seq(Message) /\ net \in Seq(Message) /\ rbuf \in Seq(Message)
  BY DEF Queues
<1>2. Len(sent) \in Nat /\ Len(net) \in Nat /\ Len(rbuf) \in Nat
  BY <1>1
<1>3. /\ TakenCount \in Nat
      /\ \A i \in 1 .. Len(rbuf) : rbuf[i] = sent[TakenCount + i]
      /\ \A i \in 1 .. Len(net) : net[i] = sent[(TakenCount + Len(rbuf)) + i]
      /\ Len(sent) = (TakenCount + Len(rbuf)) + Len(net)
  BY <1>2 DEF InFlight, TakenCount
<1>4. CASE UNCHANGED <<sent, net, rbuf>>
  BY <1>4 DEF InFlight, TakenCount, Taken
<1>5. CASE ServerSend \/ ServerAck
  <2>1. PICK type \in Incoming : ServerSends(type)
    BY <1>5 DEF ServerSend, ServerAck, Incoming
  <2> DEFINE m == [type |-> type, tag |-> Len(sent) + 1]
  <2>2. m \in Message
    BY <1>2 DEF Message
  <2>3. sent' = Append(sent, m) /\ net' = Append(net, m) /\ rbuf' = rbuf
    BY <2>1 DEF ServerSends
  <2> HIDE DEF m
  <2>4. /\ Len(sent') = Len(sent) + 1 /\ Len(net') = Len(net) + 1
        /\ \A i \in 1 .. Len(sent) : sent'[i] = sent[i]
        /\ \A i \in 1 .. Len(net) : net'[i] = net[i]
        /\ sent'[Len(sent) + 1] = m /\ net'[Len(net) + 1] = m
    BY <1>1, <2>2, <2>3
  <2>5. TakenCount' = TakenCount
    BY <1>2, <2>3, <2>4 DEF TakenCount
  <2>6. ASSUME NEW i \in 1 .. Len(rbuf) PROVE rbuf'[i] = sent'[TakenCount + i]
    BY <1>2, <1>3, <2>3, <2>4
  <2>7. ASSUME NEW i \in 1 .. Len(net')
        PROVE  net'[i] = sent'[(TakenCount + Len(rbuf)) + i]
    <3>1. CASE i = Len(net) + 1
      BY <1>2, <1>3, <2>4, <3>1
    <3>2. CASE i # Len(net) + 1
      <4>1. i \in 1 .. Len(net) /\ (TakenCount + Len(rbuf)) + i \in 1 .. Len(sent)
        BY <1>2, <1>3, <2>4, <3>2
      <4> QED BY <1>3, <2>4, <4>1
    <3> QED BY <3>1, <3>2
  <2>8. SubSeq(sent', 1, TakenCount) = SubSeq(sent, 1, TakenCount)
    <3>1. TakenCount <= Len(sent)
      BY <1>2, <1>3
    <3> HIDE DEF TakenCount
    <3> QED BY <1>1, <1>3, <2>2, <2>3, <3>1
  <2> QED BY <1>3, <2>3, <2>5, <2>6, <2>7, <2>8 DEF InFlight, Taken, TakenCount
<1>6. ASSUME NEW n \in 1 .. Len(net), Receive(n)
      PROVE  InFlight' /\ Taken' = Taken
  <2>1. /\ rbuf = << >> /\ rbuf' = SubSeq(net, 1, n)
        /\ net' = SubSeq(net, n + 1, Len(net)) /\ sent' = sent
    BY <1>6 DEF Receive
  <2>2. /\ Len(rbuf) = 0 /\ Len(rbuf') = n /\ Len(net') = Len(net) - n
        /\ \A i \in 1 .. n : rbuf'[i] = net[i]
        /\ \A i \in 1 .. Len(net) - n : net'[i] = net[n + i]
    BY <1>1, <2>1
  <2>6. sent' = sent
    BY <2>1
  <2>3. TakenCount' = TakenCount
    <3>1. Len(sent') = Len(sent) /\ n \in Nat
      BY <1>2, <2>6
    <3>2. TakenCount' = Len(sent') - Len(net') - Len(rbuf')
      BY DEF TakenCount
    <3>3. TakenCount' = Len(sent) - (Len(net) - n) - n
      BY <2>2, <3>1, <3>2
    <3> QED BY <1>2, <2>2, <3>1, <3>3 DEF TakenCount
  <2>4. ASSUME NEW i \in 1 .. Len(rbuf') PROVE rbuf'[i] = sent[TakenCount + i]
    <3>1. i \in 1 .. n /\ i \in 1 .. Len(net)
      BY <1>2, <2>2
    <3>2. rbuf'[i] = net[i] /\ net[i] = sent[(TakenCount + Len(rbuf)) + i]
      BY <1>3, <2>2, <3>1
    <3>3. TakenCount + Len(rbuf) = TakenCount
      BY <1>3, <2>2
    <3> QED BY <3>2, <3>3
  <2>5. ASSUME NEW i \in 1 .. Len(net')
        PROVE  net'[i] = sent[(TakenCount + Len(rbuf')) + i]
    <3>1. i \in 1 .. Len(net) - n /\ n + i \in 1 .. Len(net)
      BY <1>2, <2>2
    <3>2. net'[i] = net[n + i] /\ net[n + i] = sent[(TakenCount + Len(rbuf)) + (n + i)]
      BY <1>3, <2>2, <3>1
    <3>3. (TakenCount + Len(rbuf)) + (n + i) = (TakenCount + Len(rbuf')) + i
      BY <1>3, <2>2, <3>1
    <3> QED BY <3>2, <3>3
  <2>7. Taken' = Taken
    <3>1. Taken = SubSeq(sent, 1, TakenCount) /\ Taken' = SubSeq(sent', 1, TakenCount')
      BY DEF Taken, TakenCount
    <3> QED BY <2>3, <2>6, <3>1
  <2> QED BY <1>3, <2>3, <2>4, <2>5, <2>6, <2>7 DEF InFlight
<1> QED BY <1>4, <1>5, <1>6

LEMMA TakenMore ==
  ASSUME Queues, InFlight, NEW type, Take(type)
  PROVE  /\ InFlight'
         /\ Head(rbuf) \in Message /\ Head(rbuf).type = type
         /\ Tags(Taken', "Ping") =
              IF type = "Ping" THEN Append(Tags(Taken, "Ping"), Head(rbuf).tag)
              ELSE Tags(Taken, "Ping")
<1>1. sent \in Seq(Message) /\ net \in Seq(Message) /\ rbuf \in Seq(Message)
  BY DEF Queues
<1>2. Len(sent) \in Nat /\ Len(net) \in Nat /\ Len(rbuf) \in Nat
  BY <1>1
<1>3. /\ TakenCount \in Nat
      /\ \A i \in 1 .. Len(rbuf) : rbuf[i] = sent[TakenCount + i]
      /\ \A i \in 1 .. Len(net) : net[i] = sent[(TakenCount + Len(rbuf)) + i]
      /\ Len(sent) = (TakenCount + Len(rbuf)) + Len(net)
  BY <1>2 DEF InFlight, TakenCount
<1>4. /\ rbuf # << >> /\ Head(rbuf).type = type /\ rbuf' = Tail(rbuf)
      /\ sent' = sent /\ net' = net
  BY DEF Take
<1>5. /\ Len(rbuf) # 0 /\ Head(rbuf) = rbuf[1] /\ Len(rbuf') = Len(rbuf) - 1
      /\ \A i \in 1 .. Len(rbuf) - 1 : rbuf'[i] = rbuf[i + 1]
      /\ Head(rbuf) \in Message
  BY <1>1, <1>4
<1>6. TakenCount' = TakenCount + 1
  BY <1>2, <1>4, <1>5 DEF TakenCount
<1>7. rbuf[1] = sent[TakenCount + 1] /\ TakenCount + 1 <= Len(sent)
  BY <1>2, <1>3, <1>5
<1>8. ASSUME NEW i \in 1 .. Len(rbuf')
      PROVE  rbuf'[i] = sent[(TakenCount + 1) + i]
  <2>1. i \in 1 .. Len(rbuf) - 1 /\ i + 1 \in 1 .. Len(rbuf)
    BY <1>2, <1>5
  <2>2. rbuf'[i] = rbuf[i + 1] /\ rbuf[i + 1] = sent[TakenCount + (i + 1)]
    BY <1>3, <1>5, <2>1
  <2>3. TakenCount + (i + 1) = (TakenCount + 1) + i
    BY <1>3, <2>1
  <2> QED BY <2>2, <2>3
<1>9. ASSUME NEW i \in 1 .. Len(net)
      PROVE  net[i] = sent[((TakenCount + 1) + Len(rbuf')) + i]
  <2>1. (TakenCount + 1) + Len(rbuf') = TakenCount + Len(rbuf)
    BY <1>2, <1>3, <1>5
  <2> QED BY <1>3, <2>1
<1>10. InFlight'
  BY <1>3, <1>4, <1>6, <1>8, <1>9 DEF InFlight
<1> DEFINE n == TakenCount  less == SubSeq(sent, 1, n)  more == SubSeq(sent, 1, n + 1)
<1>11. n \in Nat /\ n + 1 <= Len(sent)
  BY <1>3, <1>7
<1>12. Taken = less /\ Taken' = more
  <2>1. Taken = less
    BY DEF Taken, TakenCount
  <2>2. Taken' = SubSeq(sent', 1, TakenCount')
    BY DEF Taken, TakenCount
  <2> QED BY <1>4, <1>6, <2>1, <2>2
<1> HIDE DEF n
<1>13. /\ Len(less) = n /\ Len(more) = n + 1
       /\ \A i \in 1 .. n : less[i] = more[i]
       /\ more[n + 1] = sent[n + 1]
  <2>1. n \in 0 .. Len(sent) /\ n + 1 \in 1 .. Len(sent) /\ n + 1 \in 0 .. Len(sent)
    BY <1>2, <1>11
  <2>2. Len(less) = n /\ Len(more) = n + 1
    BY <1>1, <2>1
  <2>3. \A i \in 1 .. n : less[i] = sent[i]
    BY <1>1, <2>1
  <2>4. \A i \in 1 .. n + 1 : more[i] = sent[i]
    BY <1>1, <2>1
  <2> QED BY <1>11, <2>2, <2>3, <2>4
<1>14. sent[n + 1] = Head(rbuf)
  BY <1>5, <1>7 DEF n
<1> HIDE DEF less, more
<1>15. Tags(more, "Ping") =
         IF more[Len(more)].type = "Ping"
         THEN Append(Tags(less, "Ping"), more[Len(more)].tag)
         ELSE Tags(less, "Ping")
  BY <1>11, <1>13, TagsOfMore
<1> QED BY <1>4, <1>5, <1>10, <1>12, <1>13, <1>14, <1>15

LEMMA WrittenTags ==
  ASSUME IInv, NEW type \in {"Data", "Ping", "Pong", "Close"}, NEW tag \in Nat,
         WriteFrame(type, tag)
  PROVE  Tags(written', "Pong") =
           IF type = "Pong" THEN Append(Tags(written, "Pong"), tag)
           ELSE Tags(written, "Pong")
<1>1. written \in Seq(Frame)
  BY Parts DEF Bytes
<1> DEFINE f == [type |-> type, tag |-> tag]
<1>2. f \in Frame /\ f.type = type /\ f.tag = tag
  BY DEF Frame
<1>3. written' = Append(written, f)
  BY DEF WriteFrame
<1> HIDE DEF f
<1>4. /\ Len(written) \in Nat /\ Len(written') = Len(written) + 1
      /\ \A i \in 1 .. Len(written) : written[i] = written'[i]
      /\ written'[Len(written) + 1] = f
  BY <1>1, <1>2, <1>3
<1>5. Tags(written', "Pong") =
        IF written'[Len(written')].type = "Pong"
        THEN Append(Tags(written, "Pong"), written'[Len(written')].tag)
        ELSE Tags(written, "Pong")
  BY <1>4, TagsOfMore
<1> QED BY <1>2, <1>4, <1>5

\* Another frame behind those in the buffer.
LEMMA WrittenFlushed ==
  ASSUME IInv, PongsFlushed, pc # "pong", wire' = wire, sendFailed' = sendFailed,
         NEW type \in {"Data", "Ping", "Close"}, NEW tag \in Nat,
         WriteFrame(type, tag)
  PROVE  PongsFlushed'
<1>1. written \in Seq(Frame)
  BY Parts DEF Bytes
<1>2. /\ Len(written) \in Nat /\ Len(written') = Len(written) + 1
      /\ \A i \in 1 .. Len(written) : written'[i] = written[i]
      /\ written'[Len(written) + 1].type = type
  <2> DEFINE f == [type |-> type, tag |-> tag]
  <2>1. f \in Frame /\ f.type = type
    BY DEF Frame
  <2>2. written' = Append(written, f)
    BY DEF WriteFrame
  <2> HIDE DEF f
  <2> QED BY <1>1, <2>1, <2>2
<1>3. Arrived' = Arrived /\ Arrived \in 0 .. Len(written)
  BY ArrivedRange DEF Arrived, IInv
<1> SUFFICES ASSUME ~ sendFailed, NEW k \in Arrived + 1 .. Len(written')
             PROVE  written'[k].type # "Pong"
  BY <1>3 DEF PongsFlushed
<1>4. CASE k = Len(written) + 1
  BY <1>2, <1>4
<1>5. CASE k # Len(written) + 1
  <2>1. k \in Arrived + 1 .. Len(written) /\ k \in 1 .. Len(written)
    BY <1>2, <1>3, <1>5
  <2> QED BY <1>2, <2>1 DEF PongsFlushed
<1> QED BY <1>4, <1>5

\* Nothing is written, and the bytes at most move on.
LEMMA QuietFlushed ==
  ASSUME IInv, PongsFlushed, written' = written,
         Len(wire) <= Len(wire'), Len(wire') \in Nat,
         \/ sendFailed'
         \/ sendFailed' = sendFailed /\ (pc = "pong" => pc' = "pong")
         \/ wbuf = << >> /\ wire' = wire
  PROVE  PongsFlushed'
<1>1. Len(written) \in Nat /\ Arrived \in 0 .. Len(written) /\ Len(wire) \in Nat
  BY ArrivedRange, Parts DEF IInv, Bytes
<1>2. Arrived' \in Nat /\ Arrived <= Arrived'
  BY <1>1, QuotientGrows DEF Arrived
<1>3. CASE wbuf = << >> /\ wire' = wire
  <2>1. Arrived = Len(written)
    BY <1>3, EmptyMeansArrived DEF IInv
  <2>2. Arrived' = Arrived
    BY <1>3 DEF Arrived
  <2> QED BY <1>1, <2>1, <2>2 DEF PongsFlushed
<1>4. CASE sendFailed'
  BY <1>4 DEF PongsFlushed
<1>5. CASE sendFailed' = sendFailed /\ (pc = "pong" => pc' = "pong")
  <2>1. \A k \in Arrived' + 1 .. Len(written) : k \in Arrived + 1 .. Len(written)
    <3>1. ASSUME NEW a \in Nat, NEW b \in Nat, NEW c \in Nat, a <= b
          PROVE  \A k \in b + 1 .. c : k \in a + 1 .. c
      BY <3>1
    <3>2. Arrived \in Nat
      BY <1>1
    <3> QED BY <1>1, <1>2, <3>1, <3>2
  <2> QED BY <1>5, <2>1 DEF PongsFlushed
<1> QED BY <1>3, <1>4, <1>5

\* A step that leaves the messages and the frames alone, or moves bytes.
LEMMA QuietPongs ==
  ASSUME IInv, PongInv, written' = written,
         \/ UNCHANGED <<sent, net, rbuf>>
         \/ ServerSend \/ ServerAck
         \/ \E n \in 1 .. Len(net) : Receive(n),
         Len(wire) <= Len(wire'), Len(wire') \in Nat,
         \/ sendFailed'
         \/ sendFailed' = sendFailed /\ (pc = "pong" => pc' = "pong")
         \/ wbuf = << >> /\ wire' = wire
  PROVE  PongInv'
<1>1. Queues /\ InFlight
  BY Parts DEF PongInv
<1>2. InFlight' /\ Taken' = Taken
  BY <1>1, TakenKeeps
<1>3. PongsFlushed'
  BY QuietFlushed DEF PongInv
<1> QED BY <1>2, <1>3 DEF PongInv, Answered

LEMMA WireLength == ASSUME IInv PROVE Len(wire) \in Nat /\ Len(wire) <= Len(wire)
<1>1. Len(wire) \in Nat
  BY Parts DEF Bytes
<1> QED BY <1>1

\* The application writes a frame, which is no Pong.
LEMMA CallPongs ==
  ASSUME IInv, PongInv, Call
  PROVE  PongInv'
<1>0. UNCHANGED <<sent, net, rbuf, wire, sendFailed>> /\ pc = "idle"
  BY DEF Call, CallDisconnected, CallWrite, CallSend, CallSendInvalid, CallFlush,
         CallRecv, CallClose, CallCloseInvalid, Begin
<1>1. ASSUME written' = written PROVE PongInv'
  BY <1>0, <1>1, WireLength, QuietPongs
<1>2. ASSUME NEW type \in {"Data", "Ping", "Close"}, WriteFrame(type, 0)
      PROVE  PongInv'
  <2>1. Queues /\ InFlight /\ 0 \in Nat /\ type # "Pong"
    BY Parts DEF PongInv
  <2>2. InFlight' /\ Taken' = Taken
    BY <1>0, <2>1, TakenKeeps
  <2>3. Tags(written', "Pong") = Tags(written, "Pong")
    BY <1>2, <2>1, WrittenTags
  <2>4. PongsFlushed'
    BY <1>0, <1>2, <2>1, WrittenFlushed DEF PongInv
  <2> QED BY <2>2, <2>3, <2>4 DEF PongInv, Answered
<1>3. CASE CallDisconnected
  BY <1>1, <1>3 DEF CallDisconnected
<1>4. ASSUME NEW type \in {"Data", "Ping"}, CallWrite(type) \/ CallSend(type)
      PROVE  PongInv'
  BY <1>2, <1>4 DEF CallWrite, CallSend
<1>5. CASE CallSendInvalid
  BY <1>1, <1>5 DEF CallSendInvalid
<1>6. CASE CallFlush \/ CallRecv
  BY <1>1, <1>6 DEF CallFlush, CallRecv
<1>7. ASSUME NEW function \in {"close", "closeNoAck"}, CallClose(function)
      PROVE  PongInv'
  BY <1>2, <1>7 DEF CallClose
<1>8. ASSUME NEW function \in {"close", "closeNoAck"}, CallCloseInvalid(function)
      PROVE  PongInv'
  BY <1>1, <1>8 DEF CallCloseInvalid
<1> QED BY <1>3, <1>4, <1>5, <1>6, <1>7, <1>8 DEF Call

\* flush: bytes go out, it ends with none left, or the transport refuses.
LEMMA FlushPongs ==
  ASSUME IInv, PongInv,
         (\E n \in 1 .. Len(wbuf) : FlushSome(n)) \/ FlushDone \/ FlushFails
  PROVE  PongInv'
<1>1. ASSUME NEW n \in 1 .. Len(wbuf), FlushSome(n)
      PROVE  PongInv'
  <2>1. /\ wire' = wire \o SubSeq(wbuf, 1, n) /\ wbuf' = SubSeq(wbuf, n + 1, Len(wbuf))
        /\ UNCHANGED <<written, pc, sent, net, rbuf, sendFailed>>
    BY <1>1 DEF FlushSome
  <2>2. Bytes
    BY Parts
  <2>3. Len(SubSeq(wbuf, 1, n)) = n /\ SubSeq(wbuf, 1, n) \in Seq(Nat) /\ n \in Nat
    BY <2>2 DEF Bytes
  <2> DEFINE part == SubSeq(wbuf, 1, n)
  <2> HIDE DEF part
  <2>4. Len(wire \o part) = Len(wire) + Len(part)
    BY <2>2, <2>3 DEF Bytes, part
  <2>5. Len(wire') \in Nat /\ Len(wire) <= Len(wire')
    BY <2>1, <2>3, <2>4, WireLength DEF part
  <2>6. written' = written /\ UNCHANGED <<sent, net, rbuf>>
        /\ sendFailed' = sendFailed /\ pc' = pc
    BY <2>1
  <2> QED BY <2>5, <2>6, QuietPongs
<1>2. CASE FlushDone
  <2>1. wbuf = << >> /\ wire' = wire /\ UNCHANGED <<written, sent, net, rbuf>>
    BY <1>2 DEF FlushDone, Flushed
  <2> QED BY <2>1, WireLength, QuietPongs
<1>3. CASE FlushFails
  <2>1. sendFailed' /\ wire' = wire /\ UNCHANGED <<written, sent, net, rbuf>>
    BY <1>3 DEF FlushFails
  <2> QED BY <2>1, WireLength, QuietPongs
<1> QED BY <1>1, <1>2, <1>3

\* recv takes a message; only a Ping makes it write a Pong.
LEMMA TakePongs ==
  ASSUME IInv, PongInv, TakeData \/ TakePong \/ TakePing \/ TakeClose \/ TakeBad
  PROVE  PongInv'
<1>0. Queues /\ InFlight /\ Answered /\ PongsFlushed
  BY Parts DEF PongInv
<1>1. CASE TakePing
  <2>1. /\ Take("Ping") /\ WriteFrame("Pong", Head(rbuf).tag) /\ pc' = "pong"
    BY <1>1 DEF TakePing
  <2>2. /\ InFlight' /\ Head(rbuf) \in Message
        /\ Tags(Taken', "Ping") = Append(Tags(Taken, "Ping"), Head(rbuf).tag)
    BY <1>0, <2>1, TakenMore
  <2>3. Head(rbuf).tag \in Nat
    BY <2>2 DEF Message
  <2>4. Tags(written', "Pong") = Append(Tags(written, "Pong"), Head(rbuf).tag)
    BY <2>1, <2>3, WrittenTags
  <2>5. PongsFlushed'
    BY <2>1 DEF PongsFlushed
  <2> QED BY <1>0, <2>2, <2>4, <2>5 DEF PongInv, Answered
<1>2. ASSUME NEW type \in {"Data", "Pong"}, Take(type), written' = written
      PROVE  PongInv'
  <2>1. /\ InFlight' /\ Tags(Taken', "Ping") = Tags(Taken, "Ping")
    BY <1>0, <1>2, TakenMore
  <2>2. wire' = wire /\ sendFailed' = sendFailed /\ pc = "recv"
    BY <1>2 DEF Take
  <2>3. PongsFlushed'
    BY <1>0, <1>2, <2>2, WireLength, QuietFlushed
  <2> QED BY <1>0, <1>2, <2>1, <2>3 DEF PongInv, Answered
<1>3. ASSUME NEW type \in {"Close", "Bad"}, Take(type), WriteFrame("Close", 0)
      PROVE  PongInv'
  <2>1. /\ InFlight' /\ Tags(Taken', "Ping") = Tags(Taken, "Ping")
    BY <1>0, <1>3, TakenMore
  <2>2. wire' = wire /\ sendFailed' = sendFailed /\ pc = "recv"
    BY <1>3 DEF Take
  <2>3. Tags(written', "Pong") = Tags(written, "Pong")
    BY <1>3, WrittenTags
  <2>4. PongsFlushed'
    BY <1>0, <1>3, <2>2, WrittenFlushed
  <2> QED BY <1>0, <2>1, <2>3, <2>4 DEF PongInv, Answered
<1>4. CASE TakeData
  BY <1>2, <1>4 DEF TakeData
<1>5. CASE TakePong
  BY <1>2, <1>5 DEF TakePong
<1>6. CASE TakeClose
  BY <1>3, <1>6 DEF TakeClose
<1>7. CASE TakeBad
  BY <1>3, <1>7 DEF TakeBad
<1> QED BY <1>1, <1>4, <1>5, <1>6, <1>7

LEMMA PongStep ==
  ASSUME IInv, PongInv, [Next]_vars
  PROVE  PongInv'
<1>1. CASE Call
  BY <1>1, CallPongs
<1>2. CASE (\E n \in 1 .. Len(wbuf) : FlushSome(n)) \/ FlushDone \/ FlushFails
  BY <1>2, FlushPongs
<1>3. CASE TakeData \/ TakePong \/ TakePing \/ TakeClose \/ TakeBad
  BY <1>3, TakePongs
<1>4. CASE ServerSend \/ ServerAck \/ \E n \in 1 .. Len(net) : Receive(n)
  <2>1. UNCHANGED <<clientVars, wire, sendFailed>>
    BY <1>4 DEF ServerSend, ServerAck, ServerSends, Receive
  <2>2. written' = written /\ wire' = wire /\ sendFailed' = sendFailed /\ pc' = pc
    BY <2>1 DEF clientVars
  <2> QED BY <1>4, <2>2, WireLength, QuietPongs
<1>5. CASE ReceiveFails
  <2>1. /\ UNCHANGED <<written, wire, sent, net, rbuf, sendFailed>> /\ pc = "recv"
    BY <1>5 DEF ReceiveFails
  <2> QED BY <2>1, WireLength, QuietPongs
<1>6. CASE UNCHANGED vars
  <2>1. written' = written /\ wire' = wire /\ sendFailed' = sendFailed /\ pc' = pc
        /\ UNCHANGED <<sent, net, rbuf>>
    BY <1>6 DEF vars, clientVars
  <2> QED BY <2>1, WireLength, QuietPongs
<1> QED BY <1>1, <1>2, <1>3, <1>4, <1>5, <1>6 DEF Next, Progress

\* recv answers every Ping, once, with its payload and in its order, and looks
\* at the next message only when the Pong is with the server; until a send
\* fails, whatever the application has left in m_wbuf and whichever call runs.
THEOREM PingsAnswered == Spec => []PongsAnswerPings
<1>1. Init => PongInv
  <2> SUFFICES ASSUME Init PROVE PongInv
    OBVIOUS
  <2>1. /\ sent = << >> /\ net = << >> /\ rbuf = << >> /\ written = << >> /\ pc = "idle"
        /\ Len(<< >>) = 0
    BY DEF Init
  <2>2. TakenCount = 0
    <3>1. Len(sent) = 0 /\ Len(net) = 0 /\ Len(rbuf) = 0
      BY <2>1
    <3> QED BY <3>1 DEF TakenCount
  <2>3. InFlight
    BY <2>1, <2>2 DEF InFlight
  <2>4. Taken = << >>
    <3>1. Taken = SubSeq(<< >>, 1, 0)
      BY <2>1, <2>2 DEF Taken, TakenCount
    <3> QED BY <3>1
  <2>5. Answered
    BY <2>1, <2>4, TagsOfNone DEF Answered
  <2>6. PongsFlushed
    <3>1. Arrived \in 0 .. Len(written)
      BY InitiallyTrue, ArrivedRange DEF IInv
    <3> QED BY <2>1, <3>1 DEF PongsFlushed
  <2> QED BY <2>3, <2>5, <2>6 DEF PongInv
<1>2. IInv /\ PongInv /\ [Next]_vars => PongInv'
  BY PongStep
<1>3. IInv /\ PongInv => PongsAnswerPings
  BY PongsOnWire
<1> QED BY <1>1, <1>2, <1>3, InductiveInvariant, PTL DEF Spec

-----------------------------------------------------------------------------
(* The sending half implements Connection *)

\* The abstract sequence of accepted frames.
Types == [k \in 1 .. Len(written) |-> written[k].type]

FrameTypes == {"Data", "Ping", "Pong", "Close"}

LEMMA FrameHasType ==
  ASSUME NEW frames \in Seq(Frame), NEW k \in 1 .. Len(frames)
  PROVE  frames[k].type \in FrameTypes
<1>1. frames[k] \in Frame
  BY ElementOfSeq
<1> QED BY <1>1 DEF Frame, FrameTypes

LEMMA TypesProperties ==
  ASSUME written \in Seq(Frame)
  PROVE  /\ Types \in Seq(FrameTypes)
         /\ Len(Types) = Len(written) /\ Len(written) \in Nat
         /\ \A k \in 1 .. Len(written) : Types[k] = written[k].type
<1>1. \A k \in 1 .. Len(written) : written[k].type \in FrameTypes
  BY FrameHasType
<1> QED BY <1>1 DEF Types

\* A frame may be written only while the client is up, and a data frame only
\* while no Close has been.
LEMMA WriteRefines ==
  ASSUME IInv, connected, UNCHANGED <<connected, wire>>,
         NEW type \in FrameTypes, NEW tag \in Nat, WriteFrame(type, tag),
         type \in {"Data", "Ping"} => ~ HasClose
  PROVE  Out!Accept
<1>1. /\ written \in Seq(Frame) /\ written' \in Seq(Frame)
      /\ Len(written') = Len(written) + 1
      /\ written'[Len(written')].type = type
      /\ \A k \in 1 .. Len(written) : written'[k] = written[k]
  BY WriteExtends, Parts DEF IInv, Bytes, FrameTypes
<1>2. /\ Types \in Seq(FrameTypes)
      /\ Len(Types) = Len(written) /\ Len(written) \in Nat
      /\ \A k \in 1 .. Len(written) : Types[k] = written[k].type
  BY <1>1, TypesProperties
<1>3. /\ Types' \in Seq(FrameTypes) /\ Len(Types') = Len(written')
      /\ \A k \in 1 .. Len(written') : Types'[k] = written'[k].type
  <2>1. \A k \in 1 .. Len(written') : written'[k].type \in FrameTypes
    BY <1>1, FrameHasType
  <2> QED BY <1>1, <2>1 DEF Types
<1>4. Types' = Append(Types, type)
  <2>1. /\ Append(Types, type) \in Seq(FrameTypes)
        /\ Len(Append(Types, type)) = Len(Types) + 1
        /\ \A k \in 1 .. Len(Types) : Append(Types, type)[k] = Types[k]
        /\ Append(Types, type)[Len(Types) + 1] = type
    BY <1>2, AppendProperties
  <2>2. ASSUME NEW k \in 1 .. Len(written')
        PROVE  Types'[k] = Append(Types, type)[k]
    <3>1. CASE k \in 1 .. Len(written)
      BY <1>1, <1>2, <1>3, <2>1, <3>1
    <3>2. CASE k = Len(written) + 1
      BY <1>1, <1>2, <1>3, <2>1, <3>2
    <3> QED BY <1>1, <1>2, <3>1, <3>2
  <2> QED BY <1>1, <1>2, <1>3, <2>1, <2>2, SeqEqual
<1>5. type \in {"Data", "Ping"} => ~ Out!Closing
  BY <1>2 DEF Out!Closing, HasClose, Types
<1> QED BY <1>4, <1>5 DEF Out!Accept, Types, FrameTypes

LEMMA SendRefines ==
  ASSUME IInv, NEW n \in 1 .. Len(wbuf), FlushSome(n)
  PROVE  Out!Transmit
<1>1. Bytes /\ BytesInOrder /\ TypeOK /\ CallsOK
  BY Parts DEF IInv
<1>2. connected /\ connected' = connected /\ written' = written
  BY <1>1 DEF FlushSome, Reasons, CallsOK, Control
<1>3. wire' = wire \o Run(Len(wire), n)
  BY <1>1, FlushMoves DEF FlushSome
<1>4. Len(Types) = Len(written)
  BY <1>1, TypesProperties DEF Bytes
<1>5. n \in 1 .. FrameSize * Len(Types) - Len(wire)
  <2>1. /\ Len(wire) \in Nat /\ Len(wbuf) \in Nat
        /\ Len(wire) + Len(wbuf) = FrameSize * Len(written)
    BY <1>1 DEF Bytes, BytesInOrder, InOrder
  <2>2. FrameSize * Len(Types) - Len(wire) = Len(wbuf)
    BY <1>4, <2>1
  <2> QED BY <2>2
<1> QED BY <1>2, <1>3, <1>5 DEF Out!Transmit, Types, Run

LEMMA OtherRefines ==
  ASSUME IInv', UNCHANGED <<written, wire>>, connected \/ connected' = connected
  PROVE  [Out!Next]_Out!vars
<1>1. connected' \in BOOLEAN
  BY DEF IInv, TypeOK
<1>2. CASE connected' = connected
  BY <1>2 DEF Out!vars
<1>3. CASE connected' = FALSE
  BY <1>3 DEF Out!Next, Out!Disconnect
<1> QED BY <1>1, <1>2, <1>3

LEMMA StepRefines ==
  ASSUME IInv, IInv', [Next]_vars
  PROVE  [Out!Next]_Out!vars
<1>0. CallsOK
  BY Parts
<1>1. ASSUME NEW type \in {"Data", "Ping"}, CallWrite(type) \/ CallSend(type)
      PROVE  Out!Accept
  <2>1. connected /\ pc = "idle" /\ UNCHANGED <<connected, wire>> /\ WriteFrame(type, 0)
    BY <1>1 DEF CallWrite, CallSend, Begin
  <2>2. ~ HasClose
    BY <1>0, <2>1 DEF CallsOK, CloseIsLast, ClosingReasons
  <2> QED BY <2>1, <2>2, WriteRefines DEF FrameTypes
<1>2. ASSUME NEW function \in {"close", "closeNoAck"}, CallClose(function)
      PROVE  Out!Accept
  BY <1>2, WriteRefines DEF CallClose, Begin, FrameTypes
<1>3. CASE TakePing \/ TakeClose \/ TakeBad
  <2>1. connected /\ UNCHANGED <<connected, wire>>
    BY <1>0, <1>3 DEF TakePing, TakeClose, TakeBad, Take, CallsOK, Control
  <2>2. CASE TakePing
    <3>1. Head(rbuf).tag \in Nat
      BY <2>2, TakeQueues, Parts DEF TakePing, Message
    <3> QED BY <2>1, <2>2, <3>1, WriteRefines DEF TakePing, FrameTypes, Out!Next
  <2>3. CASE TakeClose \/ TakeBad
    BY <2>1, <2>3, WriteRefines DEF TakeClose, TakeBad, FrameTypes, Out!Next
  <2> QED BY <1>3, <2>2, <2>3
<1>4. ASSUME NEW n \in 1 .. Len(wbuf), FlushSome(n)
      PROVE  Out!Transmit
  BY <1>4, SendRefines
<1>5. CASE \/ CallDisconnected \/ CallSendInvalid \/ CallFlush \/ CallRecv
           \/ \E function \in {"close", "closeNoAck"} : CallCloseInvalid(function)
  BY <1>5, OtherRefines
  DEF CallDisconnected, CallSendInvalid, CallFlush, CallRecv, CallCloseInvalid, Begin
<1>6. CASE FlushDone \/ FlushFails
  BY <1>0, <1>6, OtherRefines DEF FlushDone, FlushFails, CallsOK, Control, Reasons
<1>7. CASE \/ TakeData \/ TakePong \/ ReceiveFails
           \/ \E n \in 1 .. Len(net) : Receive(n)
  BY <1>0, <1>7, OtherRefines
  DEF TakeData, TakePong, ReceiveFails, Receive, Take, CallsOK, Control, clientVars
<1>8. CASE ServerSend \/ ServerAck \/ UNCHANGED vars
  BY <1>8, OtherRefines DEF ServerSend, ServerAck, ServerSends, clientVars, vars
<1> QED
  BY <1>1, <1>2, <1>3, <1>4, <1>5, <1>6, <1>7, <1>8
  DEF Next, Call, Progress, Out!Next

\* Whatever the calls, the messages and the failures, the bytes on the wire
\* are those of the frames in the order they were written, and no data frame
\* follows a Close.
THEOREM ClientRefinesConnection == Spec => ClientImplementsConnection
<1>1. Init => Out!Init
  BY DEF Init, Out!Init
<1>2. IInv /\ IInv' /\ [Next]_vars => [Out!Next]_Out!vars
  BY StepRefines
<1> QED
  BY <1>1, <1>2, InductiveInvariant, PTL
  DEF Spec, ClientImplementsConnection, Out!Spec

=============================================================================
