------------------------------- MODULE Frames -------------------------------
(***************************************************************************)
(* The reading half of the WebSocket codec: what _readOneMessage makes of  *)
(* the bytes at the front of the read buffer, Message::validate, and the   *)
(* joining of fragments.                                                   *)
(***************************************************************************)
EXTENDS Utf8, SequencesExt

Type == {"Fragment", "Text", "Binary", "Close", "Ping", "Pong"}

IsControl(msg) == msg.type \in {"Ping", "Pong", "Close"}

-----------------------------------------------------------------------------
\* The two bytes every frame starts with.
Fin(b)     == b[1] \div 128 = 1
Rsv(b)     == (b[1] \div 16) % 8
Opcode(b)  == b[1] % 16
Masked(b)  == b[2] \div 128 = 1
ShortLen(b) == b[2] % 128

Opcodes == {0, 1, 2, 8, 9, 10}

TypeOfOpcode ==
  [op \in Opcodes |->
     CASE op = 0 -> "Fragment" [] op = 1 -> "Text" [] op = 2 -> "Binary"
       [] op = 8 -> "Close"    [] op = 9 -> "Ping" [] op = 10 -> "Pong"]

\* (mutant) A Close frame of one byte passes.
BadHeader_OneByteClose(b) ==
  \/ Rsv(b) # 0
  \/ Opcode(b) >= 8 /\ (ShortLen(b) > 125 \/ ~ Fin(b))
  \/ Opcode(b) \notin Opcodes

\* The checks made as soon as two bytes are there.
BadHeader(b) ==
  \/ Rsv(b) # 0
  \/ Opcode(b) >= 8 /\ (ShortLen(b) > 125 \/ ~ Fin(b))
  \/ Opcode(b) \notin Opcodes
  \/ Opcode(b) = 8 /\ ShortLen(b) = 1

\* An extended length is in network byte order (std::byteswap).
BigEndian16(b, i) == b[i] * 256 + b[i + 1]

BigEndian32(b, i) == BigEndian16(b, i) * 65536 + BigEndian16(b, i + 2)

BigEndian64(b, i) ==
  (BigEndian32(b, i) * 65536) * 65536 + BigEndian32(b, i + 4)

HeaderLen(b) ==
  CASE ShortLen(b) = 126 -> 4 [] ShortLen(b) = 127 -> 10 [] OTHER -> 2

\* (mutant) The extended length is skipped but not read.
PayloadLen_ShortOnly(b) == ShortLen(b)

PayloadLen(b) ==
  CASE ShortLen(b) = 126 -> BigEndian16(b, 3)
    [] ShortLen(b) = 127 -> BigEndian64(b, 3)
    [] OTHER             -> ShortLen(b)

FrameLen(b) == HeaderLen(b) + PayloadLen(b)

\* The three answers of _readOneMessage: an error, nullopt, or a message.
\* The mask bit is looked at only when the extended length has arrived.
Malformed(b) ==
  /\ Len(b) >= 2
  /\ BadHeader(b) \/ (Len(b) >= HeaderLen(b) /\ Masked(b))

BytesNeeded(b) ==
  IF Len(b) < 2 THEN 2
  ELSE IF Len(b) < HeaderLen(b) THEN HeaderLen(b) ELSE FrameLen(b)

\* (mutant) A frame is taken only when something follows it.
NeedsMore_OrEqual(b) == ~ Malformed(b) /\ Len(b) <= BytesNeeded(b)

NeedsMore(b) == ~ Malformed(b) /\ Len(b) < BytesNeeded(b)

HasFrame(b) == ~ Malformed(b) /\ ~ NeedsMore(b)

FrontMessage(b) ==
  [type  |-> TypeOfOpcode[Opcode(b)],
   final |-> Fin(b),
   data  |-> SubSeq(b, HeaderLen(b) + 1, FrameLen(b))]

Rest(b) == SubSeq(b, FrameLen(b) + 1, Len(b))

-----------------------------------------------------------------------------
VALID_CLOSE_CODES ==
  {1000, 1001, 1002, 1003, 1007, 1008, 1009, 1010, 1011, 1015}

CloseCode(msg) == msg.data[1] * 256 + msg.data[2]

CloseReason(msg) == SubSeq(msg.data, 3, Len(msg.data))

\* Message::validate, with the text of its errors cut to what a caller
\* distinguishes.  A one-byte Close payload is read past its end.
Validate(msg) ==
  CASE msg.type = "Text" /\ ~ IsValidUtf8(msg.data) -> "Invalid UTF-8"
    [] IsControl(msg) /\ Len(msg.data) > 125 -> "Control too large"
    [] msg.type = "Close" /\ Len(msg.data) = 1 -> "out of bounds"
    [] /\ msg.type = "Close" /\ Len(msg.data) >= 2
       /\ ~ IsValidUtf8(CloseReason(msg)) -> "Invalid UTF-8"
    [] /\ msg.type = "Close" /\ Len(msg.data) >= 2
       /\ IsValidUtf8(CloseReason(msg))
       /\ CloseCode(msg) \notin VALID_CLOSE_CODES \cup 3000 .. 4999
         -> "Invalid close code"
    [] OTHER -> "ok"

\* ClientBase::handleProtocolError: the code the connection is closed with.
CodeForError(err) == IF err = "Invalid UTF-8" THEN "1007" ELSE "1002"

-----------------------------------------------------------------------------
\* reassemble: its own checks, and the message it builds.
FragmentsUnfit(frags) ==
  \/ frags = << >>
  \/ frags[1].type \notin {"Text", "Binary"}
  \/ \E i \in 2 .. Len(frags) : frags[i].type # "Fragment"

JoinedData(frags) ==
  FoldLeft(LAMBDA acc, frag : acc \o frag.data, << >>, frags)

\* (mutant) The message takes the type of the frame that ends it.
Reassembled_LastType(frags) ==
  [type |-> frags[Len(frags)].type, final |-> TRUE, data |-> JoinedData(frags)]

Reassembled(frags) ==
  [type |-> frags[1].type, final |-> TRUE, data |-> JoinedData(frags)]

=============================================================================
