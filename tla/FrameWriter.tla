----------------------------- MODULE FrameWriter -----------------------------
(***************************************************************************)
(* The writing half of the codec: _writeMessage puts a masked frame into   *)
(* m_wbuf, a header and then the payload in blocks of the scratch array,   *)
(* while flush drains the same ring.  The ring is that of RingOps, byte    *)
(* for byte, so that frames are cut by its windows, its growth and the     *)
(* spans that flush gives to the transport.                                *)
(***************************************************************************)
EXTENDS Frames, RingOps

CONSTANTS
  Messages,     \* the messages the application writes: records of type,
                \* final and data, as in Frames
  Closes,       \* the closes it asks for: records of code and reason
  Keys,         \* the masking keys the random device may return
  ScratchSize,  \* bytes of the scratch array (1024)
  MaxMessages,  \* frames written (bounds the model)
  Takes,        \* the bytes a transport may take of a longer span
  Lengths       \* payloads' lengths, those too long to be sent in the model

UInt16 == {n \in Nat : n < 65536}

ASSUME ByteAssumption == Byte = 0 .. 255

\* A Close that the application builds itself does not have one byte: of such
\* a payload validate reads a second one.
ASSUME FrameWriterAssumption ==
  /\ Messages \subseteq [type : Type, final : {TRUE}, data : Seq(Byte)]
  /\ \A msg \in Messages : msg.type = "Close" => Len(msg.data) # 1
  /\ Closes \subseteq [code : UInt16, reason : Seq(Byte)]
  /\ Keys \subseteq [1 .. 4 -> Byte]
  /\ ScratchSize \in Nat \ {0}
  /\ Takes \subseteq Nat \ {0}
  /\ Lengths \subseteq Nat /\ \A n \in Lengths : n <= 2^30
  /\ MaxCapacity <= 2^30

\* The ring can grow until it holds every frame that is written: the longest
\* header has 14 bytes and the longest close 125.
ASSUME RoomAssumption ==
  /\ MaxMessages \in Nat
  /\ \E room \in 139 .. MaxCapacity :
       /\ \A msg \in Messages : Len(msg.data) + 14 <= room
       /\ MaxMessages * room <= MaxCapacity

VARIABLES
  buf,       \* ClientBase::m_wbuf
  wire,      \* the bytes the transport has taken (history)
  accepted,  \* the messages _writeMessage has accepted (history)
  refused    \* the message that the last write has refused, if it has

vars == <<buf, wire, accepted, refused>>

-----------------------------------------------------------------------------
(* A frame *)

\* a ^ b on bytes.
Xor(a, b) ==
  LET bit(w) == w * ((a \div w + b \div w) % 2)
  IN  bit(1) + bit(2) + bit(4) + bit(8) + bit(16) + bit(32) + bit(64) + bit(128)

OpcodeOf ==
  [type \in Type \ {"Fragment"} |->
     CASE type = "Text"  -> 1 [] type = "Binary" -> 2
       [] type = "Close" -> 8 [] type = "Ping" -> 9 [] type = "Pong" -> 10]

\* The count low bytes of a length, the highest first.
BigEndian(len, count) == [i \in 1 .. count |-> (len \div 256^(count - i)) % 256]

\* (mutant) Lengths of 65535 bytes take the long form, 65536 the short one.
LengthField_OffByOne(len) ==
  CASE len < 126 -> <<len>>
    [] len >= 126 /\ len <= 65536 -> <<126>> \o BigEndian(len, 2)
    [] len > 65536 -> <<127, 0, 0, 0, 0>> \o BigEndian(len, 4)

\* The length in its shortest form.  (The upper half of the 64 bits is zero:
\* lengths here stay below 2^31.)
LengthField(len) ==
  CASE len < 126 -> <<len>>
    [] len >= 126 /\ len <= 65535 -> <<126>> \o BigEndian(len, 2)
    [] len > 65535 -> <<127, 0, 0, 0, 0>> \o BigEndian(len, 4)

Header(msg, key) ==
  LET length == LengthField(Len(msg.data))
  IN  <<128 + OpcodeOf[msg.type], 128 + Head(length)>> \o Tail(length) \o key

Mask(data, key) ==
  [i \in 1 .. Len(data) |-> Xor(data[i], key[((i - 1) % 4) + 1])]

\* The pieces in which the payload goes through the scratch array.
Blocks(bytes) ==
  [k \in 1 .. (Len(bytes) + ScratchSize - 1) \div ScratchSize |->
     SubSeq(bytes, ScratchSize * (k - 1) + 1, AtMost(ScratchSize * k, Len(bytes)))]

\* One write to the ring for the header and one for each block.
WriteFrame(b, msg, key) ==
  LET blocks == Blocks(Mask(msg.data, key))
      after[k \in 0 .. Len(blocks)] ==
        IF k = 0 THEN Write(b, Header(msg, key)) ELSE Write(after[k - 1], blocks[k])
  IN  after[Len(blocks)]

\* (mutant) A long reason is not cut.
MakeCloseFrame_Uncut(code, reason) ==
  [type |-> "Close", final |-> TRUE, data |-> BigEndian(code, 2) \o reason]

MakeCloseFrame(code, reason) ==
  [type |-> "Close", final |-> TRUE,
   data |-> BigEndian(code, 2) \o SubSeq(reason, 1, AtMost(Len(reason), 123))]

-----------------------------------------------------------------------------
Init ==
  /\ buf = NewRing(0)
  /\ wire = << >>
  /\ accepted = << >>
  /\ refused = << >>

\* _writeMessage: an error before anything is written, or the whole frame.
WriteMessage(msg, key) ==
  IF Validate(msg) = "ok" /\ msg.type # "Fragment"
  THEN /\ buf' = WriteFrame(buf, msg, key)
       /\ accepted' = Append(accepted, msg)
       /\ refused' = << >>
       /\ UNCHANGED wire
  ELSE /\ refused' = <<msg>>
       /\ UNCHANGED <<buf, wire, accepted>>

Send ==
  /\ Len(accepted) < MaxMessages
  /\ \E msg \in Messages, key \in Keys : WriteMessage(msg, key)

SendClose ==
  /\ Len(accepted) < MaxMessages
  /\ \E c \in Closes, key \in Keys :
       WriteMessage(MakeCloseFrame(c.code, c.reason), key)

\* (mutant) flush sends from the first span and skips all it peeked.
Flush_SkipsBothSpans ==
  LET span == PeekFirst(buf, buf.size, 0)
  IN  \E n \in 1 .. span.len :
        /\ n \in Takes \/ n = span.len
        /\ wire' = wire \o Bytes(buf, [span EXCEPT !.len = n])
        /\ buf' = Skip(buf, IF n = span.len THEN buf.size ELSE n)
        /\ refused' = << >>
        /\ UNCHANGED accepted

\* A turn of flush: the transport takes some of the first span of a peek.
Flush ==
  LET span == PeekFirst(buf, buf.size, 0)
  IN  \E n \in 1 .. span.len :
        /\ n \in Takes \/ n = span.len
        /\ wire' = wire \o Bytes(buf, [span EXCEPT !.len = n])
        /\ buf' = Skip(buf, n)
        /\ refused' = << >>
        /\ UNCHANGED accepted

Next == Send \/ SendClose \/ Flush

Spec == Init /\ [][Next]_vars

-----------------------------------------------------------------------------
(* The server, after RFC 6455 section 5.2 *)

LengthForm(second) ==
  CASE second % 128 = 126 -> 2 [] second % 128 = 127 -> 8 [] OTHER -> 0

\* The number written in bytes, exact below 2^31 and large above.
Number(bytes) ==
  LET n[i \in 0 .. Len(bytes)] ==
        IF i = 0 THEN 0 ELSE AtMost(n[i - 1], 2^23 - 1) * 256 + bytes[i]
  IN  n[Len(bytes)]

AnnouncedLength(s, p) ==
  LET ext == LengthForm(s[p + 1])
  IN  IF ext = 0 THEN s[p + 1] % 128 ELSE Number(SubSeq(s, p + 2, p + 1 + ext))

\* The payload of the frame at position p of the stream, unmasked, and where
\* the next frame begins.
PayloadAt(s, p) == p + 2 + LengthForm(s[p + 1]) + 4
NextAt(s, p)    == PayloadAt(s, p) + AnnouncedLength(s, p)

FrameAt(s, p) ==
  LET at == PayloadAt(s, p)
  IN  [first |-> s[p], masked |-> s[p + 1] >= 128,
       data |-> [i \in 1 .. AnnouncedLength(s, p) |->
                   Xor(s[at + i - 1], s[at - 4 + ((i - 1) % 4)])]]

\* A whole frame with a key is there.
WholeAt(s, p) ==
  /\ p + 5 <= Len(s)
  /\ PayloadAt(s, p) <= Len(s) + 1
  /\ AnnouncedLength(s, p) <= Len(s) + 1 - PayloadAt(s, p)

NoFrame == [first |-> 0, masked |-> FALSE, data |-> << >>]

\* The frames of a stream, with NoFrame at the end when it stops inside one.
FramesOf(s) ==
  LET from[p \in 1 .. Len(s) + 1] ==
        IF p = Len(s) + 1 THEN << >>
        ELSE IF WholeAt(s, p) THEN <<FrameAt(s, p)>> \o from[NextAt(s, p)]
        ELSE <<NoFrame>>
  IN  from[1]

-----------------------------------------------------------------------------
(* Properties *)

TypeOK ==
  /\ RingOK(buf)
  /\ wire \in Seq(Byte)
  /\ accepted \in Seq([type : Type \ {"Fragment"}, final : {TRUE}, data : Seq(Byte)])
  /\ Len(refused) <= 1
  /\ refused \in Seq([type : Type, final : {TRUE}, data : Seq(Byte)])

\* A server that reads what has been sent and what is still buffered finds
\* the accepted messages, each one whole frame, masked, with its own type
\* and payload, however the ring cut them and wherever flush stopped.
ServerReadsMessages ==
  FramesOf(wire \o Contents(buf)) =
    [k \in 1 .. Len(accepted) |->
       [first |-> 128 + (CASE accepted[k].type = "Text"   -> 1
                           [] accepted[k].type = "Binary" -> 2
                           [] accepted[k].type = "Close"  -> 8
                           [] accepted[k].type = "Ping"   -> 9
                           [] accepted[k].type = "Pong"   -> 10),
        masked |-> TRUE,
        data |-> accepted[k].data]]

\* Were an accepted message longer by any of Lengths, its length field would
\* still announce its length, on both sides of every change of form.  (Such
\* frames are too long for the model's ring.)
LengthsReadBack ==
  \A k \in 1 .. Len(accepted), more \in Lengths :
    LET len   == Len(accepted[k].data) + more
        field == LengthField(len)
    IN  AnnouncedLength(<<129>> \o [field EXCEPT ![1] = 128 + field[1]], 1) = len

\* A close is refused only for its code or for bytes of its reason that may
\* be cut: never for the length of an ASCII reason, which makeCloseFrame cuts
\* to what a control frame can hold.
LongReasonsAccepted ==
  \A k \in 1 .. Len(refused) :
    refused[k].type = "Close" =>
      \/ CloseCode(refused[k]) \notin VALID_CLOSE_CODES \cup 3000 .. 4999
      \/ \E i \in DOMAIN CloseReason(refused[k]) : CloseReason(refused[k])[i] >= 128

==============================================================================
