----------------------------- MODULE FrameReader -----------------------------
(***************************************************************************)
(* The reading half of a client: recv's loop of readFromBuffer and receive *)
(* down to bytes.  The read buffer is a queue of bytes (CircularByteBuffer *)
(* implements ByteQueue); the network hands over whatever part of the      *)
(* bytes in flight it likes.  One step per turn of the loop in             *)
(* _readAndReassembleMessage and per call of receive.                      *)
(***************************************************************************)
EXTENDS Frames

CONSTANTS
  Frame,      \* the frames a server may send: records of fin, rsv, opcode,
              \* masked, form (7, 16 or 64 bits of length) and data
  MaxFrames   \* how many it sends at most (bounds the model)

\* ClientBase's limit on m_rbuf, in bytes.  A frame that is longer never gets
\* there whole: rwindow throws first.
MAX_BUFFER_SIZE == 134217728

\* Frames are made of bytes, fit the read buffer, and their length fits the
\* form it is sent in.
ASSUME FrameAssumption ==
  /\ MaxFrames \in Nat
  /\ \A f \in Frame :
       /\ f \in [fin : BOOLEAN, rsv : 0 .. 7, opcode : 0 .. 15, masked : BOOLEAN,
                 form : {7, 16, 64}, data : Seq(0 .. 255)]
       /\ Len(f.data) <= MAX_BUFFER_SIZE
       /\ f.form = 7 => Len(f.data) <= 125
       /\ f.form = 16 => Len(f.data) < 65536

VARIABLES
  sent,       \* the frames sent, in order (history)
  net,        \* bytes on their way to the client
  rbuf,       \* ClientBase::m_rbuf
  fragments,  \* ClientBase::m_fragments
  out,        \* the messages readFromBuffer has returned, in order (history)
  pc          \* "parse", "receive", "closed", or the close code of an error

vars == <<sent, net, rbuf, fragments, out, pc>>

-----------------------------------------------------------------------------
(* The server *)

\* The bytes of a frame on the wire.
Encode(f) ==
  LET flag(set, value) == IF set THEN value ELSE 0
      len == Len(f.data)
  IN  << flag(f.fin, 128) + f.rsv * 16 + f.opcode,
         flag(f.masked, 128)
           + (CASE f.form = 7 -> len [] f.form = 16 -> 126 [] f.form = 64 -> 127) >>
      \o (CASE f.form = 7  -> << >>
            [] f.form = 16 -> <<len \div 256, len % 256>>
            [] f.form = 64 -> <<0, 0, 0, 0, (len \div 65536) \div 256, (len \div 65536) % 256,
                                (len \div 256) % 256, len % 256>>)
      \o (IF f.masked THEN <<1, 2, 3, 4>> ELSE << >>)
      \o f.data

Init ==
  /\ sent = << >>
  /\ net = << >>
  /\ rbuf = << >>
  /\ fragments = << >>
  /\ out = << >>
  /\ pc = "parse"

ServerSend(f) ==
  /\ Len(sent) < MaxFrames
  /\ sent' = Append(sent, f)
  /\ net' = net \o Encode(f)
  /\ UNCHANGED <<rbuf, fragments, out, pc>>

-----------------------------------------------------------------------------
(* The client *)

\* receive(wnd) and advanceWrite: any number of bytes in flight, at least one.
Receive(n) ==
  /\ pc = "receive"
  /\ rbuf' = rbuf \o SubSeq(net, 1, n)
  /\ net' = SubSeq(net, n + 1, Len(net))
  /\ pc' = "parse"
  /\ UNCHANGED <<sent, fragments, out>>

Fail(err) == pc' = CodeForError(err)

\* _readOneMessage returned nullopt.
ReadMore ==
  /\ pc = "parse"
  /\ NeedsMore(rbuf)
  /\ pc' = "receive"
  /\ UNCHANGED <<sent, net, rbuf, fragments, out>>

\* _readOneMessage returned an error; the buffer keeps the frame.
RejectFrame ==
  /\ pc = "parse"
  /\ Malformed(rbuf)
  /\ Fail("malformed frame")
  /\ UNCHANGED <<sent, net, rbuf, fragments, out>>

\* _readOneMessage returned the message at the front of the buffer.
TakeFrame ==
  /\ pc = "parse"
  /\ HasFrame(rbuf)
  /\ rbuf' = Rest(rbuf)
  /\ UNCHANGED <<sent, net>>

\* (mutant) Control frames count as interruptions of a fragmented message.
Interrupts_AnyFrame(msg) == fragments # << >> /\ msg.type # "Fragment"

Interrupts(msg) ==
  fragments # << >> /\ ~ IsControl(msg) /\ msg.type # "Fragment"

RejectInterruption ==
  /\ TakeFrame
  /\ Interrupts(FrontMessage(rbuf))
  /\ Fail("new frame in a fragmented message")
  /\ UNCHANGED <<fragments, out>>

\* A complete message goes to the caller if it validates; recv stops reading
\* after a Close.
Return(msg) ==
  IF Validate(msg) = "ok"
  THEN /\ out' = Append(out, msg)
       /\ pc' = IF msg.type = "Close" THEN "closed" ELSE "parse"
  ELSE Fail(Validate(msg)) /\ UNCHANGED out

ReturnWhole ==
  LET msg == FrontMessage(rbuf)
  IN  /\ TakeFrame
      /\ ~ Interrupts(msg)
      /\ msg.final /\ msg.type # "Fragment"
      /\ Return(msg)
      /\ UNCHANGED fragments

\* reassemble keeps the fragments when it refuses them and drops them before
\* it validates what they add up to.
ReturnReassembled ==
  LET msg   == FrontMessage(rbuf)
      frags == Append(fragments, msg)
  IN  /\ TakeFrame
      /\ msg.final /\ msg.type = "Fragment" /\ fragments # << >>
      /\ IF FragmentsUnfit(frags)
         THEN Fail("unfit fragments") /\ fragments' = frags /\ UNCHANGED out
         ELSE fragments' = << >> /\ Return(Reassembled(frags))

\* (mutant) A continuation may come first.
StrayFragment_Ignored(msg) == FALSE

StrayFragment(msg) == msg.type = "Fragment" /\ fragments = << >>

RejectStrayFragment ==
  /\ TakeFrame
  /\ StrayFragment(FrontMessage(rbuf))
  /\ Fail("fragment without a first frame")
  /\ UNCHANGED <<fragments, out>>

KeepFragment ==
  LET msg == FrontMessage(rbuf)
  IN  /\ TakeFrame
      /\ ~ Interrupts(msg) /\ ~ StrayFragment(msg)
      /\ ~ msg.final
      /\ fragments' = Append(fragments, msg)
      /\ UNCHANGED <<out, pc>>

Parse ==
  \/ ReadMore \/ RejectFrame
  \/ RejectInterruption \/ ReturnWhole
  \/ ReturnReassembled \/ RejectStrayFragment \/ KeepFragment

ReceiveSome == \E n \in 1 .. Len(net) : Receive(n)

Next == (\E f \in Frame : ServerSend(f)) \/ ReceiveSome \/ Parse

\* The caller keeps calling recv and the network delivers in the end.
Spec == Init /\ [][Next]_vars /\ WF_vars(Parse) /\ WF_vars(ReceiveSome)

-----------------------------------------------------------------------------
TypeOK ==
  /\ sent \in Seq(Frame)
  /\ rbuf \in Seq(0 .. 255)
  /\ net \in Seq(0 .. 255)
  /\ \A i \in 1 .. Len(out) : out[i].type \in Type \ {"Fragment"} /\ out[i].final
  /\ pc \in {"parse", "receive", "closed", "1002", "1007"}

\* m_fragments always holds the beginning of one data message: a first frame
\* that names the type, then continuations, none of them final.  reassemble
\* relies on it: its three errors cannot occur.
FragmentsWellFormed ==
  /\ fragments # << >> => fragments[1].type \in {"Text", "Binary"}
  /\ \A i \in 1 .. Len(fragments) : ~ fragments[i].final
  /\ \A i \in 2 .. Len(fragments) : fragments[i].type = "Fragment"

\* The reader never loses its place in the stream: when it waits and every
\* byte sent has arrived, no byte is left over in its buffer.
NoBytesStranded == pc = "receive" /\ net = << >> => rbuf = << >>

\* validate reads two payload bytes of every Close that has a payload: none
\* with a single byte gets past the header checks.
CloseCodeReadable ==
  pc = "parse" /\ HasFrame(rbuf) /\ FrontMessage(rbuf).type = "Close" =>
    Len(FrontMessage(rbuf).data) # 1

\* The message stream, as the reader's variables show it.
Stream ==
  INSTANCE MessageStream
    WITH CloseCodes <- VALID_CLOSE_CODES \cup 3000 .. 4999,
         verdict <- CASE pc \in {"parse", "receive"} -> "open"
                      [] pc = "closed" -> "closed"
                      [] OTHER -> pc

\* The reader implements the message stream, for every way of cutting the
\* stream into reads: recv hands over what the frames sent say, and fails
\* where, and with the code, the first offending frame says.
ReaderImplementsStream == Stream!Spec

\* Every message that was sent in full is handed over in the end, and every
\* offence found, whatever else has arrived or is still to come.
ReaderDelivers == Stream!Delivery

==============================================================================
