-------------------------- MODULE FrameReaderProofs --------------------------
(***************************************************************************)
(* Proofs about the frame reader, for every set of frames, well-formed or  *)
(* not, and every way of cutting their bytes into reads.                   *)
(***************************************************************************)
EXTENDS FrameReader, FiniteSetTheorems, StreamLemmas

\* The inductive invariant.  TypeOK alone is not inductive: the type of a
\* reassembled message is that of the first fragment.
IInv ==
  /\ TypeOK
  /\ FragmentsWellFormed
  /\ IsSequence(fragments)
  /\ IsSequence(out)

-----------------------------------------------------------------------------
(* Sequences *)

\* A part of a byte string is a byte string.
LEMMA SliceOfOctets ==
  ASSUME NEW s \in Seq(Octets), NEW m \in Nat \ {0}, NEW n \in 0 .. Len(s)
  PROVE  SubSeq(s, m, n) \in Seq(Octets)
<1>1. \A i \in m .. n : s[i] \in Octets
  OBVIOUS
<1>2. m \in Int /\ n \in Int
  OBVIOUS
<1>3. QED
  BY <1>1, <1>2, SubSeqProperties

-----------------------------------------------------------------------------
(* The wire format *)

LEMMA FlagByte ==
  ASSUME NEW x \in {0, 128}, NEW y \in 0 .. 7, NEW z \in 0 .. 15
  PROVE  x + y * 16 + z \in Octets
  BY DEF Octets

LEMMA LengthByte ==
  ASSUME NEW x \in {0, 128}, NEW y \in 0 .. 127
  PROVE  x + y \in Octets
  BY DEF Octets

LEMMA HighAndLow ==
  ASSUME NEW x \in Nat, x < 65536
  PROVE  x \div 256 \in Octets /\ x % 256 \in Octets
  BY DEF Octets

\* The low bytes of a length.
Byte0(n) == n % 256

Byte1(n) == (n \div 256) % 256

Byte2(n) == (n \div 65536) % 256

Byte3(n) == (n \div 65536) \div 256

LEMMA FourBytes ==
  ASSUME NEW x \in Nat, x <= MAX_BUFFER_SIZE
  PROVE  Byte3(x) \in Octets /\ Byte2(x) \in Octets /\ Byte1(x) \in Octets /\ Byte0(x) \in Octets
  BY SMT DEF Octets, MAX_BUFFER_SIZE, Byte0, Byte1, Byte2, Byte3

LEMMA LowBits ==
  ASSUME NEW x \in Octets
  PROVE  x % 128 \in 0 .. 127
  BY DEF Octets

LEMMA Horner ==
  ASSUME NEW x \in Octets, NEW y \in Octets
  PROVE  x * 256 + y \in Nat
  BY DEF Octets

LEMMA LowValue ==
  ASSUME NEW form \in {7, 16, 64}, NEW n \in Nat, form = 7 => n <= 125
  PROVE  (CASE form = 7 -> n [] form = 16 -> 126 [] form = 64 -> 127) \in 0 .. 127
  OBVIOUS

\* What a server puts on the wire is bytes.
LEMMA EncodeIsOctets ==
  ASSUME NEW f \in Frame
  PROVE  Encode(f) \in Seq(Octets)
<1> DEFINE flag(set, value) == IF set THEN value ELSE 0
           len == Len(f.data)
           form == f.form
           low == CASE form = 7 -> len [] form = 16 -> 126 [] form = 64 -> 127
           b1 == flag(f.fin, 128) + f.rsv * 16 + f.opcode
           b2 == flag(f.masked, 128) + low
           ext == CASE form = 7  -> << >>
                    [] form = 16 -> <<len \div 256, len % 256>>
                    [] form = 64 -> <<0, 0, 0, 0, Byte3(len), Byte2(len), Byte1(len), Byte0(len)>>
           key == IF f.masked THEN <<1, 2, 3, 4>> ELSE << >>
<1>1. f.rsv \in 0 .. 7 /\ f.opcode \in 0 .. 15 /\ f.data \in Seq(Octets)
  BY FrameAssumption DEF Octets
<1>2. form \in {7, 16, 64}
  BY FrameAssumption
<1>3. /\ len <= MAX_BUFFER_SIZE
      /\ (form = 7 => len <= 125) /\ (form = 16 => len < 65536)
  BY FrameAssumption
<1>4. len \in Nat
  BY <1>1, LenProperties
<1>5. Encode(f) = <<b1, b2>> \o ext \o key \o f.data
  BY DEF Encode, Byte0, Byte1, Byte2, Byte3
<1>6. flag(f.fin, 128) \in {0, 128} /\ flag(f.masked, 128) \in {0, 128}
  OBVIOUS
<1>7. b1 \in Octets /\ b2 \in Octets
  <2> DEFINE x1 == flag(f.fin, 128)  x2 == flag(f.masked, 128)
             r == f.rsv  o == f.opcode
  <2>1. x1 \in {0, 128} /\ x2 \in {0, 128}
    BY <1>6
  <2>2. r \in 0 .. 7 /\ o \in 0 .. 15
    BY <1>1
  <2>3. x1 + r * 16 + o \in Octets
    <3> HIDE DEF x1, r, o
    <3>1. QED
      BY <2>1, <2>2, FlagByte
  <2>4. low \in 0 .. 127
    <3> HIDE DEF len, form
    <3>1. QED
      BY <1>2, <1>3, <1>4, LowValue
  <2>5. x2 + low \in Octets
    <3> HIDE DEF x2, low
    <3>1. QED
      BY <2>1, <2>4, LengthByte
  <2>6. QED
    BY <2>3, <2>5
<1>8. ext \in Seq(Octets)
  <2>1. 0 \in Octets
    BY DEF Octets
  <2> DEFINE h1 == Byte3(len)  h2 == Byte2(len)  h3 == Byte1(len)  h4 == Byte0(len)
             hi == len \div 256  lo == len % 256
  <2>2. h1 \in Octets /\ h2 \in Octets /\ h3 \in Octets /\ h4 \in Octets
    <3> HIDE DEF len
    <3>1. QED
      BY <1>3, <1>4, FourBytes
  <2>3. form = 16 => hi \in Octets /\ lo \in Octets
    <3> HIDE DEF len, form
    <3>1. QED
      BY <1>3, <1>4, HighAndLow
  <2> HIDE DEF h1, h2, h3, h4, hi, lo, len, form
  <2>4. CASE form = 7
    BY <2>4
  <2>5. CASE form = 16
    <3>1. <<hi, lo>> \in Seq(Octets)
      BY <2>3, <2>5
    <3> QED BY <2>5, <3>1 DEF hi, lo
  <2>6. CASE form = 64
    <3>1. <<0, 0, 0, 0, h1, h2, h3, h4>> \in Seq(Octets)
      BY <2>1, <2>2
    <3> QED BY <2>6, <3>1 DEF h1, h2, h3, h4
  <2>7. QED
    BY <1>2, <2>4, <2>5, <2>6
<1>9. key \in Seq(Octets)
  <2>1. 1 \in Octets /\ 2 \in Octets /\ 3 \in Octets /\ 4 \in Octets
    BY DEF Octets
  <2>2. QED
    BY <2>1
<1> HIDE DEF b1, b2, ext, key
<1>10. <<b1, b2>> \in Seq(Octets)
  BY <1>7
<1>11. <<b1, b2>> \o ext \in Seq(Octets)
  BY <1>8, <1>10, ConcatProperties
<1>12. <<b1, b2>> \o ext \o key \in Seq(Octets)
  BY <1>9, <1>11, ConcatProperties
<1>13. f.data \in Seq(Octets)
  BY <1>1
<1>14. QED
  BY <1>5, <1>12, <1>13, ConcatProperties

\* The numbers an extended length is put together from.
LEMMA BigEndian16Nat ==
  ASSUME NEW b \in Seq(Octets), NEW i \in Nat, 1 <= i, i + 1 <= Len(b)
  PROVE  BigEndian16(b, i) \in Nat
<1>1. b[i] \in Octets /\ b[i + 1] \in Octets
  OBVIOUS
<1>2. QED
  BY <1>1, Horner DEF BigEndian16

LEMMA BigEndian64Nat ==
  ASSUME NEW b \in Seq(Octets), Len(b) >= 10
  PROVE  BigEndian64(b, 3) \in Nat
<1>1. Len(b) \in Nat
  OBVIOUS
<1>2. /\ BigEndian16(b, 3) \in Nat /\ BigEndian16(b, 5) \in Nat
      /\ BigEndian16(b, 7) \in Nat /\ BigEndian16(b, 9) \in Nat
  BY <1>1, BigEndian16Nat
<1>3. BigEndian32(b, 3) \in Nat /\ BigEndian32(b, 7) \in Nat
  <2>1. 3 + 2 = 5 /\ 7 + 2 = 9
    OBVIOUS
  <2>2. QED
    BY <1>2, <2>1 DEF BigEndian32
<1>4. QED
  <2>1. 3 + 4 = 7
    OBVIOUS
  <2>2. QED
    BY <1>3, <2>1 DEF BigEndian64

\* The lengths read from the front of the buffer are naturals, and a frame
\* that is there lies inside the buffer.
LEMMA FrameInBuffer ==
  ASSUME NEW b \in Seq(Octets), HasFrame(b)
  PROVE  /\ Len(b) \in Nat
         /\ HeaderLen(b) \in Nat /\ PayloadLen(b) \in Nat
         /\ FrameLen(b) \in Nat /\ FrameLen(b) <= Len(b)
         /\ ~ BadHeader(b)
         /\ ShortLen(b) \in 0 .. 127
<1>1. Len(b) \in Nat
  OBVIOUS
<1>2. ~ Malformed(b) /\ ~ (Len(b) < BytesNeeded(b))
  BY DEF HasFrame, NeedsMore
<1>3. Len(b) >= 2
  BY <1>1, <1>2 DEF BytesNeeded
<1>4. b[2] \in Octets
  BY <1>1, <1>3
<1>5. ShortLen(b) \in 0 .. 127
  BY <1>4, LowBits DEF ShortLen
<1>6. HeaderLen(b) \in {2, 4, 10}
  BY DEF HeaderLen
<1>7. Len(b) >= HeaderLen(b)
  BY <1>1, <1>2, <1>3, <1>6 DEF BytesNeeded
<1>8. PayloadLen(b) \in Nat
  <2>1. CASE ShortLen(b) = 126
    <3>1. Len(b) >= 4
      BY <1>7, <2>1 DEF HeaderLen
    <3>2. BigEndian16(b, 3) \in Nat
      BY <1>1, <3>1, BigEndian16Nat
    <3>3. QED
      BY <2>1, <3>2 DEF PayloadLen
  <2>2. CASE ShortLen(b) = 127
    <3>1. Len(b) >= 10
      BY <1>7, <2>2 DEF HeaderLen
    <3>2. BigEndian64(b, 3) \in Nat
      BY <3>1, BigEndian64Nat
    <3>3. QED
      BY <2>2, <3>2 DEF PayloadLen
  <2>3. CASE ShortLen(b) # 126 /\ ShortLen(b) # 127
    <3>1. PayloadLen(b) = ShortLen(b)
      BY <2>3 DEF PayloadLen
    <3> DEFINE k == ShortLen(b)
    <3>2. k \in 0 .. 127
      BY <1>5
    <3>3. k \in Nat
      <4> HIDE DEF k
      <4>1. QED
        BY <3>2
    <3>4. QED
      BY <3>1, <3>3
  <2>4. QED
    BY <2>1, <2>2, <2>3
<1>9. FrameLen(b) \in Nat /\ BytesNeeded(b) = FrameLen(b)
  BY <1>1, <1>3, <1>6, <1>7, <1>8 DEF BytesNeeded, FrameLen
<1>10. ~ BadHeader(b)
  BY <1>2, <1>3 DEF Malformed
<1>11. QED
  BY <1>1, <1>2, <1>5, <1>6, <1>8, <1>9, <1>10

\* A message that leaves the buffer has one of the six types, and a final
\* flag; what is left in the buffer is bytes.
LEMMA FrontMessageFields ==
  ASSUME NEW b \in Seq(Octets), HasFrame(b)
  PROVE  /\ FrontMessage(b).type \in Type
         /\ FrontMessage(b).final \in BOOLEAN
         /\ Rest(b) \in Seq(Octets)
<1>1. FrameLen(b) \in Nat /\ ~ BadHeader(b) /\ Len(b) \in Nat
  BY FrameInBuffer
<1>2. Opcode(b) \in Opcodes
  BY <1>1 DEF BadHeader
<1>3. TypeOfOpcode[Opcode(b)] \in Type
  BY <1>2 DEF TypeOfOpcode, Opcodes, Type
<1>4. Rest(b) \in Seq(Octets)
  BY <1>1, SliceOfOctets DEF Rest
<1>5. QED
  BY <1>3, <1>4 DEF FrontMessage, Fin

\* validate may read two payload bytes of every nonempty Close.
LEMMA CloseHasCode ==
  ASSUME NEW b \in Seq(Octets), HasFrame(b), FrontMessage(b).type = "Close"
  PROVE  Len(FrontMessage(b).data) # 1
<1>1. /\ FrameLen(b) \in Nat /\ FrameLen(b) <= Len(b) /\ Len(b) \in Nat
      /\ ~ BadHeader(b) /\ ShortLen(b) \in 0 .. 127
  BY FrameInBuffer
<1>2. Opcode(b) \in Opcodes /\ TypeOfOpcode[Opcode(b)] = "Close"
  BY <1>1 DEF BadHeader, FrontMessage
<1>3. Opcode(b) = 8
  BY <1>2 DEF TypeOfOpcode, Opcodes
<1>4. ShortLen(b) <= 125 /\ ShortLen(b) # 1
  <2>1. ~ (Opcode(b) >= 8 /\ (ShortLen(b) > 125 \/ ~ Fin(b)))
        /\ ~ (Opcode(b) = 8 /\ ShortLen(b) = 1)
    BY <1>1 DEF BadHeader
  <2>2. ~ (ShortLen(b) > 125) /\ ShortLen(b) # 1
    BY <1>3, <2>1
  <2> DEFINE k == ShortLen(b)
  <2>3. k \in 0 .. 127 /\ ~ (k > 125) /\ k # 1
    BY <1>1, <2>2
  <2>4. k <= 125 /\ k # 1
    <3> HIDE DEF k
    <3>1. QED
      BY <2>3
  <2>5. QED
    BY <2>4
<1>5. HeaderLen(b) = 2 /\ PayloadLen(b) = ShortLen(b)
  BY <1>1, <1>4 DEF HeaderLen, PayloadLen
<1>6. FrameLen(b) = 2 + ShortLen(b)
  BY <1>5 DEF FrameLen
<1>7. \A i \in 3 .. 2 + ShortLen(b) : b[i] \in Octets
  BY <1>1, <1>6
<1>8. Len(SubSeq(b, 3, 2 + ShortLen(b))) = ShortLen(b)
  <2> DEFINE k == ShortLen(b)
             n == 2 + k
  <2>1. k \in 0 .. 127
    BY <1>1
  <2>2. \A i \in 3 .. n : b[i] \in Octets
    BY <1>7
  <2> HIDE DEF k
  <2>3. n \in Int
    BY <2>1
  <2>4. Len(SubSeq(b, 3, n)) = IF 3 <= n THEN n - 3 + 1 ELSE 0
    BY <2>2, <2>3, SubSeqProperties
  <2>5. Len(SubSeq(b, 3, n)) = k
    BY <2>1, <2>4
  <2>6. QED
    BY <2>5 DEF k
<1>9. FrontMessage(b).data = SubSeq(b, 3, 2 + ShortLen(b))
  <2>1. FrontMessage(b).data = SubSeq(b, HeaderLen(b) + 1, FrameLen(b))
    BY DEF FrontMessage
  <2>2. HeaderLen(b) + 1 = 3
    BY <1>5
  <2>3. QED
    BY <1>6, <2>1, <2>2
<1>10. QED
  BY <1>4, <1>8, <1>9

\* Only data frames may be cut into fragments.
LEMMA NonFinalIsData ==
  ASSUME NEW b \in Seq(Octets), HasFrame(b), ~ FrontMessage(b).final
  PROVE  FrontMessage(b).type \in {"Text", "Binary", "Fragment"}
<1>1. ~ BadHeader(b)
  BY FrameInBuffer
<1>2. Opcode(b) \in Opcodes /\ ~ Fin(b)
  BY <1>1 DEF BadHeader, FrontMessage
<1>3. ~ (Opcode(b) >= 8)
  BY <1>1, <1>2 DEF BadHeader
<1>4. Opcode(b) \in {0, 1, 2}
  BY <1>2, <1>3 DEF Opcodes
<1>5. FrontMessage(b).type = TypeOfOpcode[Opcode(b)]
  BY DEF FrontMessage
<1>6. QED
  BY <1>4, <1>5 DEF TypeOfOpcode, Opcodes

-----------------------------------------------------------------------------
(* The steps *)

\* A well-formed run of fragments passes all of reassemble's own checks when
\* its last continuation arrives.
LEMMA FragmentsFit ==
  ASSUME IsSequence(fragments), FragmentsWellFormed, fragments # << >>,
         NEW msg, msg.type = "Fragment"
  PROVE  /\ ~ FragmentsUnfit(Append(fragments, msg))
         /\ Append(fragments, msg)[1] = fragments[1]
<1>1. /\ IsSequence(Append(fragments, msg))
      /\ Len(fragments) \in Nat
      /\ Len(Append(fragments, msg)) = Len(fragments) + 1
      /\ \A i \in 1 .. Len(fragments) : Append(fragments, msg)[i] = fragments[i]
      /\ Append(fragments, msg)[Len(fragments) + 1] = msg
  BY AppendAny
<1>2. Len(fragments) # 0
  BY DEF IsSequence
<1> DEFINE frags == Append(fragments, msg)
           n == Len(fragments)
<1> HIDE DEF frags, n
<1>3. n \in Nat /\ n # 0 /\ Len(frags) = n + 1
      /\ (\A i \in 1 .. n : frags[i] = fragments[i]) /\ frags[n + 1] = msg
  BY <1>1, <1>2 DEF frags, n
<1>4. frags[1] = fragments[1] /\ frags[1].type \in {"Text", "Binary"}
  BY <1>3 DEF FragmentsWellFormed
<1>5. ASSUME NEW i \in 2 .. n + 1
      PROVE  frags[i].type = "Fragment"
  <2>1. CASE i = n + 1
    BY <1>3, <2>1
  <2>2. CASE i # n + 1
    <3>1. i \in 1 .. n /\ i \in 2 .. n
      BY <1>3, <2>2
    <3>2. QED
      BY <1>3, <3>1 DEF FragmentsWellFormed, n
  <2>3. QED
    BY <2>1, <2>2
<1>6. frags # << >>
  BY <1>3
<1>7. QED
  BY <1>3, <1>4, <1>5, <1>6 DEF FragmentsUnfit, frags

\* Returning a complete message keeps the messages already returned.
LEMMA ReturnOK ==
  ASSUME TypeOK, IsSequence(out),
         NEW msg, msg.type \in Type \ {"Fragment"}, msg.final = TRUE,
         Return(msg)
  PROVE  /\ IsSequence(out')
         /\ \A i \in 1 .. Len(out') :
              out'[i].type \in Type \ {"Fragment"} /\ out'[i].final
         /\ pc' \in {"parse", "receive", "closed", "1002", "1007"}
<1>1. CASE Validate(msg) = "ok"
  <2>1. out' = Append(out, msg)
        /\ pc' \in {"parse", "receive", "closed", "1002", "1007"}
    BY <1>1 DEF Return
  <2>2. /\ IsSequence(Append(out, msg)) /\ Len(out) \in Nat
        /\ Len(Append(out, msg)) = Len(out) + 1
        /\ \A i \in 1 .. Len(out) : Append(out, msg)[i] = out[i]
        /\ Append(out, msg)[Len(out) + 1] = msg
    BY AppendAny
  <2> DEFINE n == Len(out)  o == out'
  <2>3. n \in Nat /\ Len(o) = n + 1 /\ o[n + 1] = msg
        /\ \A i \in 1 .. n : o[i] = out[i]
    BY <2>1, <2>2
  <2> HIDE DEF n, o
  <2>4. ASSUME NEW i \in 1 .. n + 1
        PROVE  o[i].type \in Type \ {"Fragment"} /\ o[i].final
    <3>1. CASE i = n + 1
      BY <2>3, <3>1
    <3>2. CASE i # n + 1
      <4>1. i \in 1 .. n
        BY <2>3, <3>2
      <4>2. QED
        BY <2>3, <4>1 DEF TypeOK, n
    <3>3. QED
      BY <3>1, <3>2
  <2>5. QED
    BY <2>1, <2>2, <2>3, <2>4 DEF o
<1>2. CASE Validate(msg) # "ok"
  BY <1>2 DEF Return, Fail, CodeForError, TypeOK
<1>3. QED
  BY <1>1, <1>2

\* One step per action; the network's steps leave the fragments alone.
LEMMA StepKeeps ==
  ASSUME IInv, [Next]_vars
  PROVE  IInv'
<1> USE DEF IInv
<1>1. rbuf \in Seq(Octets) /\ net \in Seq(Octets) /\ sent \in Seq(Frame)
      /\ Len(net) \in Nat
  BY DEF TypeOK, Octets
<1>2. ASSUME NEW f \in Frame, ServerSend(f)
      PROVE  IInv'
  <2>1. net' \in Seq(0 .. 255)
    <3>1. Encode(f) \in Seq(Octets)
      BY EncodeIsOctets
    <3>2. net \o Encode(f) \in Seq(Octets)
      BY <1>1, <3>1, ConcatProperties
    <3>3. QED
      BY <1>2, <3>2 DEF ServerSend, Octets
  <2>2. sent' \in Seq(Frame)
    BY <1>1, <1>2, AppendProperties DEF ServerSend
  <2>3. QED
    BY <1>2, <2>1, <2>2 DEF ServerSend, TypeOK, FragmentsWellFormed, IsSequence
<1>3. ASSUME NEW n \in 1 .. Len(net), Receive(n)
      PROVE  IInv'
  <2>1. SubSeq(net, 1, n) \in Seq(Octets)
    BY <1>1, SliceOfOctets
  <2>2. SubSeq(net, n + 1, Len(net)) \in Seq(Octets)
    BY <1>1, SliceOfOctets
  <2>3. rbuf \o SubSeq(net, 1, n) \in Seq(Octets)
    BY <1>1, <2>1, ConcatProperties
  <2>4. rbuf' \in Seq(0 .. 255) /\ net' \in Seq(0 .. 255)
    BY <1>3, <2>2, <2>3 DEF Receive, Octets
  <2>5. QED
    BY <1>3, <2>4 DEF Receive, TypeOK, FragmentsWellFormed, IsSequence
<1>4. CASE ReadMore
  BY <1>4 DEF ReadMore, TypeOK, FragmentsWellFormed, IsSequence
<1>5. CASE RejectFrame
  BY <1>5 DEF RejectFrame, Fail, CodeForError, TypeOK, FragmentsWellFormed,
              IsSequence
<1> DEFINE msg == FrontMessage(rbuf)
<1>6. ASSUME TakeFrame
      PROVE  /\ msg.type \in Type /\ msg.final \in BOOLEAN
             /\ rbuf' \in Seq(0 .. 255)
             /\ sent' \in Seq(Frame) /\ net' \in Seq(0 .. 255)
  <2>1. HasFrame(rbuf) /\ rbuf' = Rest(rbuf) /\ UNCHANGED <<sent, net>>
    BY <1>6 DEF TakeFrame
  <2>2. Rest(rbuf) \in Seq(Octets) /\ msg.type \in Type /\ msg.final \in BOOLEAN
    BY <1>1, <2>1, FrontMessageFields
  <2>3. QED
    BY <1>1, <2>1, <2>2 DEF Octets
<1> HIDE DEF msg
<1>7. CASE RejectInterruption
  BY <1>6, <1>7 DEF RejectInterruption, Fail, CodeForError, TypeOK,
                    FragmentsWellFormed, IsSequence
<1>8. CASE ReturnWhole
  <2>1. /\ TakeFrame /\ msg.final /\ msg.type # "Fragment"
        /\ Return(msg) /\ UNCHANGED fragments
    BY <1>8 DEF ReturnWhole, msg
  <2>2. msg.type \in Type \ {"Fragment"} /\ msg.final = TRUE
    BY <1>6, <2>1
  <2>3. /\ IsSequence(out')
        /\ \A i \in 1 .. Len(out') :
             out'[i].type \in Type \ {"Fragment"} /\ out'[i].final
        /\ pc' \in {"parse", "receive", "closed", "1002", "1007"}
    BY <2>1, <2>2, ReturnOK
  <2>4. QED
    BY <1>6, <2>1, <2>3 DEF TypeOK, FragmentsWellFormed, IsSequence
<1>9. CASE ReturnReassembled
  <2> DEFINE frags == Append(fragments, msg)
  <2>1. /\ TakeFrame /\ msg.type = "Fragment" /\ fragments # << >>
        /\ IF FragmentsUnfit(frags)
           THEN Fail("unfit fragments") /\ fragments' = frags /\ UNCHANGED out
           ELSE fragments' = << >> /\ Return(Reassembled(frags))
    BY <1>9 DEF ReturnReassembled, msg
  <2>2. ~ FragmentsUnfit(frags) /\ frags[1] = fragments[1]
    BY <2>1, FragmentsFit
  <2>3. fragments' = << >> /\ Return(Reassembled(frags))
    BY <2>1, <2>2
  <2>4. Reassembled(frags).type \in Type \ {"Fragment"}
        /\ Reassembled(frags).final = TRUE
    BY <2>1, <2>2 DEF Reassembled, FragmentsWellFormed, Type
  <2>5. /\ IsSequence(out')
        /\ \A i \in 1 .. Len(out') :
             out'[i].type \in Type \ {"Fragment"} /\ out'[i].final
        /\ pc' \in {"parse", "receive", "closed", "1002", "1007"}
    BY <2>3, <2>4, ReturnOK
  <2>6. FragmentsWellFormed' /\ IsSequence(fragments)'
    BY <2>3, EmptySeq DEF FragmentsWellFormed, IsSequence
  <2>7. QED
    BY <1>6, <2>1, <2>5, <2>6 DEF TypeOK
<1>10. CASE RejectStrayFragment
  BY <1>6, <1>10 DEF RejectStrayFragment, Fail, CodeForError, TypeOK,
                     FragmentsWellFormed, IsSequence
<1>11. CASE KeepFragment
  <2>1. /\ TakeFrame /\ ~ Interrupts(msg) /\ ~ StrayFragment(msg)
        /\ ~ msg.final /\ fragments' = Append(fragments, msg)
        /\ UNCHANGED <<out, pc>>
    BY <1>11 DEF KeepFragment, msg
  <2> DEFINE n == Len(fragments)  frags == fragments'
  <2>2. /\ IsSequence(frags) /\ n \in Nat /\ Len(frags) = n + 1
        /\ \A i \in 1 .. n : frags[i] = fragments[i]
        /\ frags[n + 1] = msg
    BY <2>1, AppendAny
  <2>3. n = 0 <=> fragments = << >>
    BY DEF IsSequence
  <2>4. msg.type \in {"Text", "Binary", "Fragment"}
    <3>1. HasFrame(rbuf)
      BY <2>1 DEF TakeFrame
    <3>2. QED
      BY <1>1, <2>1, <3>1, NonFinalIsData DEF msg
  <2> HIDE DEF n, frags
  <2>5. frags[1].type \in {"Text", "Binary"}
    <3>1. CASE n = 0
      <4>1. msg.type # "Fragment"
        BY <2>1, <2>3, <3>1 DEF StrayFragment
      <4>2. QED
        BY <2>2, <2>4, <3>1, <4>1
    <3>2. CASE n # 0
      BY <2>2, <2>3, <3>2 DEF FragmentsWellFormed
    <3>3. QED
      BY <3>1, <3>2
  <2>6. ASSUME NEW i \in 1 .. n + 1
        PROVE  ~ frags[i].final
    <3>1. CASE i = n + 1
      BY <2>1, <2>2, <3>1
    <3>2. CASE i # n + 1
      <4>1. i \in 1 .. n
        BY <2>2, <3>2
      <4>2. QED
        BY <2>2, <4>1 DEF FragmentsWellFormed, n
    <3>3. QED
      BY <3>1, <3>2
  <2>7. ASSUME NEW i \in 2 .. n + 1
        PROVE  frags[i].type = "Fragment"
    <3>1. CASE i = n + 1
      <4>1. n # 0
        BY <2>2, <3>1
      <4>2. msg.type = "Fragment"
        BY <2>1, <2>3, <2>4, <4>1 DEF Interrupts, IsControl
      <4>3. QED
        BY <2>2, <3>1, <4>2
    <3>2. CASE i # n + 1
      <4>1. i \in 1 .. n /\ i \in 2 .. n
        BY <2>2, <3>2
      <4>2. QED
        BY <2>2, <4>1 DEF FragmentsWellFormed, n
    <3>3. QED
      BY <3>1, <3>2
  <2>8. FragmentsWellFormed' /\ IsSequence(fragments)'
    BY <2>2, <2>5, <2>6, <2>7 DEF FragmentsWellFormed, frags
  <2>9. QED
    BY <1>6, <2>1, <2>8 DEF TypeOK, IsSequence
<1>12. CASE UNCHANGED vars
  BY <1>12 DEF vars, TypeOK, FragmentsWellFormed, IsSequence
<1>13. QED
  BY <1>2, <1>3, <1>4, <1>5, <1>7, <1>8, <1>9, <1>10, <1>11, <1>12
     DEF Next, Parse, ReceiveSome

-----------------------------------------------------------------------------
(* Where a frame ends *)

\* The bytes of a frame before its mask and its data.
HeaderOf(f) == CASE f.form = 7 -> 2 [] f.form = 16 -> 4 [] f.form = 64 -> 10

KeyOf(f) == IF f.masked THEN 4 ELSE 0

LowOf(f) == CASE f.form = 7 -> Len(f.data) [] f.form = 16 -> 126 [] f.form = 64 -> 127

LEMMA LengthField ==
  ASSUME NEW f \in Frame
  PROVE  /\ Len(f.data) \in Nat /\ f.form \in {7, 16, 64}
         /\ LowOf(f) \in 0 .. 127
         /\ f.form = 7 => LowOf(f) = Len(f.data) /\ LowOf(f) \notin {126, 127}
<1> DEFINE len == Len(f.data)  form == f.form
<1>1. /\ f.data \in Seq(0 .. 255) /\ form \in {7, 16, 64}
      /\ form = 7 => len <= 125
  BY FrameAssumption
<1>2. len \in Nat
  BY <1>1, LenProperties
<1>3. LowOf(f) = CASE form = 7 -> len [] form = 16 -> 126 [] form = 64 -> 127
  BY DEF LowOf
<1> HIDE DEF len, form
<1>4. LowOf(f) \in 0 .. 127
  BY <1>1, <1>2, <1>3, LowValue
<1>5. form = 7 => LowOf(f) = len /\ LowOf(f) \notin {126, 127}
  BY <1>1, <1>2, <1>3
<1> QED BY <1>1, <1>2, <1>4, <1>5 DEF len, form

\* What the bytes of a frame hold.
LEMMA EncodeShape ==
  ASSUME NEW f \in Frame
  PROVE  /\ Len(Encode(f)) = HeaderOf(f) + KeyOf(f) + Len(f.data)
         /\ Encode(f)[1] = (IF f.fin THEN 128 ELSE 0) + f.rsv * 16 + f.opcode
         /\ Encode(f)[2] = (IF f.masked THEN 128 ELSE 0) + LowOf(f)
         /\ \A i \in 1 .. Len(f.data) :
              Encode(f)[(HeaderOf(f) + KeyOf(f)) + i] = f.data[i]
         /\ f.form = 16 => /\ Encode(f)[3] = Len(f.data) \div 256
                           /\ Encode(f)[4] = Len(f.data) % 256
         /\ f.form = 64 => /\ \A i \in 3 .. 6 : Encode(f)[i] = 0
                           /\ Encode(f)[7] = Byte3(Len(f.data)) /\ Encode(f)[8] = Byte2(Len(f.data))
                           /\ Encode(f)[9] = Byte1(Len(f.data)) /\ Encode(f)[10] = Byte0(Len(f.data))
<1> DEFINE len == Len(f.data)
           b1 == (IF f.fin THEN 128 ELSE 0) + f.rsv * 16 + f.opcode
           b2 == (IF f.masked THEN 128 ELSE 0) + LowOf(f)
           ext == CASE f.form = 7  -> << >>
                    [] f.form = 16 -> <<len \div 256, len % 256>>
                    [] f.form = 64 -> <<0, 0, 0, 0, Byte3(len), Byte2(len), Byte1(len), Byte0(len)>>
           key == IF f.masked THEN <<1, 2, 3, 4>> ELSE << >>
           head == <<b1, b2>> \o ext
           front == head \o key
<1>1. f.data \in Seq(Octets) /\ len \in Nat
  BY FrameAssumption DEF Octets
<1>2. f.form \in {7, 16, 64} /\ f.rsv \in 0 .. 7 /\ f.opcode \in 0 .. 15
  BY FrameAssumption
<1>3. Encode(f) = front \o f.data
  BY DEF Encode, LowOf, Byte0, Byte1, Byte2, Byte3
<1>4. /\ LowOf(f) \in Int /\ b1 \in Int /\ b2 \in Int /\ len \div 256 \in Int /\ len % 256 \in Int
      /\ Byte3(len) \in Int /\ Byte2(len) \in Int /\ Byte1(len) \in Int /\ Byte0(len) \in Int
  <2>1. LowOf(f) \in Int
    <3>1. LowOf(f) \in 0 .. 127
      BY LengthField
    <3> QED BY <3>1
  <2>3. (IF f.fin THEN 128 ELSE 0) \in Int /\ (IF f.masked THEN 128 ELSE 0) \in Int
    OBVIOUS
  <2> HIDE DEF len
  <2>2. /\ len \div 256 \in Int /\ len % 256 \in Int
        /\ Byte3(len) \in Int /\ Byte2(len) \in Int /\ Byte1(len) \in Int /\ Byte0(len) \in Int
    BY <1>1, SMT DEF Byte0, Byte1, Byte2, Byte3
  <2> DEFINE y == f.rsv  z == f.opcode  p == IF f.fin THEN 128 ELSE 0
             q == IF f.masked THEN 128 ELSE 0
  <2>4. y \in Int /\ z \in Int /\ p \in Int /\ q \in Int /\ b1 = p + y * 16 + z
        /\ b2 = q + LowOf(f)
    BY <1>2, <2>3
  <2> HIDE DEF y, z, p, q, b1, b2
  <2>5. b1 \in Int /\ b2 \in Int
    BY <2>1, <2>4
  <2> QED BY <2>1, <2>2, <2>5
<1>0. f.data \in Seq(Int)
  <2>1. Octets \subseteq Int
    BY DEF Octets
  <2>2. Seq(Octets) \subseteq Seq(Int)
    BY <2>1, SeqMonotonic, Zenon
  <2> QED BY <1>1, <2>2
<1> DEFINE h1 == Byte3(len)  h2 == Byte2(len)  h3 == Byte1(len)  h4 == Byte0(len)
           hi == len \div 256  lo == len % 256
<1> HIDE DEF b1, b2, h1, h2, h3, h4, hi, lo, len
<1>5. /\ ext \in Seq(Int) /\ Len(ext) = HeaderOf(f) - 2
      /\ f.form = 16 => ext[1] = hi /\ ext[2] = lo
      /\ f.form = 64 => /\ \A i \in 1 .. 4 : ext[i] = 0
                        /\ ext[5] = h1 /\ ext[6] = h2 /\ ext[7] = h3 /\ ext[8] = h4
  <2>1. hi \in Int /\ lo \in Int /\ h1 \in Int /\ h2 \in Int /\ h3 \in Int /\ h4 \in Int
    BY <1>4 DEF hi, lo, h1, h2, h3, h4
  <2>2. CASE f.form = 7
    BY <2>2 DEF HeaderOf
  <2>3. CASE f.form = 16
    BY <2>1, <2>3 DEF HeaderOf, hi, lo
  <2>4. CASE f.form = 64
    <3>1. ext = <<0, 0, 0, 0, h1, h2, h3, h4>>
      BY <2>4 DEF h1, h2, h3, h4
    <3> HIDE DEF ext
    <3> QED BY <2>1, <2>4, <3>1 DEF HeaderOf
  <2> QED BY <1>2, <2>2, <2>3, <2>4
<1>6. key \in Seq(Int) /\ Len(key) = KeyOf(f)
  BY DEF KeyOf
<1>7. HeaderOf(f) \in {2, 4, 10} /\ KeyOf(f) \in {0, 4}
  BY <1>2 DEF HeaderOf, KeyOf
<1>8. f.form = 16 => HeaderOf(f) = 4
  BY DEF HeaderOf
<1>9. f.form = 64 => HeaderOf(f) = 10
  BY DEF HeaderOf
<1> HIDE DEF ext, key
<1>10. /\ head \in Seq(Int) /\ Len(head) = HeaderOf(f)
       /\ head[1] = b1 /\ head[2] = b2 /\ \A i \in 1 .. Len(ext) : head[2 + i] = ext[i]
  <2>1. ext \in Seq(Int) /\ Len(ext) = HeaderOf(f) - 2 /\ HeaderOf(f) \in Nat
    BY <1>5, <1>7
  <2>2. b1 \in Int /\ b2 \in Int
    BY <1>4
  <2> QED BY <2>1, <2>2
<1> HIDE DEF head
<1>11. /\ front \in Seq(Int) /\ Len(front) = HeaderOf(f) + KeyOf(f)
       /\ \A i \in 1 .. HeaderOf(f) : front[i] = head[i]
  BY <1>6, <1>7, <1>10
<1> HIDE DEF front
<1>12. /\ Len(Encode(f)) = HeaderOf(f) + KeyOf(f) + len
       /\ \A i \in 1 .. HeaderOf(f) : Encode(f)[i] = head[i]
       /\ \A i \in 1 .. len : Encode(f)[(HeaderOf(f) + KeyOf(f)) + i] = f.data[i]
  <2>1. /\ Len(front \o f.data) = Len(front) + Len(f.data)
        /\ \A i \in 1 .. Len(front) : (front \o f.data)[i] = front[i]
        /\ \A i \in 1 .. Len(f.data) : (front \o f.data)[Len(front) + i] = f.data[i]
    <3> DEFINE data == f.data
    <3>1. data \in Seq(Int) /\ front \in Seq(Int)
      BY <1>0, <1>11
    <3> HIDE DEF data
    <3>2. /\ Len(front \o data) = Len(front) + Len(data)
          /\ \A i \in 1 .. Len(front) : (front \o data)[i] = front[i]
          /\ \A i \in 1 .. Len(data) : (front \o data)[Len(front) + i] = data[i]
      BY <3>1
    <3> QED BY <3>2 DEF data
  <2>2. \A i \in 1 .. HeaderOf(f) : i \in 1 .. Len(front)
    BY <1>7, <1>11
  <2> QED BY <1>3, <1>11, <2>1, <2>2 DEF len
<1>13. Encode(f)[1] = b1 /\ Encode(f)[2] = b2
  BY <1>7, <1>10, <1>12
<1>14. ASSUME f.form = 16
       PROVE  Encode(f)[3] = hi /\ Encode(f)[4] = lo
  <2>1. HeaderOf(f) = 4 /\ Len(ext) = 2
    BY <1>5, <1>8, <1>14
  <2>2. head[2 + 1] = ext[1] /\ head[2 + 2] = ext[2]
    BY <1>10, <2>1
  <2>3. Encode(f)[3] = head[3] /\ Encode(f)[4] = head[4]
    BY <1>12, <2>1
  <2> QED BY <1>5, <1>14, <2>2, <2>3
<1>15. ASSUME f.form = 64
       PROVE  /\ \A i \in 3 .. 6 : Encode(f)[i] = 0
              /\ Encode(f)[7] = h1 /\ Encode(f)[8] = h2 /\ Encode(f)[9] = h3 /\ Encode(f)[10] = h4
  <2>1. HeaderOf(f) = 10 /\ Len(ext) = 8
    BY <1>5, <1>9, <1>15
  <2>2. ASSUME NEW i \in 1 .. 8 PROVE Encode(f)[2 + i] = ext[i]
    <3>1. 2 + i \in 1 .. 10
      OBVIOUS
    <3>2. head[2 + i] = ext[i]
      BY <1>10, <2>1
    <3> QED BY <1>12, <2>1, <3>1, <3>2
  <2>3. ASSUME NEW i \in 3 .. 6 PROVE Encode(f)[i] = 0
    <3>1. i - 2 \in 1 .. 4 /\ i - 2 \in 1 .. 8 /\ i = 2 + (i - 2)
      OBVIOUS
    <3>2. Encode(f)[2 + (i - 2)] = ext[i - 2]
      BY <2>2, <3>1
    <3>3. ext[i - 2] = 0
      BY <1>5, <1>15, <3>1
    <3> QED BY <3>1, <3>2, <3>3
  <2>4. /\ Encode(f)[2 + 5] = ext[5] /\ Encode(f)[2 + 6] = ext[6]
        /\ Encode(f)[2 + 7] = ext[7] /\ Encode(f)[2 + 8] = ext[8]
    BY <2>2
  <2>5. 2 + 5 = 7 /\ 2 + 6 = 8 /\ 2 + 7 = 9 /\ 2 + 8 = 10
    OBVIOUS
  <2> QED BY <1>5, <1>15, <2>3, <2>4, <2>5
<1> QED
  BY <1>12, <1>13, <1>14, <1>15 DEF b1, b2, h1, h2, h3, h4, hi, lo, len

LEMMA SecondByte ==
  ASSUME NEW x \in {0, 128}, NEW y \in 0 .. 127
  PROVE  (x + y) % 128 = y /\ ((x + y) \div 128 = 1 <=> x = 128)
  OBVIOUS

LEMMA HighAndLowAdd ==
  ASSUME NEW x \in Nat
  PROVE  (x \div 256) * 256 + (x % 256) = x
  OBVIOUS

LEMMA FourBytesAdd ==
  ASSUME NEW x \in Nat
  PROVE  (Byte3(x) * 256 + Byte2(x)) * 65536 + (Byte1(x) * 256 + Byte0(x)) = x
<1> DEFINE u == x \div 256  v == x \div 65536  w == v \div 256
           a == Byte0(x)  b == Byte1(x)  c == Byte2(x)
<1>1. u \in Nat /\ v \in Nat /\ w \in Nat /\ a \in Nat /\ b \in Nat /\ c \in Nat
  BY SMT DEF Byte0, Byte1, Byte2
<1>2. u * 256 + a = x
  BY SMT DEF Byte0
<1>3. v * 256 + b = u
  BY SMT DEF Byte1
<1>4. w * 256 + c = v
  BY SMT DEF Byte2
<1>5. Byte3(x) = w
  BY DEF Byte3
<1> HIDE DEF u, v, w, a, b, c
<1>6. (w * 256 + c) * 65536 + (b * 256 + a) = x
  BY <1>1, <1>2, <1>3, <1>4, SMT
<1> QED BY <1>5, <1>6 DEF a, b, c

\* A buffer at the front of which a frame is sent: either all of the frame is
\* there and the reader sees its end where it is, or the reader rejects it,
\* or it wants more.
LEMMA FrontFrame ==
  ASSUME NEW f \in Frame, NEW b \in Seq(Octets),
         \A i \in 1 .. Len(b) : i <= Len(Encode(f)) => b[i] = Encode(f)[i]
  PROVE  /\ HasFrame(b) => FrameLen(b) = Len(Encode(f))
         /\ Len(b) >= Len(Encode(f)) => ~ NeedsMore(b)
         /\ Len(Encode(f)) \in Nat /\ Len(Encode(f)) >= 2
         /\ Len(b) >= 2 => /\ ShortLen(b) = LowOf(f) /\ (Masked(b) <=> f.masked)
                           /\ HeaderLen(b) = HeaderOf(f)
<1> DEFINE e == Encode(f)
           len == Len(f.data)
           x == IF f.masked THEN 128 ELSE 0
<1>1. len \in Nat /\ f.form \in {7, 16, 64} /\ (f.form = 7 => len <= 125)
  BY FrameAssumption
<1>2. /\ Len(e) = HeaderOf(f) + KeyOf(f) + len
      /\ e[2] = x + LowOf(f)
      /\ f.form = 16 => e[3] = len \div 256 /\ e[4] = len % 256
      /\ f.form = 64 => /\ \A i \in 3 .. 6 : e[i] = 0
                        /\ e[7] = Byte3(len) /\ e[8] = Byte2(len)
                        /\ e[9] = Byte1(len) /\ e[10] = Byte0(len)
  BY EncodeShape
<1>3. HeaderOf(f) \in {2, 4, 10} /\ KeyOf(f) \in {0, 4} /\ Len(b) \in Nat
  BY <1>1 DEF HeaderOf, KeyOf
<1>4. LowOf(f) \in 0 .. 127
  BY LengthField
<1> HIDE DEF e, len
<1>5. \A i \in 1 .. HeaderOf(f) : i <= Len(b) => b[i] = e[i]
  <2>1. HeaderOf(f) <= Len(e)
    BY <1>1, <1>2, <1>3
  <2>2. ASSUME NEW i \in 1 .. HeaderOf(f), i <= Len(b) PROVE b[i] = e[i]
    <3>1. i \in 1 .. Len(b) /\ i <= Len(e)
      BY <1>1, <1>2, <1>3, <2>1, <2>2
    <3> QED BY <3>1 DEF e
  <2> QED BY <2>2
<1>6. ASSUME Len(b) >= 2
      PROVE  /\ ShortLen(b) = LowOf(f) /\ (Masked(b) <=> f.masked)
             /\ HeaderLen(b) = HeaderOf(f)
  <2>1. b[2] = x + LowOf(f)
    BY <1>2, <1>3, <1>5, <1>6
  <2>2. x \in {0, 128} /\ (x = 128 <=> f.masked)
    OBVIOUS
  <2> HIDE DEF x
  <2>3. b[2] % 128 = LowOf(f) /\ (b[2] \div 128 = 1 <=> x = 128)
    <3>1. /\ (x + LowOf(f)) % 128 = LowOf(f)
          /\ ((x + LowOf(f)) \div 128 = 1 <=> x = 128)
      <4> DEFINE z == LowOf(f)
      <4>1. z \in 0 .. 127
        BY <1>4
      <4> HIDE DEF z
      <4>2. (x + z) % 128 = z /\ ((x + z) \div 128 = 1 <=> x = 128)
        BY <2>2, <4>1
      <4> QED BY <4>2 DEF z
    <3> QED BY <2>1, <3>1
  <2>4. HeaderLen(b) = HeaderOf(f)
    <3>1. ShortLen(b) = LowOf(f)
      BY <2>3 DEF ShortLen
    <3>2. CASE f.form = 7
      <4>1. LowOf(f) # 126 /\ LowOf(f) # 127
        BY <3>2, LengthField
      <4> QED BY <3>1, <3>2, <4>1 DEF HeaderLen, HeaderOf
    <3>3. CASE f.form = 16
      BY <3>1, <3>3 DEF HeaderLen, HeaderOf, LowOf
    <3>4. CASE f.form = 64
      BY <3>1, <3>4 DEF HeaderLen, HeaderOf, LowOf
    <3> QED BY <1>1, <3>2, <3>3, <3>4
  <2> QED BY <2>2, <2>3, <2>4 DEF ShortLen, Masked
<1>7. ASSUME Len(b) >= 2, Len(b) >= HeaderOf(f)
      PROVE  PayloadLen(b) = len
  <2>1. ShortLen(b) = LowOf(f)
    BY <1>6, <1>7
  <2>2. CASE f.form = 7
    <3>1. LowOf(f) = len /\ LowOf(f) # 126 /\ LowOf(f) # 127
      BY <2>2, LengthField DEF len
    <3> QED BY <2>1, <3>1 DEF PayloadLen
  <2>3. CASE f.form = 16
    <3>1. HeaderOf(f) = 4 /\ LowOf(f) = 126
      BY <2>3 DEF HeaderOf, LowOf
    <3>2. b[3] = len \div 256 /\ b[4] = len % 256
      BY <1>2, <1>5, <1>7, <2>3, <3>1
    <3>3. BigEndian16(b, 3) = len
      BY <1>1, <3>2, HighAndLowAdd DEF BigEndian16
    <3> QED BY <2>1, <3>1, <3>3 DEF PayloadLen
  <2>4. CASE f.form = 64
    <3>1. HeaderOf(f) = 10 /\ LowOf(f) = 127
      BY <2>4 DEF HeaderOf, LowOf
    <3>2. ASSUME NEW i \in 3 .. 10 PROVE b[i] = e[i]
      <4>1. i \in 1 .. HeaderOf(f) /\ i <= Len(b)
        BY <1>3, <1>7, <3>1
      <4> QED BY <1>5, <4>1
    <3>3. b[7] = Byte3(len) /\ b[8] = Byte2(len) /\ b[9] = Byte1(len) /\ b[10] = Byte0(len)
      <4>1. b[7] = e[7] /\ b[8] = e[8] /\ b[9] = e[9] /\ b[10] = e[10]
        BY <3>2
      <4> QED BY <1>2, <2>4, <4>1
    <3>4. b[3] = 0 /\ b[4] = 0 /\ b[5] = 0 /\ b[6] = 0
      <4>1. b[3] = e[3] /\ b[4] = e[4] /\ b[5] = e[5] /\ b[6] = e[6]
        BY <3>2
      <4>2. e[3] = 0 /\ e[4] = 0 /\ e[5] = 0 /\ e[6] = 0
        BY <1>2, <2>4
      <4> QED BY <4>1, <4>2
    <3>5. BigEndian32(b, 7) = len
      <4>1. 7 + 1 = 8 /\ 7 + 2 = 9 /\ 9 + 1 = 10
        OBVIOUS
      <4>2. BigEndian32(b, 7) = (b[7] * 256 + b[8]) * 65536 + (b[9] * 256 + b[10])
        BY <4>1 DEF BigEndian32, BigEndian16
      <4> QED BY <1>1, <3>3, <4>2, FourBytesAdd
    <3>6. BigEndian16(b, 3) = 0 /\ BigEndian16(b, 5) = 0
      BY <3>4 DEF BigEndian16
    <3>7. BigEndian32(b, 3) = 0
      <4>1. 3 + 2 = 5
        OBVIOUS
      <4> QED BY <3>6, <4>1 DEF BigEndian32
    <3>8. BigEndian64(b, 3) = len
      <4>1. 3 + 4 = 7
        OBVIOUS
      <4> QED BY <1>1, <3>5, <3>7, <4>1 DEF BigEndian64
    <3> QED BY <2>1, <3>1, <3>8 DEF PayloadLen
  <2> QED BY <1>1, <2>2, <2>3, <2>4
<1>8. ASSUME HasFrame(b) PROVE FrameLen(b) = Len(e)
  <2>1. ~ Malformed(b) /\ ~ (Len(b) < BytesNeeded(b))
    BY <1>8 DEF HasFrame, NeedsMore
  <2>2. Len(b) >= 2
    BY <1>3, <2>1 DEF BytesNeeded
  <2>3. HeaderLen(b) = HeaderOf(f) /\ Len(b) >= HeaderOf(f)
    BY <1>3, <1>6, <2>1, <2>2 DEF BytesNeeded
  <2>4. ~ f.masked
    BY <1>6, <2>1, <2>2, <2>3 DEF Malformed
  <2>5. KeyOf(f) = 0 /\ PayloadLen(b) = len
    BY <1>7, <2>2, <2>3, <2>4 DEF KeyOf
  <2> QED BY <1>1, <1>2, <1>3, <2>3, <2>5 DEF FrameLen
<1>9. ASSUME Len(b) >= Len(e) PROVE ~ NeedsMore(b)
  <2>1. Len(b) >= 2 /\ Len(b) >= HeaderOf(f)
    BY <1>1, <1>2, <1>3, <1>9
  <2>2. HeaderLen(b) = HeaderOf(f) /\ PayloadLen(b) = len
    BY <1>6, <1>7, <2>1
  <2>3. CASE f.masked
    BY <1>3, <1>6, <2>1, <2>2, <2>3 DEF NeedsMore, Malformed
  <2>4. CASE ~ f.masked
    <3>1. FrameLen(b) = Len(e)
      BY <1>1, <1>2, <1>3, <2>2, <2>4 DEF FrameLen, KeyOf
    <3>2. BytesNeeded(b) = Len(e)
      BY <1>3, <2>1, <2>2, <3>1 DEF BytesNeeded
    <3>3. Len(e) \in Nat
      BY <1>1, <1>2, <1>3
    <3> QED BY <1>3, <1>9, <3>2, <3>3 DEF NeedsMore
  <2> QED BY <2>3, <2>4
<1>10. Len(e) \in Nat /\ Len(e) >= 2
  BY <1>1, <1>2, <1>3
<1> QED BY <1>6, <1>8, <1>9, <1>10 DEF e

-----------------------------------------------------------------------------
(* Where the frames are in the stream *)

\* Where the frames of a sequence end in the stream of their bytes.
EndsAt(at, frames) ==
  /\ at \in [0 .. Len(frames) -> Nat]
  /\ at[0] = 0
  /\ \A i \in 1 .. Len(frames) : at[i] = at[i - 1] + Len(Encode(frames[i]))
  /\ \A i, j \in 0 .. Len(frames) : i <= j => at[i] <= at[j]

\* s is what is left of that stream when k frames have been taken from it.
LeftAfter(s, k, at, frames) ==
  /\ k \in 0 .. Len(frames)
  /\ Len(s) = at[Len(frames)] - at[k]
  /\ \A i \in k + 1 .. Len(frames) :
       \A j \in 1 .. Len(Encode(frames[i])) :
         s[(at[i - 1] - at[k]) + j] = Encode(frames[i])[j]

\* s is the bytes of all frames but the first k.
Standing(s, k, frames) == \E at : EndsAt(at, frames) /\ LeftAfter(s, k, at, frames)

Aligned(s, frames) == \E k : Standing(s, k, frames)

LEMMA PlaceInside ==
  ASSUME NEW a \in Nat, NEW b \in Nat, NEW c \in Nat, NEW l \in Nat, NEW j \in 1 .. l,
         b <= a, a + l <= c
  PROVE  (a - b) + j \in 1 .. c - b
  OBVIOUS

LEMMA PlaceMoves ==
  ASSUME NEW a \in Nat, NEW b \in Nat, NEW l \in Nat, NEW j \in Nat
  PROVE  l + ((a - (b + l)) + j) = (a - b) + j
  OBVIOUS

LEMMA SendKeepsStanding ==
  ASSUME NEW frames \in Seq(Frame), NEW s \in Seq(Octets),
         NEW k, Standing(s, k, frames), NEW f \in Frame
  PROVE  Standing(s \o Encode(f), k, Append(frames, f))
<1> DEFINE n == Len(frames)  e == Encode(f)  le == Len(e)  t == s \o e
           more == Append(frames, f)
<1>1. PICK at : EndsAt(at, frames) /\ LeftAfter(s, k, at, frames)
  BY DEF Standing
<1>2. /\ n \in Nat /\ more \in Seq(Frame) /\ Len(more) = n + 1
      /\ more[n + 1] = f /\ \A i \in 1 .. n : more[i] = frames[i]
  OBVIOUS
<1>3. e \in Seq(Octets) /\ le \in Nat
  BY EncodeIsOctets
<1>4. /\ t \in Seq(Octets) /\ Len(t) = Len(s) + le /\ Len(s) \in Nat
      /\ \A j \in 1 .. Len(s) : t[j] = s[j]
      /\ \A j \in 1 .. le : t[Len(s) + j] = e[j]
  <2> HIDE DEF e
  <2> QED BY <1>3
<1>5. /\ at \in [0 .. n -> Nat] /\ at[0] = 0
      /\ \A i \in 1 .. n : at[i] = at[i - 1] + Len(Encode(frames[i]))
      /\ \A i, j \in 0 .. n : i <= j => at[i] <= at[j]
  BY <1>1 DEF EndsAt
<1>6. /\ k \in 0 .. n /\ Len(s) = at[n] - at[k]
      /\ \A i \in k + 1 .. n : \A j \in 1 .. Len(Encode(frames[i])) :
           s[(at[i - 1] - at[k]) + j] = Encode(frames[i])[j]
  BY <1>1 DEF LeftAfter
<1> DEFINE on == [i \in 0 .. n + 1 |-> IF i = n + 1 THEN at[n] + le ELSE at[i]]
<1> HIDE DEF n, e, le, t, more
<1>7. \A i \in 0 .. n : on[i] = at[i]
  BY <1>2
<1>8. on[n + 1] = at[n] + le
  BY <1>2
<1>9. on \in [0 .. n + 1 -> Nat] /\ on[0] = 0
  BY <1>2, <1>3, <1>5
<1> HIDE DEF on
<1>10. EndsAt(on, more)
  <2>1. ASSUME NEW i \in 1 .. n + 1
        PROVE  on[i] = on[i - 1] + Len(Encode(more[i]))
    <3>1. CASE i = n + 1
      <4>1. i - 1 = n /\ n \in 0 .. n /\ more[i] = f
        BY <1>2, <3>1
      <4> QED BY <1>7, <1>8, <3>1, <4>1 DEF le, e
    <3>2. CASE i # n + 1
      <4>1. i \in 1 .. n /\ i \in 0 .. n /\ i - 1 \in 0 .. n
        BY <1>2, <3>2
      <4> QED BY <1>2, <1>5, <1>7, <4>1
    <3> QED BY <3>1, <3>2
  <2>2. ASSUME NEW i \in 0 .. n + 1, NEW j \in 0 .. n + 1, i <= j
        PROVE  on[i] <= on[j]
    <3>1. CASE i = n + 1
      <4>1. j = i
        BY <1>2, <2>2, <3>1
      <4> QED BY <1>9, <4>1
    <3>2. CASE i # n + 1 /\ j = n + 1
      <4>1. i \in 0 .. n /\ n \in 0 .. n
        BY <1>2, <3>2
      <4>2. at[i] <= at[n] /\ at[i] \in Nat /\ at[n] \in Nat
        BY <1>2, <1>5, <4>1
      <4> QED BY <1>3, <1>7, <1>8, <3>2, <4>1, <4>2
    <3>3. CASE i # n + 1 /\ j # n + 1
      <4>1. i \in 0 .. n /\ j \in 0 .. n
        BY <1>2, <3>3
      <4> QED BY <1>5, <1>7, <2>2, <4>1
    <3> QED BY <3>1, <3>2, <3>3
  <2> QED BY <1>2, <1>9, <2>1, <2>2 DEF EndsAt
<1>11. LeftAfter(t, k, on, more)
  <2>1. k \in 0 .. n + 1 /\ on[k] = at[k] /\ k \in 0 .. n /\ n \in 0 .. n
    BY <1>2, <1>6, <1>7
  <2>2. at[k] \in Nat /\ at[n] \in Nat /\ at[k] <= at[n]
    BY <1>2, <1>5, <2>1
  <2>3. Len(t) = on[n + 1] - on[k]
    BY <1>3, <1>4, <1>6, <1>8, <2>1, <2>2
  <2>4. ASSUME NEW i \in k + 1 .. n + 1, NEW j \in 1 .. Len(Encode(more[i]))
        PROVE  t[(on[i - 1] - on[k]) + j] = Encode(more[i])[j]
    <3>1. CASE i = n + 1
      <4>0. i - 1 = n /\ n \in 0 .. n /\ more[i] = f
        BY <1>2, <3>1
      <4>1. i - 1 = n /\ on[i - 1] = at[n] /\ Encode(more[i]) = e
        BY <1>7, <4>0 DEF e
      <4>2. j \in 1 .. le
        BY <4>1 DEF le
      <4>3. t[Len(s) + j] = e[j]
        BY <1>4, <4>2
      <4> QED BY <1>6, <2>1, <4>1, <4>3
    <3>2. CASE i # n + 1
      <4>1. i \in k + 1 .. n /\ i \in 1 .. n /\ i - 1 \in 0 .. n /\ i \in 0 .. n
        BY <1>2, <2>1, <3>2
      <4>2. more[i] = frames[i] /\ on[i - 1] = at[i - 1]
        BY <1>2, <1>7, <4>1
      <4>3. s[(at[i - 1] - at[k]) + j] = Encode(frames[i])[j]
        BY <1>6, <4>1, <4>2
      <4> DEFINE p == (at[i - 1] - at[k]) + j  l == Len(Encode(frames[i]))
      <4>4. at[i] = at[i - 1] + l /\ at[i] <= at[n] /\ at[i - 1] \in Nat
            /\ at[i] \in Nat /\ at[k] <= at[i - 1]
        BY <1>2, <1>5, <2>1, <4>1
      <4>5. p \in 1 .. Len(s)
        <5>1. l \in Nat
          <6>1. frames[i] \in Frame
            BY <4>1 DEF n
          <6> QED BY <6>1, EncodeIsOctets
        <5>2. j \in 1 .. l
          BY <4>2
        <5>3. at[i - 1] + l <= at[n]
          BY <4>4
        <5>4. p \in 1 .. at[n] - at[k]
          <6> HIDE DEF l
          <6> QED BY <2>2, <4>4, <5>1, <5>2, <5>3, PlaceInside
        <5> QED BY <1>6, <5>4
      <4>6. t[p] = s[p]
        BY <1>4, <4>5
      <4> QED BY <2>1, <4>2, <4>3, <4>6
    <3> QED BY <3>1, <3>2
  <2> QED BY <1>2, <2>1, <2>3, <2>4 DEF LeftAfter
<1> QED BY <1>10, <1>11 DEF Standing, t, more, e

\* The front of the stream is the next frame, unless all have been taken.
LEMMA FrontIsNext ==
  ASSUME NEW frames \in Seq(Frame), NEW s \in Seq(Octets),
         NEW at, NEW k, EndsAt(at, frames), LeftAfter(s, k, at, frames),
         Len(s) # 0
  PROVE  /\ k \in 0 .. Len(frames) - 1 /\ frames[k + 1] \in Frame
         /\ at[k] \in Nat /\ at[k + 1] = at[k] + Len(Encode(frames[k + 1]))
         /\ Len(Encode(frames[k + 1])) \in Nat
         /\ Len(Encode(frames[k + 1])) <= Len(s)
         /\ \A j \in 1 .. Len(Encode(frames[k + 1])) :
              s[j] = Encode(frames[k + 1])[j]
<1> DEFINE n == Len(frames)  f == frames[k + 1]  l == Len(Encode(f))
<1>1. /\ at \in [0 .. n -> Nat]
      /\ \A i \in 1 .. n : at[i] = at[i - 1] + Len(Encode(frames[i]))
      /\ \A i, j \in 0 .. n : i <= j => at[i] <= at[j]
  BY DEF EndsAt
<1>2. /\ k \in 0 .. n /\ Len(s) = at[n] - at[k] /\ n \in Nat
      /\ \A i \in k + 1 .. n : \A j \in 1 .. Len(Encode(frames[i])) :
           s[(at[i - 1] - at[k]) + j] = Encode(frames[i])[j]
  BY DEF LeftAfter
<1>3. at[k] \in Nat /\ at[n] \in Nat
  BY <1>1, <1>2
<1>4. k # n
  BY <1>2, <1>3
<1>5. k \in 0 .. n - 1 /\ k + 1 \in 1 .. n /\ k + 1 \in 0 .. n /\ n \in 0 .. n
      /\ k + 1 <= n /\ k + 1 - 1 = k /\ k + 1 \in k + 1 .. n
  BY <1>2, <1>4
<1>6. f \in Frame
  BY <1>5
<1>7. l \in Nat
  BY <1>6, EncodeIsOctets
<1>8. at[k + 1] = at[k] + l /\ at[k + 1] <= at[n]
  BY <1>1, <1>5
<1>9. l <= Len(s)
  <2> HIDE DEF l
  <2> QED BY <1>2, <1>3, <1>7, <1>8
<1>10. ASSUME NEW j \in 1 .. l PROVE s[j] = Encode(f)[j]
  <2>1. s[(at[k] - at[k]) + j] = Encode(f)[j]
    BY <1>2, <1>5
  <2>2. (at[k] - at[k]) + j = j
    BY <1>3
  <2> QED BY <2>1, <2>2
<1> QED BY <1>3, <1>5, <1>6, <1>7, <1>8, <1>9, <1>10

\* Taking that frame leaves the rest of the stream.
LEMMA TakeKeepsAligned ==
  ASSUME NEW frames \in Seq(Frame), NEW s \in Seq(Octets),
         NEW at, NEW k, EndsAt(at, frames), LeftAfter(s, k, at, frames),
         Len(s) # 0,
         NEW t \in Seq(Octets), NEW l, l = Len(Encode(frames[k + 1])),
         Len(t) = Len(s) - l, \A j \in 1 .. Len(t) : t[j] = s[l + j]
  PROVE  LeftAfter(t, k + 1, at, frames)
<1> DEFINE n == Len(frames)
<1>1. /\ at \in [0 .. n -> Nat]
      /\ \A i \in 1 .. n : at[i] = at[i - 1] + Len(Encode(frames[i]))
      /\ \A i, j \in 0 .. n : i <= j => at[i] <= at[j]
  BY DEF EndsAt
<1>2. /\ Len(s) = at[n] - at[k] /\ n \in Nat /\ Len(t) \in Nat
      /\ \A i \in k + 1 .. n : \A j \in 1 .. Len(Encode(frames[i])) :
           s[(at[i - 1] - at[k]) + j] = Encode(frames[i])[j]
  BY DEF LeftAfter
<1>3. /\ k \in 0 .. n - 1 /\ at[k] \in Nat /\ at[k + 1] = at[k] + l /\ l \in Nat
  BY FrontIsNext
<1> HIDE DEF n
<1>4. k + 1 \in 0 .. n /\ n \in 0 .. n /\ at[n] \in Nat
  BY <1>1, <1>2, <1>3
<1>5. Len(t) = at[n] - at[k + 1]
  BY <1>2, <1>3, <1>4
<1>6. ASSUME NEW i \in (k + 1) + 1 .. n, NEW j \in 1 .. Len(Encode(frames[i]))
      PROVE  t[(at[i - 1] - at[k + 1]) + j] = Encode(frames[i])[j]
  <2> DEFINE m == Len(Encode(frames[i]))  p == (at[i - 1] - at[k + 1]) + j
  <2>1. i \in k + 1 .. n /\ i \in 1 .. n /\ i - 1 \in 0 .. n /\ i \in 0 .. n
        /\ k + 1 <= i - 1
    <3>1. k \in Nat /\ n \in Nat
      BY <1>2, <1>3
    <3>2. i \in (k + 1) + 1 .. n
      OBVIOUS
    <3>3. i \in Int /\ k + 2 <= i /\ i <= n
      BY <3>1, <3>2
    <3> QED BY <3>1, <3>3
  <2>2. m \in Nat
    <3>1. frames[i] \in Frame
      BY <2>1 DEF n
    <3> QED BY <3>1, EncodeIsOctets
  <2>3. /\ at[i] = at[i - 1] + m /\ at[i] <= at[n] /\ at[k + 1] <= at[i - 1]
        /\ at[i] \in Nat /\ at[i - 1] \in Nat
    <3>1. at[i] = at[i - 1] + m
      BY <1>1, <2>1
    <3>2. at[i] \in Nat /\ at[i - 1] \in Nat
      BY <1>1, <2>1
    <3>3. i <= n
      BY <1>2, <2>1
    <3>4. at[i] <= at[n] /\ at[k + 1] <= at[i - 1]
      BY <1>1, <1>4, <2>1, <3>3
    <3> QED BY <3>1, <3>2, <3>4
  <2>4. s[(at[i - 1] - at[k]) + j] = Encode(frames[i])[j]
    BY <1>2, <2>1
  <2>5. j \in 1 .. m
    OBVIOUS
  <2>6. p \in 1 .. Len(t) /\ l + p = (at[i - 1] - at[k]) + j
    <3>1. at[i - 1] + m <= at[n] /\ at[k + 1] \in Nat
      BY <1>1, <1>4, <2>3
    <3>2. p \in 1 .. at[n] - at[k + 1]
      <4> HIDE DEF m
      <4> QED BY <1>4, <2>2, <2>3, <2>5, <3>1, PlaceInside
    <3>3. l + ((at[i - 1] - (at[k] + l)) + j) = (at[i - 1] - at[k]) + j
      <4>1. j \in Nat
        BY <2>2, <2>5
      <4> DEFINE a == at[i - 1]  b == at[k]
      <4>2. a \in Nat /\ b \in Nat /\ l \in Nat
        BY <1>3, <2>3
      <4> HIDE DEF m, a, b
      <4>3. l + ((a - (b + l)) + j) = (a - b) + j
        BY <4>1, <4>2
      <4> QED BY <4>3 DEF a, b
    <3> QED BY <1>3, <1>5, <3>2, <3>3
  <2>7. t[p] = s[l + p]
    BY <2>6
  <2> QED BY <2>4, <2>6, <2>7
<1> QED BY <1>4, <1>5, <1>6 DEF LeftAfter, n

\* While the reader reads, the bytes in its buffer and on their way are whole
\* frames; and it waits only with a buffer that ends inside a frame.
InPlace ==
  /\ pc \in {"parse", "receive"} => Aligned(rbuf \o net, sent)
  /\ pc = "receive" => NeedsMore(rbuf)

LEMMA TwoParts ==
  ASSUME NEW b \in Seq(Octets), NEW c \in Seq(Octets)
  PROVE  /\ b \o c \in Seq(Octets) /\ Len(b \o c) = Len(b) + Len(c)
         /\ \A j \in 1 .. Len(b) : (b \o c)[j] = b[j]
         /\ \A j \in 1 .. Len(c) : (b \o c)[Len(b) + j] = c[j]
  OBVIOUS

LEMMA CutAndJoined ==
  ASSUME NEW b \in Seq(Octets), NEW c \in Seq(Octets), NEW n \in 1 .. Len(c)
  PROVE  (b \o SubSeq(c, 1, n)) \o SubSeq(c, n + 1, Len(c)) = b \o c
<1> DEFINE head == SubSeq(c, 1, n)  tail == SubSeq(c, n + 1, Len(c))
<1>1. head \in Seq(Octets) /\ tail \in Seq(Octets)
  BY SliceOfOctets
<1>2. head \o tail = c
  OBVIOUS
<1> HIDE DEF head, tail
<1>3. (b \o head) \o tail = b \o (head \o tail)
  BY <1>1
<1> QED BY <1>2, <1>3 DEF head, tail

LEMMA RestProperties ==
  ASSUME NEW b \in Seq(Octets), HasFrame(b)
  PROVE  /\ Rest(b) \in Seq(Octets) /\ Len(Rest(b)) = Len(b) - FrameLen(b)
         /\ \A j \in 1 .. Len(Rest(b)) : Rest(b)[j] = b[FrameLen(b) + j]
<1>1. FrameLen(b) \in Nat /\ FrameLen(b) <= Len(b) /\ Len(b) \in Nat
  BY FrameInBuffer
<1>2. Rest(b) \in Seq(Octets)
  BY FrontMessageFields
<1> DEFINE l == FrameLen(b)
<1>3. Rest(b) = SubSeq(b, l + 1, Len(b))
  BY DEF Rest
<1> HIDE DEF l
<1>4. /\ Len(SubSeq(b, l + 1, Len(b))) = Len(b) - l
      /\ \A j \in 1 .. Len(b) - l : SubSeq(b, l + 1, Len(b))[j] = b[l + j]
  BY <1>1 DEF l
<1> QED BY <1>2, <1>3, <1>4 DEF l

\* A frame leaves the buffer exactly where the server ended it.
LEMMA TakeFrameStanding ==
  ASSUME IInv, NEW k, Standing(rbuf \o net, k, sent), TakeFrame
  PROVE  /\ Standing(rbuf \o net, k + 1, sent)'
         /\ k + 1 \in 1 .. Len(sent) /\ k \in Nat
         /\ \A i \in 1 .. Len(rbuf) :
              i <= Len(Encode(sent[k + 1])) => rbuf[i] = Encode(sent[k + 1])[i]
<1> DEFINE s == rbuf \o net  t == rbuf' \o net
<1>1. rbuf \in Seq(Octets) /\ net \in Seq(Octets) /\ sent \in Seq(Frame)
  BY DEF IInv, TypeOK, Octets
<1>2. HasFrame(rbuf) /\ rbuf' = Rest(rbuf) /\ sent' = sent /\ net' = net
  BY DEF TakeFrame
<1>3. PICK at : EndsAt(at, sent) /\ LeftAfter(s, k, at, sent)
  BY DEF Standing
<1> DEFINE f == sent[k + 1]  l == FrameLen(rbuf)
<1>4. l \in Nat /\ l <= Len(rbuf) /\ Len(rbuf) \in Nat /\ Len(net) \in Nat
  BY <1>1, <1>2, FrameInBuffer
<1>5. /\ s \in Seq(Octets) /\ Len(s) = Len(rbuf) + Len(net)
      /\ \A j \in 1 .. Len(rbuf) : s[j] = rbuf[j]
      /\ \A j \in 1 .. Len(net) : s[Len(rbuf) + j] = net[j]
  BY <1>1, TwoParts
<1>6. Len(rbuf) >= 2
  <2>1. ~ (Len(rbuf) < BytesNeeded(rbuf))
    BY <1>2 DEF HasFrame, NeedsMore
  <2> QED BY <1>4, <2>1 DEF BytesNeeded
<1>7. Len(s) # 0
  BY <1>4, <1>5, <1>6
<1> HIDE DEF s, l
<1>8. /\ f \in Frame /\ Len(Encode(f)) \in Nat
      /\ \A j \in 1 .. Len(Encode(f)) : s[j] = Encode(f)[j]
  BY <1>1, <1>3, <1>5, <1>7, FrontIsNext
<1>a. ASSUME NEW i \in 1 .. Len(rbuf), i <= Len(Encode(f))
      PROVE  rbuf[i] = Encode(f)[i]
  <2>1. i \in 1 .. Len(Encode(f))
    BY <1>4, <1>8, <1>a
  <2>2. s[i] = Encode(f)[i] /\ s[i] = rbuf[i]
    BY <1>5, <1>8, <2>1
  <2> QED BY <2>2
<1>9. l = Len(Encode(f))
  <2> HIDE DEF f
  <2>2. FrameLen(rbuf) = Len(Encode(f))
    BY <1>1, <1>2, <1>8, <1>a, FrontFrame
  <2> QED BY <2>2 DEF l
<1>10. /\ rbuf' \in Seq(Octets) /\ Len(rbuf') = Len(rbuf) - l
       /\ \A j \in 1 .. Len(rbuf') : rbuf'[j] = rbuf[l + j]
  BY <1>1, <1>2, RestProperties DEF l
<1> DEFINE r == rbuf'
<1>11. /\ t \in Seq(Octets) /\ Len(t) = Len(s) - l
       /\ \A j \in 1 .. Len(t) : t[j] = s[l + j]
  <2>1. /\ r \in Seq(Octets) /\ Len(r) = Len(rbuf) - l
        /\ \A j \in 1 .. Len(r) : r[j] = rbuf[l + j]
    BY <1>10
  <2> HIDE DEF r
  <2>2. /\ r \o net \in Seq(Octets) /\ Len(r \o net) = Len(r) + Len(net)
        /\ \A j \in 1 .. Len(r) : (r \o net)[j] = r[j]
        /\ \A j \in 1 .. Len(net) : (r \o net)[Len(r) + j] = net[j]
    BY <1>1, <2>1, TwoParts
  <2> DEFINE u == r \o net
  <2>3. t = u
    BY DEF r
  <2> HIDE DEF u, t
  <2>4. ASSUME NEW j \in 1 .. Len(u) PROVE u[j] = s[l + j]
    <3>1. CASE j <= Len(r)
      <4>1. j \in 1 .. Len(r) /\ l + j \in 1 .. Len(rbuf)
        BY <1>4, <2>1, <3>1
      <4> QED BY <1>5, <2>1, <2>2, <4>1 DEF u
    <3>2. CASE ~ (j <= Len(r))
      <4> DEFINE i == j - Len(r)
      <4>1. i \in 1 .. Len(net) /\ Len(r) + i = j /\ Len(rbuf) + i = l + j
        BY <1>4, <2>1, <2>2, <3>2 DEF u
      <4> HIDE DEF i
      <4>2. u[Len(r) + i] = net[i] /\ s[Len(rbuf) + i] = net[i]
        BY <1>5, <2>2, <4>1 DEF u
      <4> QED BY <4>1, <4>2
    <3> QED BY <3>1, <3>2
  <2> QED BY <1>4, <1>5, <2>1, <2>2, <2>3, <2>4 DEF u
<1> HIDE DEF t
<1>12. LeftAfter(t, k + 1, at, sent)
  <2>1. l = Len(Encode(sent[k + 1]))
    BY <1>9 DEF f
  <2>2. /\ sent \in Seq(Frame) /\ s \in Seq(Octets) /\ t \in Seq(Octets)
        /\ EndsAt(at, sent) /\ LeftAfter(s, k, at, sent) /\ Len(s) # 0
        /\ Len(t) = Len(s) - l /\ \A j \in 1 .. Len(t) : t[j] = s[l + j]
    BY <1>1, <1>3, <1>5, <1>7, <1>11
  <2> HIDE DEF r
  <2> QED BY <2>1, <2>2, TakeKeepsAligned, Zenon
<1>13. Standing(rbuf \o net, k + 1, sent)'
  BY <1>2, <1>3, <1>12 DEF Standing, t
<1>14. k + 1 \in 1 .. Len(sent) /\ k \in Nat
  BY <1>1, <1>3, <1>5, <1>7, FrontIsNext
<1> QED BY <1>a, <1>13, <1>14

\* With the stream cut where the server cut it, a reader that waits has not
\* got the whole of the next frame.
LEMMA WaitingIsShort ==
  ASSUME IInv, InPlace
  PROVE  NoBytesStranded
<1> SUFFICES ASSUME pc = "receive", net = << >>, rbuf # << >>
             PROVE  FALSE
  BY DEF NoBytesStranded
<1>1. rbuf \in Seq(Octets) /\ sent \in Seq(Frame)
  BY DEF IInv, TypeOK, Octets
<1>2. NeedsMore(rbuf) /\ Aligned(rbuf \o net, sent)
  BY DEF InPlace
<1>3. rbuf \o net = rbuf
  BY <1>1
<1>4. PICK k, at : EndsAt(at, sent) /\ LeftAfter(rbuf, k, at, sent)
  BY <1>2, <1>3 DEF Aligned, Standing
<1>5. Len(rbuf) # 0
  BY <1>1
<1> DEFINE f == sent[k + 1]
<1>6. /\ f \in Frame /\ Len(Encode(f)) \in Nat /\ Len(Encode(f)) <= Len(rbuf)
      /\ \A j \in 1 .. Len(Encode(f)) : rbuf[j] = Encode(f)[j]
  BY <1>1, <1>4, <1>5, FrontIsNext
<1> HIDE DEF f
<1>7. \A i \in 1 .. Len(rbuf) : i <= Len(Encode(f)) => rbuf[i] = Encode(f)[i]
  BY <1>6
<1>8. Len(rbuf) >= Len(Encode(f))
  BY <1>1, <1>6
<1>9. ~ NeedsMore(rbuf)
  BY <1>1, <1>6, <1>7, <1>8, FrontFrame
<1> QED BY <1>2, <1>9

LEMMA StepKeepsPlace ==
  ASSUME IInv, InPlace, [Next]_vars
  PROVE  InPlace'
<1>1. rbuf \in Seq(Octets) /\ net \in Seq(Octets) /\ sent \in Seq(Frame)
  BY DEF IInv, TypeOK, Octets
<1>2. ASSUME NEW f \in Frame, ServerSend(f)
      PROVE  InPlace'
  <2>1. /\ sent' = Append(sent, f) /\ net' = net \o Encode(f)
        /\ rbuf' = rbuf /\ pc' = pc
    BY <1>2 DEF ServerSend
  <2>2. Encode(f) \in Seq(Octets)
    BY EncodeIsOctets
  <2>3. rbuf' \o net' = (rbuf \o net) \o Encode(f)
    <3> DEFINE e == Encode(f)
    <3>1. e \in Seq(Octets)
      BY <2>2
    <3> HIDE DEF e
    <3>2. rbuf \o (net \o e) = (rbuf \o net) \o e
      BY <1>1, <3>1
    <3> QED BY <2>1, <3>2 DEF e
  <2>4. rbuf \o net \in Seq(Octets)
    BY <1>1
  <2>5. Aligned(rbuf \o net, sent) => Aligned(rbuf' \o net', sent')
    BY <1>1, <2>1, <2>3, <2>4, SendKeepsStanding DEF Aligned
  <2> QED BY <2>1, <2>5 DEF InPlace
<1>3. ASSUME NEW n \in 1 .. Len(net), Receive(n)
      PROVE  InPlace'
  <2>1. /\ rbuf' = rbuf \o SubSeq(net, 1, n) /\ net' = SubSeq(net, n + 1, Len(net))
        /\ sent' = sent /\ pc = "receive" /\ pc' = "parse"
    BY <1>3 DEF Receive
  <2>2. (rbuf \o SubSeq(net, 1, n)) \o SubSeq(net, n + 1, Len(net)) = rbuf \o net
    BY <1>1, CutAndJoined
  <2> QED BY <2>1, <2>2 DEF InPlace
<1>4. CASE ReadMore
  BY <1>4 DEF ReadMore, InPlace
<1>5. CASE RejectFrame
  BY <1>5 DEF RejectFrame, Fail, CodeForError, InPlace
<1>6. ASSUME TakeFrame, pc' # "receive"
      PROVE  InPlace'
  <2>1. pc = "parse"
    BY <1>6 DEF TakeFrame
  <2>2. Aligned(rbuf \o net, sent)'
    BY <1>6, <2>1, TakeFrameStanding DEF InPlace, Aligned
  <2> QED BY <1>6, <2>2 DEF InPlace
<1>7. CASE RejectInterruption
  BY <1>6, <1>7 DEF RejectInterruption, Fail, CodeForError
<1>8. ASSUME NEW msg, Return(msg) PROVE pc' # "receive"
  BY <1>8 DEF Return, Fail, CodeForError
<1>9. CASE ReturnWhole
  BY <1>6, <1>8, <1>9 DEF ReturnWhole
<1>10. CASE ReturnReassembled
  <2>1. TakeFrame /\ pc' # "receive"
    BY <1>8, <1>10 DEF ReturnReassembled, Fail, CodeForError
  <2> QED BY <1>6, <2>1
<1>11. CASE RejectStrayFragment
  BY <1>6, <1>11 DEF RejectStrayFragment, Fail, CodeForError
<1>12. CASE KeepFragment
  <2>1. TakeFrame /\ pc = "parse" /\ pc' = pc
    BY <1>12 DEF KeepFragment, TakeFrame
  <2> QED BY <1>6, <2>1
<1>13. CASE UNCHANGED vars
  BY <1>13 DEF vars, InPlace
<1> QED
  BY <1>2, <1>3, <1>4, <1>5, <1>7, <1>9, <1>10, <1>11, <1>12, <1>13
     DEF Next, Parse, ReceiveSome

-----------------------------------------------------------------------------
(* The message a frame holds *)

LEMMA FirstByte ==
  ASSUME NEW x \in {0, 128}, NEW r \in 0 .. 7, NEW o \in 0 .. 15
  PROVE  /\ (x + r * 16 + o) \div 128 = 1 <=> x = 128
         /\ ((x + r * 16 + o) \div 16) % 8 = r
         /\ (x + r * 16 + o) % 16 = o
  OBVIOUS

\* Where the payload of a frame at the front of a buffer lies.
LEMMA PlaceOfData ==
  ASSUME NEW h \in Nat, NEW len \in Nat, NEW n, NEW m \in Nat, h >= 1, n = h + len, n <= m
  PROVE  /\ h + 1 \in Nat \ {0} /\ (h + 1) + len <= m + 1 /\ (h + 1) + len - 1 = n
         /\ \A j \in 1 .. len : ((h + 1) - 1) + j = h + j
  OBVIOUS

\* A frame is rejected where it is not well-formed, and otherwise becomes the
\* message of its fields.
LEMMA FrontContent ==
  ASSUME NEW f \in Frame, NEW b \in Seq(Octets),
         \A i \in 1 .. Len(b) : i <= Len(Encode(f)) => b[i] = Encode(f)[i]
  PROVE  /\ Malformed(b) => ~ Stream!WellFormed(f)
         /\ HasFrame(b) =>
              /\ Stream!WellFormed(f)
              /\ FrontMessage(b) = [type |-> TypeOfOpcode[f.opcode],
                                    final |-> f.fin, data |-> f.data]
<1>1. /\ HasFrame(b) => FrameLen(b) = Len(Encode(f))
      /\ Len(Encode(f)) \in Nat /\ Len(Encode(f)) >= 2
      /\ Len(b) >= 2 => /\ ShortLen(b) = LowOf(f) /\ (Masked(b) <=> f.masked)
                        /\ HeaderLen(b) = HeaderOf(f)
  BY FrontFrame
<1>2. Len(b) \in Nat
  OBVIOUS
<1>3. /\ f.fin \in BOOLEAN /\ f.rsv \in 0 .. 7 /\ f.opcode \in 0 .. 15
      /\ f.masked \in BOOLEAN /\ f.form \in {7, 16, 64} /\ f.data \in Seq(Octets)
      /\ (f.form = 7 => Len(f.data) <= 125) /\ Len(f.data) \in Nat
  BY FrameAssumption DEF Octets
<1>4. Malformed(b) => Len(b) >= 2
  BY DEF Malformed
<1>5. HasFrame(b) => /\ Len(b) >= 2 /\ Len(b) >= HeaderLen(b) /\ ~ Masked(b) /\ ~ BadHeader(b)
  <2>1. HeaderLen(b) \in {2, 4, 10}
    BY DEF HeaderLen
  <2> QED BY <1>2, <2>1 DEF HasFrame, NeedsMore, BytesNeeded, Malformed
<1>6. ASSUME Len(b) >= 2
      PROVE  /\ Fin(b) = f.fin /\ Rsv(b) = f.rsv /\ Opcode(b) = f.opcode
  <2>1. b[1] = Encode(f)[1]
    BY <1>1, <1>2, <1>6
  <2> DEFINE x == IF f.fin THEN 128 ELSE 0  r == f.rsv  o == f.opcode
  <2>2. Encode(f)[1] = x + r * 16 + o
    BY EncodeShape
  <2>3. x \in {0, 128} /\ r \in 0 .. 7 /\ o \in 0 .. 15 /\ (x = 128 <=> f.fin)
    BY <1>3
  <2> HIDE DEF x, r, o
  <2>4. /\ (x + r * 16 + o) \div 128 = 1 <=> x = 128
        /\ ((x + r * 16 + o) \div 16) % 8 = r
        /\ (x + r * 16 + o) % 16 = o
    BY <2>3, FirstByte
  <2>5. Rsv(b) = r /\ Opcode(b) = o
    BY <2>1, <2>2, <2>4 DEF Rsv, Opcode
  <2>6. Fin(b) <=> f.fin
    BY <2>1, <2>2, <2>3, <2>4 DEF Fin
  <2>7. Fin(b) \in BOOLEAN
    BY DEF Fin
  <2> QED BY <1>3, <2>5, <2>6, <2>7 DEF r, o
\* What the header checks make of the second byte.
<1>7. /\ f.form = 7 => LowOf(f) = Len(f.data)
      /\ f.form # 7 => LowOf(f) > 125
  BY <1>3 DEF LowOf
<1> DEFINE len == Len(f.data)  low == LowOf(f)
<1>8. ASSUME Len(b) >= 2
      PROVE  BadHeader(b) <=>
               \/ f.rsv # 0
               \/ f.opcode >= 8 /\ (low > 125 \/ ~ f.fin)
               \/ f.opcode \notin {0, 1, 2, 8, 9, 10}
               \/ f.opcode = 8 /\ low = 1
  <2>1. ShortLen(b) = low
    BY <1>1, <1>8
  <2> HIDE DEF low
  <2> QED BY <1>6, <1>8, <2>1 DEF BadHeader, Opcodes
<1>9. Stream!WellFormed(f) <=>
        /\ f.rsv = 0 /\ ~ f.masked
        /\ f.opcode \in {0, 1, 2, 8, 9, 10}
        /\ f.opcode >= 8 => f.fin /\ f.form = 7
        /\ f.opcode = 8 => len # 1
  BY DEF Stream!WellFormed, Stream!IsControl
<1>10. /\ low \in 0 .. 127 /\ (low > 125 => f.form # 7) /\ (f.form # 7 => low > 125)
       /\ (f.form = 7 => low = len)
  <2> HIDE DEF len
  <2>1. LowOf(f) \in 0 .. 127
    BY LengthField
  <2> QED BY <1>3, <1>7, <2>1 DEF len
<1> HIDE DEF len, low
<1>11. Malformed(b) => ~ Stream!WellFormed(f)
  <2>1. ASSUME Malformed(b) PROVE BadHeader(b) \/ f.masked
    BY <1>1, <1>4, <2>1 DEF Malformed
  <2> QED BY <1>3, <1>4, <1>8, <1>9, <1>10, <2>1
<1>12. ASSUME HasFrame(b) PROVE Stream!WellFormed(f)
  <2>1. ~ BadHeader(b) /\ ~ f.masked
    BY <1>1, <1>5, <1>12
  <2> QED BY <1>3, <1>5, <1>8, <1>9, <1>10, <1>12, <2>1
<1>13. ASSUME HasFrame(b)
       PROVE  FrontMessage(b) = [type |-> TypeOfOpcode[f.opcode],
                                 final |-> f.fin, data |-> f.data]
  <2> DEFINE h == HeaderOf(f)  n == FrameLen(b)  e == Encode(f)  data == f.data
  <2>1. /\ HeaderLen(b) = h /\ ~ f.masked /\ n = Len(e)
    BY <1>1, <1>5, <1>13
  <2>2. /\ Len(e) = h + len /\ \A i \in 1 .. len : e[h + i] = data[i]
    <3>1. KeyOf(f) = 0
      BY <2>1 DEF KeyOf
    <3>2. h \in Nat
      BY <1>3 DEF HeaderOf
    <3>3. h + 0 = h
      BY <3>2
    <3>4. /\ Len(e) = HeaderOf(f) + KeyOf(f) + Len(f.data)
          /\ \A i \in 1 .. Len(f.data) : e[(HeaderOf(f) + KeyOf(f)) + i] = f.data[i]
      BY EncodeShape
    <3> QED BY <3>1, <3>3, <3>4 DEF len
  <2>3. n <= Len(b) /\ n \in Nat
    BY <1>13, FrameInBuffer
  <2>4. h \in Nat /\ len \in Nat /\ h >= 1
    BY <1>3 DEF HeaderOf, len
  <2>5. data \in Seq(Octets) /\ Len(data) = len
    BY <1>3 DEF len
  <2>6. SubSeq(b, h + 1, n) = data
    <3> HIDE DEF h, n, e, data
    <3>1. h + 1 \in Nat \ {0} /\ (h + 1) + len <= Len(b) + 1 /\ (h + 1) + len - 1 = n
          /\ \A j \in 1 .. len : ((h + 1) - 1) + j = h + j
      <4>1. n = h + len /\ n <= Len(b) /\ Len(b) \in Nat
        BY <1>2, <2>1, <2>2, <2>3
      <4> QED BY <2>4, <4>1, PlaceOfData
    <3>2. /\ SubSeq(b, h + 1, (h + 1) + len - 1) \in Seq(Octets)
          /\ Len(SubSeq(b, h + 1, (h + 1) + len - 1)) = len
          /\ \A j \in 1 .. len :
               SubSeq(b, h + 1, (h + 1) + len - 1)[j] = b[((h + 1) - 1) + j]
      BY <2>4, <3>1, Slice
    <3> DEFINE t == SubSeq(b, h + 1, n)
    <3>3. /\ t \in Seq(Octets) /\ Len(t) = len
          /\ \A j \in 1 .. len : t[j] = b[h + j]
      BY <3>1, <3>2, Zenon
    <3>4. ASSUME NEW j \in 1 .. len PROVE t[j] = data[j]
      <4>1. h + j \in 1 .. Len(b) /\ h + j <= Len(e)
        <5>1. Len(e) = h + len /\ Len(e) <= Len(b) /\ Len(b) \in Nat
          BY <1>2, <2>1, <2>2, <2>3
        <5> QED BY <2>4, <5>1
      <4>2. b[h + j] = e[h + j]
        BY <4>1 DEF e
      <4> QED BY <2>2, <3>3, <4>2
    <3> HIDE DEF t
    <3>5. t = data
      BY <2>4, <2>5, <3>3, <3>4, SeqEqual
    <3> QED BY <3>5 DEF t
  <2> QED BY <1>5, <1>6, <1>13, <2>1, <2>6 DEF FrontMessage
<1> QED BY <1>11, <1>12, <1>13

-----------------------------------------------------------------------------
(* Joining *)

\* The largest element of a finite set of numbers is there.
LEMMA LargestElement ==
  ASSUME NEW n \in Nat, NEW T \in SUBSET (1 .. n), T # {}
  PROVE  Max(T) \in T /\ \A x \in T : x <= Max(T)
<1> DEFINE D == {n - x : x \in T}
<1>1. D \in SUBSET Nat /\ D # {}
  OBVIOUS
<1>2. PICK d \in D : \A y \in D : d <= y
  BY <1>1, SmallestElement
<1>3. PICK m \in T : d = n - m
  BY <1>2
<1>4. \A x \in T : m >= x
  <2>1. ASSUME NEW x \in T PROVE m >= x
    <3>1. n - m <= n - x
      BY <1>2, <1>3
    <3>2. m \in Nat /\ x \in Nat
      OBVIOUS
    <3> QED BY <3>1, <3>2
  <2> QED BY <2>1
<1>5. Max(T) \in T /\ \A x \in T : Max(T) >= x
  BY <1>3, <1>4, Zenon DEF Max
<1>6. \A x \in T : x \in Nat
  OBVIOUS
<1> HIDE DEF D
<1> QED BY <1>5, <1>6

\* The recursive function in FoldLeft, on the fragments up to the n-th.
JoinsUpTo(frags, n, g) ==
  g = [t \in SUBSET (1 .. n) |->
         IF t = {} THEN << >> ELSE g[t \ {Max(t)}] \o frags[Max(t)].data]

LEMMA JoinsUpToExists ==
  ASSUME NEW frags
  PROVE  \A n \in Nat : \E g : JoinsUpTo(frags, n, g)
<1> DEFINE S == {n \in Nat : \E g : JoinsUpTo(frags, n, g)}
<1>1. 0 \in S
  <2> DEFINE g == [t \in SUBSET (1 .. 0) |-> << >>]
  <2>1. 1 .. 0 = {} /\ SUBSET {} = {{}}
    OBVIOUS
  <2>2. JoinsUpTo(frags, 0, g)
    BY <2>1 DEF JoinsUpTo
  <2> HIDE DEF g
  <2> QED BY <2>2
<1>2. ASSUME NEW n \in Nat, n \in S PROVE n + 1 \in S
  <2>1. PICK g : JoinsUpTo(frags, n, g)
    BY <1>2
  <2> DEFINE h == [t \in SUBSET (1 .. n + 1) |->
                     IF n + 1 \in t THEN g[t \ {n + 1}] \o frags[n + 1].data ELSE g[t]]
             value(t) == IF t = {} THEN << >> ELSE h[t \ {Max(t)}] \o frags[Max(t)].data
  <2>2. ASSUME NEW t \in SUBSET (1 .. n + 1) PROVE h[t] = value(t)
    <3>1. CASE n + 1 \in t
      <4>1. Max(t) = n + 1
        <5>0. n + 1 \in Nat /\ t # {}
          BY <3>1
        <5>1. Max(t) \in t /\ \A x \in t : x <= Max(t)
          BY <2>2, <5>0, LargestElement
        <5>2. Max(t) \in 1 .. n + 1 /\ n + 1 <= Max(t)
          BY <2>2, <3>1, <5>1
        <5> QED BY <5>2
      <4>2. t \ {n + 1} \in SUBSET (1 .. n + 1) /\ n + 1 \notin t \ {n + 1}
        OBVIOUS
      <4>3. h[t] = g[t \ {n + 1}] \o frags[n + 1].data
        BY <2>2, <3>1
      <4>4. h[t \ {n + 1}] = g[t \ {n + 1}]
        BY <4>2
      <4> HIDE DEF h
      <4> QED BY <3>1, <4>1, <4>3, <4>4
    <3>2. CASE n + 1 \notin t
      <4>1. t \in SUBSET (1 .. n)
        BY <3>2
      <4>2. h[t] = g[t]
        BY <3>2
      <4>3. g[t] = IF t = {} THEN << >> ELSE g[t \ {Max(t)}] \o frags[Max(t)].data
        BY <2>1, <4>1, Zenon DEF JoinsUpTo
      <4>4. t \ {Max(t)} \in SUBSET (1 .. n + 1) /\ n + 1 \notin t \ {Max(t)}
        BY <3>2
      <4>5. h[t \ {Max(t)}] = g[t \ {Max(t)}]
        BY <4>4
      <4> HIDE DEF h
      <4> QED BY <4>2, <4>3, <4>5
    <3> QED BY <3>1, <3>2
  <2>3. h = [t \in SUBSET (1 .. n + 1) |-> h[t]]
    OBVIOUS
  <2> HIDE DEF h
  <2>4. JoinsUpTo(frags, n + 1, h)
    BY <2>2, <2>3, Zenon DEF JoinsUpTo
  <2> QED BY <2>4
<1> HIDE DEF S
<1>3. Nat \subseteq S
  BY <1>1, <1>2, InductionOverSet
<1> QED BY <1>3 DEF S

LEMMA JoinsStep ==
  ASSUME NEW frags, NEW n \in Nat, NEW g, JoinsUpTo(frags, n, g)
  PROVE  /\ g[1 .. 0] = << >>
         /\ \A j \in 0 .. n - 1 : g[1 .. j + 1] = g[1 .. j] \o frags[j + 1].data
<1>1. 1 .. 0 = {} /\ {} \in SUBSET (1 .. n)
  OBVIOUS
<1>2. g[1 .. 0] = << >>
  BY <1>1 DEF JoinsUpTo
<1>3. ASSUME NEW j \in 0 .. n - 1
      PROVE  g[1 .. j + 1] = g[1 .. j] \o frags[j + 1].data
  <2> DEFINE t == 1 .. j + 1
  <2>1. j + 1 \in Nat /\ t \in SUBSET (1 .. j + 1) /\ t \in SUBSET (1 .. n) /\ j + 1 \in t
        /\ t # {} /\ t \ {j + 1} = 1 .. j
    OBVIOUS
  <2> HIDE DEF t
  <2>2. Max(t) = j + 1
    <3>1. Max(t) \in t /\ \A x \in t : x <= Max(t)
      BY <2>1, LargestElement
    <3>2. Max(t) \in 1 .. j + 1 /\ j + 1 <= Max(t)
      BY <2>1, <3>1
    <3> QED BY <3>2
  <2>3. g[t] = IF t = {} THEN << >> ELSE g[t \ {Max(t)}] \o frags[Max(t)].data
    BY <2>1, Zenon DEF JoinsUpTo
  <2>4. g[t] = g[1 .. j] \o frags[j + 1].data
    BY <2>1, <2>2, <2>3
  <2> QED BY <2>4 DEF t
<1> QED BY <1>2, <1>3

\* JoinedData is the fold of the sequence's own elements,
LEMMA JoinedValue ==
  ASSUME NEW frags, IsSequence(frags)
  PROVE  \E g : JoinsUpTo(frags, Len(frags), g) /\ JoinedData(frags) = g[1 .. Len(frags)]
<1>1. DOMAIN frags = 1 .. Len(frags) /\ Len(frags) \in Nat
  BY DEF IsSequence
<1> DEFINE g == CHOOSE g : JoinsUpTo(frags, Len(frags), g)
<1>2. JoinsUpTo(frags, Len(frags), g)
  BY <1>1, JoinsUpToExists, Zenon
<1>3. JoinedData(frags) =
        (CHOOSE iter : iter = [t \in SUBSET DOMAIN frags |->
           IF t = {} THEN << >> ELSE iter[t \ {Max(t)}] \o frags[Max(t)].data])[DOMAIN frags]
  BY Zenon DEF JoinedData, FoldLeft, MapThenFoldSet
<1>4. JoinedData(frags) = g[1 .. Len(frags)]
  BY <1>1, <1>3, Zenon DEF JoinsUpTo
<1> HIDE DEF g
<1> QED BY <1>2, <1>4

\* so that one more fragment puts its data at the end.
LEMMA JoinedAppend ==
  ASSUME NEW frags, IsSequence(frags), NEW msg
  PROVE  JoinedData(Append(frags, msg)) = JoinedData(frags) \o msg.data
<1> DEFINE more == Append(frags, msg)  n == Len(frags)
<1>1. /\ IsSequence(more) /\ n \in Nat /\ Len(more) = n + 1
      /\ \A i \in 1 .. n : more[i] = frags[i]
      /\ more[n + 1] = msg
  BY AppendAny
<1> HIDE DEF more
<1>2. PICK g : JoinsUpTo(frags, n, g) /\ JoinedData(frags) = g[1 .. n]
  BY JoinedValue
<1>3. PICK h : JoinsUpTo(more, n + 1, h) /\ JoinedData(more) = h[1 .. n + 1]
  BY <1>1, JoinedValue
<1> HIDE DEF n
<1> DEFINE S == {j \in Nat : j <= n => h[1 .. j] = g[1 .. j]}
<1>4. /\ g[1 .. 0] = << >>
      /\ \A j \in 0 .. n - 1 : g[1 .. j + 1] = g[1 .. j] \o frags[j + 1].data
  BY <1>1, <1>2, JoinsStep
<1>5. /\ h[1 .. 0] = << >>
      /\ \A j \in 0 .. (n + 1) - 1 : h[1 .. j + 1] = h[1 .. j] \o more[j + 1].data
  <2>1. n + 1 \in Nat
    BY <1>1
  <2> QED BY <1>3, <2>1, JoinsStep
<1>6. 0 \in S
  BY <1>4, <1>5
<1>7. ASSUME NEW j \in Nat, j \in S PROVE j + 1 \in S
  <2>1. SUFFICES ASSUME j + 1 <= n PROVE h[1 .. j + 1] = g[1 .. j + 1]
    BY <1>7
  <2>2. h[1 .. j] = g[1 .. j]
    BY <1>1, <1>7, <2>1
  <2>3. j \in 0 .. n - 1 /\ j \in 0 .. (n + 1) - 1 /\ j + 1 \in 1 .. n
    BY <1>1, <1>7, <2>1
  <2>4. more[j + 1] = frags[j + 1]
    BY <1>1, <2>3
  <2> HIDE DEF S
  <2> QED BY <1>4, <1>5, <2>2, <2>3, <2>4
<1> HIDE DEF S
<1>8. n \in S
  BY <1>1, <1>6, <1>7, InductionOverSet
<1>9. h[1 .. n] = g[1 .. n]
  BY <1>1, <1>8 DEF S
<1>10. n \in 0 .. (n + 1) - 1
  BY <1>1
<1> QED BY <1>1, <1>2, <1>3, <1>5, <1>9, <1>10 DEF more, n

LEMMA JoinedNone == JoinedData(<< >>) = << >>
<1>1. IsSequence(<< >>) /\ Len(<< >>) = 0
  BY DEF IsSequence
<1>2. PICK g : JoinsUpTo(<< >>, 0, g) /\ JoinedData(<< >>) = g[1 .. 0]
  BY <1>1, JoinedValue
<1> QED BY <1>2, JoinsStep

-----------------------------------------------------------------------------
(* The stream of frames *)

IsDataFrame(f) == f.opcode < 8

PieceOf(f) == IF IsDataFrame(f) THEN f.data ELSE << >>

\* What the i-th to the j-th frame add to one data message.
Pieces(frames, i, j) == [n \in 1 .. j - i + 1 |-> PieceOf(frames[i + n - 1])]

Joined(frames, i, j) == FlattenSeq(Pieces(frames, i, j))

\* After the first k frames, the message begun by the i-th is unfinished,
Open(frames, i, k) ==
  /\ i \in 1 .. k
  /\ frames[i].opcode \in {1, 2} /\ ~ frames[i].fin
  /\ \A j \in i + 1 .. k : IsDataFrame(frames[j]) => frames[j].opcode = 0 /\ ~ frames[j].fin

\* or no message is.
NoneOpen(frames, k) ==
  \A j \in 1 .. k :
    IsDataFrame(frames[j]) /\ ~ frames[j].fin =>
      \E m \in j + 1 .. k : IsDataFrame(frames[m])

\* One more frame is one more piece.
LEMMA PiecesGrow ==
  ASSUME NEW frames, NEW i \in Nat \ {0}, NEW j \in Nat, i <= j
  PROVE  /\ IsSequence(Pieces(frames, i, j)) /\ Len(Pieces(frames, i, j)) # 0
         /\ Pieces(frames, i, j + 1) = Append(Pieces(frames, i, j), PieceOf(frames[j + 1]))
<1> DEFINE n == j - i + 1  s == Pieces(frames, i, j)  t == Pieces(frames, i, j + 1)
           e == PieceOf(frames[j + 1])
           T == {PieceOf(frames[m]) : m \in Nat}
<1>1. n \in Nat /\ n # 0 /\ (j + 1) - i + 1 = n + 1 /\ i + (n + 1) - 1 = j + 1
      /\ \A m \in 1 .. n + 1 : i + m - 1 \in Nat
  OBVIOUS
<1>2. s = [m \in 1 .. n |-> PieceOf(frames[i + m - 1])]
  BY DEF Pieces
<1>3. t = [m \in 1 .. n + 1 |-> PieceOf(frames[i + m - 1])]
  BY <1>1 DEF Pieces
<1>4. \A m \in 1 .. n + 1 : PieceOf(frames[i + m - 1]) \in T
  BY <1>1
<1>5. e \in T /\ e = PieceOf(frames[i + (n + 1) - 1])
  BY <1>1
<1> HIDE DEF n, s, t, e, T
<1>6. s \in Seq(T) /\ t \in Seq(T) /\ Len(s) = n /\ Len(t) = n + 1
  <2> DEFINE el(m) == PieceOf(frames[i + m - 1])
  <2>1. \A m \in 1 .. n + 1 : el(m) \in T
    BY <1>4
  <2>2. \A m \in 1 .. n : m \in 1 .. n + 1
    BY <1>1
  <2>3. s = [m \in 1 .. n |-> el(m)] /\ t = [m \in 1 .. n + 1 |-> el(m)]
    BY <1>2, <1>3
  <2> HIDE DEF el
  <2>4. s \in [1 .. n -> T] /\ t \in [1 .. n + 1 -> T] /\ n + 1 \in Nat
    BY <1>1, <2>1, <2>2, <2>3
  <2> HIDE DEF s, t
  <2> QED BY <1>1, <2>4
<1>7. /\ Append(s, e) \in Seq(T) /\ Len(Append(s, e)) = n + 1
      /\ \A m \in 1 .. n : Append(s, e)[m] = s[m]
      /\ Append(s, e)[n + 1] = e
  BY <1>5, <1>6, AppendProperties
<1>8. ASSUME NEW m \in 1 .. n + 1 PROVE t[m] = Append(s, e)[m]
  <2>1. CASE m = n + 1
    BY <1>3, <1>5, <1>7, <2>1
  <2>2. CASE m # n + 1
    <3>1. m \in 1 .. n
      BY <1>1, <2>2
    <3> QED BY <1>2, <1>3, <1>7, <3>1
  <2> QED BY <2>1, <2>2
<1>9. t = Append(s, e)
  BY <1>1, <1>6, <1>7, <1>8, SeqEqual
<1>10. IsSequence(s) /\ Len(s) # 0
  BY <1>1, <1>6 DEF IsSequence
<1> QED BY <1>9, <1>10 DEF s, t, e

LEMMA JoinedGrows ==
  ASSUME NEW frames, NEW i \in Nat \ {0}, NEW j \in Nat, i <= j
  PROVE  Joined(frames, i, j + 1) = Joined(frames, i, j) \o PieceOf(frames[j + 1])
<1> DEFINE s == Pieces(frames, i, j)  e == PieceOf(frames[j + 1])
<1>1. IsSequence(s) /\ Len(s) # 0 /\ Pieces(frames, i, j + 1) = Append(s, e)
  BY PiecesGrow
<1> HIDE DEF s, e
<1>2. FlattenSeq(Append(s, e)) = FlattenSeq(s) \o e
  BY <1>1, FlattenAppend
<1> QED BY <1>1, <1>2 DEF Joined, s, e

LEMMA JoinedFirst ==
  ASSUME NEW frames, NEW i \in Nat \ {0}
  PROVE  Joined(frames, i, i) = PieceOf(frames[i])
<1> DEFINE s == Pieces(frames, i, i)  e == PieceOf(frames[i])
<1>1. i - i + 1 = 1 /\ i + 1 - 1 = i
  OBVIOUS
<1>2. s = [n \in 1 .. 1 |-> PieceOf(frames[i + n - 1])]
  BY <1>1 DEF Pieces
<1>3. IsSequence(s)
  BY PiecesGrow, i <= i
<1>4. s[1] = e /\ Len(s) = 1
  BY <1>1, <1>2
<1> HIDE DEF s, e
<1>5. FlattenSeq(s) = s[1]
  BY <1>3, <1>4, FlattenOne
<1> QED BY <1>4, <1>5 DEF Joined, s, e

LEMMA JoinedOctets ==
  ASSUME NEW frames \in Seq(Frame), NEW i \in 1 .. Len(frames)
  PROVE  \A j \in i .. Len(frames) : Joined(frames, i, j) \in Seq(Octets)
<1>0. Len(frames) \in Nat /\ i \in Nat \ {0}
  OBVIOUS
<1>1. \A m \in 1 .. Len(frames) : PieceOf(frames[m]) \in Seq(Octets)
  <2> SUFFICES ASSUME NEW m \in 1 .. Len(frames) PROVE PieceOf(frames[m]) \in Seq(Octets)
    OBVIOUS
  <2>1. frames[m] \in Frame
    OBVIOUS
  <2>2. frames[m].data \in Seq(Octets)
    BY <2>1, FrameAssumption DEF Octets
  <2> QED BY <2>2 DEF PieceOf
<1> DEFINE S == {n \in Nat : i + n <= Len(frames) => Joined(frames, i, i + n) \in Seq(Octets)}
<1>2. 0 \in S
  <2>1. Joined(frames, i, i) \in Seq(Octets)
    BY <1>0, <1>1, JoinedFirst
  <2>2. i + 0 = i
    BY <1>0
  <2> QED BY <2>1, <2>2
<1>3. ASSUME NEW n \in Nat, n \in S PROVE n + 1 \in S
  <2>1. SUFFICES ASSUME i + (n + 1) <= Len(frames)
                 PROVE  Joined(frames, i, i + (n + 1)) \in Seq(Octets)
    BY <1>3
  <2>2. i + n \in Nat /\ i <= i + n /\ (i + n) + 1 = i + (n + 1)
        /\ (i + n) + 1 \in 1 .. Len(frames) /\ i + n <= Len(frames)
    BY <1>0, <2>1
  <2>3. Joined(frames, i, i + n) \in Seq(Octets)
    BY <1>3, <2>2
  <2>4. PieceOf(frames[(i + n) + 1]) \in Seq(Octets)
    BY <1>1, <2>2
  <2> HIDE DEF S
  <2>5. Joined(frames, i, (i + n) + 1) = Joined(frames, i, i + n) \o PieceOf(frames[(i + n) + 1])
    BY <1>0, <2>2, JoinedGrows
  <2>6. Joined(frames, i, i + n) \o PieceOf(frames[(i + n) + 1]) \in Seq(Octets)
    BY <2>3, <2>4, ConcatProperties
  <2>7. Joined(frames, i, (i + n) + 1) \in Seq(Octets)
    BY <2>5, <2>6, Zenon
  <2> QED BY <2>2, <2>7, Zenon
<1> HIDE DEF S
<1>4. Nat \subseteq S
  BY <1>2, <1>3, InductionOverSet
<1> SUFFICES ASSUME NEW j \in i .. Len(frames) PROVE Joined(frames, i, j) \in Seq(Octets)
  OBVIOUS
<1>5. j - i \in Nat /\ i + (j - i) = j /\ i + (j - i) <= Len(frames)
  BY <1>0
<1>6. j - i \in S
  BY <1>4, <1>5
<1> QED BY <1>5, <1>6 DEF S

\* Open and NoneOpen are what the stream calls an unfinished message.
LEMMA UnfinishedWhenOpen ==
  ASSUME NEW k \in Nat, NEW i, Open(sent, i, k), \A j \in 1 .. k : sent[j].opcode \in Nat
  PROVE  Stream!Unfinished(k + 1)
<1> DEFINE D == Stream!DataBefore(k + 1)
<1>1. D = {j \in 1 .. k : IsDataFrame(sent[j])}
  BY DEF Stream!DataBefore, Stream!IsData, IsDataFrame
<1>2. i \in 1 .. k /\ sent[i].opcode \in {1, 2}
  BY DEF Open
<1>3. i \in D
  BY <1>1, <1>2 DEF IsDataFrame
<1>4. D \in SUBSET (1 .. k) /\ D # {}
  BY <1>1, <1>3
<1> DEFINE m == Max(D)
<1>5. m \in D /\ \A x \in D : x <= m
  BY <1>4, LargestElement
<1> HIDE DEF m
<1>6. ~ sent[m].fin
  <2>1. CASE m = i
    BY <2>1 DEF Open
  <2>2. CASE m # i
    <3>1. i <= m /\ m \in 1 .. k /\ IsDataFrame(sent[m])
      BY <1>1, <1>3, <1>5
    <3>2. m \in i + 1 .. k
      BY <1>2, <2>2, <3>1
    <3> QED BY <3>1, <3>2 DEF Open
  <2> QED BY <2>1, <2>2
<1> QED BY <1>5, <1>6 DEF Stream!Unfinished

LEMMA FinishedWhenNoneOpen ==
  ASSUME NEW k \in Nat, NoneOpen(sent, k)
  PROVE  ~ Stream!Unfinished(k + 1)
<1> DEFINE D == Stream!DataBefore(k + 1)
<1>1. D = {j \in 1 .. k : IsDataFrame(sent[j])}
  BY DEF Stream!DataBefore, Stream!IsData, IsDataFrame
<1> HIDE DEF D
<1>2. ASSUME NEW j \in D, ~ sent[j].fin, \A m \in D : m <= j PROVE FALSE
  <2>1. PICK m \in j + 1 .. k : IsDataFrame(sent[m])
    BY <1>1, <1>2 DEF NoneOpen
  <2>2. j \in 1 .. k
    BY <1>1, <1>2
  <2>3. m \in 1 .. k /\ ~ (m <= j)
    BY <2>1, <2>2
  <2> QED BY <1>1, <1>2, <2>1, <2>3
<1> QED BY <1>2 DEF Stream!Unfinished, D

\* The stream's FlattenSeq is that of the community modules.
LEMMA SameFlatten ==
  ASSUME NEW s
  PROVE  Stream!S!FlattenSeq(s) = FlattenSeq(s)
  BY DEF Stream!S!FlattenSeq, FlattenSeq

LEMMA PayloadJoined ==
  ASSUME NEW j, ~ Stream!IsControl(sent[j])
  PROVE  Stream!Payload(j) = Joined(sent, Stream!First(j), j)
<1> DEFINE i == Stream!First(j)
<1>1. Pieces(sent, i, j) =
        [k \in 1 .. j - i + 1 |->
           LET f == sent[i + k - 1] IN IF Stream!IsData(f) THEN f.data ELSE << >>]
  BY DEF Pieces, PieceOf, Stream!IsData, IsDataFrame
<1>2. Stream!Payload(j) = Stream!S!FlattenSeq(
        [k \in 1 .. j - i + 1 |->
           LET f == sent[i + k - 1] IN IF Stream!IsData(f) THEN f.data ELSE << >>])
  BY Zenon DEF Stream!Payload
<1>3. Stream!Payload(j) = Stream!S!FlattenSeq(Pieces(sent, i, j))
  BY <1>1, <1>2, Zenon
<1> HIDE DEF i
<1>4. Stream!Payload(j) = FlattenSeq(Pieces(sent, i, j))
  BY <1>3, SameFlatten, Zenon
<1> QED BY <1>4 DEF Joined, i

\* A frame with an opcode of its own begins its message.
LEMMA WholeFrame ==
  ASSUME NEW j \in Nat \ {0}, sent[j].opcode \in Nat \ {0}
  PROVE  Stream!First(j) = j /\ Stream!Payload(j) = sent[j].data
<1>1. Stream!First(j) = j
  BY DEF Stream!First
<1>2. CASE Stream!IsControl(sent[j])
  BY <1>1, <1>2 DEF Stream!Payload
<1>3. CASE ~ Stream!IsControl(sent[j])
  <2>1. Stream!Payload(j) = Joined(sent, j, j)
    BY <1>1, <1>3, PayloadJoined
  <2>2. IsDataFrame(sent[j])
    BY <1>3 DEF IsDataFrame, Stream!IsControl
  <2>3. Joined(sent, j, j) = PieceOf(sent[j])
    BY JoinedFirst
  <2> QED BY <1>1, <2>1, <2>2, <2>3, Zenon DEF PieceOf
<1> QED BY <1>1, <1>2, <1>3

\* A continuation belongs to the message that is unfinished before it.
LEMMA ContinuedFrame ==
  ASSUME NEW k \in Nat, NEW i, Open(sent, i, k), sent[k + 1].opcode = 0
  PROVE  /\ Stream!First(k + 1) = i
         /\ Stream!Payload(k + 1) = Joined(sent, i, k + 1)
<1> DEFINE D == Stream!DataBefore(k + 1)
           begins(j) == sent[j].opcode # 0 /\ \A n \in D : sent[n].opcode # 0 => n <= j
<1>1. D = {j \in 1 .. k : IsDataFrame(sent[j])}
  BY DEF Stream!DataBefore, Stream!IsData, IsDataFrame
<1>2. i \in 1 .. k /\ sent[i].opcode \in {1, 2}
  BY DEF Open
<1>3. i \in D
  BY <1>1, <1>2 DEF IsDataFrame
<1>4. ASSUME NEW n \in D, sent[n].opcode # 0 PROVE n <= i
  <2>1. n \in 1 .. k /\ IsDataFrame(sent[n])
    BY <1>1
  <2>2. n \notin i + 1 .. k
    BY <1>4, <2>1 DEF Open
  <2> QED BY <1>2, <2>1, <2>2
<1>5. begins(i)
  BY <1>2, <1>4
<1>6. ASSUME NEW j \in D, begins(j) PROVE j = i
  <2>1. i <= j
    BY <1>2, <1>3, <1>6
  <2>2. j <= i
    BY <1>4, <1>6
  <2>3. j \in 1 .. k
    BY <1>1
  <2> QED BY <1>2, <2>1, <2>2, <2>3
<1>7. Stream!First(k + 1) = CHOOSE j \in D : begins(j)
  BY Zenon DEF Stream!First
<1> HIDE DEF D, begins
<1>8. Stream!First(k + 1) = i
  BY <1>3, <1>5, <1>6, <1>7, Zenon
<1>9. ~ Stream!IsControl(sent[k + 1])
  BY DEF Stream!IsControl
<1> QED BY <1>8, <1>9, PayloadJoined

-----------------------------------------------------------------------------
(* Texts and close codes *)

LEMMA SameText ==
  ASSUME NEW s
  PROVE  Stream!U!WellFormedText(s) = WellFormedText(s)
<1>1. ASSUME NEW t PROVE Stream!U!WellFormedChar(t) = WellFormedChar(t)
  BY Zenon DEF Stream!U!WellFormedChar, WellFormedChar, Stream!U!WellFormedRows, WellFormedRows
<1> QED BY <1>1, Zenon DEF Stream!U!WellFormedText, WellFormedText

LEMMA EmptyText == WellFormedText(<< >>)
<1>1. {} \in SUBSET (1 .. Len(<< >>)) /\ ~ (<< >> # << >>)
  OBVIOUS
<1> QED BY <1>1, Zenon DEF WellFormedText

\* A Close carries no code, or one of those that are allowed.
CodeFine(data) ==
  data = << >> \/ data[1] * 256 + data[2] \in VALID_CLOSE_CODES \cup 3000 .. 4999

\* The reason of a Close.
AfterCode(data) == SubSeq(data, 3, Len(data))

\* What validate says of a message the stream may hold.
LEMMA WhatValidateSays ==
  ASSUME NEW msg, msg.data \in Seq(Octets),
         msg.type \in {"Text", "Binary", "Close", "Ping", "Pong"},
         IsControl(msg) => Len(msg.data) <= 125,
         msg.type = "Close" => Len(msg.data) # 1
  PROVE  /\ msg.type = "Text" =>
              Validate(msg) = IF WellFormedText(msg.data) THEN "ok" ELSE "Invalid UTF-8"
         /\ msg.type = "Close" =>
              Validate(msg) = IF ~ WellFormedText(AfterCode(msg.data)) THEN "Invalid UTF-8"
                              ELSE IF CodeFine(msg.data) THEN "ok" ELSE "Invalid close code"
         /\ msg.type \in {"Binary", "Ping", "Pong"} => Validate(msg) = "ok"
<1> DEFINE data == msg.data
           text == msg.type = "Text"  close == msg.type = "Close"
           control == IsControl(msg)
           large == Len(data) > 125  one == Len(data) = 1  two == Len(data) >= 2
           valid == IsValidUtf8(data)
           reason == IsValidUtf8(CloseReason(msg))
           badCode == CloseCode(msg) \notin VALID_CLOSE_CODES \cup 3000 .. 4999
<1>1. valid <=> WellFormedText(data)
  BY DecoderIsExact
<1>2. reason <=> WellFormedText(AfterCode(data))
  <2>1. AfterCode(data) \in Seq(Octets)
    BY SliceOfOctets DEF AfterCode
  <2>2. IsValidUtf8(AfterCode(data)) <=> WellFormedText(AfterCode(data))
    BY <2>1, DecoderIsExact
  <2> QED BY <2>2 DEF AfterCode, CloseReason
<1>3. data = << >> => reason
  <2>1. AfterCode(<< >>) = << >>
    BY DEF AfterCode
  <2> QED BY <1>2, <2>1, EmptyText
<1>4. CodeFine(data) <=> data = << >> \/ ~ badCode
  BY DEF CodeFine, CloseCode
<1>5. Len(data) \in Nat /\ (Len(data) = 0 <=> data = << >>)
  OBVIOUS
<1>6. (control => ~ large) /\ (close => ~ one)
  BY <1>5
<1>7. close => (two <=> data # << >>)
  <2> DEFINE n == Len(data)
  <2>1. n \in Nat /\ (n = 0 <=> data = << >>) /\ (close => n # 1)
    BY <1>5
  <2>2. ASSUME NEW x \in Nat, x # 1 PROVE x >= 2 <=> x # 0
    BY <2>2
  <2>3. two <=> n >= 2
    OBVIOUS
  <2> HIDE DEF n, close, two, data
  <2> QED BY <2>1, <2>2, <2>3
<1>9. Validate(msg) =
        CASE text /\ ~ valid -> "Invalid UTF-8"
          [] control /\ large -> "Control too large"
          [] close /\ one -> "out of bounds"
          [] close /\ two /\ ~ reason -> "Invalid UTF-8"
          [] close /\ two /\ reason /\ badCode -> "Invalid close code"
          [] OTHER -> "ok"
  BY DEF Validate
<1>10. /\ text => ~ close /\ ~ control
       /\ msg.type \in {"Binary", "Ping", "Pong"} => ~ close /\ ~ text
  BY DEF IsControl
<1> HIDE DEF text, close, control, large, one, two, valid, reason, badCode
<1>11. text => Validate(msg) = IF valid THEN "ok" ELSE "Invalid UTF-8"
  BY <1>9, <1>10
<1>12. ~ text /\ ~ close => Validate(msg) = "ok"
  BY <1>6, <1>9
<1>13. ~ text /\ close => Validate(msg) =
                 IF two /\ ~ reason THEN "Invalid UTF-8"
                 ELSE IF two /\ badCode THEN "Invalid close code" ELSE "ok"
  BY <1>6, <1>9
<1>14. text => ~ close
  BY <1>10
<1>15. close => Validate(msg) =
                 IF ~ reason THEN "Invalid UTF-8"
                 ELSE IF data = << >> \/ ~ badCode THEN "ok" ELSE "Invalid close code"
  BY <1>3, <1>7, <1>13, <1>14
<1> QED BY <1>1, <1>2, <1>4, <1>10, <1>11, <1>12, <1>15 DEF text, close

-----------------------------------------------------------------------------
(* What becomes of a frame *)

\* The message the j-th frame belongs to begins with the i-th.
Belongs(frames, i, j) ==
  IF frames[j].opcode = 0 THEN Open(frames, i, j - 1) ELSE i = j

\* The message the j-th frame completes.
MessageFrom(frames, i, j) ==
  [type |-> TypeOfOpcode[frames[i].opcode], final |-> TRUE,
   data |-> IF IsDataFrame(frames[j]) THEN Joined(frames, i, j) ELSE frames[j].data]

\* No new message begins inside another.
InItsPlace(frames, j) == frames[j].opcode \in {1, 2} => NoneOpen(frames, j - 1)

\* The j-th frame is one the reader accepts.
Fine(frames, j) ==
  /\ Stream!WellFormed(frames[j]) /\ InItsPlace(frames, j)
  /\ \E i \in 1 .. j :
       /\ Belongs(frames, i, j)
       /\ frames[j].fin => Validate(MessageFrom(frames, i, j)) = "ok"

LEMMA FrameFields ==
  ASSUME NEW f \in Frame
  PROVE  /\ f.opcode \in Nat /\ f.fin \in BOOLEAN /\ f.data \in Seq(Octets)
         /\ Stream!WellFormed(f) =>
              /\ f.opcode \in {0, 1, 2, 8, 9, 10}
              /\ f.opcode >= 8 => f.fin /\ Len(f.data) <= 125
              /\ f.opcode = 8 => Len(f.data) # 1
<1>1. /\ f.opcode \in 0 .. 15 /\ f.fin \in BOOLEAN /\ f.data \in Seq(Octets)
      /\ f.form = 7 => Len(f.data) <= 125
  BY FrameAssumption DEF Octets
<1> QED BY <1>1 DEF Stream!WellFormed, Stream!IsControl

\* The verdict of the stream on a frame that is well-formed and in order.
LEMMA OffenceOfOrdered ==
  ASSUME NEW j, Stream!WellFormed(sent[j]), Stream!InOrder(j), sent[j].fin \in BOOLEAN
  PROVE  Stream!Offence(j) =
           IF ~ sent[j].fin THEN "none"
           ELSE IF ~ WellFormedText(Stream!TextOf(j)) THEN "1007"
           ELSE IF Stream!BadClose(j) THEN "1002" ELSE "none"
<1> DEFINE text == Stream!U!WellFormedText(Stream!TextOf(j))
           formed == Stream!WellFormed(sent[j])
           order == Stream!InOrder(j)
           ends == Stream!Completes(j)
           bad == Stream!BadClose(j)
<1>1. Stream!Offence(j) =
        CASE ~ formed \/ ~ order -> "1002"
          [] formed /\ order /\ ends /\ ~ text -> "1007"
          [] formed /\ order /\ ends /\ text /\ bad -> "1002"
          [] OTHER -> "none"
  BY DEF Stream!Offence
<1>2. text = WellFormedText(Stream!TextOf(j))
  BY SameText
<1>3. ends = sent[j].fin
  BY DEF Stream!Completes
<1>4. formed /\ order
  OBVIOUS
<1> HIDE DEF text, formed, order, ends, bad
<1>5. Stream!Offence(j) =
        IF ~ ends THEN "none" ELSE IF ~ text THEN "1007" ELSE IF bad THEN "1002" ELSE "none"
  BY <1>1, <1>4
<1> QED BY <1>2, <1>3, <1>5 DEF bad

LEMMA OffenceOfUnfit ==
  ASSUME NEW j, ~ Stream!WellFormed(sent[j]) \/ ~ Stream!InOrder(j)
  PROVE  Stream!Offence(j) = "1002"
<1> DEFINE text == Stream!U!WellFormedText(Stream!TextOf(j))
           formed == Stream!WellFormed(sent[j])
           order == Stream!InOrder(j)
           ends == Stream!Completes(j)
           bad == Stream!BadClose(j)
<1>1. Stream!Offence(j) =
        CASE ~ formed \/ ~ order -> "1002"
          [] formed /\ order /\ ends /\ ~ text -> "1007"
          [] formed /\ order /\ ends /\ text /\ bad -> "1002"
          [] OTHER -> "none"
  BY DEF Stream!Offence
<1>2. ~ formed \/ ~ order
  OBVIOUS
<1> HIDE DEF text, formed, order, ends, bad
<1> QED BY <1>1, <1>2

LEMMA BelongingMessage ==
  ASSUME sent \in Seq(Frame), NEW j \in 1 .. Len(sent), NEW i \in 1 .. j,
         Stream!WellFormed(sent[j]), InItsPlace(sent, j), Belongs(sent, i, j)
  PROVE  /\ Stream!InOrder(j)
         /\ Stream!First(j) = i
         /\ Stream!Payload(j) = MessageFrom(sent, i, j).data
         /\ MessageFrom(sent, i, j).data \in Seq(Octets)
         /\ sent[i].opcode \in {1, 2, 8, 9, 10}
         /\ sent[i].opcode >= 8 \/ sent[j].opcode >= 8 => i = j
<1>1. Len(sent) \in Nat /\ j \in Nat \ {0} /\ i \in Nat \ {0} /\ i <= j
      /\ i \in 1 .. Len(sent) /\ j \in i .. Len(sent)
  OBVIOUS
<1>2. sent[j] \in Frame /\ sent[i] \in Frame
  BY <1>1
<1>3. \A n \in 1 .. Len(sent) : sent[n].opcode \in Nat
  <2> SUFFICES ASSUME NEW n \in 1 .. Len(sent) PROVE sent[n].opcode \in Nat
    OBVIOUS
  <2>1. sent[n] \in Frame
    OBVIOUS
  <2> QED BY <2>1, FrameFields
<1>4. /\ sent[j].opcode \in {0, 1, 2, 8, 9, 10} /\ sent[j].data \in Seq(Octets)
  BY <1>2, FrameFields
<1>5. Joined(sent, i, j) \in Seq(Octets)
  BY <1>1, JoinedOctets
<1>6. MessageFrom(sent, i, j).data =
        IF IsDataFrame(sent[j]) THEN Joined(sent, i, j) ELSE sent[j].data
  BY DEF MessageFrom
<1>7. CASE sent[j].opcode = 0
  <2> DEFINE k == j - 1
  <2>1. k \in Nat /\ k + 1 = j /\ \A n \in 1 .. k : n \in 1 .. Len(sent)
    BY <1>1
  <2>2. Open(sent, i, k)
    BY <1>7 DEF Belongs
  <2> HIDE DEF k
  <2>3. Stream!Unfinished(j)
    BY <1>3, <2>1, <2>2, UnfinishedWhenOpen
  <2>4. Stream!First(j) = i /\ Stream!Payload(j) = Joined(sent, i, j)
    BY <1>7, <2>1, <2>2, ContinuedFrame
  <2>5. Stream!InOrder(j)
    BY <1>7, <2>3 DEF Stream!InOrder
  <2>6. sent[i].opcode \in {1, 2}
    BY <2>2 DEF Open
  <2>7. IsDataFrame(sent[j])
    BY <1>7 DEF IsDataFrame
  <2> QED BY <1>5, <1>6, <1>7, <2>4, <2>5, <2>6, <2>7
<1>8. CASE sent[j].opcode # 0
  <2>1. i = j
    BY <1>8 DEF Belongs
  <2>2. Stream!First(j) = j /\ Stream!Payload(j) = sent[j].data
    BY <1>1, <1>4, <1>8, WholeFrame
  <2>3. MessageFrom(sent, i, j).data = sent[j].data
    <3>1. Joined(sent, j, j) = PieceOf(sent[j])
      BY <1>1, JoinedFirst
    <3> QED BY <1>6, <2>1, <3>1, Zenon DEF PieceOf
  <2>4. Stream!InOrder(j)
    <3>1. CASE sent[j].opcode \in {1, 2}
      <4> DEFINE k == j - 1
      <4>1. k \in Nat /\ k + 1 = j /\ NoneOpen(sent, k)
        BY <1>1, <3>1 DEF InItsPlace
      <4> HIDE DEF k
      <4>2. ~ Stream!Unfinished(j)
        BY <4>1, FinishedWhenNoneOpen
      <4> QED BY <1>8, <4>2 DEF Stream!InOrder
    <3>2. CASE sent[j].opcode \in {8, 9, 10}
      BY <3>2 DEF Stream!InOrder, Stream!IsData
    <3> QED BY <1>4, <1>8, <3>1, <3>2
  <2> QED BY <1>4, <1>8, <2>1, <2>2, <2>3, <2>4
<1> QED BY <1>7, <1>8

\* The reader's verdict on the message a frame completes is the stream's.
LEMMA SameVerdict ==
  ASSUME sent \in Seq(Frame), NEW j \in 1 .. Len(sent), NEW i \in 1 .. j,
         Stream!WellFormed(sent[j]), InItsPlace(sent, j), Belongs(sent, i, j)
  PROVE  /\ sent[j].fin =>
              /\ Stream!Message(j) = MessageFrom(sent, i, j)
              /\ Stream!Offence(j) =
                   IF Validate(MessageFrom(sent, i, j)) = "ok" THEN "none"
                   ELSE CodeForError(Validate(MessageFrom(sent, i, j)))
         /\ ~ sent[j].fin => Stream!Offence(j) = "none"
<1> DEFINE msg == MessageFrom(sent, i, j)  op == sent[i].opcode
<1>1. /\ Stream!InOrder(j) /\ Stream!First(j) = i /\ Stream!Payload(j) = msg.data
      /\ msg.data \in Seq(Octets) /\ op \in {1, 2, 8, 9, 10}
      /\ op >= 8 \/ sent[j].opcode >= 8 => i = j
  BY BelongingMessage
<1>2. sent[j] \in Frame
  OBVIOUS
<1>3. /\ sent[j].fin \in BOOLEAN
      /\ sent[j].opcode \in {0, 1, 2, 8, 9, 10}
      /\ sent[j].opcode >= 8 => Len(sent[j].data) <= 125
      /\ sent[j].opcode = 8 => Len(sent[j].data) # 1
  BY <1>2, FrameFields
<1>4. Stream!Offence(j) =
           IF ~ sent[j].fin THEN "none"
           ELSE IF ~ WellFormedText(Stream!TextOf(j)) THEN "1007"
           ELSE IF Stream!BadClose(j) THEN "1002" ELSE "none"
  BY <1>1, <1>3, OffenceOfOrdered
<1>5. /\ msg.type = TypeOfOpcode[op] /\ msg.final = TRUE
      /\ msg.data = IF IsDataFrame(sent[j]) THEN Joined(sent, i, j) ELSE sent[j].data
      /\ msg = [type |-> msg.type, final |-> TRUE, data |-> msg.data]
  BY DEF MessageFrom
<1> HIDE DEF msg
<1>6. /\ op = 1 => msg.type = "Text"
      /\ op = 2 => msg.type = "Binary"
      /\ op = 8 => msg.type = "Close"
      /\ op = 9 => msg.type = "Ping"
      /\ op = 10 => msg.type = "Pong"
  BY <1>1, <1>5 DEF TypeOfOpcode, Opcodes
<1>7. Stream!Kind(sent[i]) = msg.type
  <2>1. Stream!Kind(sent[i]) =
          CASE op = 1 -> "Text"  [] op = 2 -> "Binary"
            [] op = 8 -> "Close" [] op = 9 -> "Ping" [] op = 10 -> "Pong"
    BY DEF Stream!Kind
  <2> HIDE DEF op
  <2> QED BY <1>1, <1>6, <2>1
<1>8. Stream!Message(j) = msg
  BY <1>1, <1>5, <1>7 DEF Stream!Message
<1>9. op >= 8 => i = j /\ msg.data = sent[j].data
  <2>1. ASSUME op >= 8 PROVE msg.data = sent[j].data
    <3>1. ~ IsDataFrame(sent[j])
      BY <1>1, <2>1 DEF IsDataFrame
    <3> QED BY <1>5, <3>1
  <2> QED BY <1>1, <2>1
<1>10. /\ msg.type \in {"Text", "Binary", "Close", "Ping", "Pong"}
       /\ IsControl(msg) => Len(msg.data) <= 125
       /\ msg.type = "Close" => Len(msg.data) # 1
  <2> HIDE DEF op
  <2>1. IsControl(msg) => op \in {8, 9, 10}
    BY <1>1, <1>6 DEF IsControl
  <2>2. msg.type = "Close" => op = 8
    BY <1>1, <1>6
  <2>3. msg.type \in {"Text", "Binary", "Close", "Ping", "Pong"}
    BY <1>1, <1>6
  <2>4. op \in {8, 9, 10} => msg.data = sent[j].data /\ sent[j].opcode = op
    BY <1>9 DEF op
  <2> QED BY <1>3, <2>1, <2>2, <2>3, <2>4
<1>11. /\ msg.type = "Text" =>
            Validate(msg) = IF WellFormedText(msg.data) THEN "ok" ELSE "Invalid UTF-8"
       /\ msg.type = "Close" =>
            Validate(msg) = IF ~ WellFormedText(AfterCode(msg.data)) THEN "Invalid UTF-8"
                            ELSE IF CodeFine(msg.data) THEN "ok" ELSE "Invalid close code"
       /\ msg.type \in {"Binary", "Ping", "Pong"} => Validate(msg) = "ok"
  BY <1>1, <1>10, WhatValidateSays
<1> DEFINE text == Stream!TextOf(j)  bad == Stream!BadClose(j)
<1>12. text = CASE op = 1 -> msg.data
                [] sent[j].opcode = 8 -> AfterCode(msg.data)
                [] OTHER -> << >>
  BY <1>1 DEF Stream!TextOf, AfterCode
<1>13. bad <=> sent[j].opcode = 8 /\ ~ CodeFine(msg.data)
  <2> DEFINE d == msg.data  code == d[1] * 256 + d[2]
             C == VALID_CLOSE_CODES \cup 3000 .. 4999
  <2>1. bad <=> sent[j].opcode = 8 /\ d # << >> /\ code \notin C
    <3> DEFINE p == Stream!Payload(j)
    <3>1. bad <=> /\ sent[j].opcode = 8
                  /\ p # << >>
                  /\ p[1] * 256 + p[2] \notin C
      BY SMT DEF Stream!BadClose
    <3>2. p = d
      BY <1>1
    <3> HIDE DEF p, d, bad, C
    <3> QED BY <3>1, <3>2
  <2>2. CodeFine(d) <=> d = << >> \/ code \in C
    BY Zenon DEF CodeFine
  <2> HIDE DEF d, C, code, bad
  <2>3. bad <=> sent[j].opcode = 8 /\ ~ CodeFine(d)
    BY <2>1, <2>2
  <2> QED BY <2>3 DEF d
<1> HIDE DEF text, bad
<1>14. CASE op = 1
  <2>1. text = msg.data /\ ~ bad
    BY <1>1, <1>12, <1>13, <1>14
  <2> QED BY <1>4, <1>6, <1>8, <1>11, <1>14, <2>1 DEF CodeForError, msg, text, bad
<1>15. CASE op = 8
  <2>1. text = AfterCode(msg.data) /\ (bad <=> ~ CodeFine(msg.data))
    BY <1>9, <1>12, <1>13, <1>15
  <2> QED BY <1>4, <1>6, <1>8, <1>11, <1>15, <2>1 DEF CodeForError, msg, text, bad
<1>16. CASE op \in {2, 9, 10}
  <2>1. text = << >> /\ ~ bad
    BY <1>1, <1>12, <1>13, <1>16
  <2> QED BY <1>4, <1>6, <1>8, <1>11, <1>16, <2>1, EmptyText DEF CodeForError, msg, text, bad
<1> QED BY <1>1, <1>14, <1>15, <1>16

LEMMA FineIsFaultless ==
  ASSUME sent \in Seq(Frame), NEW j \in 1 .. Len(sent), Fine(sent, j)
  PROVE  Stream!Offence(j) = "none"
<1>1. PICK i \in 1 .. j : /\ Belongs(sent, i, j)
                          /\ sent[j].fin => Validate(MessageFrom(sent, i, j)) = "ok"
  BY DEF Fine
<1>2. Stream!WellFormed(sent[j]) /\ InItsPlace(sent, j)
  BY DEF Fine
<1>3. sent[j].fin \in BOOLEAN
  <2>1. sent[j] \in Frame
    OBVIOUS
  <2> QED BY <2>1, FrameFields
<1> QED BY <1>1, <1>2, <1>3, SameVerdict

-----------------------------------------------------------------------------
(* What the reader has made of the first k frames *)

\* Those of them that complete a message.
Completing(frames, k) == {j \in 1 .. k : frames[j].fin}

\* All of them are accepted, each of those that complete a message has led to
\* a delivery, and the fragments kept are those of the message that is still
\* unfinished, if there is one.
Caught(frames, k, frags, msgs) ==
  /\ k \in 0 .. Len(frames)
  /\ \A j \in 1 .. k : Fine(frames, j)
  /\ Cardinality(Completing(frames, k)) = Len(msgs)
  /\ frags = << >> => NoneOpen(frames, k)
  /\ frags # << >> =>
       \E i : /\ Open(frames, i, k)
              /\ frags[1].type = TypeOfOpcode[frames[i].opcode]
              /\ JoinedData(frags) = Joined(frames, i, k)

LEMMA OpenGoesOn ==
  ASSUME NEW frames, NEW k \in Nat, NEW i, Open(frames, i, k),
         IsDataFrame(frames[k + 1]) => frames[k + 1].opcode = 0 /\ ~ frames[k + 1].fin
  PROVE  Open(frames, i, k + 1)
<1>1. i \in 1 .. k + 1 /\ frames[i].opcode \in {1, 2} /\ ~ frames[i].fin /\ i \in Nat
  BY DEF Open
<1>2. ASSUME NEW j \in i + 1 .. k + 1, IsDataFrame(frames[j])
      PROVE  frames[j].opcode = 0 /\ ~ frames[j].fin
  <2>1. CASE j = k + 1
    BY <1>2, <2>1
  <2>2. CASE j # k + 1
    <3>1. j \in i + 1 .. k
      BY <1>1, <2>2
    <3> QED BY <1>2, <3>1 DEF Open
  <2> QED BY <2>1, <2>2
<1> QED BY <1>1, <1>2 DEF Open

LEMMA OpenBegins ==
  ASSUME NEW frames, NEW k \in Nat \ {0}, frames[k].opcode \in {1, 2}, ~ frames[k].fin
  PROVE  Open(frames, k, k)
<1>1. k \in 1 .. k /\ k + 1 .. k = {}
  OBVIOUS
<1> QED BY <1>1 DEF Open

LEMMA NoneOpenGoesOn ==
  ASSUME NEW frames, NEW k \in Nat,
         IsDataFrame(frames[k + 1]) => frames[k + 1].fin,
         IsDataFrame(frames[k + 1]) \/ NoneOpen(frames, k)
  PROVE  NoneOpen(frames, k + 1)
<1> SUFFICES ASSUME NEW j \in 1 .. k + 1, IsDataFrame(frames[j]), ~ frames[j].fin
             PROVE  \E m \in j + 1 .. k + 1 : IsDataFrame(frames[m])
  BY DEF NoneOpen
<1>1. j \in 1 .. k
  <2>1. j # k + 1
    OBVIOUS
  <2> QED BY <2>1
<1>2. CASE IsDataFrame(frames[k + 1])
  <2>1. k + 1 \in j + 1 .. k + 1
    BY <1>1
  <2> QED BY <1>2, <2>1
<1>3. CASE NoneOpen(frames, k)
  <2>1. PICK m \in j + 1 .. k : IsDataFrame(frames[m])
    BY <1>1, <1>3 DEF NoneOpen
  <2>2. m \in j + 1 .. k + 1
    BY <1>1, <2>1
  <2> QED BY <2>1, <2>2
<1> QED BY <1>2, <1>3

LEMMA CountGrows ==
  ASSUME NEW frames, NEW k \in Nat, NEW n \in Nat,
         Cardinality(Completing(frames, k)) = n
  PROVE  /\ frames[k + 1].fin =>
              Cardinality(Completing(frames, k + 1)) = n + 1
         /\ ~ frames[k + 1].fin =>
              Cardinality(Completing(frames, k + 1)) = n
<1> DEFINE D == {j \in 1 .. k : frames[j].fin}  E == {j \in 1 .. k + 1 : frames[j].fin}
<1>1. IsFiniteSet(D)
  <2>1. IsFiniteSet(1 .. k)
    BY FS_Interval
  <2> QED BY <2>1, FS_Subset
<1>2. ~ frames[k + 1].fin => E = D
  <2>1. \A j \in 1 .. k + 1 : j \in 1 .. k \/ j = k + 1
    OBVIOUS
  <2>2. \A j \in 1 .. k : j \in 1 .. k + 1
    OBVIOUS
  <2> QED BY <2>1, <2>2
<1>3. frames[k + 1].fin => E = D \cup {k + 1}
  <2>1. \A j \in 1 .. k + 1 : j \in 1 .. k \/ j = k + 1
    OBVIOUS
  <2>2. \A j \in 1 .. k : j \in 1 .. k + 1
    OBVIOUS
  <2>3. k + 1 \in 1 .. k + 1
    OBVIOUS
  <2> QED BY <2>1, <2>2, <2>3
<1>4. k + 1 \notin D
  OBVIOUS
<1>5. Cardinality(D) = n
  BY DEF Completing
<1> HIDE DEF D, E
<1>6. Cardinality(D \cup {k + 1}) = Cardinality(D) + 1
  BY <1>1, <1>4, FS_AddElement
<1>7. /\ frames[k + 1].fin => Cardinality(E) = n + 1
      /\ ~ frames[k + 1].fin => Cardinality(E) = n
  BY <1>2, <1>3, <1>5, <1>6
<1> QED BY <1>7 DEF E, Completing

-----------------------------------------------------------------------------
(* One more frame sent changes nothing about those before it *)

LEMMA SameBefore ==
  ASSUME NEW frames, NEW more, NEW n \in Nat, \A m \in 1 .. n : more[m] = frames[m],
         NEW k \in 0 .. n
  PROVE  /\ NoneOpen(frames, k) => NoneOpen(more, k)
         /\ \A i : Open(frames, i, k) => /\ Open(more, i, k)
                                         /\ more[i] = frames[i]
                                         /\ Joined(more, i, k) = Joined(frames, i, k)
         /\ \A i \in 1 .. k : Joined(more, i, k) = Joined(frames, i, k)
<1>1. \A m \in 1 .. k : m \in Nat /\ more[m] = frames[m]
  OBVIOUS
<1>2. NoneOpen(frames, k) => NoneOpen(more, k)
  <2> SUFFICES ASSUME NoneOpen(frames, k),
                      NEW j \in 1 .. k, IsDataFrame(more[j]), ~ more[j].fin
               PROVE  \E m \in j + 1 .. k : IsDataFrame(more[m])
    BY DEF NoneOpen
  <2>1. IsDataFrame(frames[j]) /\ ~ frames[j].fin
    BY <1>1
  <2>2. PICK m \in j + 1 .. k : IsDataFrame(frames[m])
    BY <2>1 DEF NoneOpen
  <2>3. m \in 1 .. k
    OBVIOUS
  <2> QED BY <1>1, <2>2, <2>3
<1>3. ASSUME NEW i \in 1 .. k PROVE Joined(more, i, k) = Joined(frames, i, k)
  <2> DEFINE w == k - i + 1
  <2>1. \A m \in 1 .. w : i + m - 1 \in 1 .. k
    OBVIOUS
  <2> HIDE DEF w
  <2>2. \A m \in 1 .. w : more[i + m - 1] = frames[i + m - 1]
    BY <1>1, <2>1
  <2>3. [m \in 1 .. w |-> PieceOf(more[i + m - 1])] = [m \in 1 .. w |-> PieceOf(frames[i + m - 1])]
    BY <2>2
  <2>4. Pieces(more, i, k) = Pieces(frames, i, k)
    BY <2>3 DEF Pieces, w
  <2> QED BY <2>4 DEF Joined
<1>4. ASSUME NEW i, Open(frames, i, k)
      PROVE  /\ Open(more, i, k) /\ more[i] = frames[i]
             /\ Joined(more, i, k) = Joined(frames, i, k)
  <2>1. i \in 1 .. k /\ frames[i].opcode \in {1, 2} /\ ~ frames[i].fin
    BY <1>4 DEF Open
  <2>2. more[i] = frames[i]
    BY <1>1, <2>1
  <2>3. ASSUME NEW j \in i + 1 .. k, IsDataFrame(more[j])
        PROVE  more[j].opcode = 0 /\ ~ more[j].fin
    <3>1. j \in 1 .. k
      BY <2>1
    <3>2. more[j] = frames[j]
      BY <1>1, <3>1
    <3> QED BY <1>4, <2>3, <3>2 DEF Open
  <2>4. Open(more, i, k)
    BY <2>1, <2>2, <2>3 DEF Open
  <2> QED BY <1>3, <2>1, <2>2, <2>4
<1> QED BY <1>2, <1>3, <1>4

LEMMA FineKept ==
  ASSUME NEW frames, NEW more, NEW n \in Nat, \A m \in 1 .. n : more[m] = frames[m],
         NEW j \in 1 .. n, Fine(frames, j)
  PROVE  Fine(more, j)
<1>1. j - 1 \in 0 .. n /\ j \in 0 .. n /\ more[j] = frames[j]
  OBVIOUS
<1>2. Stream!WellFormed(more[j])
  BY <1>1 DEF Fine
<1> DEFINE k == j - 1
<1>3. NoneOpen(frames, k) => NoneOpen(more, k)
  BY <1>1, SameBefore
<1>4. \A i : Open(frames, i, k) => Open(more, i, k)
  BY <1>1, SameBefore
<1>5. \A i \in 1 .. j : Joined(more, i, j) = Joined(frames, i, j) /\ more[i] = frames[i]
  <2>1. \A i \in 1 .. j : i \in 1 .. n
    OBVIOUS
  <2> QED BY <1>1, <2>1, SameBefore
<1>6. InItsPlace(more, j)
  BY <1>1, <1>3 DEF Fine, InItsPlace
<1>7. PICK i \in 1 .. j : /\ Belongs(frames, i, j)
                          /\ frames[j].fin => Validate(MessageFrom(frames, i, j)) = "ok"
  BY DEF Fine
<1>8. Belongs(more, i, j)
  BY <1>1, <1>4, <1>7 DEF Belongs
<1>9. MessageFrom(more, i, j) = MessageFrom(frames, i, j)
  BY <1>1, <1>5 DEF MessageFrom
<1> QED BY <1>1, <1>2, <1>6, <1>7, <1>8, <1>9 DEF Fine

LEMMA CaughtAfterSend ==
  ASSUME NEW frames \in Seq(Frame), NEW f \in Frame, NEW k, NEW frags, NEW msgs,
         Caught(frames, k, frags, msgs)
  PROVE  Caught(Append(frames, f), k, frags, msgs)
<1> DEFINE more == Append(frames, f)  n == Len(frames)
<1>1. /\ n \in Nat /\ Len(more) = n + 1
      /\ \A m \in 1 .. n : more[m] = frames[m]
  BY AppendProperties
<1>2. k \in 0 .. n
  BY DEF Caught
<1> HIDE DEF more, n
<1>3. k \in 0 .. Len(more) /\ \A j \in 1 .. k : j \in 1 .. n
  BY <1>1, <1>2
<1>4. \A j \in 1 .. k : Fine(more, j)
  BY <1>1, <1>3, FineKept DEF Caught
<1>5. Completing(more, k) = Completing(frames, k)
  BY <1>1, <1>3 DEF Completing
<1>6. NoneOpen(frames, k) => NoneOpen(more, k)
  BY <1>1, <1>2, SameBefore
<1>7. \A i : Open(frames, i, k) => /\ Open(more, i, k)
                                   /\ more[i] = frames[i]
                                   /\ Joined(more, i, k) = Joined(frames, i, k)
  BY <1>1, <1>2, SameBefore
<1>8. ASSUME frags # << >>
      PROVE  \E i : /\ Open(more, i, k)
                    /\ frags[1].type = TypeOfOpcode[more[i].opcode]
                    /\ JoinedData(frags) = Joined(more, i, k)
  <2>1. PICK i : /\ Open(frames, i, k)
                 /\ frags[1].type = TypeOfOpcode[frames[i].opcode]
                 /\ JoinedData(frags) = Joined(frames, i, k)
    BY <1>8 DEF Caught
  <2>2. /\ Open(more, i, k) /\ more[i] = frames[i]
        /\ Joined(more, i, k) = Joined(frames, i, k)
    BY <1>7, <2>1
  <2> QED BY <2>1, <2>2
<1> QED BY <1>3, <1>4, <1>5, <1>6, <1>8 DEF Caught, more

-----------------------------------------------------------------------------
(* The reader's steps are the stream's *)

\* The reader has dealt with the first k frames, and the bytes of those after
\* them are in its buffer and on their way.
Standpoint ==
  pc \in {"parse", "receive"} =>
    \E k : Standing(rbuf \o net, k, sent) /\ Caught(sent, k, fragments, out)

LEMMA SameCount ==
  ASSUME NEW s
  PROVE  Stream!Cardinality(s) = Cardinality(s)
  BY Zenon DEF Stream!Cardinality, Cardinality

LEMMA CaughtMeans ==
  ASSUME sent \in Seq(Frame), NEW k, Caught(sent, k, fragments, out)
  PROVE  /\ Stream!FaultlessBefore(k + 1)
         /\ Stream!Cardinality({j \in 1 .. (k + 1) - 1 : Stream!Completes(j)}) = Len(out)
<1>1. k \in 0 .. Len(sent) /\ Len(sent) \in Nat /\ (k + 1) - 1 = k
  BY DEF Caught
<1>2. ASSUME NEW j \in 1 .. k PROVE Stream!Offence(j) = "none"
  <2>1. j \in 1 .. Len(sent) /\ Fine(sent, j)
    BY <1>1 DEF Caught
  <2> QED BY <2>1, FineIsFaultless
<1>3. Stream!FaultlessBefore(k + 1)
  BY <1>1, <1>2 DEF Stream!FaultlessBefore
<1>4. {j \in 1 .. (k + 1) - 1 : Stream!Completes(j)} = Completing(sent, k)
  BY <1>1 DEF Stream!Completes, Completing
<1>5. Stream!Cardinality(Completing(sent, k)) = Len(out)
  BY SameCount DEF Caught
<1> QED BY <1>3, <1>4, <1>5

\* An error of the reader is the failure the stream prescribes.
LEMMA FailureIsPrescribed ==
  ASSUME sent \in Seq(Frame), NEW k, Caught(sent, k, fragments, out),
         k + 1 \in 1 .. Len(sent), pc = "parse",
         pc' \in {"1002", "1007"}, Stream!Offence(k + 1) = pc',
         sent' = sent, out' = out
  PROVE  Stream!Next
<1> DEFINE verdict == CASE pc \in {"parse", "receive"} -> "open"
                        [] pc = "closed" -> "closed"
                        [] OTHER -> pc
<1>1. verdict = "open" /\ verdict' = pc'
  OBVIOUS
<1>2. /\ Stream!FaultlessBefore(k + 1)
      /\ Stream!Cardinality({j \in 1 .. (k + 1) - 1 : Stream!Completes(j)}) = Len(out)
  BY CaughtMeans
<1>3. Stream!Offence(k + 1) # "none"
  OBVIOUS
<1>4. Stream!Fail(k + 1)
  BY <1>1, <1>2, <1>3 DEF Stream!Fail
<1> QED BY <1>4 DEF Stream!Next, Stream!Advance

\* A message the reader returns is the next the stream delivers.
LEMMA DeliveryIsNext ==
  ASSUME sent \in Seq(Frame), NEW k, Caught(sent, k, fragments, out),
         k + 1 \in 1 .. Len(sent), pc = "parse",
         Stream!Offence(k + 1) = "none", sent[k + 1].fin,
         out' = Append(out, Stream!Message(k + 1)),
         pc' = IF sent[k + 1].opcode = 8 THEN "closed" ELSE "parse",
         sent' = sent
  PROVE  Stream!Next
<1> DEFINE verdict == CASE pc \in {"parse", "receive"} -> "open"
                        [] pc = "closed" -> "closed"
                        [] OTHER -> pc
<1>1. verdict = "open" /\ verdict' = IF sent[k + 1].opcode = 8 THEN "closed" ELSE "open"
  OBVIOUS
<1>2. /\ Stream!FaultlessBefore(k + 1)
      /\ Stream!Cardinality({j \in 1 .. (k + 1) - 1 : Stream!Completes(j)}) = Len(out)
  BY CaughtMeans
<1>3. Stream!IsNext(k + 1)
  BY <1>2 DEF Stream!IsNext, Stream!Completes
<1>4. Stream!Deliver(k + 1)
  BY <1>1, <1>2, <1>3 DEF Stream!Deliver
<1> QED BY <1>4 DEF Stream!Next, Stream!Advance

\* Where the reader stands when it takes a frame from its buffer, and what
\* message it sees.
LEMMA TakenFrame ==
  ASSUME IInv, NEW k, Standing(rbuf \o net, k, sent), TakeFrame
  PROVE  /\ Standing(rbuf \o net, k + 1, sent)'
         /\ k + 1 \in 1 .. Len(sent) /\ k \in Nat
         /\ pc = "parse" /\ sent' = sent
         /\ Stream!WellFormed(sent[k + 1])
         /\ FrontMessage(rbuf) = [type |-> TypeOfOpcode[sent[k + 1].opcode],
                                  final |-> sent[k + 1].fin, data |-> sent[k + 1].data]
<1>1. rbuf \in Seq(Octets) /\ sent \in Seq(Frame)
  BY DEF IInv, TypeOK, Octets
<1>2. HasFrame(rbuf) /\ pc = "parse" /\ sent' = sent
  BY DEF TakeFrame
<1>3. /\ Standing(rbuf \o net, k + 1, sent)'
      /\ k + 1 \in 1 .. Len(sent) /\ k \in Nat
      /\ \A i \in 1 .. Len(rbuf) :
           i <= Len(Encode(sent[k + 1])) => rbuf[i] = Encode(sent[k + 1])[i]
  BY TakeFrameStanding
<1>4. sent[k + 1] \in Frame
  BY <1>1, <1>3
<1> QED BY <1>1, <1>2, <1>3, <1>4, FrontContent

LEMMA TypesOfFrames ==
  ASSUME NEW f \in Frame, Stream!WellFormed(f)
  PROVE  /\ TypeOfOpcode[f.opcode] = "Fragment" <=> f.opcode = 0
         /\ TypeOfOpcode[f.opcode] \in {"Text", "Binary"} <=> f.opcode \in {1, 2}
         /\ TypeOfOpcode[f.opcode] \in {"Ping", "Pong", "Close"} <=> f.opcode >= 8
         /\ TypeOfOpcode[f.opcode] = "Close" <=> f.opcode = 8
         /\ f.opcode \in {0, 1, 2} \/ f.opcode >= 8
         /\ f.opcode >= 8 => f.fin
<1> DEFINE op == f.opcode  type == TypeOfOpcode[op]
<1>1. op \in {0, 1, 2, 8, 9, 10} /\ (op >= 8 => f.fin)
  BY FrameFields
<1>2. /\ op = 0 => type = "Fragment"
      /\ op = 1 => type = "Text"
      /\ op = 2 => type = "Binary"
      /\ op = 8 => type = "Close"
      /\ op = 9 => type = "Ping"
      /\ op = 10 => type = "Pong"
  BY DEF TypeOfOpcode, Opcodes
<1> HIDE DEF op, type
<1>3. /\ type = "Fragment" <=> op = 0
      /\ type \in {"Text", "Binary"} <=> op \in {1, 2}
      /\ type \in {"Ping", "Pong", "Close"} <=> op >= 8
      /\ type = "Close" <=> op = 8
      /\ op \in {0, 1, 2} \/ op >= 8
  BY <1>1, <1>2
<1> QED BY <1>1, <1>3 DEF op, type

\* One more accepted frame.
LEMMA CaughtUpOneMore ==
  ASSUME sent \in Seq(Frame), NEW k, NEW frags, NEW msgs, NEW frags2, NEW msgs2,
         Caught(sent, k, frags, msgs), k + 1 \in 1 .. Len(sent), Fine(sent, k + 1),
         Len(msgs) \in Nat,
         Len(msgs2) = Len(msgs) + IF sent[k + 1].fin THEN 1 ELSE 0,
         frags2 = << >> => NoneOpen(sent, k + 1),
         frags2 # << >> =>
           \E i : /\ Open(sent, i, k + 1)
                  /\ frags2[1].type = TypeOfOpcode[sent[i].opcode]
                  /\ JoinedData(frags2) = Joined(sent, i, k + 1)
  PROVE  Caught(sent, k + 1, frags2, msgs2)
<1>1. k \in Nat /\ Len(sent) \in Nat
  BY DEF Caught
<1>2. ASSUME NEW j \in 1 .. k + 1 PROVE Fine(sent, j)
  <2>1. CASE j = k + 1
    BY <2>1
  <2>2. CASE j # k + 1
    <3>1. j \in 1 .. k
      BY <1>1, <2>2
    <3> QED BY <3>1 DEF Caught
  <2> QED BY <2>1, <2>2
<1>3. Cardinality(Completing(sent, k + 1)) = Len(msgs2)
  <2> DEFINE n == Len(msgs)
  <2>1. n \in Nat /\ Cardinality(Completing(sent, k)) = n
    BY DEF Caught
  <2>2. Len(msgs2) = n + IF sent[k + 1].fin THEN 1 ELSE 0
    OBVIOUS
  <2> HIDE DEF n
  <2>3. /\ sent[k + 1].fin => Cardinality(Completing(sent, k + 1)) = n + 1
        /\ ~ sent[k + 1].fin => Cardinality(Completing(sent, k + 1)) = n
    BY <1>1, <2>1, CountGrows
  <2> QED BY <2>1, <2>2, <2>3
<1>4. k + 1 \in 0 .. Len(sent)
  BY <1>1
<1> QED BY <1>2, <1>3, <1>4 DEF Caught

\* What Return does with the message a frame completes.
LEMMA ReturnIsPrescribed ==
  ASSUME IInv, NEW k, Caught(sent, k, fragments, out), k + 1 \in 1 .. Len(sent),
         NEW i \in 1 .. k + 1, Belongs(sent, i, k + 1), InItsPlace(sent, k + 1),
         Stream!WellFormed(sent[k + 1]), sent[k + 1].fin, pc = "parse", sent' = sent,
         Return(MessageFrom(sent, i, k + 1))
  PROVE  /\ Stream!Next
         /\ pc' # "receive"
         /\ pc' = "parse" => /\ Fine(sent, k + 1)
                             /\ Len(out) \in Nat /\ Len(out') = Len(out) + 1
<1> DEFINE j == k + 1  msg == MessageFrom(sent, i, j)
<1>1. sent \in Seq(Frame) /\ IsSequence(out)
  BY DEF IInv, TypeOK
<1>2. /\ Stream!Message(j) = msg
      /\ Stream!Offence(j) = IF Validate(msg) = "ok" THEN "none" ELSE CodeForError(Validate(msg))
  BY <1>1, SameVerdict
<1>3. msg.type = "Close" <=> sent[j].opcode = 8
  <2>1. /\ sent[i].opcode \in {1, 2, 8, 9, 10}
        /\ sent[i].opcode >= 8 \/ sent[j].opcode >= 8 => i = j
    BY <1>1, BelongingMessage
  <2>2. msg.type = TypeOfOpcode[sent[i].opcode]
    BY DEF MessageFrom
  <2> DEFINE op == sent[i].opcode
  <2>3. TypeOfOpcode[op] = "Close" <=> op = 8
    <3>1. op \in {1, 2, 8, 9, 10}
      BY <2>1
    <3> HIDE DEF op
    <3> QED BY <3>1 DEF TypeOfOpcode, Opcodes
  <2>4. op = 8 <=> sent[j].opcode = 8
    <3>1. op = 8 => i = j
      BY <2>1
    <3>2. sent[j].opcode = 8 => i = j
      BY <2>1
    <3> QED BY <3>1, <3>2
  <2> QED BY <2>2, <2>3, <2>4
<1> HIDE DEF msg
<1>4. CASE Validate(msg) = "ok"
  <2>1. out' = Append(out, msg) /\ pc' = IF msg.type = "Close" THEN "closed" ELSE "parse"
    BY <1>4 DEF Return, msg
  <2>2. Stream!Next
    BY <1>1, <1>2, <1>3, <1>4, <2>1, DeliveryIsNext
  <2>3. Fine(sent, j)
    BY <1>4 DEF Fine, msg
  <2>4. Len(out) \in Nat /\ Len(out') = Len(out) + 1
    BY <1>1, <2>1, AppendAny
  <2> QED BY <2>1, <2>2, <2>3, <2>4
<1>5. CASE Validate(msg) # "ok"
  <2>1. out' = out /\ pc' = CodeForError(Validate(msg))
    BY <1>5 DEF Return, Fail, msg
  <2>2. pc' \in {"1002", "1007"}
    BY <2>1 DEF CodeForError
  <2>3. Stream!Next
    BY <1>1, <1>2, <1>5, <2>1, <2>2, FailureIsPrescribed
  <2> QED BY <2>2, <2>3
<1> QED BY <1>4, <1>5

\* A step keeps the reader's standpoint, and is one of the stream's or none.
Implements == Standpoint' /\ [Stream!Next]_(Stream!vars)

\* The stream does not see the reader read.
LEMMA SameForStream ==
  ASSUME sent' = sent, out' = out,
         pc \in {"parse", "receive"}, pc' \in {"parse", "receive"}
  PROVE  UNCHANGED Stream!vars
  BY DEF Stream!vars

LEMMA SendImplements ==
  ASSUME IInv, Standpoint, NEW f \in Frame, ServerSend(f)
  PROVE  Implements
<1>1. /\ rbuf \in Seq(Octets) /\ net \in Seq(Octets) /\ sent \in Seq(Frame)
      /\ Len(sent) < MaxFrames
      /\ sent' = Append(sent, f) /\ net' = net \o Encode(f)
      /\ rbuf' = rbuf /\ pc' = pc /\ fragments' = fragments /\ out' = out
  BY DEF IInv, TypeOK, Octets, ServerSend
<1>2. rbuf' \o net' = (rbuf \o net) \o Encode(f) /\ rbuf \o net \in Seq(Octets)
  <2> DEFINE e == Encode(f)
  <2>1. e \in Seq(Octets)
    BY EncodeIsOctets
  <2> HIDE DEF e
  <2>2. rbuf \o (net \o e) = (rbuf \o net) \o e
    BY <1>1, <2>1
  <2>3. rbuf \o net \in Seq(Octets)
    BY <1>1
  <2> QED BY <1>1, <2>2, <2>3 DEF e
<1>3. Standpoint'
  <2> SUFFICES ASSUME pc' \in {"parse", "receive"}
               PROVE  \E k : Standing(rbuf \o net, k, sent)' /\ Caught(sent, k, fragments, out)'
    BY DEF Standpoint
  <2>1. PICK k : Standing(rbuf \o net, k, sent) /\ Caught(sent, k, fragments, out)
    BY <1>1 DEF Standpoint
  <2>2. Standing(rbuf' \o net', k, sent')
    BY <1>1, <1>2, <2>1, SendKeepsStanding
  <2>3. Caught(sent', k, fragments', out')
    BY <1>1, <2>1, CaughtAfterSend
  <2> QED BY <2>2, <2>3
<1>4. Stream!Send(f)
  BY <1>1 DEF Stream!Send
<1> QED BY <1>3, <1>4 DEF Implements, Stream!Next

LEMMA ReceiveImplements ==
  ASSUME IInv, Standpoint, NEW n \in 1 .. Len(net), Receive(n)
  PROVE  Implements
<1>1. /\ rbuf \in Seq(Octets) /\ net \in Seq(Octets)
      /\ rbuf' = rbuf \o SubSeq(net, 1, n) /\ net' = SubSeq(net, n + 1, Len(net))
      /\ sent' = sent /\ pc = "receive" /\ pc' = "parse"
      /\ fragments' = fragments /\ out' = out
  BY DEF IInv, TypeOK, Octets, Receive
<1>2. rbuf' \o net' = rbuf \o net
  BY <1>1, CutAndJoined
<1>3. Standpoint'
  BY <1>1, <1>2 DEF Standpoint
<1> QED BY <1>1, <1>3, SameForStream DEF Implements

LEMMA ReadMoreImplements ==
  ASSUME IInv, Standpoint, ReadMore
  PROVE  Implements
<1>1. /\ pc = "parse" /\ pc' = "receive"
      /\ UNCHANGED <<sent, net, rbuf, fragments, out>>
  BY DEF ReadMore
<1>2. Standpoint'
  BY <1>1 DEF Standpoint
<1> QED BY <1>1, <1>2, SameForStream DEF Implements

LEMMA RejectFrameImplements ==
  ASSUME IInv, Standpoint, RejectFrame
  PROVE  Implements
<1>1. /\ rbuf \in Seq(Octets) /\ net \in Seq(Octets) /\ sent \in Seq(Frame)
      /\ pc = "parse" /\ pc' = "1002" /\ Malformed(rbuf)
      /\ sent' = sent /\ out' = out
  BY DEF IInv, TypeOK, Octets, RejectFrame, Fail, CodeForError
<1>2. PICK k : Standing(rbuf \o net, k, sent) /\ Caught(sent, k, fragments, out)
  BY <1>1 DEF Standpoint
<1> DEFINE s == rbuf \o net
<1>3. /\ s \in Seq(Octets) /\ Len(s) = Len(rbuf) + Len(net)
      /\ \A j \in 1 .. Len(rbuf) : s[j] = rbuf[j]
  BY <1>1, TwoParts
<1>4. Len(rbuf) \in Nat /\ Len(net) \in Nat /\ Len(rbuf) >= 2
  BY <1>1 DEF Malformed
<1>5. Len(s) # 0 /\ \A j \in 1 .. Len(rbuf) : s[j] = rbuf[j]
  BY <1>3, <1>4
<1>6. PICK at : EndsAt(at, sent) /\ LeftAfter(s, k, at, sent)
  BY <1>2 DEF Standing
<1> HIDE DEF s
<1>7. /\ k \in 0 .. Len(sent) - 1 /\ sent[k + 1] \in Frame
      /\ Len(Encode(sent[k + 1])) \in Nat
      /\ \A j \in 1 .. Len(Encode(sent[k + 1])) : s[j] = Encode(sent[k + 1])[j]
  BY <1>1, <1>3, <1>5, <1>6, FrontIsNext
<1>8. \A i \in 1 .. Len(rbuf) : i <= Len(Encode(sent[k + 1])) => rbuf[i] = Encode(sent[k + 1])[i]
  <2> SUFFICES ASSUME NEW i \in 1 .. Len(rbuf), i <= Len(Encode(sent[k + 1]))
               PROVE  rbuf[i] = Encode(sent[k + 1])[i]
    OBVIOUS
  <2>1. i \in 1 .. Len(Encode(sent[k + 1]))
    BY <1>4, <1>7
  <2> QED BY <1>5, <1>7, <2>1
<1>9. ~ Stream!WellFormed(sent[k + 1])
  BY <1>1, <1>7, <1>8, FrontContent
<1>10. k + 1 \in 1 .. Len(sent)
  <2>1. Len(sent) \in Nat
    BY <1>1
  <2> QED BY <1>7, <2>1
<1>11. Stream!Offence(k + 1) = pc' /\ pc' \in {"1002", "1007"}
  BY <1>1, <1>9, OffenceOfUnfit
<1>12. Stream!Next
  BY <1>1, <1>2, <1>10, <1>11, FailureIsPrescribed
<1>13. Standpoint'
  BY <1>1 DEF Standpoint
<1> QED BY <1>12, <1>13 DEF Implements

\* A frame refused for its place in the stream.
LEMMA RejectImplements ==
  ASSUME IInv, Standpoint, RejectInterruption \/ RejectStrayFragment
  PROVE  Implements
<1> DEFINE msg == FrontMessage(rbuf)
<1>1. /\ TakeFrame /\ pc = "parse" /\ pc' = "1002" /\ out' = out /\ sent' = sent
      /\ \/ fragments # << >> /\ ~ IsControl(msg) /\ msg.type # "Fragment"
         \/ fragments = << >> /\ msg.type = "Fragment"
  BY DEF RejectInterruption, RejectStrayFragment, Interrupts, StrayFragment, Fail,
         CodeForError, TakeFrame
<1>2. PICK k : Standing(rbuf \o net, k, sent) /\ Caught(sent, k, fragments, out)
  BY <1>1 DEF Standpoint
<1>3. /\ k + 1 \in 1 .. Len(sent) /\ k \in Nat
      /\ Stream!WellFormed(sent[k + 1])
      /\ msg = [type |-> TypeOfOpcode[sent[k + 1].opcode],
                final |-> sent[k + 1].fin, data |-> sent[k + 1].data]
  BY <1>1, <1>2, TakenFrame
<1> HIDE DEF msg
<1>4. sent \in Seq(Frame) /\ sent[k + 1] \in Frame /\ Len(sent) \in Nat
  BY <1>3 DEF IInv, TypeOK
<1> DEFINE f == sent[k + 1]
<1>5. /\ msg.type = "Fragment" <=> f.opcode = 0
      /\ msg.type \in {"Ping", "Pong", "Close"} <=> f.opcode >= 8
      /\ f.opcode \in {0, 1, 2} \/ f.opcode >= 8
  BY <1>3, <1>4, TypesOfFrames
<1> HIDE DEF f
<1>6. ~ Stream!InOrder(k + 1)
  <2>1. CASE fragments # << >> /\ ~ IsControl(msg) /\ msg.type # "Fragment"
    <3>1. f.opcode \in {1, 2}
      BY <1>5, <2>1 DEF IsControl
    <3>2. PICK i : Open(sent, i, k)
      BY <1>2, <2>1 DEF Caught
    <3>3. \A j \in 1 .. k : sent[j].opcode \in Nat
      <4> SUFFICES ASSUME NEW j \in 1 .. k PROVE sent[j].opcode \in Nat
        OBVIOUS
      <4>1. sent[j] \in Frame
        BY <1>3, <1>4
      <4> QED BY <4>1, FrameFields
    <3>4. Stream!Unfinished(k + 1)
      BY <1>3, <3>2, <3>3, UnfinishedWhenOpen
    <3> QED BY <3>1, <3>4 DEF Stream!InOrder, Stream!IsData, f
  <2>2. CASE fragments = << >> /\ msg.type = "Fragment"
    <3>1. f.opcode = 0
      BY <1>5, <2>2
    <3>2. ~ Stream!Unfinished(k + 1)
      BY <1>2, <1>3, <2>2, FinishedWhenNoneOpen DEF Caught
    <3> QED BY <3>1, <3>2 DEF Stream!InOrder, Stream!IsData, f
  <2> QED BY <1>1, <2>1, <2>2
<1>7. Stream!Offence(k + 1) = pc' /\ pc' \in {"1002", "1007"}
  BY <1>1, <1>6, OffenceOfUnfit
<1>8. Stream!Next
  BY <1>1, <1>2, <1>3, <1>4, <1>7, FailureIsPrescribed
<1>9. Standpoint'
  BY <1>1 DEF Standpoint
<1> QED BY <1>8, <1>9 DEF Implements

\* A frame that is a message of its own, perhaps between fragments.
LEMMA ReturnWholeImplements ==
  ASSUME IInv, Standpoint, ReturnWhole
  PROVE  Implements
<1> DEFINE msg == FrontMessage(rbuf)
<1>1. /\ TakeFrame /\ pc = "parse" /\ ~ Interrupts(msg)
      /\ msg.final /\ msg.type # "Fragment" /\ Return(msg) /\ fragments' = fragments
  BY DEF ReturnWhole, TakeFrame
<1>2. PICK k : Standing(rbuf \o net, k, sent) /\ Caught(sent, k, fragments, out)
  BY <1>1 DEF Standpoint
<1> DEFINE j == k + 1  f == sent[j]
<1>3. /\ Standing(rbuf \o net, j, sent)'
      /\ j \in 1 .. Len(sent) /\ k \in Nat /\ sent' = sent
      /\ Stream!WellFormed(f)
      /\ msg = [type |-> TypeOfOpcode[f.opcode], final |-> f.fin, data |-> f.data]
  BY <1>1, <1>2, TakenFrame
<1> HIDE DEF msg
<1>4. sent \in Seq(Frame) /\ f \in Frame /\ j \in Nat \ {0} /\ j - 1 = k /\ j \in 1 .. j
  BY <1>3 DEF IInv, TypeOK
<1>5. /\ msg.type = "Fragment" <=> f.opcode = 0
      /\ msg.type \in {"Ping", "Pong", "Close"} <=> f.opcode >= 8
      /\ f.opcode \in {0, 1, 2} \/ f.opcode >= 8
  BY <1>3, <1>4, TypesOfFrames
<1>6. f.fin = TRUE /\ f.opcode \in Nat
  <2>1. f.fin \in BOOLEAN /\ f.opcode \in Nat
    BY <1>4, FrameFields
  <2> QED BY <1>1, <1>3, <2>1
<1> HIDE DEF f
<1>7. /\ f.opcode # 0
      /\ IsDataFrame(f) => fragments = << >>
      /\ ~ IsDataFrame(f) <=> f.opcode >= 8
  <2> DEFINE op == f.opcode
  <2>1. ~ (op < 8) <=> op >= 8
    BY <1>6
  <2>2. ~ IsDataFrame(f) <=> op >= 8
    BY <2>1 DEF IsDataFrame
  <2>3. f.opcode # 0
    BY <1>1, <1>5
  <2>4. IsDataFrame(f) => fragments = << >>
    BY <1>1, <1>5, <2>2 DEF Interrupts, IsControl
  <2> QED BY <2>2, <2>3, <2>4
<1>8. Belongs(sent, j, j)
  BY <1>7 DEF Belongs, f
<1>9. InItsPlace(sent, j)
  <2>1. f.opcode \in {1, 2} => NoneOpen(sent, k)
    BY <1>2, <1>7 DEF Caught, IsDataFrame
  <2> QED BY <1>4, <2>1 DEF InItsPlace, f
<1>10. msg = MessageFrom(sent, j, j)
  <2>1. Joined(sent, j, j) = PieceOf(f)
    BY <1>4, JoinedFirst DEF f
  <2>2. MessageFrom(sent, j, j).data = f.data
    BY <2>1, Zenon DEF MessageFrom, PieceOf, f
  <2> QED BY <1>3, <1>6, <2>1 DEF MessageFrom, PieceOf, f
<1>11. Return(MessageFrom(sent, j, j))
  BY <1>1, <1>10
<1>12. /\ Stream!Next
       /\ pc' # "receive"
       /\ pc' = "parse" => /\ Fine(sent, j)
                           /\ Len(out) \in Nat /\ Len(out') = Len(out) + 1
  BY <1>1, <1>2, <1>3, <1>4, <1>6, <1>8, <1>9, <1>11, ReturnIsPrescribed DEF f
<1>13. ASSUME pc' = "parse" PROVE Caught(sent, j, fragments, out')
  <2>1. Len(out') = Len(out) + IF f.fin THEN 1 ELSE 0
    BY <1>6, <1>12, <1>13
  <2>2. ASSUME fragments = << >> PROVE NoneOpen(sent, j)
    <3>1. NoneOpen(sent, k)
      BY <1>2, <2>2 DEF Caught
    <3> QED BY <1>3, <1>6, <3>1, NoneOpenGoesOn DEF f
  <2>3. ASSUME fragments # << >>
        PROVE  \E i : /\ Open(sent, i, j)
                      /\ fragments[1].type = TypeOfOpcode[sent[i].opcode]
                      /\ JoinedData(fragments) = Joined(sent, i, j)
    <3>1. PICK i : /\ Open(sent, i, k)
                   /\ fragments[1].type = TypeOfOpcode[sent[i].opcode]
                   /\ JoinedData(fragments) = Joined(sent, i, k)
      BY <1>2, <2>3 DEF Caught
    <3>2. ~ IsDataFrame(f)
      BY <1>7, <2>3
    <3>3. Open(sent, i, j)
      BY <1>3, <3>1, <3>2, OpenGoesOn DEF f
    <3>4. i \in 1 .. k
      BY <3>1 DEF Open
    <3>5. i \in Nat \ {0} /\ i <= k /\ k \in i .. Len(sent) /\ i \in 1 .. Len(sent)
      BY <1>3, <1>4, <3>4
    <3>6. Joined(sent, i, j) = Joined(sent, i, k) \o << >>
      BY <1>3, <3>2, <3>5, JoinedGrows DEF f, PieceOf
    <3> DEFINE joined == Joined(sent, i, k)
    <3>7. joined \in Seq(Octets)
      BY <1>4, <3>5, JoinedOctets
    <3> HIDE DEF joined
    <3>8. joined \o << >> = joined
      BY <3>7
    <3> QED BY <3>1, <3>3, <3>6, <3>8 DEF joined
  <2> QED BY <1>2, <1>3, <1>4, <1>12, <1>13, <2>1, <2>2, <2>3, CaughtUpOneMore DEF f
<1>14. Standpoint'
  <2>1. pc' \in {"parse", "receive"} => Caught(sent, j, fragments, out)'
    BY <1>1, <1>3, <1>12, <1>13
  <2> QED BY <1>3, <2>1 DEF Standpoint
<1> QED BY <1>12, <1>14 DEF Implements

\* The run of fragments, once its last frame has come, is the message the
\* stream joins.
LEMMA ReturnReassembledImplements ==
  ASSUME IInv, Standpoint, ReturnReassembled
  PROVE  Implements
<1> DEFINE msg == FrontMessage(rbuf)  frags == Append(fragments, msg)
<1>1. /\ TakeFrame /\ pc = "parse" /\ msg.final /\ msg.type = "Fragment" /\ fragments # << >>
      /\ IF FragmentsUnfit(frags)
         THEN Fail("unfit fragments") /\ fragments' = frags /\ UNCHANGED out
         ELSE fragments' = << >> /\ Return(Reassembled(frags))
  BY DEF ReturnReassembled, TakeFrame
<1>2. PICK k : Standing(rbuf \o net, k, sent) /\ Caught(sent, k, fragments, out)
  BY <1>1 DEF Standpoint
<1> DEFINE j == k + 1  f == sent[j]
<1>3. /\ Standing(rbuf \o net, j, sent)'
      /\ j \in 1 .. Len(sent) /\ k \in Nat /\ sent' = sent
      /\ Stream!WellFormed(f)
      /\ msg = [type |-> TypeOfOpcode[f.opcode], final |-> f.fin, data |-> f.data]
  BY <1>1, <1>2, TakenFrame
<1> HIDE DEF msg
<1>4. sent \in Seq(Frame) /\ f \in Frame /\ j \in Nat \ {0} /\ j - 1 = k
  BY <1>3 DEF IInv, TypeOK
<1>5. f.opcode = 0
  <2>1. msg.type = "Fragment" <=> f.opcode = 0
    BY <1>3, <1>4, TypesOfFrames
  <2> QED BY <1>1, <2>1
<1>6. f.fin = TRUE
  <2>1. f.fin \in BOOLEAN
    BY <1>4, FrameFields
  <2> QED BY <1>1, <1>3, <2>1
<1> HIDE DEF f
<1>7. ~ FragmentsUnfit(frags) /\ frags[1] = fragments[1]
  BY <1>1, FragmentsFit DEF IInv
<1>8. fragments' = << >> /\ Return(Reassembled(frags))
  BY <1>1, <1>7
<1>9. PICK i : /\ Open(sent, i, k)
               /\ fragments[1].type = TypeOfOpcode[sent[i].opcode]
               /\ JoinedData(fragments) = Joined(sent, i, k)
  BY <1>1, <1>2 DEF Caught
<1>10. i \in 1 .. k /\ i \in 1 .. j /\ i \in Nat \ {0} /\ i <= k
  <2>1. i \in 1 .. k
    BY <1>9 DEF Open
  <2> QED BY <1>3, <2>1
<1>11. Belongs(sent, i, j) /\ InItsPlace(sent, j)
  BY <1>4, <1>5, <1>9 DEF Belongs, InItsPlace, f
<1>12. Reassembled(frags) = MessageFrom(sent, i, j)
  <2>1. JoinedData(frags) = JoinedData(fragments) \o msg.data
    BY JoinedAppend DEF IInv
  <2>2. Joined(sent, i, j) = Joined(sent, i, k) \o f.data
    <3>1. PieceOf(f) = f.data
      BY <1>5 DEF PieceOf, IsDataFrame
    <3>2. Joined(sent, i, j) = Joined(sent, i, k) \o PieceOf(f)
      BY <1>3, <1>10, JoinedGrows DEF f
    <3> QED BY <3>1, <3>2
  <2>3. msg.data = f.data
    BY <1>3
  <2> HIDE DEF frags
  <2> DEFINE data == JoinedData(frags)
  <2>4. data = Joined(sent, i, j)
    BY <1>9, <2>1, <2>2, <2>3
  <2>5. MessageFrom(sent, i, j) = [type |-> TypeOfOpcode[sent[i].opcode], final |-> TRUE,
                                   data |-> Joined(sent, i, j)]
    BY <1>5 DEF MessageFrom, IsDataFrame, f
  <2>6. Reassembled(frags) = [type |-> frags[1].type, final |-> TRUE, data |-> data]
    BY DEF Reassembled
  <2> HIDE DEF data
  <2> QED BY <1>7, <1>9, <2>4, <2>5, <2>6
<1> HIDE DEF frags
<1>13. Return(MessageFrom(sent, i, j))
  BY <1>8, <1>12
<1>14. /\ Stream!Next
       /\ pc' # "receive"
       /\ pc' = "parse" => /\ Fine(sent, j)
                           /\ Len(out) \in Nat /\ Len(out') = Len(out) + 1
  BY <1>1, <1>2, <1>3, <1>4, <1>6, <1>10, <1>11, <1>13, ReturnIsPrescribed DEF f
<1>15. ASSUME pc' = "parse" PROVE Caught(sent, j, << >>, out')
  <2>1. Len(out') = Len(out) + IF f.fin THEN 1 ELSE 0
    BY <1>6, <1>14, <1>15
  <2>2. NoneOpen(sent, j)
    <3>1. IsDataFrame(f)
      BY <1>5 DEF IsDataFrame
    <3> QED BY <1>3, <1>6, <3>1, NoneOpenGoesOn DEF f
  <2> DEFINE none == << >>
  <2>3. none = << >>
    OBVIOUS
  <2> HIDE DEF none
  <2>4. Caught(sent, j, none, out')
    BY <1>2, <1>3, <1>4, <1>14, <1>15, <2>1, <2>2, <2>3, CaughtUpOneMore DEF f
  <2> QED BY <2>4 DEF none
<1>16. Standpoint'
  <2>1. pc' \in {"parse", "receive"} => Caught(sent, j, fragments, out)'
    BY <1>3, <1>8, <1>14, <1>15
  <2> QED BY <1>3, <2>1 DEF Standpoint
<1> QED BY <1>14, <1>16 DEF Implements

\* A frame that is not the last of its message.
LEMMA KeepFragmentImplements ==
  ASSUME IInv, Standpoint, KeepFragment
  PROVE  Implements
<1> DEFINE msg == FrontMessage(rbuf)  frags == Append(fragments, msg)
<1>1. /\ TakeFrame /\ pc = "parse" /\ pc' = "parse" /\ out' = out
      /\ ~ Interrupts(msg) /\ ~ StrayFragment(msg)
      /\ ~ msg.final /\ fragments' = frags
  BY DEF KeepFragment, TakeFrame
<1>2. PICK k : Standing(rbuf \o net, k, sent) /\ Caught(sent, k, fragments, out)
  BY <1>1 DEF Standpoint
<1> DEFINE j == k + 1  f == sent[j]
<1>3. /\ Standing(rbuf \o net, j, sent)'
      /\ j \in 1 .. Len(sent) /\ k \in Nat /\ sent' = sent
      /\ Stream!WellFormed(f)
      /\ msg = [type |-> TypeOfOpcode[f.opcode], final |-> f.fin, data |-> f.data]
  BY <1>1, <1>2, TakenFrame
<1> HIDE DEF msg
<1>4. sent \in Seq(Frame) /\ f \in Frame /\ j \in Nat \ {0} /\ j - 1 = k /\ j \in 1 .. j
  BY <1>3 DEF IInv, TypeOK
<1>5. /\ msg.type = "Fragment" <=> f.opcode = 0
      /\ msg.type \in {"Ping", "Pong", "Close"} <=> f.opcode >= 8
      /\ f.opcode \in {0, 1, 2} \/ f.opcode >= 8
      /\ f.opcode >= 8 => f.fin
  BY <1>3, <1>4, TypesOfFrames
<1>6. ~ f.fin
  BY <1>1, <1>3
<1>7. f.data \in Seq(Octets)
  BY <1>4, FrameFields
<1> HIDE DEF f
<1>8. /\ f.opcode \in {0, 1, 2} /\ IsDataFrame(f)
      /\ f.opcode = 0 <=> fragments # << >>
  BY <1>1, <1>5, <1>6 DEF Interrupts, StrayFragment, IsControl, IsDataFrame
<1>9. /\ IsSequence(fragments) /\ IsSequence(frags) /\ Len(fragments) \in Nat
      /\ Len(frags) = Len(fragments) + 1
      /\ \A i \in 1 .. Len(fragments) : frags[i] = fragments[i]
      /\ frags[Len(fragments) + 1] = msg
  BY AppendAny DEF IInv
<1>10. JoinedData(frags) = JoinedData(fragments) \o f.data
  <2>1. JoinedData(frags) = JoinedData(fragments) \o msg.data
    BY <1>9, JoinedAppend
  <2>2. msg.data = f.data
    BY <1>3
  <2> QED BY <2>1, <2>2
<1> HIDE DEF frags
<1>11. InItsPlace(sent, j)
  <2>1. f.opcode \in {1, 2} => NoneOpen(sent, k)
    BY <1>2, <1>8 DEF Caught
  <2> QED BY <1>4, <2>1 DEF InItsPlace, f
\* The message it belongs to, which goes on.
<1>12. \E i \in 1 .. j : /\ Belongs(sent, i, j)
                         /\ Open(sent, i, j)
                         /\ frags[1].type = TypeOfOpcode[sent[i].opcode]
                         /\ JoinedData(frags) = Joined(sent, i, j)
  <2>1. CASE f.opcode = 0
    <3>1. PICK i : /\ Open(sent, i, k)
                   /\ fragments[1].type = TypeOfOpcode[sent[i].opcode]
                   /\ JoinedData(fragments) = Joined(sent, i, k)
      BY <1>2, <1>8, <2>1 DEF Caught
    <3>2. i \in 1 .. k
      BY <3>1 DEF Open
    <3>3. i \in 1 .. j /\ i \in Nat \ {0} /\ i <= k
      BY <1>3, <3>2
    <3>4. Belongs(sent, i, j)
      BY <1>4, <2>1, <3>1 DEF Belongs, f
    <3>5. Open(sent, i, j)
      BY <1>3, <1>6, <2>1, <3>1, OpenGoesOn DEF f
    <3>6. Joined(sent, i, j) = Joined(sent, i, k) \o f.data
      BY <1>3, <1>8, <3>3, JoinedGrows DEF f, PieceOf
    <3>7. frags[1] = fragments[1]
      <4>1. Len(fragments) # 0
        BY <1>8, <1>9, <2>1 DEF IsSequence
      <4>2. 1 \in 1 .. Len(fragments)
        BY <1>9, <4>1
      <4> QED BY <1>9, <4>2
    <3> QED BY <1>10, <3>1, <3>3, <3>4, <3>5, <3>6, <3>7
  <2>2. CASE f.opcode \in {1, 2}
    <3>1. fragments = << >>
      BY <1>8, <2>2
    <3>2. Belongs(sent, j, j)
      BY <2>2 DEF Belongs, f
    <3>3. Open(sent, j, j)
      BY <1>4, <1>6, <2>2, OpenBegins DEF f
    <3>4. frags[1] = msg
      <4>1. Len(fragments) = 0
        BY <3>1
      <4> QED BY <1>9, <4>1
    <3>5. JoinedData(frags) = f.data
      <4>1. JoinedData(frags) = << >> \o f.data
        BY <1>10, <3>1, JoinedNone
      <4> DEFINE d == f.data
      <4>2. d \in Seq(Octets)
        BY <1>7
      <4> HIDE DEF d
      <4>3. << >> \o d = d
        BY <4>2
      <4> QED BY <4>1, <4>3 DEF d
    <3>6. Joined(sent, j, j) = f.data
      BY <1>4, <1>8, JoinedFirst DEF PieceOf, f
    <3>7. frags[1].type = TypeOfOpcode[sent[j].opcode]
      BY <1>3, <3>4 DEF f
    <3> QED BY <1>4, <3>2, <3>3, <3>5, <3>6, <3>7
  <2> QED BY <1>8, <2>1, <2>2
<1>13. Fine(sent, j)
  BY <1>3, <1>6, <1>11, <1>12 DEF Fine, f
<1>14. Caught(sent, j, frags, out)
  <2>1. frags # << >>
    BY <1>9
  <2>2. Len(out) \in Nat
    BY AppendAny DEF IInv
  <2>3. Len(out) = Len(out) + IF f.fin THEN 1 ELSE 0
    BY <1>6, <2>2
  <2> QED BY <1>2, <1>3, <1>4, <1>12, <1>13, <2>1, <2>2, <2>3, CaughtUpOneMore DEF f
<1>15. Standpoint'
  BY <1>1, <1>3, <1>14 DEF Standpoint
<1>16. UNCHANGED Stream!vars
  BY <1>1, <1>3, SameForStream
<1> QED BY <1>15, <1>16 DEF Implements

LEMMA StepImplements ==
  ASSUME IInv, Standpoint, [Next]_vars
  PROVE  Implements
<1>1. CASE UNCHANGED vars
  BY <1>1 DEF vars, Standpoint, Implements, Stream!vars
<1>2. ASSUME NEW f \in Frame, ServerSend(f) PROVE Implements
  BY <1>2, SendImplements
<1>3. ASSUME NEW n \in 1 .. Len(net), Receive(n) PROVE Implements
  BY <1>3, ReceiveImplements
<1>4. CASE ReadMore
  BY <1>4, ReadMoreImplements
<1>5. CASE RejectFrame
  BY <1>5, RejectFrameImplements
<1>6. CASE RejectInterruption \/ RejectStrayFragment
  BY <1>6, RejectImplements
<1>7. CASE ReturnWhole
  BY <1>7, ReturnWholeImplements
<1>8. CASE ReturnReassembled
  BY <1>8, ReturnReassembledImplements
<1>9. CASE KeepFragment
  BY <1>9, KeepFragmentImplements
<1> QED
  BY <1>1, <1>2, <1>3, <1>4, <1>5, <1>6, <1>7, <1>8, <1>9 DEF Next, Parse, ReceiveSome

-----------------------------------------------------------------------------
(* The theorems *)

LEMMA InductiveInvariant == Spec => []IInv
<1>1. Init => IInv
  <2> SUFFICES ASSUME Init PROVE IInv
    OBVIOUS
  <2>1. << >> \in Seq(Frame) /\ << >> \in Seq(0 .. 255) /\ Len(<< >>) = 0
    BY EmptySeq
  <2>2. QED
    BY <2>1 DEF Init, IInv, TypeOK, FragmentsWellFormed, IsSequence
<1>2. IInv /\ [Next]_vars => IInv'
  BY StepKeeps
<1>3. QED
  BY <1>1, <1>2, PTL DEF Spec

\* The buffer and the network hold bytes, and every message handed to the
\* caller is complete and of one of the five message types.
THEOREM TypeCorrect == Spec => []TypeOK
<1>1. IInv => TypeOK
  BY DEF IInv
<1>2. QED
  BY <1>1, InductiveInvariant, PTL

\* m_fragments always holds the beginning of one data message, whatever the
\* server sends.
THEOREM FragmentsCorrect == Spec => []FragmentsWellFormed
<1>1. IInv => FragmentsWellFormed
  BY DEF IInv
<1>2. QED
  BY <1>1, InductiveInvariant, PTL

\* No Close frame with a one-byte payload reaches validate.
THEOREM CloseCodesReadable == Spec => []CloseCodeReadable
<1>1. IInv => CloseCodeReadable
  <2>1. IInv => rbuf \in Seq(Octets)
    BY DEF IInv, TypeOK, Octets
  <2>2. QED
    BY <2>1, CloseHasCode DEF CloseCodeReadable
<1>2. QED
  BY <1>1, InductiveInvariant, PTL

\* Whatever the server sends and however it is cut into reads, the reader
\* finds every frame where the server put it: when it waits and all bytes
\* sent have arrived, none of them is left in m_rbuf.
THEOREM NothingStranded == Spec => []NoBytesStranded
<1>1. Init => InPlace
  <2> SUFFICES ASSUME Init PROVE InPlace
    OBVIOUS
  <2> DEFINE at == [i \in 0 .. 0 |-> 0]
  <2>1. /\ sent = << >> /\ rbuf = << >> /\ net = << >> /\ pc = "parse"
        /\ Len(<< >>) = 0
    BY DEF Init
  <2>2. EndsAt(at, << >>)
    BY DEF EndsAt
  <2>3. LeftAfter(<< >>, 0, at, << >>)
    BY DEF LeftAfter
  <2>4. << >> \o << >> = << >>
    OBVIOUS
  <2> HIDE DEF at
  <2>5. Aligned(rbuf \o net, sent)
    BY <2>1, <2>2, <2>3, <2>4 DEF Aligned, Standing
  <2> QED BY <2>1, <2>5 DEF InPlace
<1>2. IInv /\ InPlace /\ [Next]_vars => InPlace'
  BY StepKeepsPlace
<1>3. IInv /\ InPlace => NoBytesStranded
  BY WaitingIsShort
<1> QED
  BY <1>1, <1>2, <1>3, InductiveInvariant, PTL DEF Spec

\* The whole reader implements the message stream: whatever frames the server
\* sends and however their bytes are cut into reads, the messages recv hands
\* over are those of the frames, in their order, fragments joined and control
\* frames between them; and the first frame that is malformed, out of place,
\* not UTF-8 or without a valid close code ends the connection, with the close
\* code for that offence.
THEOREM ReaderRefinesStream == Spec => ReaderImplementsStream
<1>1. Init => Standpoint /\ Stream!Init
  <2> SUFFICES ASSUME Init PROVE Standpoint /\ Stream!Init
    OBVIOUS
  <2> DEFINE at == [i \in 0 .. 0 |-> 0]
  <2>1. /\ sent = << >> /\ rbuf = << >> /\ net = << >> /\ pc = "parse"
        /\ fragments = << >> /\ out = << >> /\ Len(<< >>) = 0
    BY DEF Init
  <2>2. EndsAt(at, << >>)
    BY DEF EndsAt
  <2>3. LeftAfter(<< >>, 0, at, << >>)
    BY DEF LeftAfter
  <2>4. << >> \o << >> = << >>
    OBVIOUS
  <2> HIDE DEF at
  <2>5. Standing(<< >>, 0, << >>)
    BY <2>2, <2>3 DEF Standing
  <2>6. Caught(<< >>, 0, << >>, << >>)
    <3>1. NoneOpen(<< >>, 0)
      BY DEF NoneOpen
    <3>2. Completing(<< >>, 0) = {}
      BY DEF Completing
    <3>3. Cardinality({}) = 0
      BY FS_EmptySet
    <3>4. Cardinality(Completing(<< >>, 0)) = Len(<< >>)
      BY <2>1, <3>2, <3>3, Zenon
    <3>5. 0 \in 0 .. Len(<< >>) /\ 1 .. 0 = {}
      BY <2>1
    <3> QED BY <3>1, <3>4, <3>5, Zenon DEF Caught
  <2>7. Standpoint
    BY <2>1, <2>4, <2>5, <2>6 DEF Standpoint
  <2>8. Stream!Init
    BY <2>1 DEF Stream!Init
  <2> QED BY <2>7, <2>8
<1>2. IInv /\ Standpoint /\ [Next]_vars => Standpoint' /\ [Stream!Next]_(Stream!vars)
  BY StepImplements DEF Implements
<1> QED
  BY <1>1, <1>2, InductiveInvariant, PTL DEF Spec, ReaderImplementsStream, Stream!Spec

==============================================================================
