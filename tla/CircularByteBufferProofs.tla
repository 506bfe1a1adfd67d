----------------------- MODULE CircularByteBufferProofs -----------------------
(***************************************************************************)
(* Proofs about the ring buffer, for every capacity, byte alphabet and     *)
(* chunk size.                                                             *)
(***************************************************************************)
EXTENDS CircularByteBuffer, RingProofs

\* The members of the buffer stay consistent through every sequence of
\* calls, and every call acts on the queue it represents as ByteQueue says.
\* One step per member function.
LEMMA StepCorrect ==
  ASSUME TypeOK, [Next]_vars
  PROVE  TypeOK' /\ [Queue!Next]_(Queue!vars)
<1> USE DEF TypeOK
<1>1. buf.size \in Nat /\ buf.cap \in Nat /\ buf.size <= buf.cap
  BY RingNumbers
<1>2. Contents(buf) \in Seq(Cell) /\ Len(Contents(buf)) = buf.size
  BY ContentsType
<1>3. ASSUME NEW s \in Chunk, WriteBytes(s)
      PROVE  TypeOK' /\ Queue!Enqueue(s)
  <2>1. s \in Seq(Byte) /\ buf.size + Len(s) <= MaxCapacity
    BY <1>3, ChunkAssumption DEF WriteBytes, Grantable
  <2>2. RingOK(buf') /\ Contents(buf') = Contents(buf) \o s
    BY <1>3, <2>1, WriteAppends DEF WriteBytes
  <2>3. QED
    BY <1>3, <2>2 DEF Queue!Enqueue, WriteBytes
<1>4. ASSUME NEW s \in Chunk, FillWindow(s)
      PROVE  TypeOK' /\ Queue!Enqueue(s)
  <2>1. s \in Seq(Byte) /\ Len(s) <= WriteWindow(buf).len
    BY <1>4, ChunkAssumption DEF FillWindow
  <2>2. buf' = WritePart(buf, s)
    BY <1>4 DEF FillWindow, WritePart
  <2>3. RingOK(buf') /\ Contents(buf') = Contents(buf) \o s
    BY <2>1, <2>2, WritePartAppends
  <2>4. QED
    BY <1>4, <2>3 DEF Queue!Enqueue, FillWindow
<1>5. ASSUME NEW n \in 0 .. MaxRead, ReadBytes(n)
      PROVE  TypeOK' /\ Queue!Read(n)
  <2>1. n \in 0 .. buf.size
    BY <1>1, <1>5, ChunkAssumption DEF ReadBytes
  <2>2. RingOK(buf') /\ Contents(buf') = SubSeq(Contents(buf), n + 1, buf.size)
    BY <1>5, <2>1, SkipDrops DEF ReadBytes
  <2>3. Peek(buf, n, 0) = SubSeq(Contents(buf), 0 + 1, 0 + n)
    BY <1>1, <2>1, PeekReads
  <2>4. 0 + 1 = 1 /\ 0 + n = n
    BY <2>1
  <2>5. QED
    BY <1>2, <1>5, <2>2, <2>3, <2>4 DEF Queue!Read, ReadBytes
<1>6. ASSUME NEW n \in 0 .. MaxRead, ReadTooMuch(n)
      PROVE  TypeOK' /\ Queue!ReadTooMuch(n)
  BY <1>2, <1>6 DEF ReadTooMuch, Queue!ReadTooMuch
<1>7. ASSUME Clear
      PROVE  TypeOK' /\ Queue!Clear
  BY <1>7, ClearRingOK DEF Clear, Queue!Clear
<1>8. ASSUME NEW n \in Extras, ReserveExtra(n) \/ ReserveCap(n)
      PROVE  TypeOK' /\ UNCHANGED Queue!vars
  <2>1. n \in Nat
    BY ChunkAssumption
  <2>2. CASE ReserveExtra(n)
    <3>1. buf.cap + n \in Nat /\ buf.cap + n <= MaxCapacity
      BY <1>1, <2>1, <2>2 DEF ReserveExtra, Grantable
    <3>2. RingOK(buf') /\ Contents(buf') = Contents(buf)
      BY <2>2, <3>1, GrowReaches DEF ReserveExtra, Reserve
    <3>3. QED
      BY <2>2, <3>2 DEF ReserveExtra, Queue!vars
  <2>3. CASE ReserveCap(n)
    <3>1. RingOK(buf') /\ Contents(buf') = Contents(buf)
      BY <2>1, <2>3, GrowReaches DEF ReserveCap, ReserveUntil, Grantable
    <3>2. QED
      BY <2>3, <3>1 DEF ReserveCap, Queue!vars
  <2>4. QED
    BY <1>8, <2>2, <2>3
<1>9. CASE UNCHANGED vars
  BY <1>9 DEF vars, Queue!vars
<1>10. ASSUME TakeCopy \/ MoveOn
       PROVE  TypeOK' /\ UNCHANGED Queue!vars
  BY <1>10, OtherOwner DEF TakeCopy, MoveOn, Queue!vars
<1>11. ASSUME MoveAway
       PROVE  TypeOK' /\ Queue!MoveAway
  BY <1>11, NewRingOK DEF MoveAway, MovedFrom, Queue!MoveAway
<1>12. QED
  BY <1>3, <1>4, <1>5, <1>6, <1>7, <1>8, <1>9, <1>10, <1>11 DEF Next, Queue!Next

\* The five members always describe one ring of `size` unread bytes.
THEOREM TypeCorrect == Spec => []TypeOK
<1>1. Init => TypeOK
  BY NewRingOK, ChunkAssumption DEF Init, TypeOK
<1>2. TypeOK /\ [Next]_vars => TypeOK'
  BY StepCorrect
<1>3. QED
  BY <1>1, <1>2, PTL DEF Spec

\* The ring buffer implements the byte queue: whatever its capacity and
\* wherever it wraps or reallocates, callers see a queue.
THEOREM RingRefinesQueue == Spec => RingImplementsQueue
<1>1. Init => Queue!Init
  BY NewRingOK, ChunkAssumption DEF Init, Queue!Init
<1>2. TypeOK /\ [Next]_vars => [Queue!Next]_(Queue!vars)
  BY StepCorrect
<1>3. QED
  BY <1>1, <1>2, TypeCorrect, PTL DEF Spec, Queue!Spec, RingImplementsQueue

\* Every peek returns the queued bytes it was asked for.
THEOREM PeeksCorrect == Spec => []PeekCorrect
<1>1. TypeOK => PeekCorrect
  BY PeekReads DEF TypeOK, PeekCorrect
<1>2. QED
  BY <1>1, TypeCorrect, PTL

\* A view consumed in steps goes on where it should.
THEOREM ViewsSkip == Spec => []ViewSkipsBytes
<1>1. TypeOK => ViewSkipsBytes
  BY SkipViewReads DEF TypeOK, ViewSkipsBytes
<1>2. QED
  BY <1>1, TypeCorrect, PTL

\* Receiving into the write window never destroys a queued byte.
THEOREM WindowsFree == Spec => []WindowIsFree
<1>1. TypeOK => WindowIsFree
  <2> SUFFICES ASSUME RingOK(buf) PROVE WindowIsFree
    BY DEF TypeOK
  <2> DEFINE wnd == WriteWindow(buf)
  <2>1. buf.cap \in Nat /\ buf.size \in Nat
    BY RingNumbers
  <2>2. wnd.at \in Nat /\ wnd.len \in Nat /\ wnd.at + wnd.len <= buf.cap
    BY WindowFollows
  <2>3. \A i \in 0 .. buf.size - 1 : \/ Wrap(buf, buf.start + i) < wnd.at
                                     \/ Wrap(buf, buf.start + i) >= wnd.at + wnd.len
    BY WindowFollows
  <2> HIDE DEF wnd
  <2>4. wnd.at .. wnd.at + wnd.len - 1 \subseteq 0 .. buf.cap - 1
    BY <2>1, <2>2
  <2>5. ASSUME NEW i \in 0 .. buf.size - 1,
               Wrap(buf, buf.start + i) \in wnd.at .. wnd.at + wnd.len - 1
        PROVE  FALSE
    BY <2>2, <2>3, <2>5
  <2>6. QED
    BY <2>4, <2>5 DEF WindowIsFree, wnd
<1>2. QED
  BY <1>1, TypeCorrect, PTL

\* reserve keeps the promise of its header comment in every state.
THEOREM ReservesOpen == Spec => []ReserveOpensWindow
<1>1. TypeOK => ReserveOpensWindow
  <2> SUFFICES ASSUME RingOK(buf), NEW n \in Extras, buf.cap + n <= MaxCapacity
               PROVE  /\ WriteWindow(Reserve(buf, n)).len >= n
                      /\ Reserve(buf, n).cap >= buf.cap + n
    BY DEF TypeOK, ReserveOpensWindow, Grantable
  <2> DEFINE b == Reserve(buf, n)
  <2>1. n \in Nat /\ buf.cap \in Nat /\ buf.size \in Nat /\ buf.size <= buf.cap
    BY RingNumbers, ChunkAssumption
  <2>2. buf.cap + n \in Nat
    BY <2>1
  <2>3. /\ RingOK(b) /\ b.cap \in Nat /\ b.cap >= buf.cap + n
        /\ b.size = buf.size /\ b.start = 0 /\ b.end = buf.size
    BY <2>2, GrowReaches DEF Reserve
  <2>4. WriteWindow(b).len = b.cap - b.size
    BY <2>3, FreshWindow
  <2> HIDE DEF b
  <2>5. QED
    BY <2>1, <2>3, <2>4 DEF b
<1>2. QED
  BY <1>1, TypeCorrect, PTL

\* write's debug assertion never fails.
THEOREM SecondWindowsSuffice == Spec => []SecondWindowSuffices
<1>1. TypeOK => SecondWindowSuffices
  <2> SUFFICES ASSUME RingOK(buf), NEW s \in Chunk,
                      buf.size + Len(s) <= MaxCapacity,
                      FirstLen(MakeRoom(buf, s), s) < Len(s)
               PROVE  WriteWindow(WriteFirst(MakeRoom(buf, s), s)).len
                        >= Len(s) - FirstLen(MakeRoom(buf, s), s)
    BY DEF TypeOK, SecondWindowSuffices, Grantable
  <2>1. s \in Seq(Byte)
    BY ChunkAssumption
  <2>2. /\ RingOK(MakeRoom(buf, s))
        /\ Len(s) <= MakeRoom(buf, s).cap - MakeRoom(buf, s).size
    BY <2>1, RoomMade
  <2>3. QED
    BY <2>1, <2>2, SecondWindow
<1>2. QED
  BY <1>1, TypeCorrect, PTL

==============================================================================
