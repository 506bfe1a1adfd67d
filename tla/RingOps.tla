------------------------------- MODULE RingOps -------------------------------
(***************************************************************************)
(* The operations of CircularByteBuffer as functions of the buffer's       *)
(* state.  A buffer is a record of the five members of the class, its      *)
(* pointers kept as offsets from m_data:                                   *)
(*                                                                         *)
(*   data   the allocation, a function from offsets to bytes               *)
(*   start  m_start - m_data       end   m_end - m_data                    *)
(*   cap    m_endAlloc - m_data    size  m_size                            *)
(*                                                                         *)
(* Memory that new uint8_t[] has not initialised holds Uninit.             *)
(***************************************************************************)
EXTENDS Integers, Sequences

CONSTANTS
  Byte,          \* the values of a byte
  Uninit,        \* an indeterminate value, never a byte that was written
  DefaultCap,    \* first capacity of a buffer that owns no memory (64)
  MaxCapacity,   \* largest capacity a caller requests
  MaxDoublings   \* doublings enough to reach MaxCapacity from one byte

ASSUME RingAssumption ==
  /\ Uninit \notin Byte
  /\ DefaultCap \in Nat \ {0}
  /\ MaxCapacity \in Nat
  /\ MaxDoublings \in Nat
  /\ \A k \in 0 .. MaxDoublings : 2^k \in Nat \ {0}
  /\ 2^MaxDoublings >= MaxCapacity

Cell == Byte \cup {Uninit}

AtMost(a, b) == IF a <= b THEN a ELSE b

\* CircularByteBuffer(cap): a fresh, uninitialised allocation.
NewRing(cap) ==
  [data |-> [i \in 0 .. cap - 1 |-> Uninit],
   start |-> 0, end |-> 0, cap |-> cap, size |-> 0]

\* The pointer arithmetic shared by advanceWrite, skip and peek: an offset
\* that ran past the allocation continues at its beginning.
Wrap(b, p) == IF p >= b.cap THEN p - b.cap ELSE p

Free(b) == b.cap - b.size

-----------------------------------------------------------------------------
\* Spans are [at, len] records: an offset into data and a number of bytes.

Bytes(b, span) == [i \in 1 .. span.len |-> b.data[span.at + i - 1]]

\* (mutant) m_start <= m_end: a full buffer offers its unread bytes.
WriteWindow_FullLooksOpen(b) ==
  LET len == IF b.start <= b.end THEN b.cap - b.end ELSE b.start - b.end
  IN  [at |-> b.end, len |-> len]

\* writeWindow: where the next received bytes may be put.
WriteWindow(b) ==
  LET len == IF b.start < b.end THEN b.cap - b.end ELSE b.start - b.end
  IN  IF len = 0 /\ b.size = 0
      THEN [at |-> 0, len |-> b.cap]
      ELSE [at |-> b.end, len |-> len]

AdvanceWrite(b, len) ==
  [b EXCEPT !.end = Wrap(b, b.end + len), !.size = b.size + len]

\* What a caller (or memcpy) stores into the allocation at a given offset.
Store(b, at, s) ==
  [b EXCEPT !.data =
     [i \in 0 .. b.cap - 1 |->
        IF at <= i /\ i < at + Len(s) THEN s[i - at + 1] ELSE b.data[i]]]

\* (mutant) The wrapping branch forgets to apply `skip`.
PeekFirst_WrapDropsSkip(b, len, skip) ==
  IF b.start + skip < b.end
  THEN [at |-> b.start + skip, len |-> len]
  ELSE [at |-> b.start, len |-> AtMost(len, b.cap - b.start)]

\* peek(len, skip) returns up to two spans.
PeekFirst(b, len, skip) ==
  IF b.start + skip < b.end
  THEN [at |-> b.start + skip, len |-> len]
  ELSE LET p == Wrap(b, b.start + skip)
       IN  [at |-> p, len |-> AtMost(len, b.cap - p)]

PeekSecond(b, len, skip) ==
  [at |-> 0, len |-> len - PeekFirst(b, len, skip).len]

Peek(b, len, skip) ==
  Bytes(b, PeekFirst(b, len, skip)) \o Bytes(b, PeekSecond(b, len, skip))

\* WrappedRead: the two spans as one view.
PeekView(b, len) ==
  [first |-> PeekFirst(b, len, 0), second |-> PeekSecond(b, len, 0)]

From(span, n) == [at |-> span.at + n, len |-> span.len - n]

NoSpan == [at |-> 0, len |-> 0]

\* (mutant) The part skipped in the first span is skipped again in the second.
SkipView_Twice(view, n) ==
  IF n <= view.first.len
  THEN [view EXCEPT !.first = From(@, n)]
  ELSE [first |-> NoSpan,
        second |-> IF n <= view.second.len THEN From(view.second, n) ELSE NoSpan]

\* WrappedRead::skip, which more than the whole view empties.
SkipView(view, n) ==
  LET rest == n - view.first.len
  IN  IF rest <= 0
      THEN [view EXCEPT !.first = From(@, n)]
      ELSE [first |-> NoSpan,
            second |-> IF rest <= view.second.len THEN From(view.second, rest) ELSE NoSpan]

\* (mutant) An emptied buffer is not moved back to its beginning.
Skip_KeepsOffsets(b, len) ==
  [b EXCEPT !.start = Wrap(b, b.start + len), !.size = b.size - len]

Skip(b, len) ==
  IF len = b.size
  THEN [b EXCEPT !.start = 0, !.end = 0, !.size = 0]
  ELSE [b EXCEPT !.start = Wrap(b, b.start + len), !.size = b.size - len]

ClearRing(b) == [b EXCEPT !.start = 0, !.end = 0, !.size = 0]

\* operator=(const CircularByteBuffer&): an allocation of the same capacity,
\* all of it copied, the pointers at the same distances.
CopyOf(b) ==
  [data |-> [i \in 0 .. b.cap - 1 |-> b.data[i]],
   start |-> b.start, end |-> b.end, cap |-> b.cap, size |-> b.size]

\* operator=(CircularByteBuffer&&): the allocation changes its owner, and
\* the former owner is left without memory.
MovedTo(b) ==
  [data |-> b.data, start |-> b.start, end |-> b.end, cap |-> b.cap, size |-> b.size]

MovedFrom(b) == NewRing(0)

-----------------------------------------------------------------------------
\* (mutant) growTo forgets the part that wrapped to the front.
Relocated_TailOnly(b, i) ==
  IF i < AtMost(b.size, b.cap - b.start) THEN b.data[b.start + i] ELSE Uninit

\* growTo copies the live bytes to the front of a larger allocation; when
\* they wrap (or fill the ring) it copies the tail part and then the head.
Relocated(b, i) ==
  IF b.start < b.end \/ (b.start = b.end /\ b.size = 0)
  THEN IF i < b.size THEN b.data[b.start + i] ELSE Uninit
  ELSE LET endPart == b.cap - b.start
       IN  IF i < endPart THEN b.data[b.start + i]
           ELSE IF i < endPart + b.end THEN b.data[i - endPart] ELSE Uninit

GrowTo(b, newCap) ==
  [data |-> [i \in 0 .. newCap - 1 |-> Relocated(b, i)],
   start |-> 0, end |-> b.size, cap |-> newCap, size |-> b.size]

\* while (curcap < newcap) curcap *= 2
Doublings(cap, newCap) ==
  CHOOSE k \in 0 .. MaxDoublings :
    /\ cap * 2^k >= newCap
    /\ \A j \in 0 .. k - 1 : cap * 2^j < newCap

DoubledCap(cap, newCap) == cap * 2^Doublings(cap, newCap)

GrowUntilAtLeast(b, newCap) ==
  GrowTo(b, DoubledCap(IF b.cap = 0 THEN DefaultCap ELSE b.cap, newCap))

\* (mutant) reserve counts free bytes that are not contiguous.
Reserve_CountsAllFree(b, extra) ==
  IF extra <= Free(b) THEN b ELSE GrowUntilAtLeast(b, b.size + extra)

Reserve(b, extra) == GrowUntilAtLeast(b, b.cap + extra)

ReserveUntil(b, cap) == GrowUntilAtLeast(b, cap)

-----------------------------------------------------------------------------
\* (mutant) The new capacity is computed without the unread bytes.
MakeRoom_IgnoresUnread(b, s) ==
  IF Len(s) > b.cap THEN GrowUntilAtLeast(b, Len(s)) ELSE b

\* write: make room, fill the first window, and when the data is longer
\* continue in the window that opens once the first one is used up.
MakeRoom(b, s) ==
  IF Len(s) > Free(b) THEN GrowUntilAtLeast(b, b.size + Len(s)) ELSE b

FirstLen(b, s) == AtMost(Len(s), WriteWindow(b).len)

WritePart(b, s) == AdvanceWrite(Store(b, WriteWindow(b).at, s), Len(s))

WriteFirst(b, s) == WritePart(b, SubSeq(s, 1, FirstLen(b, s)))

Write(b, s) ==
  LET g == MakeRoom(b, s)
      n == FirstLen(g, s)
  IN  IF s = << >> THEN b
      ELSE IF n = Len(s) THEN WriteFirst(g, s)
      ELSE WritePart(WriteFirst(g, s), SubSeq(s, n + 1, Len(s)))

-----------------------------------------------------------------------------
\* The unread bytes, oldest first.
Contents(b) == [i \in 1 .. b.size |-> b.data[Wrap(b, b.start + i - 1)]]

\* The members are consistent: going around from start to end there are
\* exactly `size` bytes, and an empty buffer is back at its beginning.  A
\* full buffer that growTo has just rebuilt at the same capacity leaves
\* m_end at m_endAlloc instead of m_data.
RingOK(b) ==
  /\ b \in [data : [0 .. b.cap - 1 -> Cell],
            start : Nat, end : Nat, cap : Nat, size : Nat]
  /\ b.size <= b.cap
  /\ b.size = 0 => b.start = 0 /\ b.end = 0
  /\ b.size > 0 =>
       /\ b.start < b.cap
       /\ \/ b.end = Wrap(b, b.start + b.size)
          \/ b.start + b.size = b.cap /\ b.end = b.cap

==============================================================================
