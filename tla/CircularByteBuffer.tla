------------------------- MODULE CircularByteBuffer -------------------------
(***************************************************************************)
(* A CircularByteBuffer in the hands of its callers: ClientBase::m_rbuf    *)
(* is filled through writeWindow/advanceWrite and drained with peek/read/  *)
(* skip, m_wbuf is filled with write and drained with peek/skip.  One      *)
(* action per member function that changes the object.                     *)
(***************************************************************************)
EXTENDS RingOps

CONSTANTS
  Chunk,        \* the byte strings one call may append
  InitialCaps,  \* constructor arguments
  Extras,       \* arguments of reserve and reserveUntil
  MaxRead       \* longest read or skip a caller asks for

ASSUME ChunkAssumption ==
  /\ Chunk \subseteq Seq(Byte)
  /\ InitialCaps \subseteq Nat
  /\ Extras \subseteq Nat
  /\ MaxRead \in Nat

VARIABLES
  buf,   \* the object's members (see RingOps)
  call   \* the last call a user can tell apart, as in ByteQueue

vars == <<buf, call>>

Init ==
  /\ \E cap \in InitialCaps : buf = NewRing(cap)
  /\ call = <<"new", << >>>>

\* Callers request at most MaxCapacity bytes (bounds the model).
Grantable(cap) == cap <= MaxCapacity

\* void write(std::span<const uint8_t>)
WriteBytes(s) ==
  /\ Grantable(buf.size + Len(s))
  /\ buf' = Write(buf, s)
  /\ call' = <<"append", s>>

\* wnd = writeWindow(); n = receive(wnd); advanceWrite(n): how the clients
\* read from a socket straight into the buffer.
FillWindow(s) ==
  /\ Len(s) <= WriteWindow(buf).len
  /\ buf' = AdvanceWrite(Store(buf, WriteWindow(buf).at, s), Len(s))
  /\ call' = <<"append", s>>

\* void read(void*, size_t): peek, then skip.
ReadBytes(n) ==
  /\ n <= buf.size
  /\ buf' = Skip(buf, n)
  /\ call' = <<"read", Peek(buf, n, 0)>>

\* peek and skip throw std::out_of_range before they change anything.
ReadTooMuch(n) ==
  /\ n > buf.size
  /\ call' = <<"out_of_range", << >>>>
  /\ UNCHANGED buf

Clear ==
  /\ buf' = ClearRing(buf)
  /\ call' = <<"clear", << >>>>

ReserveExtra(n) ==
  /\ Grantable(buf.cap + n)
  /\ buf' = Reserve(buf, n)
  /\ UNCHANGED call

ReserveCap(n) ==
  /\ Grantable(n)
  /\ buf' = ReserveUntil(buf, n)
  /\ UNCHANGED call

\* operator=(const CircularByteBuffer&): what follows happens to the copy.
TakeCopy ==
  /\ buf' = CopyOf(buf)
  /\ UNCHANGED call

\* operator=(CircularByteBuffer&&): it happens to the new owner, ...
MoveOn ==
  /\ buf' = MovedTo(buf)
  /\ UNCHANGED call

\* ... or the object that was moved from is used again.
MoveAway ==
  /\ buf' = MovedFrom(buf)
  /\ call' = <<"moved", << >>>>

Next ==
  \/ \E s \in Chunk : WriteBytes(s) \/ FillWindow(s)
  \/ \E n \in 0 .. MaxRead : ReadBytes(n) \/ ReadTooMuch(n)
  \/ Clear
  \/ \E n \in Extras : ReserveExtra(n) \/ ReserveCap(n)
  \/ TakeCopy \/ MoveOn \/ MoveAway

Spec == Init /\ [][Next]_vars

-----------------------------------------------------------------------------
\* After any sequence of calls the five members still describe one ring of
\* `size` unread bytes, and writeWindow's assertions on an empty buffer hold.
TypeOK == RingOK(buf)

\* Every peek, whatever its length and offset, returns the bytes the queue
\* holds there, although it is computed from two spans by pointer
\* comparisons: no lost wrap-around, no stale or uninitialised byte.
PeekCorrect ==
  \A skip \in 0 .. buf.size : \A len \in 0 .. buf.size - skip :
    Peek(buf, len, skip) = SubSeq(Contents(buf), skip + 1, skip + len)

\* The window given to a socket read lies inside the allocation and holds
\* no unread byte, so receiving into it cannot destroy queued data.
WindowIsFree ==
  LET wnd  == WriteWindow(buf)
      live == {Wrap(buf, buf.start + i) : i \in 0 .. buf.size - 1}
      into == wnd.at .. wnd.at + wnd.len - 1
  IN  /\ into \subseteq 0 .. buf.cap - 1
      /\ into \cap live = {}

\* The header's promise for reserve: afterwards the contiguous window has
\* at least `extra` bytes, wherever the live data was before.
ReserveOpensWindow ==
  \A n \in Extras : Grantable(buf.cap + n) =>
    LET b == Reserve(buf, n)
    IN  WriteWindow(b).len >= n /\ b.cap >= buf.cap + n

\* The assertion in write: when the data does not fit the first window, the
\* rest fits the second one.
SecondWindowSuffices ==
  \A s \in Chunk : Grantable(buf.size + Len(s)) =>
    LET g == MakeRoom(buf, s)
        n == FirstLen(g, s)
    IN  n < Len(s) => WriteWindow(WriteFirst(g, s)).len >= Len(s) - n

\* Whoever consumes a peeked view with its own skip, over the seam of the two
\* spans or past their end, goes on with the bytes that follow.
ViewSkipsBytes ==
  \A len \in 0 .. buf.size : \A n \in 0 .. len + 1 :
    LET view == SkipView(PeekView(buf, len), n)
    IN  Bytes(buf, view.first) \o Bytes(buf, view.second)
          = SubSeq(Contents(buf), n + 1, len)

-----------------------------------------------------------------------------
\* Seen from outside the ring is a byte queue: reserving, growing and
\* wrapping are stuttering steps of it.
Queue == INSTANCE ByteQueue WITH queue <- Contents(buf)

RingImplementsQueue == Queue!Spec

==============================================================================
