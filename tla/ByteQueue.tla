------------------------------ MODULE ByteQueue ------------------------------
(***************************************************************************)
(* What CircularByteBuffer promises its users: an unbounded queue of       *)
(* bytes.  Capacity, wrapping and reallocation are invisible; a caller     *)
(* only sees the bytes it appends, the bytes it gets back, and the         *)
(* exception thrown when it asks for more bytes than there are.            *)
(***************************************************************************)
EXTENDS Integers, Sequences

CONSTANTS
  Byte,      \* the values of a byte
  Chunk,     \* the byte strings one call may append
  MaxRead    \* the longest read a caller asks for (bounds the model)

VARIABLES
  queue,     \* the unread bytes, oldest first
  call       \* the last visible call: its name and its argument or result

vars == <<queue, call>>

Init ==
  /\ queue = << >>
  /\ call = <<"new", << >>>>

Enqueue(s) ==
  /\ queue' = queue \o s
  /\ call' = <<"append", s>>

Read(n) ==
  /\ n <= Len(queue)
  /\ queue' = SubSeq(queue, n + 1, Len(queue))
  /\ call' = <<"read", SubSeq(queue, 1, n)>>

ReadTooMuch(n) ==
  /\ n > Len(queue)
  /\ call' = <<"out_of_range", << >>>>
  /\ UNCHANGED queue

Clear ==
  /\ queue' = << >>
  /\ call' = <<"clear", << >>>>

\* The bytes now belong to another queue.
MoveAway ==
  /\ queue' = << >>
  /\ call' = <<"moved", << >>>>

Next ==
  \/ \E s \in Chunk : Enqueue(s)
  \/ \E n \in 0 .. MaxRead : Read(n) \/ ReadTooMuch(n)
  \/ Clear \/ MoveAway

Spec == Init /\ [][Next]_vars

==============================================================================
