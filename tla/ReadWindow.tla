----------------------------- MODULE ReadWindow -----------------------------
(***************************************************************************)
(* ClientBase::rwindow: the part of m_rbuf that the next receive may fill. *)
(* It is what makes the buffer grow, and what limits it.                   *)
(***************************************************************************)
EXTENDS RingOps

CONSTANTS
  Window,       \* the argument of rwindow (4096 in every call)
  MaxBuffer     \* MAX_BUFFER_SIZE

ASSUME WindowAssumption ==
  /\ Window \in Nat \ {0}
  /\ MaxBuffer \in Nat
  /\ MaxBuffer + Window <= MaxCapacity

\* The limit is one of the capacities that doubling leads to (2^27 from 2^6 in
\* the code), and a window is at most half of it.
ASSUME LimitAssumption ==
  /\ \E n \in 0 .. MaxDoublings : DefaultCap * 2^n = MaxBuffer
  /\ 2 * Window <= MaxBuffer

\* What the proofs use of powers of two, which the provers do not compute.
ASSUME PowersAssumption ==
  /\ 2^0 = 1 /\ 2^1 = 2
  /\ \A n \in 0 .. MaxDoublings : \A k \in 0 .. n : 2^k * 2^(n - k) = 2^n

NeedsGrowth(b) == WriteWindow(b).len < Window

\* (mutant) The limit is exceeded once.
BufferOverflow_Above(b) == NeedsGrowth(b) /\ b.cap > MaxBuffer

\* The exception "received data exceeds maximum buffer size".
BufferOverflow(b) == NeedsGrowth(b) /\ b.cap >= MaxBuffer

RWindow(b) == IF NeedsGrowth(b) THEN Reserve(b, Window) ELSE b

\* receive puts s at the front of the window, advanceWrite counts it.
ReceiveInto(b, s) == AdvanceWrite(Store(b, WriteWindow(b).at, s), Len(s))
=============================================================================
