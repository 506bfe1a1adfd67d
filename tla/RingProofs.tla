------------------------------ MODULE RingProofs ------------------------------
(***************************************************************************)
(* Lemmas about the operations of the ring buffer, for every capacity and  *)
(* byte alphabet: what each does to the bytes that the buffer holds.       *)
(***************************************************************************)
EXTENDS RingOps, SequenceTheorems, WellFoundedInduction, TLAPS

-----------------------------------------------------------------------------
(* Capacity doubling *)

\* A nonempty set of naturals has a least element.
LEMMA LeastNatural ==
  ASSUME NEW T, T \subseteq Nat, T # {}
  PROVE  \E x \in T : \A y \in T : ~ (y < x)
<1> DEFINE R == OpToRel(<, Nat)
<1>1. IsWellFoundedOn(R, Nat)
  BY NatLessThanWellFounded
<1>2. \E x \in T : \A y \in T : ~ (<<y, x>> \in R)
  BY <1>1, WFMin
<1>3. \A x, y \in Nat : y < x => <<y, x>> \in R
  BY DEF OpToRel
<1>4. QED
  BY <1>2, <1>3

\* The doubling loop ends, as soon as the capacity is enough.
LEMMA DoublingEnds ==
  ASSUME NEW cap \in Nat \ {0}, NEW newCap \in Nat, newCap <= MaxCapacity
  PROVE  LET k == Doublings(cap, newCap)
         IN  /\ k \in 0 .. MaxDoublings
             /\ cap * 2^k \in Nat /\ cap * 2^k >= cap
             /\ cap * 2^k >= newCap
             /\ \A j \in 0 .. k - 1 : cap * 2^j < newCap
<1> DEFINE P(k) == cap * 2^k >= newCap
           T == {k \in 0 .. MaxDoublings : P(k)}
<1>1. \A k \in 0 .. MaxDoublings : cap * 2^k \in Nat /\ cap * 2^k >= cap
  <2> SUFFICES ASSUME NEW k \in 0 .. MaxDoublings
               PROVE  cap * 2^k \in Nat /\ cap * 2^k >= cap
    OBVIOUS
  <2> DEFINE m == 2^k
  <2>1. m \in Nat \ {0}
    BY RingAssumption
  <2> HIDE DEF m
  <2>2. cap * m \in Nat /\ cap * m >= cap
    BY <2>1
  <2>3. QED
    BY <2>2 DEF m
<1>2. MaxDoublings \in T
  <2> DEFINE m == 2^MaxDoublings
  <2>1. m \in Nat \ {0} /\ m >= MaxCapacity
    BY RingAssumption
  <2> HIDE DEF m
  <2>2. cap * m >= newCap
    BY <2>1, RingAssumption
  <2>3. QED
    BY <2>2, RingAssumption DEF m
<1>3. PICK k \in T : \A j \in T : ~ (j < k)
  <2> HIDE DEF P
  <2>1. T \subseteq Nat
    OBVIOUS
  <2> HIDE DEF T
  <2>2. QED
    BY <1>2, <2>1, LeastNatural
<1>4. \A j \in 0 .. k - 1 : cap * 2^j < newCap
  BY <1>1, <1>3, RingAssumption
<1>5. LET d == Doublings(cap, newCap)
      IN  /\ d \in 0 .. MaxDoublings
          /\ P(d)
          /\ \A j \in 0 .. d - 1 : cap * 2^j < newCap
  BY <1>3, <1>4 DEF Doublings
<1>6. QED
  BY <1>1, <1>5

\* It ends at a capacity that is neither too small nor smaller than the one
\* it started from.
LEMMA DoublingReaches ==
  ASSUME NEW cap \in Nat \ {0}, NEW newCap \in Nat, newCap <= MaxCapacity
  PROVE  /\ DoubledCap(cap, newCap) \in Nat
         /\ DoubledCap(cap, newCap) >= newCap
         /\ DoubledCap(cap, newCap) >= cap
BY DoublingEnds DEF DoubledCap

-----------------------------------------------------------------------------
(* One ring *)

\* The unread bytes are contiguous, or they wrap and meet m_start again.
LEMMA RingCases ==
  ASSUME NEW b, RingOK(b), b.size > 0
  PROVE  \/ b.start < b.end /\ b.end = b.start + b.size /\ b.end <= b.cap
         \/ b.end <= b.start /\ b.end = b.start + b.size - b.cap
<1>1. /\ b.start \in Nat /\ b.end \in Nat /\ b.cap \in Nat /\ b.size \in Nat
      /\ b.size <= b.cap /\ b.start < b.cap
      /\ \/ b.end = Wrap(b, b.start + b.size)
         \/ b.start + b.size = b.cap /\ b.end = b.cap
  BY DEF RingOK
<1>2. QED
  BY <1>1 DEF Wrap

\* Position i of the queue lies inside the allocation.
LEMMA LivePositions ==
  ASSUME NEW b, RingOK(b), NEW i \in 1 .. b.size
  PROVE  Wrap(b, b.start + i - 1) \in 0 .. b.cap - 1
<1>1. /\ b.start \in Nat /\ b.cap \in Nat /\ b.size \in Nat
      /\ b.size <= b.cap /\ b.start < b.cap
  BY DEF RingOK
<1>2. QED
  BY <1>1 DEF Wrap

\* The unread bytes form a sequence of cells.
LEMMA ContentsType ==
  ASSUME NEW b, RingOK(b)
  PROVE  /\ Contents(b) \in Seq(Cell)
         /\ Len(Contents(b)) = b.size
         /\ \A i \in 1 .. b.size :
              Contents(b)[i] = b.data[Wrap(b, b.start + i - 1)]
<1>1. b.size \in Nat /\ b.data \in [0 .. b.cap - 1 -> Cell]
  BY DEF RingOK
<1>2. \A i \in 1 .. b.size : b.data[Wrap(b, b.start + i - 1)] \in Cell
  BY <1>1, LivePositions
<1>3. Contents(b) \in [1 .. b.size -> Cell]
  BY <1>2 DEF Contents
<1>4. Contents(b) \in Seq(Cell)
  BY <1>1, <1>3
<1>5. DOMAIN Contents(b) = 1 .. b.size
  BY DEF Contents
<1>6. Len(Contents(b)) = b.size
  BY <1>1, <1>4, <1>5
<1>7. QED
  BY <1>4, <1>6 DEF Contents

\* growTo loses nothing: whatever the four cases its comment lists, the
\* bytes it moves to the front are the unread ones, in order.
LEMMA GrowToKeeps ==
  ASSUME NEW b, RingOK(b), NEW n \in Nat, n >= b.size
  PROVE  RingOK(GrowTo(b, n)) /\ Contents(GrowTo(b, n)) = Contents(b)
<1> DEFINE g == GrowTo(b, n)
<1>1. /\ b.data \in [0 .. b.cap - 1 -> Cell]
      /\ b.start \in Nat /\ b.end \in Nat /\ b.cap \in Nat /\ b.size \in Nat
      /\ b.size <= b.cap
      /\ b.size > 0 => b.start < b.cap
      /\ b.size = 0 => b.start = 0 /\ b.end = 0
  BY DEF RingOK
<1>2. ASSUME NEW i \in 0 .. b.size - 1
      PROVE  Relocated(b, i) = b.data[Wrap(b, b.start + i)]
  <2>0. b.size > 0
    BY <1>1
  <2>1. CASE b.start < b.end
    <3>1. b.end = b.start + b.size /\ b.end <= b.cap
      BY <1>1, <2>0, <2>1, RingCases
    <3>2. Wrap(b, b.start + i) = b.start + i
      BY <1>1, <3>1 DEF Wrap
    <3>3. QED
      BY <1>1, <2>1, <3>2 DEF Relocated
  <2>2. CASE ~ (b.start < b.end)
    <3>1. b.end <= b.start /\ b.end = b.start + b.size - b.cap
      BY <2>0, <2>2, RingCases
    <3>2. CASE i < b.cap - b.start
      <4>1. Wrap(b, b.start + i) = b.start + i
        BY <1>1, <3>2 DEF Wrap
      <4>2. QED
        BY <1>1, <2>0, <2>2, <3>2, <4>1 DEF Relocated
    <3>3. CASE ~ (i < b.cap - b.start)
      <4>1. /\ Wrap(b, b.start + i) = i - (b.cap - b.start)
            /\ i < b.cap - b.start + b.end
        BY <1>1, <2>0, <3>1, <3>3 DEF Wrap
      <4>2. QED
        BY <1>1, <2>0, <2>2, <3>3, <4>1 DEF Relocated
    <3>4. QED
      BY <3>2, <3>3
  <2>3. QED
    BY <2>1, <2>2
<1>3. \A i \in 0 .. b.size - 1 : Relocated(b, i) \in Cell
  <2>1. \A i \in 0 .. b.size - 1 : Wrap(b, b.start + i) \in 0 .. b.cap - 1
    BY <1>1 DEF Wrap
  <2>2. QED
    BY <1>1, <1>2, <2>1
<1>4. ASSUME NEW i \in Nat, i >= b.size
      PROVE  Relocated(b, i) = Uninit
  <2>1. CASE b.size = 0
    BY <1>1, <1>4, <2>1 DEF Relocated
  <2>2. CASE b.size > 0
    BY <1>1, <1>4, <2>2, RingCases DEF Relocated
  <2>3. QED
    BY <1>1, <2>1, <2>2
<1>5. g.data \in [0 .. n - 1 -> Cell]
  BY <1>1, <1>3, <1>4 DEF GrowTo, Cell
<1>6. RingOK(g)
  BY <1>1, <1>5 DEF RingOK, GrowTo, Wrap
<1>7. \A i \in 1 .. b.size :
        g.data[Wrap(g, g.start + i - 1)] = b.data[Wrap(b, b.start + i - 1)]
  <2> TAKE i \in 1 .. b.size
  <2>1. Wrap(g, g.start + i - 1) = i - 1
    BY <1>1 DEF GrowTo, Wrap
  <2>2. g.data[i - 1] = Relocated(b, i - 1)
    BY <1>1 DEF GrowTo
  <2>3. Relocated(b, i - 1) = b.data[Wrap(b, b.start + (i - 1))]
    BY <1>1, <1>2
  <2>4. b.start + (i - 1) = b.start + i - 1
    BY <1>1
  <2>5. QED
    BY <2>1, <2>2, <2>3, <2>4
<1>8. g.size = b.size
  BY DEF GrowTo
<1>9. QED
  BY <1>6, <1>7, <1>8 DEF Contents

-----------------------------------------------------------------------------
(* The write window *)

\* The window is the run of offsets that follow the last unread byte, and
\* none of them holds an unread byte.
LEMMA WindowFollows ==
  ASSUME NEW b, RingOK(b)
  PROVE  /\ WriteWindow(b).at \in Nat
         /\ WriteWindow(b).len \in Nat
         /\ WriteWindow(b).at + WriteWindow(b).len <= b.cap
         /\ WriteWindow(b).len <= b.cap - b.size
         /\ \A j \in 0 .. WriteWindow(b).len - 1 :
              Wrap(b, b.start + b.size + j) = WriteWindow(b).at + j
         /\ \A i \in 0 .. b.size - 1 :
              \/ Wrap(b, b.start + i) < WriteWindow(b).at
              \/ Wrap(b, b.start + i) >= WriteWindow(b).at + WriteWindow(b).len
<1>1. /\ b.start \in Nat /\ b.end \in Nat /\ b.cap \in Nat /\ b.size \in Nat
      /\ b.size <= b.cap
      /\ b.size > 0 => b.start < b.cap
      /\ b.size = 0 => b.start = 0 /\ b.end = 0
  BY DEF RingOK
<1>2. CASE b.size = 0
  BY <1>1, <1>2 DEF WriteWindow, Wrap
<1>3. CASE b.size > 0 /\ b.start < b.end
  <2>1. b.end = b.start + b.size /\ b.end <= b.cap
    BY <1>1, <1>3, RingCases
  <2>2. WriteWindow(b) = [at |-> b.end, len |-> b.cap - b.end]
    BY <1>1, <1>3 DEF WriteWindow
  <2>3. WriteWindow(b).at = b.end /\ WriteWindow(b).len = b.cap - b.end
    BY <2>2
  <2>4. \A j \in 0 .. b.cap - b.end - 1 :
          Wrap(b, b.start + b.size + j) = b.end + j
    BY <1>1, <2>1 DEF Wrap
  <2>5. \A i \in 0 .. b.size - 1 : Wrap(b, b.start + i) < b.end
    BY <1>1, <2>1 DEF Wrap
  <2>6. QED
    BY <1>1, <2>1, <2>3, <2>4, <2>5
<1>4. CASE b.size > 0 /\ ~ (b.start < b.end)
  <2>1. b.end <= b.start /\ b.end = b.start + b.size - b.cap
    BY <1>4, RingCases
  <2>2. WriteWindow(b) = [at |-> b.end, len |-> b.start - b.end]
    BY <1>1, <1>4, <2>1 DEF WriteWindow
  <2>3. WriteWindow(b).at = b.end /\ WriteWindow(b).len = b.start - b.end
    BY <2>2
  <2>4. \A j \in 0 .. b.start - b.end - 1 :
          Wrap(b, b.start + b.size + j) = b.end + j
    BY <1>1, <1>4, <2>1 DEF Wrap
  <2>5. \A i \in 0 .. b.size - 1 :
          Wrap(b, b.start + i) < b.end \/ Wrap(b, b.start + i) >= b.start
    BY <1>1, <1>4, <2>1 DEF Wrap
  <2>6. QED
    BY <1>1, <1>4, <2>1, <2>3, <2>4, <2>5
<1>5. QED
  BY <1>1, <1>2, <1>3, <1>4

\* Storing bytes at the window and advancing appends them to the queue.
LEMMA WritePartAppends ==
  ASSUME NEW b, RingOK(b),
         NEW s \in Seq(Byte), Len(s) <= WriteWindow(b).len
  PROVE  /\ RingOK(WritePart(b, s))
         /\ Contents(WritePart(b, s)) = Contents(b) \o s
         /\ WritePart(b, s).cap = b.cap
         /\ WritePart(b, s).size = b.size + Len(s)
         /\ WritePart(b, s).start = b.start
         /\ WritePart(b, s).end = Wrap(b, b.end + Len(s))
<1> DEFINE w == WritePart(b, s)
           wnd == WriteWindow(b)
           n == Len(s)
<1>0. b.data \in [0 .. b.cap - 1 -> Cell]
  BY DEF RingOK
<1>1. /\ b.start \in Nat /\ b.end \in Nat /\ b.cap \in Nat /\ b.size \in Nat
      /\ b.size <= b.cap
      /\ b.size > 0 => b.start < b.cap
      /\ b.size = 0 => b.start = 0 /\ b.end = 0
  BY DEF RingOK
<1>2. n \in Nat
  OBVIOUS
<1>2a. \A i \in 1 .. n : s[i] \in Byte
  OBVIOUS
<1>3. /\ wnd.at \in Nat /\ wnd.len \in Nat /\ n <= wnd.len
      /\ wnd.at + wnd.len <= b.cap
      /\ wnd.len <= b.cap - b.size
  BY WindowFollows
<1>3a. \A j \in 0 .. wnd.len - 1 : Wrap(b, b.start + b.size + j) = wnd.at + j
  BY WindowFollows
<1>3b. \A i \in 0 .. b.size - 1 : \/ Wrap(b, b.start + i) < wnd.at
                                 \/ Wrap(b, b.start + i) >= wnd.at + wnd.len
  BY WindowFollows
<1>4. w = [data |-> [i \in 0 .. b.cap - 1 |->
                       IF wnd.at <= i /\ i < wnd.at + n
                       THEN s[i - wnd.at + 1] ELSE b.data[i]],
           start |-> b.start, end |-> Wrap(b, b.end + n),
           cap |-> b.cap, size |-> b.size + n]
  <2> DEFINE st == Store(b, wnd.at, s)
  <2>1. b \in [data : [0 .. b.cap - 1 -> Cell],
               start : Nat, end : Nat, cap : Nat, size : Nat]
    BY DEF RingOK
  <2>2. st = [data |-> [i \in 0 .. b.cap - 1 |->
                         IF wnd.at <= i /\ i < wnd.at + n
                         THEN s[i - wnd.at + 1] ELSE b.data[i]],
              start |-> b.start, end |-> b.end, cap |-> b.cap, size |-> b.size]
    <3>1. b = [data |-> b.data, start |-> b.start, end |-> b.end,
               cap |-> b.cap, size |-> b.size]
      BY <2>1
    <3> DEFINE d == [i \in 0 .. b.cap - 1 |->
                       IF wnd.at <= i /\ i < wnd.at + n
                       THEN s[i - wnd.at + 1] ELSE b.data[i]]
    <3>2. st = [b EXCEPT !.data = d]
      BY DEF Store
    <3> HIDE DEF d, st
    <3>3. st = [data |-> d, start |-> b.start, end |-> b.end,
                cap |-> b.cap, size |-> b.size]
      BY <3>1, <3>2
    <3>4. QED
      BY <3>3 DEF d
  <2>3. w = [st EXCEPT !.end = Wrap(st, st.end + n), !.size = st.size + n]
    BY DEF WritePart, AdvanceWrite
  <2>4. Wrap(st, st.end + n) = Wrap(b, b.end + n)
    BY <2>2 DEF Wrap
  <2> HIDE DEF st, w, n, wnd
  <2>5. QED
    BY <2>2, <2>3, <2>4
<1> HIDE DEF w, wnd, n
<1>5. w.data \in [0 .. b.cap - 1 -> Cell]
  <2>1. ASSUME NEW i \in 0 .. b.cap - 1, wnd.at <= i, i < wnd.at + n
        PROVE  s[i - wnd.at + 1] \in Cell
    <3>1. i - wnd.at + 1 \in 1 .. n
      BY <1>1, <1>2, <1>3, <2>1, SMTT(30)
    <3>2. QED
      BY <1>2a, <3>1 DEF Cell
  <2>2. \A i \in 0 .. b.cap - 1 : b.data[i] \in Cell
    BY <1>0
  <2>3. QED
    BY <1>4, <2>1, <2>2
<1>6. /\ w.end \in Nat
      /\ w.size = 0 => w.end = 0
      /\ w.size > 0 => \/ w.end = Wrap(b, b.start + w.size)
                       \/ b.start + w.size = b.cap /\ w.end = b.cap
  <2>1. w.end = Wrap(b, b.end + n) /\ w.size = b.size + n
    BY <1>4
  <2>2. CASE b.size = 0
    <3>1. w.end = Wrap(b, n) /\ w.size = n /\ b.start + w.size = n
      BY <1>1, <1>2, <2>1, <2>2
    <3>2. Wrap(b, n) \in Nat /\ (n = 0 => Wrap(b, n) = 0)
      BY <1>1, <1>2 DEF Wrap
    <3>3. QED
      BY <3>1, <3>2
  <2>3. CASE b.size > 0 /\ b.start < b.end
    <3>1. b.end = b.start + b.size /\ b.end <= b.cap
      BY <1>1, <2>3, RingCases
    <3>2. b.start + b.size + n <= b.cap
      <4>1. wnd.at = b.end
        BY <1>1, <2>3 DEF WriteWindow, wnd
      <4>2. QED
        BY <1>1, <1>2, <1>3, <3>1, <4>1
    <3>3. CASE b.end + n >= b.cap
      <4>1. w.end = 0 /\ Wrap(b, b.start + w.size) = 0
        BY <1>1, <1>2, <2>1, <3>1, <3>2, <3>3 DEF Wrap
      <4>2. QED
        BY <4>1
    <3>4. CASE ~ (b.end + n >= b.cap)
      <4>1. w.end = b.end + n /\ Wrap(b, b.start + w.size) = b.end + n
        BY <1>1, <1>2, <2>1, <3>1, <3>2, <3>4 DEF Wrap
      <4>2. QED
        BY <1>1, <1>2, <2>1, <2>3, <4>1
    <3>5. QED
      BY <3>3, <3>4
  <2>4. CASE b.size > 0 /\ ~ (b.start < b.end)
    <3>1. b.end <= b.start /\ b.end = b.start + b.size - b.cap
      BY <2>4, RingCases
    <3>2. wnd.len = b.start - b.end
      BY <1>1, <2>4, <3>1 DEF WriteWindow, wnd
    <3>3. w.end = b.end + n /\ Wrap(b, b.start + w.size) = b.end + n
      <4>1. b.end + n < b.cap
        BY <1>1, <1>2, <1>3, <2>4, <3>2
      <4>2. b.start + w.size - b.cap = b.end + n
        BY <1>1, <1>2, <2>1, <3>1
      <4>3. b.start + w.size >= b.cap
        BY <1>1, <1>2, <2>1, <3>1
      <4>4. QED
        BY <1>1, <1>2, <2>1, <4>1, <4>2, <4>3 DEF Wrap
    <3>4. QED
      BY <1>1, <1>2, <2>1, <2>4, <3>3
  <2>5. QED
    BY <1>1, <2>2, <2>3, <2>4
<1>7. w.start = b.start /\ w.cap = b.cap /\ w.size = b.size + n
  BY <1>4
<1>8. RingOK(w)
  <2>1. w.size <= w.cap /\ (w.size = 0 => w.start = 0)
        /\ (w.size > 0 => w.start < w.cap)
    BY <1>1, <1>2, <1>3, <1>7
  <2>2. Wrap(w, w.start + w.size) = Wrap(b, b.start + w.size)
    BY <1>7 DEF Wrap
  <2>3. w \in [data : [0 .. w.cap - 1 -> Cell],
               start : Nat, end : Nat, cap : Nat, size : Nat]
    BY <1>1, <1>2, <1>4, <1>5, <1>6, <1>7
  <2>4. QED
    BY <1>6, <1>7, <2>1, <2>2, <2>3 DEF RingOK
<1>9. \A i \in 1 .. b.size :
        w.data[Wrap(w, w.start + i - 1)] = b.data[Wrap(b, b.start + i - 1)]
  <2> TAKE i \in 1 .. b.size
  <2>1. Wrap(w, w.start + i - 1) = Wrap(b, b.start + i - 1)
    BY <1>7 DEF Wrap
  <2>2. Wrap(b, b.start + i - 1) \in 0 .. b.cap - 1
    BY LivePositions
  <2>3. Wrap(b, b.start + i - 1) = Wrap(b, b.start + (i - 1))
    BY <1>1
  <2>4. ~ (wnd.at <= Wrap(b, b.start + i - 1)
           /\ Wrap(b, b.start + i - 1) < wnd.at + n)
    <3> DEFINE p == Wrap(b, b.start + i - 1)
    <3>1. p < wnd.at \/ p >= wnd.at + wnd.len
      <4>1. i - 1 \in 0 .. b.size - 1
        BY <1>1
      <4>2. QED
        BY <1>3b, <2>3, <4>1
    <3>2. p \in Int
      BY <2>2
    <3> HIDE DEF p
    <3>3. QED
      BY <1>2, <1>3, <3>1, <3>2 DEF p
  <2>5. QED
    BY <1>4, <2>1, <2>2, <2>4
<1>10. \A i \in 1 .. n : w.data[Wrap(w, w.start + (b.size + i) - 1)] = s[i]
  <2> TAKE i \in 1 .. n
  <2>1. Wrap(w, w.start + (b.size + i) - 1) = wnd.at + (i - 1)
    <3>0. i - 1 \in 0 .. wnd.len - 1
      BY <1>2, <1>3
    <3>1. Wrap(b, b.start + b.size + (i - 1)) = wnd.at + (i - 1)
      BY <1>3a, <3>0
    <3>2. Wrap(w, w.start + (b.size + i) - 1) = Wrap(b, b.start + b.size + (i - 1))
      BY <1>1, <1>2, <1>7 DEF Wrap
    <3>3. QED
      BY <3>1, <3>2
  <2> DEFINE at == wnd.at  k == i - 1
  <2>2. at \in Nat /\ k \in Nat /\ k < n /\ i = k + 1 /\ at + n <= b.cap
    BY <1>1, <1>2, <1>3
  <2> HIDE DEF at, k
  <2>3. /\ at + k \in 0 .. b.cap - 1
        /\ at <= at + k
        /\ at + k < at + n
        /\ (at + k) - at + 1 = i
    BY <1>1, <1>2, <2>2
  <2>4. w.data[at + k] = s[i]
    BY <1>4, <2>3 DEF at
  <2>5. QED
    BY <2>1, <2>4 DEF at, k
<1>11. Contents(w) = Contents(b) \o s
  <2>1. /\ Contents(b) \in Seq(Cell) /\ Len(Contents(b)) = b.size
        /\ \A i \in 1 .. b.size :
             Contents(b)[i] = b.data[Wrap(b, b.start + i - 1)]
    BY ContentsType
  <2>2. Contents(w) \in Seq(Cell) /\ Len(Contents(w)) = b.size + n
        /\ \A i \in 1 .. b.size + n :
             Contents(w)[i] = w.data[Wrap(w, w.start + i - 1)]
    BY <1>7, <1>8, ContentsType
  <2>3. s \in Seq(Cell)
    BY <1>2a DEF Cell, n
  <2>4. \A i \in 1 .. b.size + n :
          Contents(w)[i] = IF i <= b.size THEN Contents(b)[i] ELSE s[i - b.size]
    <3> TAKE i \in 1 .. b.size + n
    <3>1. CASE i <= b.size
      BY <1>1, <1>2, <1>9, <2>1, <2>2, <3>1
    <3>2. CASE i > b.size
      <4> DEFINE j == i - b.size
      <4>1. j \in 1 .. n /\ i = b.size + j
        BY <1>1, <1>2, <3>2
      <4> HIDE DEF j
      <4>2. w.data[Wrap(w, w.start + i - 1)] = s[j]
        BY <1>10, <4>1
      <4>3. QED
        BY <1>1, <2>2, <3>2, <4>2 DEF j
    <3>3. QED
      BY <1>1, <1>2, <3>1, <3>2
  <2>5. QED
    <3> DEFINE c == Contents(b)  d == Contents(w)
    <3>1. c \in Seq(Cell) /\ d \in Seq(Cell) /\ Len(d) = Len(c) + Len(s)
          /\ \A i \in 1 .. Len(c) + Len(s) :
               d[i] = IF i <= Len(c) THEN c[i] ELSE s[i - Len(c)]
      BY <2>1, <2>2, <2>4 DEF n
    <3> HIDE DEF c, d
    <3>2. /\ c \o s \in Seq(Cell) /\ Len(c \o s) = Len(c) + Len(s)
          /\ \A i \in 1 .. Len(c) + Len(s) :
               (c \o s)[i] = IF i <= Len(c) THEN c[i] ELSE s[i - Len(c)]
      BY <2>3, <3>1
    <3>3. d = c \o s
      BY <3>1, <3>2, SeqEqual
    <3>4. QED
      BY <3>3 DEF c, d
<1>12. w.end = Wrap(b, b.end + n)
  BY <1>4
<1>13. QED
  BY <1>7, <1>8, <1>11, <1>12 DEF w, n

-----------------------------------------------------------------------------
(* Reading *)

\* The numbers every ring satisfies.
LEMMA RingNumbers ==
  ASSUME NEW b, RingOK(b)
  PROVE  /\ b.start \in Nat /\ b.end \in Nat /\ b.cap \in Nat /\ b.size \in Nat
         /\ b.size <= b.cap
         /\ b.size > 0 => b.start < b.cap
         /\ b.size = 0 => b.start = 0 /\ b.end = 0
  BY DEF RingOK

\* A slice of the queue is a sequence of cells.
LEMMA SliceOfContents ==
  ASSUME NEW b, RingOK(b), NEW k \in 0 .. b.size, NEW n \in 0 .. b.size - k
  PROVE  /\ SubSeq(Contents(b), k + 1, k + n) \in Seq(Cell)
         /\ Len(SubSeq(Contents(b), k + 1, k + n)) = n
         /\ \A i \in 1 .. n : SubSeq(Contents(b), k + 1, k + n)[i]
                                = b.data[Wrap(b, b.start + (k + i) - 1)]
<1> DEFINE c == Contents(b)
<1>1. b.size \in Nat
  BY RingNumbers
<1>2. /\ c \in Seq(Cell) /\ Len(c) = b.size
      /\ \A i \in 1 .. b.size : c[i] = b.data[Wrap(b, b.start + i - 1)]
  BY ContentsType
<1> HIDE DEF c
<1>3. \A i \in k + 1 .. k + n : c[i] \in Cell
  BY <1>1, <1>2
<1>4. k + 1 \in Int /\ k + n \in Int
  BY <1>1
<1>5. /\ SubSeq(c, k + 1, k + n) \in Seq(Cell)
      /\ Len(SubSeq(c, k + 1, k + n))
           = IF k + 1 <= k + n THEN (k + n) - (k + 1) + 1 ELSE 0
      /\ \A i \in 1 .. (k + n) - (k + 1) + 1 :
           SubSeq(c, k + 1, k + n)[i] = c[(k + 1) + i - 1]
  BY <1>3, <1>4, SubSeqProperties
<1>6. ASSUME NEW i \in 1 .. n
      PROVE  SubSeq(c, k + 1, k + n)[i] = b.data[Wrap(b, b.start + (k + i) - 1)]
  <2>1. i \in 1 .. (k + n) - (k + 1) + 1 /\ (k + 1) + i - 1 = k + i
        /\ k + i \in 1 .. b.size
    BY <1>1
  <2>2. SubSeq(c, k + 1, k + n)[i] = c[k + i]
    BY <1>5, <2>1
  <2>3. QED
    BY <1>2, <2>1, <2>2
<1>7. Len(SubSeq(c, k + 1, k + n)) = n
  BY <1>1, <1>5
<1>8. QED
  BY <1>5, <1>6, <1>7 DEF c

\* skip removes exactly the oldest bytes, wherever m_start wraps.
LEMMA SkipDrops ==
  ASSUME NEW b, RingOK(b), NEW n \in 0 .. b.size
  PROVE  /\ RingOK(Skip(b, n))
         /\ Contents(Skip(b, n)) = SubSeq(Contents(b), n + 1, b.size)
         /\ Skip(b, n).cap = b.cap
<1> DEFINE k == Skip(b, n)
<1>1. /\ b.start \in Nat /\ b.end \in Nat /\ b.cap \in Nat /\ b.size \in Nat
      /\ b.size <= b.cap
      /\ b.size > 0 => b.start < b.cap
  BY RingNumbers
<1>2. b \in [data : [0 .. b.cap - 1 -> Cell],
             start : Nat, end : Nat, cap : Nat, size : Nat]
  BY DEF RingOK
<1>3. b = [data |-> b.data, start |-> b.start, end |-> b.end,
           cap |-> b.cap, size |-> b.size]
  BY <1>2
<1>4. /\ k.data = b.data /\ k.cap = b.cap /\ k.size = b.size - n
      /\ n = b.size => k.start = 0 /\ k.end = 0
      /\ n # b.size => k.start = Wrap(b, b.start + n) /\ k.end = b.end
      /\ k \in [data : [0 .. b.cap - 1 -> Cell],
                start : Nat, end : Nat, cap : Nat, size : Nat]
  <2>1. Wrap(b, b.start + n) \in Nat /\ b.size - n \in Nat
    BY <1>1 DEF Wrap
  <2>2. CASE n = b.size
    <3>1. k = [data |-> b.data, start |-> 0, end |-> 0,
               cap |-> b.cap, size |-> 0]
      BY <1>3, <2>2 DEF Skip
    <3>2. b.size - n = 0
      BY <1>1, <2>2
    <3> HIDE DEF k
    <3>3. QED
      BY <1>1, <1>2, <2>2, <3>1, <3>2
  <2>3. CASE n # b.size
    BY <1>1, <1>2, <2>1, <2>3 DEF Skip
  <2>4. QED
    BY <2>2, <2>3
<1> HIDE DEF k
<1>5. CASE n = b.size
  <2>1. k.size = 0
    BY <1>1, <1>4, <1>5
  <2>2. RingOK(k)
    BY <1>1, <1>4, <1>5, <2>1 DEF RingOK
  <2>3. Contents(k) \in Seq(Cell) /\ Len(Contents(k)) = 0
    BY <2>1, <2>2, ContentsType
  <2>4. SubSeq(Contents(b), n + 1, b.size) = << >>
    BY <1>1, <1>5, SubSeqEmpty
  <2>5. Contents(k) = << >>
    BY <2>3, EmptySeq
  <2>6. QED
    BY <1>4, <2>2, <2>4, <2>5 DEF k
<1>6. CASE n # b.size
  <2>1. n < b.size /\ k.start = Wrap(b, b.start + n) /\ k.size = b.size - n
        /\ k.cap = b.cap /\ k.end = b.end
    BY <1>1, <1>4, <1>6
  <2>2. \A i \in 0 .. b.size - n :
          n + i < b.size => Wrap(k, k.start + i) = Wrap(b, b.start + (n + i))
    BY <1>1, <2>1 DEF Wrap
  <2>3. k.start < k.cap
    BY <1>1, <2>1 DEF Wrap
  <2>4. \/ k.end = Wrap(k, k.start + k.size)
        \/ k.start + k.size = k.cap /\ k.end = k.cap
    <3>1. \/ b.end = Wrap(b, b.start + b.size)
          \/ b.start + b.size = b.cap /\ b.end = b.cap
      BY <1>1, <2>1 DEF RingOK
    <3>2. CASE b.start + n < b.cap
      <4>1. k.start + k.size = b.start + b.size
        BY <1>1, <2>1, <3>2 DEF Wrap
      <4>2. QED
        BY <2>1, <3>1, <4>1 DEF Wrap
    <3>3. CASE b.start + n >= b.cap
      <4>1. k.start + k.size = b.start + b.size - b.cap
            /\ k.start + k.size < b.cap
        BY <1>1, <2>1, <3>3 DEF Wrap
      <4>2. b.start + b.size > b.cap
        BY <1>1, <2>1, <3>3
      <4>3. b.end = b.start + b.size - b.cap
        BY <1>1, <3>1, <4>2 DEF Wrap
      <4>4. QED
        BY <1>1, <2>1, <4>1, <4>3 DEF Wrap
    <3>4. QED
      BY <1>1, <3>2, <3>3
  <2>5. RingOK(k)
    <3>1. k.size > 0 /\ k.size <= k.cap
      BY <1>1, <2>1
    <3>2. QED
      BY <1>4, <2>1, <2>3, <2>4, <3>1 DEF RingOK
  <2>6. Contents(k) = SubSeq(Contents(b), n + 1, b.size)
    <3> DEFINE m == b.size - n
    <3>1. m \in 0 .. b.size - n /\ n + m = b.size /\ m \in Nat
      BY <1>1
    <3> HIDE DEF m
    <3> DEFINE t == SubSeq(Contents(b), n + 1, n + m)
    <3>2. /\ t \in Seq(Cell) /\ Len(t) = m
          /\ \A i \in 1 .. m : t[i] = b.data[Wrap(b, b.start + (n + i) - 1)]
      BY <3>1, SliceOfContents
    <3>3. /\ Contents(k) \in Seq(Cell) /\ Len(Contents(k)) = m
          /\ \A i \in 1 .. m : Contents(k)[i] = k.data[Wrap(k, k.start + i - 1)]
      BY <2>1, <2>5, ContentsType DEF m
    <3> HIDE DEF t
    <3>4. ASSUME NEW i \in 1 .. m
          PROVE  Wrap(k, k.start + i - 1) = Wrap(b, b.start + (n + i) - 1)
      <4>1. i - 1 \in 0 .. b.size - n /\ n + (i - 1) < b.size
        BY <1>1, <3>1 DEF m
      <4>2. Wrap(k, k.start + (i - 1)) = Wrap(b, b.start + (n + (i - 1)))
        BY <2>2, <4>1
      <4>3. k.start \in Nat /\ b.start \in Nat
        BY <1>1, <1>4
      <4>4. k.start + (i - 1) = k.start + i - 1
            /\ b.start + (n + (i - 1)) = b.start + (n + i) - 1
        BY <1>1, <3>1, <4>3
      <4>5. QED
        BY <4>2, <4>4
    <3>5. \A i \in 1 .. m : Contents(k)[i] = t[i]
      BY <1>4, <3>2, <3>3, <3>4
    <3>6. Contents(k) = t
      BY <3>2, <3>3, <3>5, SeqEqual
    <3>7. QED
      BY <3>1, <3>6 DEF t
  <2>7. QED
    BY <1>4, <2>5, <2>6 DEF k
<1>7. QED
  BY <1>5, <1>6

\* The two spans of peek cover the requested slice: the first holds its
\* beginning, the second, at the front of the allocation, the rest.
LEMMA PeekSpans ==
  ASSUME NEW b, RingOK(b),
         NEW skip \in 0 .. b.size, NEW len \in 0 .. b.size - skip
  PROVE  /\ PeekFirst(b, len, skip).len \in 0 .. len
         /\ PeekFirst(b, len, skip).at \in Nat
         /\ \A j \in 0 .. len - 1 :
              Wrap(b, b.start + (skip + j))
                = IF j < PeekFirst(b, len, skip).len
                  THEN PeekFirst(b, len, skip).at + j
                  ELSE j - PeekFirst(b, len, skip).len
<1> DEFINE f == PeekFirst(b, len, skip)
<1>1. /\ b.start \in Nat /\ b.end \in Nat /\ b.cap \in Nat /\ b.size \in Nat
      /\ b.size <= b.cap
      /\ b.size > 0 => b.start < b.cap
      /\ b.size = 0 => b.start = 0 /\ b.end = 0
  BY RingNumbers
<1>2. CASE b.start + skip < b.end
  <2>1. f = [at |-> b.start + skip, len |-> len]
    BY <1>2 DEF PeekFirst
  <2>2. f.at = b.start + skip /\ f.len = len
    BY <2>1
  <2>3. b.end = b.start + b.size /\ b.end <= b.cap
    BY <1>1, <1>2, RingCases
  <2>4. QED
    BY <1>1, <2>2, <2>3 DEF Wrap
<1>3. CASE ~ (b.start + skip < b.end)
  <2> DEFINE p == Wrap(b, b.start + skip)
  <2>1. f = [at |-> p, len |-> AtMost(len, b.cap - p)]
    BY <1>3 DEF PeekFirst
  <2>2. f.at = p /\ f.len = AtMost(len, b.cap - p)
    BY <2>1
  <2>3. p \in Nat /\ p <= b.cap
    <3>1. CASE b.size = 0
      BY <1>1, <3>1 DEF Wrap
    <3>2. CASE b.size > 0
      BY <1>1, <3>2 DEF Wrap
    <3>3. QED
      BY <1>1, <3>1, <3>2
  <2>4. f.len \in 0 .. len /\ f.at \in Nat
    BY <1>1, <2>2, <2>3 DEF AtMost
  <2>5. ASSUME NEW j \in 0 .. len - 1
        PROVE  Wrap(b, b.start + (skip + j))
                 = IF j < f.len THEN f.at + j ELSE j - f.len
    <3>1. b.size > 0 /\ skip + j < b.size /\ b.start < b.cap
      BY <1>1
    <3>2. CASE b.start + skip >= b.cap
      <4>1. p = b.start + skip - b.cap
        BY <1>1, <3>2 DEF Wrap
      <4>2. f.len = len
        BY <1>1, <2>2, <3>1, <4>1 DEF AtMost
      <4>3. QED
        BY <1>1, <2>2, <3>2, <4>1, <4>2 DEF Wrap
    <3>3. CASE b.start + skip < b.cap
      <4>1. p = b.start + skip
        BY <1>1, <3>3 DEF Wrap
      <4>2. CASE len <= b.cap - p
        <5>1. f.len = len
          BY <2>2, <4>2 DEF AtMost
        <5>2. QED
          BY <1>1, <2>2, <4>1, <4>2, <5>1 DEF Wrap
      <4>3. CASE ~ (len <= b.cap - p)
        <5>1. f.len = b.cap - p
          BY <2>2, <4>3 DEF AtMost
        <5>2. QED
          BY <1>1, <2>2, <3>1, <4>1, <4>3, <5>1 DEF Wrap
      <4>4. QED
        BY <4>2, <4>3
    <3>4. QED
      BY <1>1, <3>2, <3>3
  <2>6. QED
    BY <2>4, <2>5
<1>4. QED
  BY <1>2, <1>3

LEMMA FunctionIsSeq ==
  ASSUME NEW S, NEW k \in Nat, NEW fn \in [1 .. k -> S]
  PROVE  fn \in Seq(S) /\ Len(fn) = k
<1>1. fn \in Seq(S)
  BY SeqDef
<1>2. Len(fn) \in Nat /\ 1 .. Len(fn) = 1 .. k
  BY <1>1, LenProperties
<1>3. QED
  BY <1>1, <1>2

\* Two spans hold a text when each holds its part of it.
LEMMA TwoSpans ==
  ASSUME NEW b, NEW f, NEW g, NEW t \in Seq(Cell),
         f.len \in Nat, g.len \in Nat, f.len + g.len = Len(t),
         \A i \in 1 .. f.len : b.data[f.at + i - 1] = t[i],
         \A i \in 1 .. g.len : b.data[g.at + i - 1] = t[f.len + i]
  PROVE  Bytes(b, f) \o Bytes(b, g) = t
<1> DEFINE s1 == Bytes(b, f)
           s2 == Bytes(b, g)
           m  == f.len
           n  == g.len
<1>0. /\ m \in Nat /\ n \in Nat /\ m + n = Len(t)
      /\ \A i \in 1 .. m : b.data[f.at + i - 1] = t[i]
      /\ \A i \in 1 .. n : b.data[g.at + i - 1] = t[m + i]
  OBVIOUS
<1>s1. s1 = [i \in 1 .. m |-> b.data[f.at + i - 1]]
  BY DEF Bytes
<1>s2. s2 = [i \in 1 .. n |-> b.data[g.at + i - 1]]
  BY DEF Bytes
<1> HIDE DEF s1, s2, m, n
<1>1. \A i \in 1 .. m + n : t[i] \in Cell
  BY <1>0, ElementOfSeq
<1>2. s1 \in Seq(Cell) /\ Len(s1) = m /\ \A i \in 1 .. m : s1[i] = t[i]
  <2>1. \A i \in 1 .. m : i \in 1 .. m + n
    BY <1>0
  <2>2. s1 \in [1 .. m -> Cell] /\ \A i \in 1 .. m : s1[i] = t[i]
    BY <1>0, <1>1, <1>s1, <2>1
  <2>3. QED
    BY <1>0, <2>2, FunctionIsSeq
<1>3. s2 \in Seq(Cell) /\ Len(s2) = n /\ \A i \in 1 .. n : s2[i] = t[m + i]
  <2>1. \A i \in 1 .. n : m + i \in 1 .. m + n
    BY <1>0
  <2>2. s2 \in [1 .. n -> Cell] /\ \A i \in 1 .. n : s2[i] = t[m + i]
    BY <1>0, <1>1, <1>s2, <2>1
  <2>3. QED
    BY <1>0, <2>2, FunctionIsSeq
<1>4. /\ s1 \o s2 \in Seq(Cell) /\ Len(s1 \o s2) = m + n
      /\ \A i \in 1 .. Len(s1) + Len(s2) :
           (s1 \o s2)[i] = IF i <= Len(s1) THEN s1[i] ELSE s2[i - Len(s1)]
  BY <1>0, <1>2, <1>3, ConcatProperties
<1>5. ASSUME NEW i \in 1 .. m + n
      PROVE  (s1 \o s2)[i] = t[i]
  <2>1. CASE i <= m
    BY <1>0, <1>2, <1>3, <1>4, <2>1
  <2>2. CASE ~ (i <= m)
    <3>1. i - m \in 1 .. n /\ m + (i - m) = i
      BY <1>0, <2>2
    <3>2. s2[i - m] = t[i]
      BY <1>3, <3>1
    <3>3. QED
      BY <1>0, <1>2, <1>3, <1>4, <2>2, <3>2
  <2>3. QED
    BY <2>1, <2>2
<1>6. QED
  <2>1. s1 \o s2 = t
    BY <1>0, <1>4, <1>5, SeqEqual
  <2>2. QED
    BY <2>1 DEF s1, s2

\* peek returns the slice of the queue it was asked for.
LEMMA PeekReads ==
  ASSUME NEW b, RingOK(b),
         NEW skip \in 0 .. b.size, NEW len \in 0 .. b.size - skip
  PROVE  Peek(b, len, skip) = SubSeq(Contents(b), skip + 1, skip + len)
<1> DEFINE f == PeekFirst(b, len, skip)
           g == PeekSecond(b, len, skip)
           t == SubSeq(Contents(b), skip + 1, skip + len)
<1>1. b.start \in Nat /\ b.size \in Nat /\ b.cap \in Nat /\ len \in Nat
  BY RingNumbers
<1>2. f.len \in 0 .. len /\ f.at \in Nat
  BY PeekSpans
<1>3. g.at = 0 /\ g.len = len - f.len
  BY DEF PeekSecond
<1>4. /\ t \in Seq(Cell) /\ Len(t) = len
      /\ \A i \in 1 .. len : t[i] = b.data[Wrap(b, b.start + (skip + i) - 1)]
  BY SliceOfContents
<1>5. ASSUME NEW i \in 1 .. len
      PROVE  /\ i <= f.len => b.data[f.at + i - 1] = t[i]
             /\ i > f.len => b.data[i - f.len - 1] = t[i]
  <2>1. i - 1 \in 0 .. len - 1
    BY <1>1
  <2>2. Wrap(b, b.start + (skip + (i - 1)))
          = IF i - 1 < f.len THEN f.at + (i - 1) ELSE (i - 1) - f.len
    BY <2>1, PeekSpans
  <2>3. /\ b.start + (skip + (i - 1)) = b.start + (skip + i) - 1
        /\ f.at + (i - 1) = f.at + i - 1
        /\ (i - 1) - f.len = i - f.len - 1
        /\ i <= f.len <=> i - 1 < f.len
        /\ i > f.len <=> ~ (i - 1 < f.len)
    BY <1>1, <1>2
  <2>4. t[i] = b.data[Wrap(b, b.start + (skip + i) - 1)]
    BY <1>4
  <2>5. QED
    BY <2>2, <2>3, <2>4
<1> HIDE DEF f, g, t
<1>6. \A i \in 1 .. f.len : b.data[f.at + i - 1] = t[i]
  BY <1>1, <1>2, <1>5
<1>7. ASSUME NEW i \in 1 .. g.len
      PROVE  b.data[g.at + i - 1] = t[f.len + i]
  <2>1. /\ f.len + i \in 1 .. len /\ f.len + i > f.len
        /\ (f.len + i) - f.len - 1 = g.at + i - 1
    BY <1>1, <1>2, <1>3
  <2>2. QED
    BY <1>5, <2>1
<1>8. Bytes(b, f) \o Bytes(b, g) = t
  <2>1. f.len \in Nat /\ g.len \in Nat /\ f.len + g.len = Len(t)
    BY <1>1, <1>2, <1>3, <1>4
  <2>2. QED
    BY <1>4, <1>6, <1>7, <2>1, TwoSpans
<1>9. QED
  BY <1>8 DEF Peek, t, f, g

\* Skipping in a view leaves a view of the bytes that follow.
LEMMA SkipViewReads ==
  ASSUME NEW b, RingOK(b), NEW len \in 0 .. b.size, NEW n \in 0 .. len + 1
  PROVE  Bytes(b, SkipView(PeekView(b, len), n).first)
           \o Bytes(b, SkipView(PeekView(b, len), n).second)
         = SubSeq(Contents(b), n + 1, len)
<1> DEFINE f == PeekFirst(b, len, 0)
           g == PeekSecond(b, len, 0)
           v == SkipView(PeekView(b, len), n)
           t == SubSeq(Contents(b), n + 1, len)
           live(i) == b.data[Wrap(b, b.start + i - 1)]
<1>1. b.size \in Nat /\ b.start \in Nat /\ len \in Nat /\ n \in Nat
  BY RingNumbers
<1>2. f.len \in 0 .. len /\ f.at \in Nat /\ g.at = 0 /\ g.len = len - f.len
  <2>1. 0 \in 0 .. b.size /\ len \in 0 .. b.size - 0
    BY <1>1
  <2>2. QED
    BY <2>1, PeekSpans DEF PeekSecond
<1>3. ASSUME NEW i \in 1 .. len
      PROVE  live(i) = IF i <= f.len THEN b.data[f.at + i - 1] ELSE b.data[i - f.len - 1]
  <2>1. 0 \in 0 .. b.size /\ len \in 0 .. b.size - 0 /\ i - 1 \in 0 .. len - 1
    BY <1>1
  <2>2. Wrap(b, b.start + (0 + (i - 1)))
          = IF i - 1 < f.len THEN f.at + (i - 1) ELSE (i - 1) - f.len
    BY <2>1, PeekSpans
  <2>3. /\ b.start + (0 + (i - 1)) = b.start + i - 1
        /\ f.at + (i - 1) = f.at + i - 1 /\ (i - 1) - f.len = i - f.len - 1
        /\ i - 1 < f.len <=> i <= f.len
    BY <1>1, <1>2
  <2>4. QED
    BY <2>2, <2>3
<1>4. /\ t \in Seq(Cell)
      /\ n <= len => Len(t) = len - n
      /\ n > len => Len(t) = 0
      /\ n <= len => \A i \in 1 .. len - n : t[i] = live(n + i)
  <2>1. CASE n <= len
    <3>1. n \in 0 .. b.size /\ len - n \in 0 .. b.size - n /\ n + (len - n) = len
      BY <1>1, <2>1
    <3>2. /\ SubSeq(Contents(b), n + 1, n + (len - n)) \in Seq(Cell)
          /\ Len(SubSeq(Contents(b), n + 1, n + (len - n))) = len - n
          /\ \A i \in 1 .. len - n :
               SubSeq(Contents(b), n + 1, n + (len - n))[i]
                 = b.data[Wrap(b, b.start + (n + i) - 1)]
      BY <3>1, SliceOfContents
    <3> HIDE DEF t
    <3>3. SubSeq(Contents(b), n + 1, n + (len - n)) = t
      BY <3>1 DEF t
    <3>4. t \in Seq(Cell) /\ Len(t) = len - n
      BY <3>2, <3>3
    <3>5. \A i \in 1 .. len - n : t[i] = live(n + i)
      BY <3>2, <3>3
    <3>6. ~ (n > len)
      BY <1>1, <2>1
    <3> HIDE DEF live
    <3>7. QED
      BY <3>4, <3>5, <3>6
  <2>2. CASE n > len
    <3>1. t = << >>
      <4>1. n + 1 > len /\ n + 1 \in Int /\ len \in Int
        BY <1>1, <2>2
      <4>2. QED
        BY <4>1, SubSeqEmpty
    <3>2. ~ (n <= len)
      BY <1>1, <2>2
    <3> HIDE DEF t, live
    <3>3. QED
      BY <2>2, <3>1, <3>2
  <2>3. QED
    BY <1>1, <2>1, <2>2
<1>5. PeekView(b, len) = [first |-> f, second |-> g]
  BY DEF PeekView
<1> HIDE DEF f, g, t, live
<1>6. CASE n - f.len <= 0
  <2>1. v = [first |-> From(f, n), second |-> g]
    BY <1>5, <1>6 DEF SkipView
  <2>2. v.first = [at |-> f.at + n, len |-> f.len - n] /\ v.second = g
    BY <2>1 DEF From
  <2> HIDE DEF v
  <2>3. v.first.len = f.len - n /\ v.first.at = f.at + n
    BY <2>2
  <2>4. ASSUME NEW i \in 1 .. v.first.len
        PROVE  b.data[v.first.at + i - 1] = t[i]
    <3>1. n + i \in 1 .. len /\ i \in 1 .. len - n /\ n + i <= f.len /\ n <= len
      BY <1>1, <1>2, <1>6, <2>3
    <3>2. f.at + (n + i) - 1 = v.first.at + i - 1
      BY <1>1, <1>2, <2>3, <3>1
    <3>3. QED
      BY <1>3, <1>4, <3>1, <3>2
  <2>5. ASSUME NEW i \in 1 .. v.second.len
        PROVE  b.data[v.second.at + i - 1] = t[v.first.len + i]
    <3>1. /\ f.len + i \in 1 .. len /\ n <= len
          /\ v.first.len + i \in 1 .. len - n /\ n + (v.first.len + i) = f.len + i
          /\ ~ (f.len + i <= f.len)
          /\ (f.len + i) - f.len - 1 = v.second.at + i - 1
      BY <1>1, <1>2, <1>6, <2>2, <2>3
    <3>2. QED
      BY <1>3, <1>4, <3>1
  <2>6. n <= len /\ f.len - n \in Nat /\ len - f.len \in Nat
        /\ (f.len - n) + (len - f.len) = len - n
    BY <1>1, <1>2, <1>6
  <2>7. v.first.len \in Nat /\ v.second.len \in Nat
    BY <1>2, <2>2, <2>3, <2>6
  <2>8. v.first.len + v.second.len = Len(t)
    BY <1>2, <1>4, <2>2, <2>3, <2>6
  <2>9. Bytes(b, v.first) \o Bytes(b, v.second) = t
    <3> DEFINE p == v.first  q == v.second
    <3>1. p.len \in Nat /\ q.len \in Nat /\ p.len + q.len = Len(t)
      BY <2>7, <2>8
    <3>2. \A i \in 1 .. p.len : b.data[p.at + i - 1] = t[i]
      BY <2>4
    <3>3. \A i \in 1 .. q.len : b.data[q.at + i - 1] = t[p.len + i]
      BY <2>5
    <3> HIDE DEF p, q
    <3>4. t \in Seq(Cell)
      BY <1>4
    <3>5. Bytes(b, p) \o Bytes(b, q) = t
      BY <3>1, <3>2, <3>3, <3>4, TwoSpans
    <3>6. QED
      BY <3>5 DEF p, q
  <2>10. QED
    BY <2>9 DEF v, t
<1>7. CASE n - f.len > 0
  <2>1. v = [first |-> NoSpan,
             second |-> IF n - f.len <= g.len THEN From(g, n - f.len) ELSE NoSpan]
    <3>1. ~ (n - f.len <= 0)
      BY <1>1, <1>2, <1>7
    <3>2. QED
      BY <1>5, <3>1 DEF SkipView
  <2> HIDE DEF v
  <2>2. /\ v.first.len = 0
        /\ n <= len => v.second.at = n - f.len /\ v.second.len = len - n
        /\ n > len => v.second.len = 0
    BY <1>1, <1>2, <1>7, <2>1 DEF NoSpan, From
  <2>3. ASSUME NEW i \in 1 .. v.second.len
        PROVE  b.data[v.second.at + i - 1] = t[v.first.len + i]
    <3>1. n <= len
      BY <1>1, <2>2
    <3>2. /\ n + i \in 1 .. len /\ i \in 1 .. len - n /\ 0 + i = i
          /\ ~ (n + i <= f.len)
          /\ (n + i) - f.len - 1 = v.second.at + i - 1
      BY <1>1, <1>2, <1>7, <2>2, <3>1
    <3>3. QED
      BY <1>3, <1>4, <2>2, <3>1, <3>2
  <2>4. ASSUME n <= len
        PROVE  v.second.len \in Nat /\ v.first.len + v.second.len = Len(t)
    <3>1. len - n \in Nat
      BY <1>1, <2>4
    <3>2. QED
      BY <1>4, <2>2, <2>4, <3>1
  <2>5. ASSUME n > len
        PROVE  v.second.len \in Nat /\ v.first.len + v.second.len = Len(t)
    <3>1. v.second.len = 0 /\ Len(t) = 0
      BY <1>4, <2>2, <2>5
    <3>2. QED
      BY <2>2, <3>1
  <2>6. /\ v.first.len \in Nat /\ v.second.len \in Nat
        /\ v.first.len + v.second.len = Len(t)
    BY <1>1, <2>2, <2>4, <2>5
  <2>7. \A i \in 1 .. v.first.len : b.data[v.first.at + i - 1] = t[i]
    BY <2>2
  <2>8. Bytes(b, v.first) \o Bytes(b, v.second) = t
    <3> DEFINE p == v.first  q == v.second
    <3>1. p.len \in Nat /\ q.len \in Nat /\ p.len + q.len = Len(t)
      BY <2>6
    <3>2. \A i \in 1 .. p.len : b.data[p.at + i - 1] = t[i]
      BY <2>7
    <3>3. \A i \in 1 .. q.len : b.data[q.at + i - 1] = t[p.len + i]
      BY <2>3
    <3> HIDE DEF p, q
    <3>4. t \in Seq(Cell)
      BY <1>4
    <3>5. Bytes(b, p) \o Bytes(b, q) = t
      BY <3>1, <3>2, <3>3, <3>4, TwoSpans
    <3>6. QED
      BY <3>5 DEF p, q
  <2>9. QED
    BY <2>8 DEF v, t
<1>8. QED
  BY <1>1, <1>2, <1>6, <1>7

-----------------------------------------------------------------------------
(* Growing and writing *)

\* growUntilAtLeast keeps the queue and reaches the requested capacity.
LEMMA GrowReaches ==
  ASSUME NEW b, RingOK(b), NEW n \in Nat, n <= MaxCapacity
  PROVE  /\ RingOK(GrowUntilAtLeast(b, n))
         /\ Contents(GrowUntilAtLeast(b, n)) = Contents(b)
         /\ GrowUntilAtLeast(b, n).cap \in Nat
         /\ GrowUntilAtLeast(b, n).cap >= n
         /\ GrowUntilAtLeast(b, n).cap >= b.cap
         /\ GrowUntilAtLeast(b, n).size = b.size
         /\ GrowUntilAtLeast(b, n).start = 0
         /\ GrowUntilAtLeast(b, n).end = b.size
<1> DEFINE cap == IF b.cap = 0 THEN DefaultCap ELSE b.cap
           d == DoubledCap(cap, n)
<1>1. b.cap \in Nat /\ b.size \in Nat /\ b.size <= b.cap
  BY RingNumbers
<1>2. cap \in Nat \ {0} /\ cap >= b.cap
  BY <1>1, RingAssumption
<1> HIDE DEF cap
<1>3. d \in Nat /\ d >= n /\ d >= cap
  BY <1>2, DoublingReaches
<1>4. GrowUntilAtLeast(b, n) = GrowTo(b, d)
  BY DEF GrowUntilAtLeast, cap
<1> HIDE DEF d
<1>5. d >= b.cap /\ d >= b.size
  BY <1>1, <1>2, <1>3
<1>6. RingOK(GrowTo(b, d)) /\ Contents(GrowTo(b, d)) = Contents(b)
  BY <1>3, <1>5, GrowToKeeps
<1>7. /\ GrowTo(b, d).cap = d /\ GrowTo(b, d).size = b.size
      /\ GrowTo(b, d).start = 0 /\ GrowTo(b, d).end = b.size
  BY DEF GrowTo
<1>8. QED
  BY <1>3, <1>4, <1>5, <1>6, <1>7

\* A buffer rebuilt by growTo has its whole free space in one window.
LEMMA FreshWindow ==
  ASSUME NEW b, RingOK(b), b.start = 0, b.end = b.size
  PROVE  WriteWindow(b).len = b.cap - b.size
<1>1. b.cap \in Nat /\ b.size \in Nat /\ b.size <= b.cap
  BY RingNumbers
<1>2. CASE b.size = 0
  BY <1>1, <1>2 DEF WriteWindow
<1>3. CASE b.size > 0
  BY <1>1, <1>3 DEF WriteWindow
<1>4. QED
  BY <1>1, <1>2, <1>3

\* Before the first memcpy of write there is room for all of the data.
LEMMA RoomMade ==
  ASSUME NEW b, RingOK(b),
         NEW s \in Seq(Byte), b.size + Len(s) <= MaxCapacity
  PROVE  /\ RingOK(MakeRoom(b, s))
         /\ Contents(MakeRoom(b, s)) = Contents(b)
         /\ MakeRoom(b, s).size = b.size
         /\ Len(s) <= MakeRoom(b, s).cap - MakeRoom(b, s).size
<1>1. b.cap \in Nat /\ b.size \in Nat /\ b.size <= b.cap /\ Len(s) \in Nat
  BY RingNumbers
<1>2. CASE Len(s) > Free(b)
  <2> DEFINE g == GrowUntilAtLeast(b, b.size + Len(s))
  <2>1. b.size + Len(s) \in Nat
    BY <1>1
  <2>2. /\ RingOK(g) /\ Contents(g) = Contents(b) /\ g.size = b.size
        /\ g.cap \in Nat /\ g.cap >= b.size + Len(s)
    BY <2>1, GrowReaches
  <2>3. MakeRoom(b, s) = g
    BY <1>2 DEF MakeRoom
  <2> HIDE DEF g
  <2>4. QED
    BY <1>1, <2>2, <2>3
<1>3. CASE ~ (Len(s) > Free(b))
  BY <1>1, <1>3 DEF MakeRoom, Free
<1>4. QED
  BY <1>2, <1>3

\* When the first window was used up, the second one is all that is free.
LEMMA SecondWindow ==
  ASSUME NEW b, RingOK(b), NEW s \in Seq(Byte), Len(s) <= b.cap - b.size,
         FirstLen(b, s) < Len(s)
  PROVE  WriteWindow(WriteFirst(b, s)).len >= Len(s) - FirstLen(b, s)
<1> DEFINE wnd == WriteWindow(b)
           h == WriteFirst(b, s)
           n == FirstLen(b, s)
<1>1. /\ b.start \in Nat /\ b.end \in Nat /\ b.cap \in Nat /\ b.size \in Nat
      /\ b.size <= b.cap
      /\ b.size > 0 => b.start < b.cap
      /\ b.size = 0 => b.start = 0 /\ b.end = 0
  BY RingNumbers
<1>2. Len(s) \in Nat
  OBVIOUS
<1>3. wnd.at \in Nat /\ wnd.len \in Nat /\ wnd.len <= b.cap - b.size
  BY WindowFollows
<1>4. n = wnd.len /\ n < Len(s) /\ n \in Nat
  <2>1. n = IF Len(s) <= wnd.len THEN Len(s) ELSE wnd.len
    BY DEF FirstLen, AtMost
  <2>2. n < Len(s)
    OBVIOUS
  <2> HIDE DEF n, wnd
  <2>3. QED
    BY <1>2, <1>3, <2>1, <2>2
<1>5. b.size > 0 /\ b.start < b.end
  <2>1. CASE b.size = 0
    <3>1. wnd.len = b.cap
      BY <1>1, <2>1 DEF WriteWindow
    <3>2. QED
      BY <1>1, <1>2, <1>4, <2>1, <3>1
  <2>2. CASE b.size > 0 /\ ~ (b.start < b.end)
    <3>1. b.end <= b.start /\ b.end = b.start + b.size - b.cap
      BY <1>1, <2>2, RingCases
    <3>2. wnd.len = b.start - b.end
      BY <1>1, <2>2, <3>1 DEF WriteWindow
    <3>3. QED
      BY <1>1, <1>2, <1>4, <2>2, <3>1, <3>2
  <2>3. QED
    BY <1>1, <2>1, <2>2
<1>6. b.end = b.start + b.size /\ b.end <= b.cap
  BY <1>1, <1>5, RingCases
<1>7. wnd.at = b.end /\ wnd.len = b.cap - b.end
  BY <1>1, <1>5, <1>6 DEF WriteWindow
<1> DEFINE t == SubSeq(s, 1, n)
<1>8. t \in Seq(Byte) /\ Len(t) = n
  <2>1. \A i \in 1 .. n : s[i] \in Byte
    BY <1>2, <1>4
  <2> HIDE DEF n
  <2>2. QED
    BY <1>2, <1>4, <2>1, SubSeqProperties
<1>9. /\ RingOK(h) /\ h.cap = b.cap /\ h.size = b.size + n
      /\ h.start = b.start /\ h.end = 0
  <2>1. h = WritePart(b, t)
    BY DEF WriteFirst
  <2> HIDE DEF h, t, n
  <2>2. RingOK(h) /\ h.cap = b.cap /\ h.size = b.size + n
    BY <1>3, <1>4, <1>8, <2>1, WritePartAppends DEF wnd
  <2>3. h.start = b.start /\ h.end = Wrap(b, b.end + n)
    BY <1>3, <1>4, <1>8, <2>1, WritePartAppends DEF wnd
  <2>4. b.end + n = b.cap
    BY <1>1, <1>4, <1>6, <1>7
  <2>5. Wrap(b, b.end + n) = 0
    BY <1>1, <2>4 DEF Wrap
  <2>6. QED
    BY <2>2, <2>3, <2>5
<1> HIDE DEF h, n, wnd, t
<1>10. WriteWindow(h).len = b.start
  BY <1>1, <1>4, <1>5, <1>9 DEF WriteWindow
<1>11. b.start >= Len(s) - n
  BY <1>1, <1>2, <1>4, <1>6, <1>7
<1>12. QED
  BY <1>10, <1>11 DEF h, n

\* write appends its whole argument, growing or wrapping as it must.
LEMMA WriteAppends ==
  ASSUME NEW b, RingOK(b),
         NEW s \in Seq(Byte), b.size + Len(s) <= MaxCapacity
  PROVE  RingOK(Write(b, s)) /\ Contents(Write(b, s)) = Contents(b) \o s
<1> DEFINE g == MakeRoom(b, s)
           n == FirstLen(g, s)
           h == WriteFirst(g, s)
           s1 == SubSeq(s, 1, n)
           s2 == SubSeq(s, n + 1, Len(s))
<1>1. RingOK(g) /\ Contents(g) = Contents(b) /\ Len(s) <= g.cap - g.size
  BY RoomMade
<1>2. Contents(b) \in Seq(Cell) /\ s \in Seq(Cell) /\ Len(s) \in Nat
  <2>1. Byte \subseteq Cell
    BY DEF Cell
  <2>2. s \in Seq(Cell)
    BY <2>1, SeqMonotonic
  <2>3. QED
    BY <2>2, ContentsType
<1>3. CASE s = << >>
  <2>1. Write(b, s) = b
    BY <1>3 DEF Write
  <2>2. QED
    BY <1>2, <1>3, <2>1, ConcatEmptySeq
<1>4. CASE s # << >>
  <2> HIDE DEF g
  <2>1. n \in 0 .. Len(s) /\ n <= WriteWindow(g).len
    <3>1. WriteWindow(g).len \in Nat
      BY <1>1, WindowFollows
    <3>2. QED
      BY <1>2, <3>1 DEF FirstLen, AtMost
  <2> HIDE DEF n
  <2>2. /\ s1 \in Seq(Byte) /\ Len(s1) = n
        /\ s2 \in Seq(Byte) /\ Len(s2) = Len(s) - n
    <3>1. \A i \in 1 .. Len(s) : s[i] \in Byte
      OBVIOUS
    <3>2. \A i \in 1 .. n : s[i] \in Byte
      BY <1>2, <2>1, <3>1
    <3>3. \A i \in n + 1 .. Len(s) : s[i] \in Byte
      BY <1>2, <2>1, <3>1
    <3>4. n \in Int /\ n + 1 \in Int /\ Len(s) \in Int
      BY <1>2, <2>1
    <3>5. s1 \in Seq(Byte) /\ Len(s1) = IF 1 <= n THEN n - 1 + 1 ELSE 0
      BY <3>2, <3>4, SubSeqProperties
    <3>6. /\ s2 \in Seq(Byte)
          /\ Len(s2) = IF n + 1 <= Len(s) THEN Len(s) - (n + 1) + 1 ELSE 0
      BY <3>3, <3>4, SubSeqProperties
    <3> HIDE DEF s1, s2
    <3>7. QED
      BY <1>2, <2>1, <3>5, <3>6
  <2>3. s1 \o s2 = s
    <3>1. 1 \in 1 .. Len(s) + 1 /\ n \in 1 - 1 .. Len(s) /\ Len(s) \in n .. Len(s)
      BY <1>2, <2>1
    <3>2. s1 \o s2 = SubSeq(s, 1, Len(s))
      BY <3>1, ConcatAdjacentSubSeq
    <3>3. QED
      BY <3>2, SubSeqFull
  <2>4. h = WritePart(g, s1)
    BY DEF WriteFirst, n
  <2> HIDE DEF h, s1, s2
  <2>5. RingOK(h) /\ Contents(h) = Contents(b) \o s1
    BY <1>1, <2>1, <2>2, <2>4, WritePartAppends
  <2>6. CASE n = Len(s)
    <3>1. Write(b, s) = h
      BY <1>4, <2>6 DEF Write, h, n, g
    <3>2. s1 = s
      BY <2>6, SubSeqFull DEF s1
    <3>3. QED
      BY <2>5, <3>1, <3>2
  <2>7. CASE n # Len(s)
    <3>1. n < Len(s)
      BY <1>2, <2>1, <2>7
    <3>2. WriteWindow(h).len >= Len(s) - n
      BY <1>1, <3>1, SecondWindow DEF h, n
    <3>3. RingOK(WritePart(h, s2))
          /\ Contents(WritePart(h, s2)) = Contents(h) \o s2
      <4>1. Len(s2) <= WriteWindow(h).len
        BY <2>2, <3>2
      <4>2. QED
        BY <2>2, <2>5, <4>1, WritePartAppends
    <3>4. Write(b, s) = WritePart(h, s2)
      BY <1>4, <2>7 DEF Write, h, n, g, s2
    <3>5. (Contents(b) \o s1) \o s2 = Contents(b) \o (s1 \o s2)
      <4>1. s1 \in Seq(Cell) /\ s2 \in Seq(Cell)
        BY <2>2, SeqMonotonic DEF Cell
      <4>2. QED
        BY <1>2, <4>1, ConcatAssociative
    <3>6. QED
      BY <2>3, <2>5, <3>3, <3>4, <3>5
  <2>8. QED
    BY <2>6, <2>7
<1>5. QED
  BY <1>3, <1>4

-----------------------------------------------------------------------------
(* Whole buffers *)

\* The initial buffer, of whatever capacity, is a consistent empty ring.
LEMMA NewRingOK ==
  ASSUME NEW cap \in Nat
  PROVE  RingOK(NewRing(cap)) /\ Contents(NewRing(cap)) = << >>
<1> DEFINE b == NewRing(cap)
<1>1. RingOK(b) /\ b.size = 0
  BY DEF RingOK, NewRing, Cell
<1>2. Contents(b) \in Seq(Cell) /\ Len(Contents(b)) = 0
  BY <1>1, ContentsType
<1>3. QED
  BY <1>1, <1>2, EmptySeq

\* clear empties the queue and keeps the allocation.
LEMMA ClearRingOK ==
  ASSUME NEW b, RingOK(b)
  PROVE  RingOK(ClearRing(b)) /\ Contents(ClearRing(b)) = << >>
<1> DEFINE k == ClearRing(b)
<1>1. b \in [data : [0 .. b.cap - 1 -> Cell],
             start : Nat, end : Nat, cap : Nat, size : Nat]
  BY DEF RingOK
<1>2. RingOK(k) /\ k.size = 0
  <2>1. /\ k.data = b.data /\ k.cap = b.cap
        /\ k.start = 0 /\ k.end = 0 /\ k.size = 0
    BY <1>1 DEF ClearRing
  <2>2. k \in [data : [0 .. b.cap - 1 -> Cell],
               start : Nat, end : Nat, cap : Nat, size : Nat]
    BY <1>1 DEF ClearRing
  <2> HIDE DEF k
  <2>3. QED
    BY <1>1, <2>1, <2>2 DEF RingOK
<1>3. Contents(k) \in Seq(Cell) /\ Len(Contents(k)) = 0
  BY <1>2, ContentsType
<1>4. QED
  BY <1>2, <1>3, EmptySeq

\* A copy and a new owner hold what the buffer held.
LEMMA OtherOwner ==
  ASSUME NEW b, RingOK(b)
  PROVE  CopyOf(b) = b /\ MovedTo(b) = b
<1>1. b \in [data : [0 .. b.cap - 1 -> Cell],
             start : Nat, end : Nat, cap : Nat, size : Nat]
  BY DEF RingOK
<1>2. b = [data |-> b.data, start |-> b.start, end |-> b.end,
           cap |-> b.cap, size |-> b.size]
  BY <1>1
<1>3. [i \in 0 .. b.cap - 1 |-> b.data[i]] = b.data
  BY <1>1
<1>4. QED
  BY <1>2, <1>3 DEF CopyOf, MovedTo
==============================================================================
