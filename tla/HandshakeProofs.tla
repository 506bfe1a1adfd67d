---------------------------- MODULE HandshakeProofs ----------------------------
(***************************************************************************)
(* Proofs about the handshake, for any window, limit, servers and URLs.    *)
(* There are four parts.  The buffer: the invariant adds to TypeOK that it *)
(* holds only bytes that were received, and that until the response is     *)
(* read they begin at the front of the allocation, which is what           *)
(* doHandshake's view of it relies on.  The hash: sha1.hpp computes the    *)
(* SHA-1 of FIPS 180-4.  The answer: what has been taken of it, and what   *)
(* readResponse may still make of the rest, so that a connection opens or  *)
(* fails as Opening says.  The URLs: the host and port that are dialled    *)
(* are those of the last URL that was given.                               *)
(***************************************************************************)
EXTENDS Handshake, Sha1, RingProofs, StreamLemmas

BeforeReading == {"start", "options", "connected", "response"}

HoldsBytes == Contents(buf) \in Seq(Byte)

AtFront == phase \in BeforeReading => buf.start = 0

IInv == TypeOK /\ HoldsBytes /\ AtFront

-----------------------------------------------------------------------------
(* The operations of a step *)

\* A part of a text of bytes is one.
LEMMA PartOfBytes ==
  ASSUME NEW s \in Seq(Byte), NEW i \in 1 .. Len(s) + 1, NEW j \in 0 .. Len(s)
  PROVE  /\ SubSeq(s, i, j) \in Seq(Byte)
         /\ i - 1 <= j => Len(SubSeq(s, i, j)) = j - i + 1
<1>1. Len(s) \in Nat /\ i \in Int /\ j \in Int
  BY LenProperties
<1>2. \A k \in i .. j : s[k] \in Byte
  <2>1. \A k \in i .. j : k \in 1 .. Len(s)
    BY <1>1
  <2>2. QED
    BY <2>1, ElementOfSeq
<1>3. QED
  BY <1>1, <1>2, SubSeqProperties

\* What is read out of a buffer of bytes, and what stays, are bytes.
LEMMA ReadBytes ==
  ASSUME NEW b, RingOK(b), Contents(b) \in Seq(Byte), NEW n \in 0 .. b.size
  PROVE  /\ Peek(b, n, 0) \in Seq(Byte)
         /\ Len(Peek(b, n, 0)) = n
         /\ Peek(b, n, 0) = SubSeq(Contents(b), 1, n)
         /\ RingOK(Skip(b, n)) /\ Contents(Skip(b, n)) \in Seq(Byte)
         /\ Contents(Skip(b, n)) = SubSeq(Contents(b), n + 1, b.size)
         /\ Skip(b, n).cap = b.cap
<1>1. b.size \in Nat /\ Len(Contents(b)) = b.size
  BY RingNumbers, ContentsType
<1>2. Peek(b, n, 0) = SubSeq(Contents(b), 1, n)
  <2>1. 0 \in 0 .. b.size /\ n \in 0 .. b.size - 0 /\ 0 + 1 = 1 /\ 0 + n = n
    BY <1>1
  <2>2. QED
    BY <2>1, PeekReads
<1>3. /\ SubSeq(Contents(b), 1, n) \in Seq(Byte)
      /\ Len(SubSeq(Contents(b), 1, n)) = n
  <2>1. /\ 1 \in 1 .. Len(Contents(b)) + 1 /\ n \in 0 .. Len(Contents(b))
        /\ 1 - 1 <= n /\ n - 1 + 1 = n
    BY <1>1
  <2>2. QED
    BY <2>1, PartOfBytes
<1>4. SubSeq(Contents(b), n + 1, b.size) \in Seq(Byte)
  <2>1. n + 1 \in 1 .. Len(Contents(b)) + 1 /\ b.size \in 0 .. Len(Contents(b))
    BY <1>1
  <2>2. QED
    BY <2>1, PartOfBytes
<1>5. /\ RingOK(Skip(b, n)) /\ Contents(Skip(b, n)) \in Seq(Byte)
      /\ Contents(Skip(b, n)) = SubSeq(Contents(b), n + 1, b.size)
      /\ Skip(b, n).cap = b.cap
  BY <1>4, SkipDrops
<1>6. Len(Peek(b, n, 0)) = n
  BY <1>1, <1>2, <1>3
<1>7. QED
  BY <1>2, <1>3, <1>5, <1>6

\* Opening a window keeps what the buffer holds, and does not move it away
\* from the front.
LEMMA WindowKeeps ==
  ASSUME NEW b, RingOK(b), ~ BufferOverflow(b)
  PROVE  /\ RingOK(RWindow(b))
         /\ Contents(RWindow(b)) = Contents(b)
         /\ b.start = 0 => RWindow(b).start = 0
<1>1. CASE ~ NeedsGrowth(b)
  BY <1>1 DEF RWindow
<1>2. CASE NeedsGrowth(b)
  <2>1. b.cap \in Nat /\ MaxBuffer \in Nat /\ Window \in Nat
        /\ MaxCapacity \in Nat /\ MaxBuffer + Window <= MaxCapacity
    BY RingNumbers, WindowAssumption, RingAssumption
  <2>2. ~ (b.cap >= MaxBuffer)
    BY <1>2 DEF BufferOverflow
  <2>3. b.cap + Window \in Nat /\ b.cap + Window <= MaxCapacity
    BY <2>1, <2>2
  <2>4. RWindow(b) = GrowUntilAtLeast(b, b.cap + Window)
    BY <1>2 DEF RWindow, Reserve
  <2>5. QED
    BY <2>3, <2>4, GrowReaches
<1>3. QED
  BY <1>1, <1>2

\* Receiving appends to what the buffer holds.
LEMMA ReceiveAppends ==
  ASSUME NEW b, RingOK(b), Contents(b) \in Seq(Byte),
         NEW s \in Seq(Byte), Len(s) <= WriteWindow(b).len
  PROVE  /\ RingOK(ReceiveInto(b, s))
         /\ Contents(ReceiveInto(b, s)) \in Seq(Byte)
         /\ Contents(ReceiveInto(b, s)) = Contents(b) \o s
         /\ ReceiveInto(b, s).start = b.start
         /\ ReceiveInto(b, s).cap = b.cap
<1>1. ReceiveInto(b, s) = WritePart(b, s)
  BY DEF ReceiveInto, WritePart
<1>2. /\ RingOK(WritePart(b, s)) /\ WritePart(b, s).start = b.start
      /\ WritePart(b, s).cap = b.cap
      /\ Contents(WritePart(b, s)) = Contents(b) \o s
  BY WritePartAppends
<1>3. Contents(b) \o s \in Seq(Byte)
  BY ConcatProperties
<1>4. QED
  BY <1>1, <1>2, <1>3

\* The view is as long as the buffer is full.
LEMMA ViewType ==
  ASSUME NEW b, RingOK(b)
  PROVE  View(b) \in Seq(Cell) /\ Len(View(b)) = b.size
<1> DEFINE at == PeekFirst(b, b.size, 0).at
<1>1. b.size \in Nat /\ b.cap \in Nat /\ b.data \in [0 .. b.cap - 1 -> Cell]
  BY DEF RingOK
<1>2. at \in Nat
  <2>1. 0 \in 0 .. b.size /\ b.size \in 0 .. b.size - 0
    BY <1>1
  <2>2. QED
    BY <2>1, PeekSpans
<1> HIDE DEF at
<1>3. \A i \in 1 .. b.size :
        (IF at + i - 1 < b.cap THEN b.data[at + i - 1] ELSE Uninit) \in Cell
  BY <1>1, <1>2 DEF Cell
<1>4. View(b) \in [1 .. b.size -> Cell]
  BY <1>3 DEF View, at
<1>5. QED
  BY <1>1, <1>4, FunctionIsSeq

\* From the front of the allocation the view reads what the buffer holds.
LEMMA ViewReads ==
  ASSUME NEW b, RingOK(b), b.start = 0
  PROVE  View(b) = Contents(b)
<1>1. /\ b.cap \in Nat /\ b.size \in Nat /\ b.size <= b.cap /\ b.end \in Nat
  BY RingNumbers
<1>2. PeekFirst(b, b.size, 0).at = 0
  <2>1. Wrap(b, b.start + 0) = 0
    BY <1>1 DEF Wrap
  <2>2. QED
    BY <1>1, <2>1 DEF PeekFirst
<1>3. ASSUME NEW i \in 1 .. b.size
      PROVE  /\ 0 + i - 1 < b.cap
             /\ 0 + i - 1 = Wrap(b, b.start + i - 1)
  BY <1>1 DEF Wrap
<1>4. QED
  BY <1>2, <1>3 DEF View, Contents

\* find returns the first place, or one past the end.
LEMMA FindTextLeast ==
  ASSUME NEW S, NEW s \in Seq(S), NEW sub, Len(sub) \in Nat
  PROVE  /\ FindText(sub, s) \in Nat
         /\ FindText(sub, s) \in PlacesOf(sub, s) \/ FindText(sub, s) = Len(s) + 1
         /\ \A i \in PlacesOf(sub, s) : FindText(sub, s) <= i
<1> DEFINE P == PlacesOf(sub, s) \cup {Len(s) + 1}
<1>1. Len(s) \in Nat /\ Len(sub) \in Nat
  BY LenProperties
<1>2. P \subseteq Nat \ {0} /\ P # {}
  BY <1>1 DEF PlacesOf
<1>3. FindText(sub, s) = Min(P) /\ PlacesOf(sub, s) \subseteq P
      /\ \A y \in P : y \in PlacesOf(sub, s) \/ y = Len(s) + 1
  BY DEF FindText
<1> HIDE DEF P
<1>4. PICK x \in P : \A y \in P : ~ (y < x)
  BY <1>2, LeastNatural
<1>5. \A y \in P : x <= y
  BY <1>2, <1>4
<1>6. Min(P) \in P /\ \A y \in P : Min(P) <= y
  BY <1>4, <1>5 DEF Min
<1> QED BY <1>2, <1>3, <1>6

LEMMA Pair ==
  ASSUME NEW S, NEW x \in S, NEW y \in S
  PROVE  <<x, y>> \in Seq(S)
OBVIOUS

LEMMA ResponseLenType ==
  ASSUME NEW b, RingOK(b), NEW n
  PROVE  ResponseLen(View(b), n) \in Nat
<1>1. Len(BlankLine) \in Nat
  <2> DEFINE T == {"CR", "LF"}
  <2>1. CRLF \in Seq(T)
    BY Pair DEF CRLF
  <2> HIDE DEF T
  <2>2. BlankLine \in Seq(T)
    BY <2>1, ConcatProperties DEF BlankLine
  <2>3. QED
    BY <2>2, LenProperties
<1>2. FindText(BlankLine, View(b)) \in Nat
  BY <1>1, ViewType, FindTextLeast
<1>3. QED
  BY <1>2 DEF ResponseLen

\* A frame that is there has a head, and the length that it announces.
LEMMA FrameType ==
  ASSUME NEW b, RingOK(b), Contents(b) \in Seq(Byte), HasFrame(b)
  PROVE  FrameLen(b) \in 0 .. b.size
<1>1. b.size \in Nat /\ b.size > 0 /\ b.size >= FrameLen(b)
  BY RingNumbers DEF HasFrame
<1>2. Peek(b, 1, 0) \in Seq(Byte) /\ Len(Peek(b, 1, 0)) = 1
  <2>1. 1 \in 0 .. b.size
    BY <1>1
  <2>2. QED
    BY <2>1, ReadBytes
<1>3. Peek(b, 1, 0)[1] \in Byte
  BY <1>2, ElementOfSeq
<1>4. Announced[Peek(b, 1, 0)[1]] \in Nat
  BY <1>3, HeadAssumption
<1>5. SizeMod \in Nat /\ SizeMod > 0
  BY SizeAssumption, WindowAssumption
<1> DEFINE a == 1 + Announced[Peek(b, 1, 0)[1]]
<1>6. a \in Nat
  BY <1>4
<1> HIDE DEF a
<1>7. a % SizeMod \in Nat
  BY <1>5, <1>6
<1>8. QED
  BY <1>1, <1>7 DEF FrameLen, a

-----------------------------------------------------------------------------
(* A text in pieces *)

\* The pieces of a text begin at p[1], p[2], ... and the last one ends it.
Cut(t, p, pieces) ==
  /\ p \in [1 .. Len(pieces) + 1 -> Nat \ {0}]
  /\ p[1] = 1 /\ p[Len(pieces) + 1] = Len(t) + 1
  /\ \A i \in 1 .. Len(pieces) :
       /\ p[i + 1] = p[i] + Len(pieces[i])
       /\ \A j \in 1 .. Len(pieces[i]) : t[p[i] + (j - 1)] = pieces[i][j]

LEMMA JoinedParts ==
  ASSUME NEW S, NEW s \in Seq(S), NEW u \in Seq(S)
  PROVE  /\ s \o u \in Seq(S) /\ Len(s \o u) = Len(s) + Len(u)
         /\ Len(s) \in Nat /\ Len(u) \in Nat
         /\ \A i \in 1 .. Len(s) : (s \o u)[i] = s[i]
         /\ \A i \in 1 .. Len(u) : (s \o u)[Len(s) + i] = u[i]
<1>1. /\ s \o u \in Seq(S) /\ Len(s \o u) = Len(s) + Len(u)
      /\ \A i \in 1 .. Len(s) + Len(u) :
           (s \o u)[i] = IF i <= Len(s) THEN s[i] ELSE u[i - Len(s)]
  BY ConcatProperties
<1> DEFINE m == Len(s)  n == Len(u)  c == s \o u
<1>2. m \in Nat /\ n \in Nat
  BY LenProperties
<1>3. \A i \in 1 .. m + n : c[i] = IF i <= m THEN s[i] ELSE u[i - m]
  BY <1>1
<1> HIDE DEF m, n, c
<1>4. ASSUME NEW i \in 1 .. m PROVE c[i] = s[i]
  <2>1. i \in 1 .. m + n /\ i <= m
    BY <1>2
  <2> QED BY <1>3, <2>1
<1>5. ASSUME NEW i \in 1 .. n PROVE c[m + i] = u[i]
  <2>1. m + i \in 1 .. m + n /\ ~ (m + i <= m) /\ (m + i) - m = i
    BY <1>2
  <2> QED BY <1>3, <2>1
<1> QED BY <1>1, <1>2, <1>4, <1>5 DEF m, n, c

LEMMA CutGrows ==
  ASSUME NEW B, NEW t \in Seq(B), NEW pieces \in Seq(Seq(B)), NEW p, Cut(t, p, pieces),
         NEW e \in Seq(B)
  PROVE  \E q : Cut(t \o e, q, Append(pieces, e))
<1> DEFINE more == Append(pieces, e)  m == Len(pieces)  u == t \o e
           n == Len(t)  k == Len(e)
<1>1. /\ m \in Nat /\ more \in Seq(Seq(B)) /\ Len(more) = m + 1
      /\ \A i \in 1 .. m : more[i] = pieces[i]
      /\ more[m + 1] = e
  BY AppendProperties, LenProperties
<1>2. /\ n \in Nat /\ k \in Nat /\ Len(u) = n + k
      /\ \A i \in 1 .. n : u[i] = t[i]
      /\ \A i \in 1 .. k : u[n + i] = e[i]
  BY JoinedParts
<1>3. /\ p \in [1 .. m + 1 -> Nat \ {0}] /\ p[1] = 1 /\ p[m + 1] = n + 1
      /\ \A i \in 1 .. m : /\ p[i + 1] = p[i] + Len(pieces[i])
                           /\ \A j \in 1 .. Len(pieces[i]) : t[p[i] + (j - 1)] = pieces[i][j]
  BY DEF Cut
<1>p. \A i \in 1 .. m : pieces[i] \in Seq(B) /\ Len(pieces[i]) \in Nat
  BY <1>1, ElementOfSeq, LenProperties
<1> HIDE DEF more, m, u, n, k
<1> DEFINE q == [i \in 1 .. m + 2 |-> IF i <= m + 1 THEN p[i] ELSE n + k + 1]
<1>4. /\ q \in [1 .. m + 2 -> Nat \ {0}]
      /\ \A i \in 1 .. m + 1 : q[i] = p[i]
      /\ q[m + 2] = n + k + 1
  BY <1>1, <1>2, <1>3
<1> HIDE DEF q
\* Where a piece ends, it is still inside the text.
<1> DEFINE S == {d \in Nat : d <= m => p[(m + 1) - d] <= n + 1}
<1>5. 0 \in S
  BY <1>1, <1>2, <1>3
<1>6. ASSUME NEW d \in Nat, d \in S PROVE d + 1 \in S
  <2> SUFFICES ASSUME d + 1 <= m PROVE p[(m + 1) - (d + 1)] <= n + 1
    OBVIOUS
  <2> DEFINE i == (m + 1) - (d + 1)
  <2>1. i \in 1 .. m /\ i \in 1 .. m + 1 /\ i + 1 \in 1 .. m + 1 /\ i + 1 = (m + 1) - d /\ d <= m
    BY <1>1
  <2>2. p[i + 1] <= n + 1
    BY <1>6, <2>1
  <2> HIDE DEF i
  <2>3. p[i + 1] = p[i] + Len(pieces[i]) /\ Len(pieces[i]) \in Nat /\ p[i] \in Nat
    BY <1>3, <1>p, <2>1
  <2> QED BY <1>2, <2>2, <2>3 DEF i
<1> HIDE DEF S
<1>7. Nat \subseteq S
  BY <1>5, <1>6, InductionOverSet
<1>8. ASSUME NEW i \in 1 .. m + 1 PROVE p[i] <= n + 1
  <2>1. (m + 1) - i \in Nat /\ (m + 1) - i <= m /\ (m + 1) - ((m + 1) - i) = i
    BY <1>1
  <2> QED BY <1>7, <2>1 DEF S
<1>9. ASSUME NEW i \in 1 .. m + 1
      PROVE  /\ q[i + 1] = q[i] + Len(more[i])
             /\ \A j \in 1 .. Len(more[i]) : u[q[i] + (j - 1)] = more[i][j]
  <2>1. CASE i \in 1 .. m
    <3>1. i + 1 \in 1 .. m + 1 /\ more[i] = pieces[i] /\ i \in 1 .. m + 1
      BY <1>1, <2>1
    <3>2. q[i + 1] = p[i + 1] /\ q[i] = p[i] /\ p[i] \in Nat \ {0} /\ p[i + 1] <= n + 1
      BY <1>3, <1>4, <1>8, <3>1
    <3>3. p[i + 1] = p[i] + Len(pieces[i]) /\ Len(pieces[i]) \in Nat
      BY <1>3, <1>p, <2>1
    <3>4. ASSUME NEW j \in 1 .. Len(pieces[i])
          PROVE  u[p[i] + (j - 1)] = pieces[i][j]
      <4>1. p[i] + (j - 1) \in 1 .. n
        <5> DEFINE a == p[i]  l == Len(pieces[i])
        <5>1. a \in Nat \ {0} /\ l \in Nat /\ a + l <= n + 1 /\ j \in 1 .. l
          BY <3>2, <3>3
        <5> HIDE DEF a, l
        <5>2. a + (j - 1) \in 1 .. n
          BY <1>2, <5>1
        <5> QED BY <5>2 DEF a
      <4>2. t[p[i] + (j - 1)] = pieces[i][j]
        BY <1>3, <2>1
      <4> QED BY <1>2, <4>1, <4>2
    <3> QED BY <3>1, <3>2, <3>3, <3>4
  <2>2. CASE i = m + 1
    <3>1. q[i] = n + 1 /\ i + 1 = m + 2 /\ q[i + 1] = n + k + 1 /\ more[i] = e
      BY <1>1, <1>3, <1>4, <2>2
    <3>2. Len(more[i]) = k
      BY <3>1 DEF k
    <3>3. ASSUME NEW j \in 1 .. k PROVE u[(n + 1) + (j - 1)] = e[j]
      <4>1. (n + 1) + (j - 1) = n + j
        BY <1>2
      <4> QED BY <1>2, <4>1
    <3> QED BY <1>2, <3>1, <3>2, <3>3
  <2> QED BY <1>1, <2>1, <2>2
<1>10. Cut(u, q, more)
  <2>1. Len(more) + 1 = m + 2 /\ q[1] = 1 /\ q[Len(more) + 1] = Len(u) + 1
    BY <1>1, <1>2, <1>3, <1>4
  <2> QED BY <1>1, <1>4, <1>9, <2>1 DEF Cut
<1> QED BY <1>10 DEF u, more

\* Joining pieces gives a text that they cut.
LEMMA FlattenCut ==
  ASSUME NEW B, NEW pieces \in Seq(Seq(B))
  PROVE  FlattenSeq(pieces) \in Seq(B) /\ \E p : Cut(FlattenSeq(pieces), p, pieces)
<1> DEFINE Good(s) == FlattenSeq(s) \in Seq(B) /\ \E p : Cut(FlattenSeq(s), p, s)
           S == {n \in Nat : \A s \in Seq(Seq(B)) : Len(s) = n => Good(s)}
<1>e. << >> \in Seq(B) /\ << >> \in Seq(Seq(B)) /\ Len(<< >>) = 0
  BY EmptySeq
<1>0. ASSUME NEW s \in Seq(Seq(B)), Len(s) = 0 PROVE Good(s)
  <2>1. FlattenSeq(s) = s /\ s = << >>
    BY <1>0, EmptySeq DEF FlattenSeq
  <2> DEFINE p == [i \in 1 .. 1 |-> 1]
  <2>2. Cut(<< >>, p, << >>)
    <3>1. 0 + 1 = 1 /\ 1 .. 0 = {} /\ p \in [1 .. 1 -> Nat \ {0}] /\ p[1] = 1
      OBVIOUS
    <3> HIDE DEF p
    <3> QED BY <1>e, <3>1 DEF Cut
  <2> HIDE DEF p
  <2> QED BY <1>e, <2>1, <2>2
<1>1. 0 \in S
  BY <1>0
<1>2. ASSUME NEW n \in Nat, n \in S PROVE n + 1 \in S
  <2> SUFFICES ASSUME NEW s \in Seq(Seq(B)), Len(s) = n + 1 PROVE Good(s)
    OBVIOUS
  <2> DEFINE front == SubSeq(s, 1, n)  e == s[n + 1]
  <2>1. e \in Seq(B)
    <3>1. n + 1 \in 1 .. Len(s)
      OBVIOUS
    <3> QED BY <3>1, ElementOfSeq
  <2>2. front \in Seq(Seq(B)) /\ Len(front) = n /\ s = Append(front, e)
    <3>1. 1 \in Nat \ {0} /\ n \in Nat /\ 1 + n <= Len(s) + 1 /\ 1 + n - 1 = n
      OBVIOUS
    <3>2. front \in Seq(Seq(B)) /\ Len(front) = n /\ \A j \in 1 .. n : front[j] = s[(1 - 1) + j]
      BY <3>1, Slice
    <3>3. \A j \in 1 .. n : (1 - 1) + j = j
      OBVIOUS
    <3> HIDE DEF front
    <3>4. \A j \in 1 .. n : front[j] = s[j]
      BY <3>2, <3>3
    <3>5. /\ Append(front, e) \in Seq(Seq(B)) /\ Len(Append(front, e)) = n + 1
          /\ \A j \in 1 .. n : Append(front, e)[j] = front[j]
          /\ Append(front, e)[n + 1] = e
      BY <2>1, <3>2, AppendProperties
    <3>6. \A j \in 1 .. n + 1 : s[j] = Append(front, e)[j]
      BY <3>4, <3>5
    <3>7. s = Append(front, e)
      BY <3>5, <3>6, SeqEqual
    <3> QED BY <3>2, <3>7
  <2> HIDE DEF front, e
  <2>3. Good(front)
    BY <1>2, <2>2
  <2>4. FlattenSeq(s) = FlattenSeq(front) \o e
    <3>1. CASE n = 0
      <4>1. FlattenSeq(front) = << >>
        BY <2>2, <3>1, EmptySeq DEF FlattenSeq
      <4>2. s \in Seq(Seq(B)) /\ IsSequence(s) /\ Len(s) = 1
        BY <3>1 DEF IsSequence
      <4>3. FlattenSeq(s) = s[1]
        BY <4>2, FlattenOne
      <4>4. s[1] = e
        BY <3>1 DEF e
      <4>5. << >> \o e = e
        BY <2>1
      <4> QED BY <4>1, <4>3, <4>4, <4>5
    <3>2. CASE n # 0
      <4>1. IsSequence(front) /\ Len(front) # 0
        BY <2>2, <3>2 DEF IsSequence
      <4> QED BY <2>2, <4>1, FlattenAppend
    <3> QED BY <3>1, <3>2
  <2>5. PICK p : Cut(FlattenSeq(front), p, front)
    BY <2>3
  <2>6. \E q : Cut(FlattenSeq(front) \o e, q, Append(front, e))
    BY <2>1, <2>2, <2>3, <2>5, CutGrows
  <2>7. FlattenSeq(front) \o e \in Seq(B)
    BY <2>1, <2>3, ConcatProperties
  <2> QED BY <2>2, <2>4, <2>6, <2>7
<1> HIDE DEF S
<1>3. Nat \subseteq S
  BY <1>1, <1>2, InductionOverSet
<1>4. Len(pieces) \in Nat
  BY LenProperties
<1> QED BY <1>3, <1>4 DEF S

-----------------------------------------------------------------------------
(* A text in lines *)

\* The lines of a text begin at p[1], p[2], ... and each ends with a CRLF.
LaidOut(t, p, lines) ==
  /\ p \in [1 .. Len(lines) + 1 -> Nat \ {0}]
  /\ p[1] = 1 /\ p[Len(lines) + 1] = Len(t) + 1
  /\ \A i \in 1 .. Len(lines) :
       /\ p[i + 1] = p[i] + Len(lines[i]) + 2
       /\ t[p[i + 1] - 2] = "CR" /\ t[p[i + 1] - 1] = "LF"
       /\ \A j \in 1 .. Len(lines[i]) : t[p[i] + (j - 1)] = lines[i][j]

LinesText(lines) == FlattenSeq([i \in 1 .. Len(lines) |-> Line(lines[i])])

LEMMA JoinedBytes ==
  ASSUME NEW s \in Seq(Byte), NEW u \in Seq(Byte)
  PROVE  /\ s \o u \in Seq(Byte) /\ Len(s \o u) = Len(s) + Len(u)
         /\ Len(s) \in Nat /\ Len(u) \in Nat
         /\ \A i \in 1 .. Len(s) : (s \o u)[i] = s[i]
         /\ \A i \in 1 .. Len(u) : (s \o u)[Len(s) + i] = u[i]
BY JoinedParts

LEMMA CrlfType == CRLF \in Seq(Byte) /\ Len(CRLF) = 2 /\ CRLF[1] = "CR" /\ CRLF[2] = "LF"
<1>1. "CR" \in Byte /\ "LF" \in Byte
  BY AnswerAssumption
<1> QED BY <1>1, Pair DEF CRLF

LEMMA LineType ==
  ASSUME NEW l \in Seq(Byte)
  PROVE  /\ Line(l) \in Seq(Byte) /\ Len(l) \in Nat /\ Len(Line(l)) = Len(l) + 2
         /\ \A j \in 1 .. Len(l) : Line(l)[j] = l[j]
         /\ Line(l)[Len(l) + 1] = "CR" /\ Line(l)[Len(l) + 2] = "LF"
<1>1. /\ l \o CRLF \in Seq(Byte) /\ Len(l \o CRLF) = Len(l) + Len(CRLF)
      /\ Len(l) \in Nat
      /\ \A i \in 1 .. Len(l) : (l \o CRLF)[i] = l[i]
      /\ \A i \in 1 .. Len(CRLF) : (l \o CRLF)[Len(l) + i] = CRLF[i]
  BY CrlfType, JoinedBytes
<1>2. 1 \in 1 .. 2 /\ 2 \in 1 .. 2
  OBVIOUS
<1>3. /\ Len(l \o CRLF) = Len(l) + 2
      /\ (l \o CRLF)[Len(l) + 1] = CRLF[1] /\ (l \o CRLF)[Len(l) + 2] = CRLF[2]
  BY <1>1, <1>2, CrlfType
<1> QED BY <1>1, <1>3, CrlfType, Zenon DEF Line

\* The text of some lines is laid out in them.
LEMMA LinesAreLaidOut ==
  ASSUME NEW lines \in Seq(Seq(Byte))
  PROVE  /\ LinesText(lines) \in Seq(Byte)
         /\ \E p : LaidOut(LinesText(lines), p, lines)
<1> DEFINE pieces == [i \in 1 .. Len(lines) |-> Line(lines[i])]
           t == LinesText(lines)  m == Len(lines)
<1>1. m \in Nat /\ \A i \in 1 .. m : lines[i] \in Seq(Byte)
  BY LenProperties, ElementOfSeq
<1>2. pieces \in [1 .. m -> Seq(Byte)]
  BY <1>1, LineType
<1>3. pieces \in Seq(Seq(Byte)) /\ Len(pieces) = m
  <2> DEFINE V == Seq(Byte)
  <2>1. pieces \in [1 .. m -> V]
    BY <1>2
  <2> HIDE DEF pieces, m, V
  <2>2. pieces \in Seq(V) /\ Len(pieces) = m
    BY <1>1, <2>1, IsASeq, LenProperties
  <2> QED BY <2>2 DEF V
<1>4. \A i \in 1 .. m : pieces[i] = Line(lines[i])
  OBVIOUS
<1>5. FlattenSeq(pieces) = t
  BY DEF LinesText
<1> HIDE DEF pieces, t, m
<1>6. t \in Seq(Byte) /\ \E p : Cut(t, p, pieces)
  BY <1>3, <1>5, FlattenCut
<1>7. PICK p : Cut(t, p, pieces)
  BY <1>6
<1>8. /\ p \in [1 .. m + 1 -> Nat \ {0}] /\ p[1] = 1 /\ p[m + 1] = Len(t) + 1
      /\ \A i \in 1 .. m :
           /\ p[i + 1] = p[i] + Len(pieces[i])
           /\ \A j \in 1 .. Len(pieces[i]) : t[p[i] + (j - 1)] = pieces[i][j]
  BY <1>3, <1>7 DEF Cut
<1>9. ASSUME NEW i \in 1 .. m
      PROVE  /\ p[i + 1] = p[i] + Len(lines[i]) + 2
             /\ t[p[i + 1] - 2] = "CR" /\ t[p[i + 1] - 1] = "LF"
             /\ \A j \in 1 .. Len(lines[i]) : t[p[i] + (j - 1)] = lines[i][j]
  <2> DEFINE l == lines[i]  k == Len(lines[i])  a == p[i]
  <2>1. /\ k \in Nat /\ Len(pieces[i]) = k + 2
        /\ \A j \in 1 .. k : pieces[i][j] = l[j]
        /\ pieces[i][k + 1] = "CR" /\ pieces[i][k + 2] = "LF"
    <3>1. l \in Seq(Byte) /\ pieces[i] = Line(l)
      BY <1>1, <1>4
    <3> HIDE DEF l
    <3> QED BY <3>1, LineType DEF l
  <2>2. a \in Nat
    <3>1. i \in 1 .. m + 1
      BY <1>1
    <3> QED BY <1>8, <3>1
  <2>3. /\ p[i + 1] = a + (k + 2)
        /\ \A j \in 1 .. k + 2 : t[a + (j - 1)] = pieces[i][j]
    BY <1>8, <2>1
  <2> HIDE DEF l, k, a
  <2>4. /\ k + 1 \in 1 .. k + 2 /\ k + 2 \in 1 .. k + 2 /\ \A j \in 1 .. k : j \in 1 .. k + 2
        /\ a + ((k + 1) - 1) = (a + (k + 2)) - 2 /\ a + ((k + 2) - 1) = (a + (k + 2)) - 1
        /\ a + (k + 2) = a + k + 2
    BY <2>1, <2>2
  <2>5. t[p[i + 1] - 2] = "CR"
    BY <2>1, <2>3, <2>4
  <2>6. t[p[i + 1] - 1] = "LF"
    BY <2>1, <2>3, <2>4
  <2>7. \A j \in 1 .. k : t[a + (j - 1)] = l[j]
    BY <2>1, <2>3, <2>4
  <2> QED BY <2>3, <2>4, <2>5, <2>6, <2>7 DEF a, k, l
<1>10. LaidOut(t, p, lines)
  BY <1>8, <1>9 DEF LaidOut, m
<1> QED BY <1>6, <1>10 DEF t

\* The places of a CRLF and of a blank line.
LEMMA CrlfAt ==
  ASSUME NEW s \in Seq(Byte)
  PROVE  \A i : i \in PlacesOf(CRLF, s) <=>
                  i \in 1 .. Len(s) - 1 /\ s[i] = "CR" /\ s[i + 1] = "LF"
<1>1. Len(s) \in Nat /\ Len(CRLF) = 2 /\ CRLF \in Seq(Byte)
  BY CrlfType, LenProperties
<1>2. ASSUME NEW i \in 1 .. Len(s) - 1
      PROVE  SubSeq(s, i, i + 2 - 1) = CRLF <=> s[i] = "CR" /\ s[i + 1] = "LF"
  <2> DEFINE part == SubSeq(s, i, i + 2 - 1)
  <2>1. i \in Nat \ {0} /\ 2 \in Nat /\ i + 2 <= Len(s) + 1
    BY <1>1
  <2>2. part \in Seq(Byte) /\ Len(part) = 2 /\ \A j \in 1 .. 2 : part[j] = s[(i - 1) + j]
    BY <2>1, Slice
  <2> HIDE DEF part
  <2>3. part[1] = s[i] /\ part[2] = s[i + 1]
    <3>1. 1 \in 1 .. 2 /\ 2 \in 1 .. 2 /\ (i - 1) + 1 = i /\ (i - 1) + 2 = i + 1
      OBVIOUS
    <3> QED BY <2>2, <3>1
  <2>4. part = CRLF <=> part[1] = CRLF[1] /\ part[2] = CRLF[2]
    <3>1. 1 .. 2 = {1, 2}
      OBVIOUS
    <3>2. ASSUME part[1] = CRLF[1], part[2] = CRLF[2] PROVE part = CRLF
      <4>1. \A j \in 1 .. Len(part) : part[j] = CRLF[j]
        BY <2>2, <3>1, <3>2
      <4> QED BY <1>1, <2>2, <4>1, SeqEqual
    <3> QED BY <3>2
  <2> QED BY <2>3, <2>4, CrlfType DEF part
<1>3. \A i : i \in PlacesOf(CRLF, s) <=>
               i \in 1 .. Len(s) - 1 /\ SubSeq(s, i, i + 2 - 1) = CRLF
  <2>1. Len(s) - 2 + 1 = Len(s) - 1
    BY <1>1
  <2> QED BY <1>1, <2>1 DEF PlacesOf
<1> QED BY <1>2, <1>3

LEMMA BlankLineType ==
  /\ BlankLine \in Seq(Byte) /\ Len(BlankLine) = 4
  /\ BlankLine[1] = "CR" /\ BlankLine[2] = "LF" /\ BlankLine[3] = "CR" /\ BlankLine[4] = "LF"
<1> DEFINE c == CRLF
<1>0. c \in Seq(Byte) /\ Len(c) = 2
  BY CrlfType
<1> HIDE DEF c
<1>1. /\ Len(c \o c) = Len(c) + Len(c) /\ c \o c \in Seq(Byte)
      /\ \A i \in 1 .. Len(c) : (c \o c)[i] = c[i]
      /\ \A i \in 1 .. Len(c) : (c \o c)[Len(c) + i] = c[i]
  BY <1>0, JoinedBytes
<1>2. 1 \in 1 .. 2 /\ 2 \in 1 .. 2 /\ 2 + 1 = 3 /\ 2 + 2 = 4
  OBVIOUS
<1>3. (c \o c)[1] = c[1] /\ (c \o c)[2] = c[2] /\ (c \o c)[3] = c[1] /\ (c \o c)[4] = c[2]
      /\ Len(c \o c) = 4
  BY <1>0, <1>1, <1>2
<1> QED BY <1>1, <1>3, CrlfType DEF BlankLine, c

LEMMA BlankLineAt ==
  ASSUME NEW s \in Seq(Byte)
  PROVE  \A i : i \in PlacesOf(BlankLine, s) <=>
                  /\ i \in 1 .. Len(s) - 3
                  /\ s[i] = "CR" /\ s[i + 1] = "LF" /\ s[i + 2] = "CR" /\ s[i + 3] = "LF"
<1>1. Len(s) \in Nat /\ Len(BlankLine) = 4 /\ BlankLine \in Seq(Byte)
  BY BlankLineType, LenProperties
<1>2. ASSUME NEW i \in 1 .. Len(s) - 3
      PROVE  SubSeq(s, i, i + 4 - 1) = BlankLine <=>
               s[i] = "CR" /\ s[i + 1] = "LF" /\ s[i + 2] = "CR" /\ s[i + 3] = "LF"
  <2> DEFINE part == SubSeq(s, i, i + 4 - 1)
  <2>1. i \in Nat \ {0} /\ 4 \in Nat /\ i + 4 <= Len(s) + 1
    BY <1>1
  <2>2. part \in Seq(Byte) /\ Len(part) = 4 /\ \A j \in 1 .. 4 : part[j] = s[(i - 1) + j]
    BY <2>1, Slice
  <2> HIDE DEF part
  <2>3. part[1] = s[i] /\ part[2] = s[i + 1] /\ part[3] = s[i + 2] /\ part[4] = s[i + 3]
    <3>1. /\ 1 \in 1 .. 4 /\ 2 \in 1 .. 4 /\ 3 \in 1 .. 4 /\ 4 \in 1 .. 4
          /\ (i - 1) + 1 = i /\ (i - 1) + 2 = i + 1 /\ (i - 1) + 3 = i + 2 /\ (i - 1) + 4 = i + 3
      OBVIOUS
    <3> QED BY <2>2, <3>1
  <2>4. part = BlankLine <=> /\ part[1] = BlankLine[1] /\ part[2] = BlankLine[2]
                             /\ part[3] = BlankLine[3] /\ part[4] = BlankLine[4]
    <3>1. 1 .. 4 = {1, 2, 3, 4}
      BY SmallRanges
    <3>2. ASSUME part[1] = BlankLine[1], part[2] = BlankLine[2],
                 part[3] = BlankLine[3], part[4] = BlankLine[4]
          PROVE  part = BlankLine
      <4>1. \A j \in 1 .. Len(part) : part[j] = BlankLine[j]
        BY <2>2, <3>1, <3>2
      <4> QED BY <1>1, <2>2, <4>1, SeqEqual
    <3> QED BY <3>2
  <2> QED BY <2>3, <2>4, BlankLineType DEF part
<1>3. \A i : i \in PlacesOf(BlankLine, s) <=>
               i \in 1 .. Len(s) - 3 /\ SubSeq(s, i, i + 4 - 1) = BlankLine
  <2>1. Len(s) - 4 + 1 = Len(s) - 3
    BY <1>1
  <2> QED BY <1>1, <2>1 DEF PlacesOf
<1> QED BY <1>2, <1>3

\* No line holds a CRLF.
PlainLines(lines) == \A i \in 1 .. Len(lines) : PlacesOf(CRLF, lines[i]) = {}

LEMMA LineStartsGrow ==
  ASSUME NEW lines \in Seq(Seq(Byte)), NEW t \in Seq(Byte), NEW p, LaidOut(t, p, lines)
  PROVE  /\ \A i \in 1 .. Len(lines) + 1 : p[i] \in Nat \ {0}
         /\ \A i \in 1 .. Len(lines) : Len(lines[i]) \in Nat
         /\ \A i, j \in 1 .. Len(lines) + 1 : i < j => p[i] + 2 <= p[j]
<1> DEFINE m == Len(lines)
<1>1. m \in Nat /\ \A i \in 1 .. m : lines[i] \in Seq(Byte)
  BY LenProperties, ElementOfSeq
<1>2. \A i \in 1 .. m : Len(lines[i]) \in Nat
  BY <1>1, LenProperties
<1>3. /\ \A i \in 1 .. m + 1 : p[i] \in Nat \ {0}
      /\ \A i \in 1 .. m : p[i + 1] = p[i] + Len(lines[i]) + 2
  BY DEF LaidOut
<1> HIDE DEF m
<1>4. ASSUME NEW i \in 1 .. m PROVE p[i] + 2 <= p[i + 1]
  <2> DEFINE a == p[i]  l == Len(lines[i])
  <2>1. a \in Nat /\ l \in Nat /\ p[i + 1] = a + l + 2
    <3>1. i \in 1 .. m + 1
      BY <1>1
    <3> QED BY <1>2, <1>3, <3>1
  <2> HIDE DEF a, l
  <2>2. a + 2 <= p[i + 1]
    BY <2>1
  <2> QED BY <2>2 DEF a
<1> DEFINE S == {d \in Nat : \A i \in 1 .. m + 1 : i + (d + 1) <= m + 1 => p[i] + 2 <= p[i + (d + 1)]}
<1>5. 0 \in S
  <2> SUFFICES ASSUME NEW i \in 1 .. m + 1, i + (0 + 1) <= m + 1
               PROVE  p[i] + 2 <= p[i + (0 + 1)]
    OBVIOUS
  <2>1. i \in 1 .. m /\ i + (0 + 1) = i + 1
    BY <1>1
  <2> QED BY <1>4, <2>1
<1>6. ASSUME NEW d \in Nat, d \in S PROVE d + 1 \in S
  <2> SUFFICES ASSUME NEW i \in 1 .. m + 1, i + ((d + 1) + 1) <= m + 1
               PROVE  p[i] + 2 <= p[i + ((d + 1) + 1)]
    OBVIOUS
  <2> DEFINE j == i + (d + 1)
  <2>1. j \in 1 .. m /\ j \in 1 .. m + 1 /\ j <= m + 1 /\ i + ((d + 1) + 1) = j + 1 /\ j + 1 \in 1 .. m + 1
    BY <1>1
  <2>2. p[i] + 2 <= p[j]
    BY <1>6, <2>1
  <2> HIDE DEF j
  <2>3. p[j] + 2 <= p[j + 1] /\ p[i] \in Nat /\ p[j] \in Nat /\ p[j + 1] \in Nat
    BY <1>3, <1>4, <2>1
  <2>4. p[i] + 2 <= p[j + 1]
    BY <2>2, <2>3
  <2> QED BY <2>1, <2>4
<1> HIDE DEF S
<1>7. Nat \subseteq S
  BY <1>5, <1>6, InductionOverSet
<1>8. ASSUME NEW i \in 1 .. m + 1, NEW j \in 1 .. m + 1, i < j PROVE p[i] + 2 <= p[j]
  <2>1. j - (i + 1) \in Nat /\ i + ((j - (i + 1)) + 1) = j /\ j <= m + 1
    BY <1>1, <1>8
  <2> QED BY <1>7, <2>1 DEF S
<1> QED BY <1>2, <1>3, <1>8 DEF m

\* Every place of the text is in one of its lines.
LEMMA LineOfPlace ==
  ASSUME NEW lines \in Seq(Seq(Byte)), NEW t \in Seq(Byte), NEW p, LaidOut(t, p, lines),
         NEW q \in 1 .. Len(t)
  PROVE  \E i \in 1 .. Len(lines) : p[i] <= q /\ q < p[i + 1]
<1> DEFINE m == Len(lines)  T == {k \in 1 .. m + 1 : q < p[k]}
<1>1. /\ m \in Nat /\ Len(t) \in Nat /\ q \in Nat
      /\ p[1] = 1 /\ p[m + 1] = Len(t) + 1
      /\ \A i \in 1 .. m + 1 : p[i] \in Nat \ {0}
  BY LenProperties, LineStartsGrow DEF LaidOut
<1> HIDE DEF m
<1>2. m + 1 \in T
  BY <1>1
<1>3. T \in SUBSET Nat /\ T # {}
  BY <1>1, <1>2
<1>4. PICK k \in T : \A j \in T : k <= j
  <2> HIDE DEF T
  <2> QED BY <1>3, SmallestElement
<1>5. k # 1
  BY <1>1
<1>6. k - 1 \in 1 .. m /\ (k - 1) + 1 = k /\ k - 1 \in 1 .. m + 1 /\ ~ (k <= k - 1)
  BY <1>1, <1>5
<1>7. ~ (q < p[k - 1])
  BY <1>4, <1>6
<1>8. p[k - 1] <= q
  BY <1>1, <1>6, <1>7
<1>9. q < p[(k - 1) + 1]
  BY <1>6
<1> QED BY <1>6, <1>8, <1>9 DEF m

\* A text in lines has its CRLFs at their ends only.
LEMMA CrlfEndsLines ==
  ASSUME NEW lines \in Seq(Seq(Byte)), NEW t \in Seq(Byte), NEW p, LaidOut(t, p, lines),
         PlainLines(lines)
  PROVE  \A q : q \in PlacesOf(CRLF, t) <=> \E j \in 1 .. Len(lines) : q = p[j + 1] - 2
<1> DEFINE m == Len(lines)  n == Len(t)
<1>1. /\ m \in Nat /\ n \in Nat
      /\ \A i \in 1 .. m + 1 : p[i] \in Nat \ {0}
      /\ \A i \in 1 .. m : Len(lines[i]) \in Nat
      /\ \A i, j \in 1 .. m + 1 : i < j => p[i] + 2 <= p[j]
  BY LenProperties, LineStartsGrow
<1>2. /\ p[1] = 1 /\ p[m + 1] = n + 1
      /\ \A i \in 1 .. m :
           /\ p[i + 1] = p[i] + Len(lines[i]) + 2
           /\ t[p[i + 1] - 2] = "CR" /\ t[p[i + 1] - 1] = "LF"
           /\ \A j \in 1 .. Len(lines[i]) : t[p[i] + (j - 1)] = lines[i][j]
  BY DEF LaidOut
<1>3. \A q : q \in PlacesOf(CRLF, t) <=> q \in 1 .. n - 1 /\ t[q] = "CR" /\ t[q + 1] = "LF"
  BY CrlfAt
<1>4. \A i \in 1 .. m : lines[i] \in Seq(Byte)
  BY ElementOfSeq
<1> HIDE DEF m, n
<1>5. ASSUME NEW i \in 1 .. m PROVE p[i + 1] - 2 \in PlacesOf(CRLF, t)
  <2> DEFINE b == p[i + 1]  a == p[i]
  <2>1. i + 1 \in 1 .. m + 1 /\ i \in 1 .. m + 1 /\ i < i + 1
        /\ (i + 1 = m + 1 \/ i + 1 < m + 1) /\ m + 1 \in 1 .. m + 1
    BY <1>1
  <2>2. a \in Nat \ {0} /\ b \in Nat \ {0} /\ a + 2 <= b
    BY <1>1, <2>1
  <2>3. b <= n + 1
    <3>1. CASE i + 1 = m + 1
      BY <1>1, <1>2, <3>1
    <3>2. CASE i + 1 < m + 1
      <4>1. p[i + 1] + 2 <= p[m + 1]
        BY <1>1, <2>1, <3>2
      <4> QED BY <1>1, <1>2, <2>2, <4>1
    <3> QED BY <2>1, <3>1, <3>2
  <2>4. t[b - 2] = "CR" /\ t[b - 1] = "LF"
    BY <1>2
  <2> HIDE DEF a, b
  <2>5. b - 2 \in 1 .. n - 1 /\ (b - 2) + 1 = b - 1
    BY <1>1, <2>2, <2>3
  <2>6. b - 2 \in PlacesOf(CRLF, t)
    BY <1>3, <2>4, <2>5
  <2> QED BY <2>6 DEF b
<1>6. ASSUME NEW q \in PlacesOf(CRLF, t) PROVE \E i \in 1 .. m : q = p[i + 1] - 2
  <2>1. q \in 1 .. n - 1 /\ t[q] = "CR" /\ t[q + 1] = "LF"
    BY <1>3
  <2>2. q \in 1 .. n
    BY <1>1, <2>1
  <2>3. PICK i \in 1 .. m : p[i] <= q /\ q < p[i + 1]
    BY <2>2, LineOfPlace DEF m, n
  <2> DEFINE a == p[i]  b == p[i + 1]  l == lines[i]  k == Len(lines[i])
  <2>4. i \in 1 .. m + 1
    BY <1>1
  <2>5. /\ a \in Nat /\ k \in Nat /\ b = a + k + 2 /\ a <= q /\ q < b /\ l \in Seq(Byte)
        /\ t[b - 2] = "CR" /\ t[b - 1] = "LF" /\ k = Len(l)
        /\ \A j \in 1 .. k : t[a + (j - 1)] = l[j]
    BY <1>1, <1>2, <1>4, <2>3, <2>4
  <2>6. PlacesOf(CRLF, l) = {}
    BY DEF m, PlainLines
  <2> HIDE DEF a, b, l, k
  <2>7. q # b - 1
    <3>1. "LF" # "CR"
      OBVIOUS
    <3> QED BY <2>1, <2>5, <3>1
  <2>8. q + 1 # b - 2
    <3>1. "LF" # "CR"
      OBVIOUS
    <3> QED BY <2>1, <2>5, <3>1
  <2>9. CASE q + 1 < b - 2
    <3> DEFINE j == (q - a) + 1
    <3>1. j \in 1 .. k - 1 /\ j \in 1 .. k /\ j + 1 \in 1 .. k
          /\ a + (j - 1) = q /\ a + ((j + 1) - 1) = q + 1
      BY <2>1, <2>5, <2>9
    <3> HIDE DEF j
    <3>2. l[j] = "CR" /\ l[j + 1] = "LF"
      BY <2>1, <2>5, <3>1
    <3>3. j \in PlacesOf(CRLF, l)
      BY <2>5, <3>1, <3>2, CrlfAt
    <3> QED BY <2>6, <3>3
  <2>10. CASE q = b - 2
    BY <2>10 DEF b
  <2>11. q + 1 < b - 2 \/ q = b - 2
    <3>1. q \in Int /\ b \in Int /\ q < b
      BY <1>1, <2>1, <2>5
    <3> QED BY <2>7, <2>8, <3>1
  <2> QED BY <2>9, <2>10, <2>11
<1> QED BY <1>5, <1>6 DEF m

\* Two CRLFs in a row stand around an empty line.
LEMMA BlankLineIsEmptyLine ==
  ASSUME NEW lines \in Seq(Seq(Byte)), NEW t \in Seq(Byte), NEW p, LaidOut(t, p, lines),
         PlainLines(lines)
  PROVE  \A q \in Nat : q \in PlacesOf(CRLF, t) /\ q + 2 \in PlacesOf(CRLF, t)
           => \E i \in 2 .. Len(lines) : Len(lines[i]) = 0 /\ q + 2 = p[i]
<1> SUFFICES ASSUME NEW q \in Nat, q \in PlacesOf(CRLF, t), q + 2 \in PlacesOf(CRLF, t)
             PROVE  \E i \in 2 .. Len(lines) : Len(lines[i]) = 0 /\ q + 2 = p[i]
  OBVIOUS
<1> DEFINE m == Len(lines)
<1>1. /\ m \in Nat
      /\ \A i \in 1 .. m + 1 : p[i] \in Nat \ {0}
      /\ \A i \in 1 .. m : Len(lines[i]) \in Nat
      /\ \A i, j \in 1 .. m + 1 : i < j => p[i] + 2 <= p[j]
  BY LenProperties, LineStartsGrow
<1>p. \A i \in 1 .. m : p[i + 1] = p[i] + Len(lines[i]) + 2
  BY DEF LaidOut
<1>c. \A x : x \in PlacesOf(CRLF, t) <=> \E j \in 1 .. m : x = p[j + 1] - 2
  BY CrlfEndsLines
<1>2. PICK i \in 1 .. m : q = p[i + 1] - 2
  BY <1>c
<1>3. PICK j \in 1 .. m : q + 2 = p[j + 1] - 2
  BY <1>c
<1> HIDE DEF m
<1> DEFINE a == p[i + 1]  b == p[j + 1]
<1>4. i + 1 \in 1 .. m + 1 /\ j + 1 \in 1 .. m + 1 /\ j \in 1 .. m + 1
  BY <1>1
<1>5. a \in Nat \ {0} /\ b \in Nat \ {0} /\ q = a - 2 /\ q + 2 = b - 2
  BY <1>1, <1>2, <1>3, <1>4
<1> HIDE DEF a, b
<1>6. b = a + 2 /\ q + 2 = a
  BY <1>5
<1>7. ~ (j + 1 <= i + 1)
  <2>1. ASSUME j + 1 < i + 1 PROVE FALSE
    <3>1. b + 2 <= a
      BY <1>1, <1>4, <2>1 DEF a, b
    <3> QED BY <1>5, <1>6, <3>1
  <2>2. ASSUME j = i PROVE FALSE
    <3>1. a = b
      BY <2>2 DEF a, b
    <3> QED BY <1>5, <1>6, <3>1
  <2> QED BY <1>1, <2>1, <2>2
<1>8. ~ (i + 1 < j)
  <2> SUFFICES ASSUME i + 1 < j PROVE FALSE
    OBVIOUS
  <2>1. p[i + 1] + 2 <= p[j]
    BY <1>1, <1>4
  <2>2. p[j] + 2 <= p[j + 1]
    <3>1. j < j + 1
      BY <1>1
    <3> QED BY <1>1, <1>4, <3>1
  <2>3. p[j] \in Nat
    BY <1>1, <1>4
  <2>4. a + 2 <= p[j] /\ p[j] + 2 <= b
    BY <2>1, <2>2 DEF a, b
  <2> QED BY <1>5, <1>6, <2>3, <2>4
<1>9. j = i + 1 /\ j \in 2 .. m
  BY <1>1, <1>7, <1>8
<1>10. Len(lines[j]) = 0
  <2>1. b = a + Len(lines[j]) + 2 /\ Len(lines[j]) \in Nat
    BY <1>1, <1>p, <1>9 DEF a, b
  <2> QED BY <1>5, <1>6, <2>1
<1>11. q + 2 = p[j]
  BY <1>6, <1>9 DEF a
<1> QED BY <1>9, <1>10, <1>11 DEF m

\* A blank line is the end of a line and an empty one behind it.
LEMMA BlankPlaces ==
  ASSUME NEW lines \in Seq(Seq(Byte)), NEW t \in Seq(Byte), NEW p, LaidOut(t, p, lines),
         PlainLines(lines)
  PROVE  \A q : q \in PlacesOf(BlankLine, t) <=>
                  \E i \in 2 .. Len(lines) : Len(lines[i]) = 0 /\ q = p[i] - 2
<1> DEFINE m == Len(lines)
<1>1. /\ m \in Nat /\ Len(t) \in Nat
      /\ \A i \in 1 .. m + 1 : p[i] \in Nat \ {0}
      /\ \A i, j \in 1 .. m + 1 : i < j => p[i] + 2 <= p[j]
      /\ \A i \in 1 .. m : p[i + 1] = p[i] + Len(lines[i]) + 2
      /\ p[m + 1] = Len(t) + 1
  BY LenProperties, LineStartsGrow DEF LaidOut
<1>2. \A x : x \in PlacesOf(CRLF, t) <=> \E j \in 1 .. m : x = p[j + 1] - 2
  BY CrlfEndsLines
<1>3. \A x : x \in PlacesOf(CRLF, t) <=> x \in 1 .. Len(t) - 1 /\ t[x] = "CR" /\ t[x + 1] = "LF"
  BY CrlfAt
<1>4. \A x : x \in PlacesOf(BlankLine, t) <=>
               /\ x \in 1 .. Len(t) - 3
               /\ t[x] = "CR" /\ t[x + 1] = "LF" /\ t[x + 2] = "CR" /\ t[x + 3] = "LF"
  BY BlankLineAt
<1>5. ASSUME NEW q \in PlacesOf(BlankLine, t)
      PROVE  \E i \in 2 .. m : Len(lines[i]) = 0 /\ q = p[i] - 2
  <2>1. /\ q \in Nat /\ q \in 1 .. Len(t) - 1 /\ q + 2 \in 1 .. Len(t) - 1
        /\ t[q] = "CR" /\ t[q + 1] = "LF" /\ t[q + 2] = "CR" /\ t[(q + 2) + 1] = "LF"
    <3>1. q \in 1 .. Len(t) - 3
      BY <1>4
    <3>2. q \in Nat /\ q \in 1 .. Len(t) - 1 /\ q + 2 \in 1 .. Len(t) - 1 /\ (q + 2) + 1 = q + 3
      BY <1>1, <3>1
    <3> QED BY <1>4, <3>2
  <2>2. q \in PlacesOf(CRLF, t) /\ q + 2 \in PlacesOf(CRLF, t)
    BY <1>3, <2>1
  <2>3. \E i \in 2 .. m : Len(lines[i]) = 0 /\ q + 2 = p[i]
    <3>1. \A x \in Nat : x \in PlacesOf(CRLF, t) /\ x + 2 \in PlacesOf(CRLF, t)
             => \E i \in 2 .. Len(lines) : Len(lines[i]) = 0 /\ x + 2 = p[i]
      BY BlankLineIsEmptyLine
    <3> QED BY <2>1, <2>2, <3>1
  <2>4. PICK i \in 2 .. m : Len(lines[i]) = 0 /\ q + 2 = p[i]
    BY <2>3
  <2>5. q = p[i] - 2
    BY <2>1, <2>4
  <2> QED BY <2>4, <2>5
<1>6. ASSUME NEW i \in 2 .. m, Len(lines[i]) = 0
      PROVE  p[i] - 2 \in PlacesOf(BlankLine, t)
  <2> DEFINE a == p[i] - 2
  <2>1. i - 1 \in 1 .. m /\ (i - 1) + 1 = i /\ i \in 1 .. m /\ i \in 1 .. m + 1
    BY <1>1
  <2>2. p[i] - 2 \in PlacesOf(CRLF, t)
    BY <1>2, <2>1
  <2>3. p[i + 1] - 2 \in PlacesOf(CRLF, t)
    BY <1>2, <2>1
  <2>4. p[i + 1] - 2 = a + 2 /\ a \in Int
    <3> DEFINE b == p[i]
    <3>1. p[i + 1] = b + 0 + 2 /\ b \in Nat
      BY <1>1, <1>6, <2>1
    <3>2. a = b - 2
      OBVIOUS
    <3> HIDE DEF a, b
    <3> QED BY <3>1, <3>2
  <2>5. a \in PlacesOf(CRLF, t) /\ a + 2 \in PlacesOf(CRLF, t)
    BY <2>2, <2>3, <2>4
  <2> HIDE DEF a
  <2>6. /\ a \in 1 .. Len(t) - 1 /\ t[a] = "CR" /\ t[a + 1] = "LF"
        /\ a + 2 \in 1 .. Len(t) - 1 /\ t[a + 2] = "CR" /\ t[(a + 2) + 1] = "LF"
    BY <1>3, <2>5
  <2>7. a \in 1 .. Len(t) - 3 /\ (a + 2) + 1 = a + 3
    BY <1>1, <2>4, <2>6
  <2>8. a \in PlacesOf(BlankLine, t)
    BY <1>4, <2>6, <2>7
  <2> QED BY <2>8 DEF a
<1> QED BY <1>5, <1>6 DEF m

-----------------------------------------------------------------------------
(* The lines of an answer *)

LEMMA Single ==
  ASSUME NEW S, NEW x \in S
  PROVE  <<x>> \in Seq(S) /\ Len(<<x>>) = 1 /\ <<x>>[1] = x
OBVIOUS

\* The status line, the headers and, if the server got that far, an empty line.
LEMMA AnswerLines ==
  ASSUME NEW a, IsAnswer(a)
  PROVE  /\ Lines(a) \in Seq(Seq(Byte)) /\ Len(a.headers) \in Nat
         /\ Len(Lines(a)) = Len(a.headers) + (IF a.ended THEN 2 ELSE 1)
         /\ Lines(a)[1] = a.status
         /\ \A i \in 1 .. Len(a.headers) : Lines(a)[i + 1] = a.headers[i]
         /\ a.ended => Lines(a)[Len(Lines(a))] = << >>
         /\ PlainLines(Lines(a))
         /\ \A i \in 2 .. Len(Lines(a)) :
              Len(Lines(a)[i]) = 0 <=> a.ended /\ i = Len(Lines(a))
<1> DEFINE B == Seq(Byte)  h == a.headers  first == <<a.status>>
           last == IF a.ended THEN << << >> >> ELSE << >>
           n == Len(h)  ls == Lines(a)
<1>1. /\ a.status \in B /\ PlacesOf(CRLF, a.status) = {} /\ h \in Seq(B) /\ a.ended \in BOOLEAN
      /\ \A i \in 1 .. n : h[i] \in B /\ PlacesOf(CRLF, h[i]) = {} /\ h[i] # << >>
  BY DEF IsAnswer, IsLine
<1>e. << >> \in B
  BY EmptySeq
<1>2. n \in Nat
  BY <1>1, LenProperties
<1>0. PlacesOf(CRLF, << >>) = {}
  <2>1. Len(<< >>) = 0 /\ << >> \in Seq(Byte)
    OBVIOUS
  <2>2. 1 .. 0 - 1 = {}
    OBVIOUS
  <2> QED BY <2>1, <2>2, CrlfAt
<1>3. first \in Seq(B) /\ Len(first) = 1 /\ first[1] = a.status
  BY <1>1
<1>4. /\ last \in Seq(B) /\ Len(last) = IF a.ended THEN 1 ELSE 0
      /\ a.ended => last[1] = << >>
  <2> DEFINE e == << >>
  <2>1. e \in B
    BY <1>e
  <2> HIDE DEF B, e
  <2>2. <<e>> \in Seq(B) /\ Len(<<e>>) = 1 /\ <<e>>[1] = e
    BY <2>1, Single
  <2>3. << >> \in Seq(B) /\ Len(<< >>) = 0
    OBVIOUS
  <2> QED BY <1>1, <2>2, <2>3 DEF e
<1>5. ls = (first \o h) \o last
  BY DEF Lines
<1> HIDE DEF first, last, B, h
<1>6. /\ first \o h \in Seq(B) /\ Len(first \o h) = 1 + n
      /\ (first \o h)[1] = a.status
      /\ \A i \in 1 .. n : (first \o h)[1 + i] = h[i]
  <2>1. /\ first \o h \in Seq(B) /\ Len(first \o h) = Len(first) + Len(h)
        /\ \A i \in 1 .. Len(first) : (first \o h)[i] = first[i]
        /\ \A i \in 1 .. Len(h) : (first \o h)[Len(first) + i] = h[i]
    <3>1. first \in Seq(B) /\ h \in Seq(B)
      BY <1>1, <1>3
    <3> QED BY <3>1, JoinedParts
  <2>2. 1 \in 1 .. 1
    OBVIOUS
  <2> QED BY <1>3, <2>1, <2>2
<1> DEFINE front == first \o h
<1> HIDE DEF front
<1>7. /\ front \o last \in Seq(B) /\ Len(front \o last) = Len(front) + Len(last)
      /\ \A i \in 1 .. Len(front) : (front \o last)[i] = front[i]
      /\ \A i \in 1 .. Len(last) : (front \o last)[Len(front) + i] = last[i]
  BY <1>4, <1>6, JoinedParts DEF front
<1>8. Len(front) = n + 1 /\ front[1] = a.status /\ \A i \in 1 .. n : front[i + 1] = h[i]
  <2>1. \A i \in 1 .. n : 1 + i = i + 1
    BY <1>2
  <2> QED BY <1>2, <1>6, <2>1 DEF front
<1>9. ls = front \o last
  BY <1>5 DEF front
<1> HIDE DEF n, ls
<1>10. ls \in Seq(B) /\ Len(ls) = n + (IF a.ended THEN 2 ELSE 1)
  BY <1>1, <1>2, <1>4, <1>7, <1>8, <1>9
<1>11. ls[1] = a.status
  <2>1. 1 \in 1 .. n + 1
    BY <1>2
  <2> QED BY <1>7, <1>8, <1>9, <2>1
<1>12. \A i \in 1 .. n : ls[i + 1] = h[i]
  <2>1. \A i \in 1 .. n : i + 1 \in 1 .. n + 1
    BY <1>2
  <2> QED BY <1>7, <1>8, <1>9, <2>1
<1>13. ASSUME a.ended PROVE ls[Len(ls)] = << >> /\ Len(ls) = n + 2
  <2>1. Len(ls) = (n + 1) + 1 /\ 1 \in 1 .. 1 /\ Len(ls) = n + 2
    BY <1>2, <1>10, <1>13
  <2>2. Len(last) = 1 /\ last[1] = << >>
    BY <1>4, <1>13
  <2>3. (front \o last)[(n + 1) + 1] = last[1]
    BY <1>7, <1>8, <2>1, <2>2
  <2> QED BY <1>9, <2>1, <2>2, <2>3
<1>14. ASSUME NEW i \in 1 .. Len(ls)
       PROVE  \/ i = 1
              \/ i \in 2 .. n + 1 /\ i - 1 \in 1 .. n /\ ls[i] = h[i - 1]
              \/ a.ended /\ i = Len(ls) /\ i \notin 2 .. n + 1
  <2>1. CASE i \in 2 .. n + 1
    <3>1. i - 1 \in 1 .. n /\ (i - 1) + 1 = i
      BY <1>2, <2>1
    <3>2. ls[(i - 1) + 1] = h[i - 1]
      BY <1>12, <3>1
    <3> QED BY <2>1, <3>1, <3>2
  <2>2. CASE i \notin 2 .. n + 1 /\ i # 1
    <3>1. CASE a.ended
      <4>1. i \in 1 .. n + 2
        BY <1>13, <3>1
      <4>2. i = n + 2
        BY <1>2, <2>2, <4>1
      <4> QED BY <1>13, <2>2, <3>1, <4>2
    <3>2. CASE ~ a.ended
      <4>1. i \in 1 .. n + 1
        BY <1>10, <3>2
      <4> QED BY <1>2, <2>2, <4>1
    <3> QED BY <3>1, <3>2
  <2> QED BY <2>1, <2>2
<1>15. ASSUME NEW i \in 1 .. Len(ls) PROVE PlacesOf(CRLF, ls[i]) = {}
  BY <1>0, <1>1, <1>11, <1>13, <1>14
<1>16. ASSUME NEW i \in 2 .. Len(ls)
       PROVE  Len(ls[i]) = 0 <=> a.ended /\ i = Len(ls)
  <2>1. i \in 1 .. Len(ls) /\ i # 1 /\ Len(ls) \in Nat
    BY <1>2, <1>10
  <2>2. CASE i \in 2 .. n + 1
    <3>1. i - 1 \in 1 .. n /\ ls[i] = h[i - 1]
      BY <1>14, <2>1, <2>2
    <3>2. h[i - 1] \in Seq(Byte) /\ h[i - 1] # << >>
      BY <1>1, <3>1 DEF B
    <3>3. Len(h[i - 1]) # 0
      BY <3>2, EmptySeq
    <3>4. a.ended => i # Len(ls)
      BY <1>2, <1>13, <2>2
    <3> QED BY <3>1, <3>3, <3>4
  <2>3. CASE i \notin 2 .. n + 1
    <3>1. a.ended /\ i = Len(ls)
      BY <1>14, <2>1, <2>3
    <3>2. Len(<< >>) = 0
      OBVIOUS
    <3> QED BY <1>13, <3>1, <3>2
  <2> QED BY <2>2, <2>3
<1>17. PlainLines(ls)
  BY <1>15 DEF PlainLines
<1> QED BY <1>2, <1>10, <1>11, <1>12, <1>13, <1>16, <1>17 DEF h, n, ls, B

\* When only the last line is empty, or none, there is one blank line at the
\* end, or none.
LEMMA OneBlankLine ==
  ASSUME NEW lines \in Seq(Seq(Byte)), NEW t \in Seq(Byte), NEW p, LaidOut(t, p, lines),
         PlainLines(lines),
         NEW ended \in BOOLEAN, ended => Len(lines) >= 2,
         \A i \in 2 .. Len(lines) : Len(lines[i]) = 0 <=> ended /\ i = Len(lines)
  PROVE  /\ PlacesOf(BlankLine, t) = IF ended THEN {Len(t) - 3} ELSE {}
         /\ ended => p[Len(lines)] = Len(t) - 1
<1> DEFINE m == Len(lines)  n == Len(t)
<1>1. m \in Nat /\ n \in Nat /\ (ended => m >= 2)
  BY LenProperties
<1>2. \A q : q \in PlacesOf(BlankLine, t) <=> \E i \in 2 .. m : Len(lines[i]) = 0 /\ q = p[i] - 2
  BY BlankPlaces
<1>3. \A i \in 2 .. m : Len(lines[i]) = 0 <=> ended /\ i = m
  OBVIOUS
<1>4. /\ \A i \in 1 .. m + 1 : p[i] \in Nat \ {0}
      /\ \A i \in 1 .. m : p[i + 1] = p[i] + Len(lines[i]) + 2
      /\ p[m + 1] = n + 1
  BY DEF LaidOut
<1> HIDE DEF m, n
<1>5. CASE ~ ended
  BY <1>2, <1>3, <1>5
<1>6. CASE ended
  <2> DEFINE x == p[m]
  <2>1. m \in 2 .. m /\ m \in 1 .. m /\ m \in 1 .. m + 1
    BY <1>1, <1>6
  <2>2. Len(lines[m]) = 0
    BY <1>3, <1>6, <2>1
  <2>3. x \in Nat /\ x + 0 + 2 = n + 1
    BY <1>4, <2>1, <2>2
  <2>4. \A q : q \in PlacesOf(BlankLine, t) <=> q = x - 2
    BY <1>2, <1>3, <1>6, <2>1
  <2> HIDE DEF x
  <2>5. x - 2 = n - 3 /\ x = n - 1
    BY <1>1, <2>3
  <2>6. PlacesOf(BlankLine, t) = {n - 3}
    BY <2>4, <2>5
  <2> QED BY <1>6, <2>5, <2>6 DEF m, n, x
<1> QED BY <1>5, <1>6

\* The only blank line of an answer's lines is at their end.
LEMMA BlankLineEnds ==
  ASSUME NEW a, IsAnswer(a)
  PROVE  LET t == LinesText(Lines(a))
         IN  /\ t \in Seq(Byte) /\ Len(t) \in Nat
             /\ PlacesOf(BlankLine, t) = IF a.ended THEN {Len(t) - 3} ELSE {}
<1> DEFINE lines == Lines(a)  text == LinesText(lines)  done == a.ended
<1>1. /\ lines \in Seq(Seq(Byte)) /\ done \in BOOLEAN
      /\ done => Len(lines) >= 2
      /\ PlainLines(lines)
      /\ \A i \in 2 .. Len(lines) : Len(lines[i]) = 0 <=> done /\ i = Len(lines)
  <2>1. /\ lines \in Seq(Seq(Byte)) /\ Len(a.headers) \in Nat
        /\ Len(lines) = Len(a.headers) + (IF done THEN 2 ELSE 1)
        /\ PlainLines(lines)
        /\ \A i \in 2 .. Len(lines) : Len(lines[i]) = 0 <=> done /\ i = Len(lines)
    BY AnswerLines
  <2>2. done \in BOOLEAN
    BY DEF IsAnswer
  <2> HIDE DEF lines, done
  <2>3. done => Len(lines) >= 2
    BY <2>1
  <2> QED BY <2>1, <2>2, <2>3
<1> SUFFICES text \in Seq(Byte) /\ Len(text) \in Nat
             /\ PlacesOf(BlankLine, text) = IF done THEN {Len(text) - 3} ELSE {}
  OBVIOUS
<1> HIDE DEF lines, done
<1>2. text \in Seq(Byte) /\ \E p : LaidOut(text, p, lines)
  BY <1>1, LinesAreLaidOut
<1> HIDE DEF text
<1>3. \A p : LaidOut(text, p, lines) =>
        PlacesOf(BlankLine, text) = IF done THEN {Len(text) - 3} ELSE {}
  BY <1>1, <1>2, OneBlankLine
<1> QED BY <1>2, <1>3, LenProperties

\* What an answer says up to its first blank line, and what is behind it.
Text(a) == LinesText(Lines(a))

Behind(a) == FlattenSeq(a.frames) \o a.more

LEMMA AnswerParts ==
  ASSUME NEW a, IsAnswer(a)
  PROVE  /\ Text(a) \in Seq(Byte) /\ Behind(a) \in Seq(Byte) /\ AnswerBytes(a) \in Seq(Byte)
         /\ FlattenSeq(a.frames) \in Seq(Byte)
         /\ AnswerBytes(a) = Text(a) \o IF a.ended THEN Behind(a) ELSE << >>
<1>1. a.frames \in Seq(Seq(Byte)) /\ a.more \in Seq(Byte) /\ a.ended \in BOOLEAN
  BY DEF IsAnswer, IsPartOfFrame
<1>2. Text(a) \in Seq(Byte)
  BY BlankLineEnds DEF Text
<1>3. FlattenSeq(a.frames) \in Seq(Byte)
  BY <1>1, FlattenCut
<1>4. Behind(a) \in Seq(Byte)
  BY <1>1, <1>3, ConcatProperties DEF Behind
<1>5. AnswerBytes(a) = Text(a) \o IF a.ended THEN Behind(a) ELSE << >>
  BY DEF AnswerBytes, Text, Behind, LinesText
<1> DEFINE rest == IF a.ended THEN Behind(a) ELSE << >>
<1>6. rest \in Seq(Byte)
  BY <1>1, <1>4, EmptySeq
<1> HIDE DEF rest
<1>7. Text(a) \o rest \in Seq(Byte)
  BY <1>2, <1>6, ConcatProperties
<1> QED BY <1>2, <1>3, <1>4, <1>5, <1>7 DEF rest

\* The places of a blank line inside the front of a text are those of the text.
LEMMA BlankInFront ==
  ASSUME NEW s \in Seq(Byte), NEW u \in Seq(Byte), NEW i \in Nat
  PROVE  i \in PlacesOf(BlankLine, s) <=> i \in PlacesOf(BlankLine, s \o u) /\ i + 3 <= Len(s)
<1> DEFINE n == Len(s)  k == Len(u)  c == s \o u
<1>1. /\ c \in Seq(Byte) /\ Len(c) = n + k /\ n \in Nat /\ k \in Nat
      /\ \A j \in 1 .. n : c[j] = s[j]
  BY JoinedBytes
<1>2. i \in PlacesOf(BlankLine, s) <=>
        /\ i \in 1 .. n - 3
        /\ s[i] = "CR" /\ s[i + 1] = "LF" /\ s[i + 2] = "CR" /\ s[i + 3] = "LF"
  BY BlankLineAt
<1>3. i \in PlacesOf(BlankLine, c) <=>
        /\ i \in 1 .. Len(c) - 3
        /\ c[i] = "CR" /\ c[i + 1] = "LF" /\ c[i + 2] = "CR" /\ c[i + 3] = "LF"
  BY <1>1, BlankLineAt
<1> HIDE DEF n, k, c
<1>4. ASSUME i \in 1 .. n - 3
      PROVE  /\ c[i] = s[i] /\ c[i + 1] = s[i + 1] /\ c[i + 2] = s[i + 2] /\ c[i + 3] = s[i + 3]
             /\ i \in 1 .. Len(c) - 3
  <2>1. i \in 1 .. n /\ i + 1 \in 1 .. n /\ i + 2 \in 1 .. n /\ i + 3 \in 1 .. n
        /\ i \in 1 .. (n + k) - 3
    BY <1>1, <1>4
  <2> QED BY <1>1, <2>1
<1>5. i \in 1 .. n - 3 <=> i # 0 /\ i + 3 <= n
  BY <1>1
<1>6. i \in 1 .. Len(c) - 3 => i # 0
  OBVIOUS
<1>7. CASE i \in 1 .. n - 3
  BY <1>2, <1>3, <1>4, <1>5, <1>7 DEF n, c
<1>8. CASE i \notin 1 .. n - 3
  BY <1>2, <1>3, <1>5, <1>6, <1>8 DEF n, c
<1> QED BY <1>7, <1>8

\* However much of the answer has arrived: a blank line is found only where its
\* lines end.
LEMMA ResponseIsLines ==
  ASSUME NEW a, IsAnswer(a), NEW view \in Seq(Byte), NEW u \in Seq(Byte),
         view \o u = AnswerBytes(a), FindText(BlankLine, view) + 3 <= Len(view)
  PROVE  a.ended /\ FindText(BlankLine, view) + 3 = Len(Text(a))
<1> DEFINE t == Text(a)  f == FindText(BlankLine, view)
           rest == IF a.ended THEN Behind(a) ELSE << >>
<1>1. /\ t \in Seq(Byte) /\ Len(t) \in Nat
      /\ PlacesOf(BlankLine, t) = IF a.ended THEN {Len(t) - 3} ELSE {}
  BY BlankLineEnds DEF Text
<1>2. Len(BlankLine) \in Nat /\ Len(view) \in Nat
  BY BlankLineType, LenProperties
<1>3. f \in Nat /\ (f \in PlacesOf(BlankLine, view) \/ f = Len(view) + 1)
      /\ \A i \in PlacesOf(BlankLine, view) : f <= i
  BY <1>2, FindTextLeast
<1>r. rest \in Seq(Byte) /\ view \o u = t \o rest
  BY AnswerParts, EmptySeq DEF IsAnswer
<1>4. f + 3 <= Len(view)
  OBVIOUS
<1>e. a.ended \in BOOLEAN
  BY DEF IsAnswer
<1> HIDE DEF t, f, rest
<1>5. f \in PlacesOf(BlankLine, view)
  BY <1>2, <1>3, <1>4
<1>6. f \in PlacesOf(BlankLine, t \o rest)
  BY <1>3, <1>5, <1>r, BlankInFront
<1>7. CASE a.ended
  <2>1. PlacesOf(BlankLine, t) = {Len(t) - 3}
    BY <1>1, <1>7
  <2>2. ~ (f + 3 > Len(t))
    <3> SUFFICES ASSUME f + 3 > Len(t) PROVE FALSE
      OBVIOUS
    <3>1. Len(t) - 3 \in Nat
      <4>1. Len(t) - 3 \in PlacesOf(BlankLine, t)
        BY <2>1
      <4>2. Len(t) - 3 \in 1 .. Len(t) - 3
        BY <1>1, <4>1, BlankLineAt
      <4> QED BY <1>1, <4>2
    <3>2. Len(t) - 3 \in PlacesOf(BlankLine, t \o rest)
      BY <1>1, <1>r, <2>1, <3>1, BlankInFront
    <3>3. (Len(t) - 3) + 3 <= Len(view)
      BY <1>1, <1>2, <1>3, <1>4
    <3>4. Len(t) - 3 \in PlacesOf(BlankLine, view)
      BY <1>r, <3>1, <3>2, <3>3, BlankInFront
    <3>5. f <= Len(t) - 3
      BY <1>3, <3>4
    <3> QED BY <1>1, <1>3, <3>5
  <2>3. f + 3 <= Len(t)
    BY <1>1, <1>3, <2>2
  <2>4. f \in PlacesOf(BlankLine, t)
    BY <1>1, <1>3, <1>6, <1>r, <2>3, BlankInFront
  <2>5. f = Len(t) - 3
    BY <2>1, <2>4
  <2> QED BY <1>1, <1>7, <2>5 DEF f, t
<1>8. CASE ~ a.ended
  <2>1. PlacesOf(BlankLine, t) = {} /\ rest = << >>
    BY <1>1, <1>8 DEF rest
  <2>2. t \o rest = t
    BY <1>1, <2>1
  <2> QED BY <1>6, <2>1, <2>2
<1> QED BY <1>7, <1>8

LEMMA MinOf ==
  ASSUME NEW T, NEW x \in T, \A y \in T : y \in Nat /\ x <= y
  PROVE  Min(T) = x
<1>1. \A y \in T : y \in Nat
  OBVIOUS
<1>2. \A z \in T : (\A y \in T : z <= y) => z = x
  <2> SUFFICES ASSUME NEW z \in T, \A y \in T : z <= y PROVE z = x
    OBVIOUS
  <2>1. z \in Nat /\ x \in Nat /\ z <= x /\ x <= z
    OBVIOUS
  <2> QED BY <2>1
<1> QED BY <1>2 DEF Min

\* The line that begins where the layout says.
LEMMA LineRead ==
  ASSUME NEW lines \in Seq(Seq(Byte)), NEW t \in Seq(Byte), NEW p, LaidOut(t, p, lines),
         PlainLines(lines),
         NEW i \in 1 .. Len(lines)
  PROVE  LineAt(t, p[i]) = lines[i]
<1> DEFINE m == Len(lines)  l == lines[i]  k == Len(l)  a == p[i]  b == p[i + 1]
           Q == {q \in PlacesOf(CRLF, t) : q >= a}
<1>1. /\ m \in Nat /\ Len(t) \in Nat
      /\ \A j \in 1 .. m + 1 : p[j] \in Nat \ {0}
      /\ \A j, h \in 1 .. m + 1 : j < h => p[j] + 2 <= p[h]
  BY LenProperties, LineStartsGrow
<1>2. \A q : q \in PlacesOf(CRLF, t) <=> \E j \in 1 .. m : q = p[j + 1] - 2
  BY CrlfEndsLines
<1>3. l \in Seq(Byte) /\ k \in Nat
  BY ElementOfSeq, LenProperties
<1>4. /\ b = a + k + 2
      /\ \A j \in 1 .. k : t[a + (j - 1)] = l[j]
      /\ p[m + 1] = Len(t) + 1
  BY DEF LaidOut
<1>5. i \in 1 .. m + 1 /\ i + 1 \in 1 .. m + 1 /\ m + 1 \in 1 .. m + 1
  BY <1>1
<1>6. a \in Nat \ {0} /\ b \in Nat
  BY <1>1, <1>5
<1>7. b <= Len(t) + 1
  <2>1. CASE i + 1 = m + 1
    BY <1>1, <1>4, <2>1
  <2>2. CASE i + 1 # m + 1
    <3>1. i + 1 < m + 1
      BY <1>1, <2>2
    <3>2. b + 2 <= p[m + 1]
      BY <1>1, <1>5, <3>1
    <3> HIDE DEF b
    <3> QED BY <1>1, <1>4, <1>6, <3>2
  <2> QED BY <2>1, <2>2
<1>8. \A q \in Q : \E j \in 1 .. m : q = p[j + 1] - 2 /\ q >= a
  BY <1>2
<1>9. b - 2 \in PlacesOf(CRLF, t)
  BY <1>2
<1>10. ASSUME NEW q \in Q PROVE q \in Nat /\ b - 2 <= q
  <2>1. PICK j \in 1 .. m : q = p[j + 1] - 2 /\ q >= a
    BY <1>8
  <2> DEFINE c == p[j + 1]
  <2>2. j + 1 \in 1 .. m + 1 /\ c \in Nat \ {0} /\ q = c - 2 /\ q >= a
    BY <1>1, <2>1
  <2>3. ~ (j + 1 <= i)
    <3> SUFFICES ASSUME j + 1 <= i PROVE FALSE
      OBVIOUS
    <3>1. j + 1 = i \/ j + 1 < i
      BY <1>1
    <3>2. c <= a
      <4>1. CASE j + 1 = i
        BY <1>6, <4>1
      <4>2. CASE j + 1 < i
        <5>1. c + 2 <= a
          BY <1>1, <1>5, <2>2, <4>2
        <5> HIDE DEF a, c
        <5> QED BY <1>6, <2>2, <5>1
      <4> QED BY <3>1, <4>1, <4>2
    <3> HIDE DEF a, c
    <3> QED BY <1>6, <2>2, <3>2
  <2>4. b <= c
    <3>1. CASE j = i
      BY <1>6, <3>1
    <3>2. CASE j # i
      <4>1. i + 1 < j + 1
        BY <1>1, <2>3, <3>2
      <4>2. b + 2 <= c
        BY <1>1, <1>5, <2>2, <4>1
      <4> HIDE DEF b, c
      <4> QED BY <1>6, <2>2, <4>2
    <3> QED BY <3>1, <3>2
  <2> HIDE DEF a, b, c, Q
  <2> QED BY <1>6, <2>2, <2>4
<1> HIDE DEF a, b, l, k, m
<1>11. b - 2 \in Q
  <2>1. b - 2 >= a
    BY <1>3, <1>4, <1>6
  <2> QED BY <1>9, <2>1
<1>12. Min(Q) = b - 2
  <2> HIDE DEF Q
  <2> QED BY <1>10, <1>11, MinOf
<1>13. LineAt(t, a) = SubSeq(t, a, a + k - 1)
  <2>1. LineAt(t, a) = SubSeq(t, a, Min(Q) - 1)
    BY DEF LineAt, LineEnd
  <2>2. (b - 2) - 1 = a + k - 1
    <3>1. b = a + k + 2
      BY <1>4
    <3> QED BY <1>3, <1>6, <3>1
  <2> HIDE DEF Q
  <2> QED BY <1>12, <2>1, <2>2
<1> DEFINE part == SubSeq(t, a, a + k - 1)
<1>14. part \in Seq(Byte) /\ Len(part) = k /\ \A j \in 1 .. k : part[j] = t[(a - 1) + j]
  <2>1. a + k <= Len(t) + 1
    BY <1>1, <1>3, <1>4, <1>6, <1>7
  <2> QED BY <1>3, <1>6, <2>1, Slice
<1> HIDE DEF part
<1>15. \A j \in 1 .. k : part[j] = l[j]
  <2>1. \A j \in 1 .. k : (a - 1) + j = a + (j - 1)
    BY <1>3, <1>6
  <2> QED BY <1>4, <1>14, <2>1
<1>16. part = l
  <2>1. Len(l) = k
    BY DEF k
  <2> QED BY <1>3, <1>14, <1>15, <2>1, SeqEqual
<1> QED BY <1>13, <1>16 DEF part, a, l

\* The lines begin at 1 and behind each CRLF.
LEMMA LineStartsOf ==
  ASSUME NEW lines \in Seq(Seq(Byte)), NEW t \in Seq(Byte), NEW p, LaidOut(t, p, lines),
         PlainLines(lines)
  PROVE  \A x : x \in LineStarts(t) <=> \E i \in 1 .. Len(lines) + 1 : x = p[i]
<1> DEFINE m == Len(lines)
<1>1. m \in Nat /\ p[1] = 1 /\ \A i \in 1 .. m + 1 : p[i] \in Nat \ {0}
  BY LenProperties, LineStartsGrow DEF LaidOut
<1>2. \A q : q \in PlacesOf(CRLF, t) <=> \E j \in 1 .. m : q = p[j + 1] - 2
  BY CrlfEndsLines
<1>3. \A x : x \in LineStarts(t) <=> x = 1 \/ \E q \in PlacesOf(CRLF, t) : x = q + 2
  BY DEF LineStarts
<1> HIDE DEF m
<1>4. ASSUME NEW q \in PlacesOf(CRLF, t) PROVE \E i \in 1 .. m + 1 : q + 2 = p[i]
  <2>1. PICK j \in 1 .. m : q = p[j + 1] - 2
    BY <1>2
  <2> DEFINE c == p[j + 1]
  <2>2. j + 1 \in 1 .. m + 1 /\ c \in Nat /\ q = c - 2
    BY <1>1, <2>1
  <2> HIDE DEF c
  <2>3. q + 2 = c
    BY <2>2
  <2> QED BY <2>2, <2>3 DEF c
<1>5. ASSUME NEW i \in 1 .. m + 1
      PROVE  p[i] = 1 \/ \E q \in PlacesOf(CRLF, t) : p[i] = q + 2
  <2>1. CASE i = 1
    BY <1>1, <2>1
  <2>2. CASE i # 1
    <3> DEFINE c == p[i]
    <3>1. i - 1 \in 1 .. m /\ (i - 1) + 1 = i
      BY <1>1, <2>2
    <3>2. p[(i - 1) + 1] - 2 \in PlacesOf(CRLF, t)
      BY <1>2, <3>1
    <3>3. c - 2 \in PlacesOf(CRLF, t) /\ c \in Nat
      BY <1>1, <3>1, <3>2
    <3> HIDE DEF c
    <3>4. c = (c - 2) + 2
      BY <3>3
    <3>5. \E q \in PlacesOf(CRLF, t) : c = q + 2
      BY <3>3, <3>4
    <3> QED BY <3>5 DEF c
  <2> QED BY <2>1, <2>2
<1>6. 1 \in 1 .. m + 1
  BY <1>1
<1> QED BY <1>1, <1>3, <1>4, <1>5, <1>6 DEF m

\* Read line by line, a response is what was written line by line.
LEMMA LinesRead ==
  ASSUME NEW lines \in Seq(Seq(Byte)), NEW t \in Seq(Byte), NEW p, LaidOut(t, p, lines),
         PlainLines(lines),
         Len(lines) >= 2,
         \A i \in 2 .. Len(lines) : Len(lines[i]) = 0 <=> i = Len(lines)
  PROVE  /\ StatusLine(t) = lines[1]
         /\ HeaderLines(t) = {lines[i] : i \in 2 .. Len(lines) - 1}
<1> DEFINE m == Len(lines)  start == p[m]
           E == {x \in LineStarts(t) \ {1} : x \in PlacesOf(CRLF, t)}
           H == {x \in LineStarts(t) : 1 < x /\ x < start}
<1>1. /\ m \in Nat /\ m >= 2 /\ p[1] = 1
      /\ \A i \in 1 .. m + 1 : p[i] \in Nat \ {0}
      /\ \A i, j \in 1 .. m + 1 : i < j => p[i] + 2 <= p[j]
      /\ \A i \in 1 .. m : p[i + 1] = p[i] + Len(lines[i]) + 2
  BY LenProperties, LineStartsGrow DEF LaidOut
<1>2. \A x : x \in PlacesOf(CRLF, t) <=> \E j \in 1 .. m : x = p[j + 1] - 2
  BY CrlfEndsLines
<1>3. \A x : x \in LineStarts(t) <=> \E i \in 1 .. m + 1 : x = p[i]
  BY LineStartsOf
<1>4. \A i \in 1 .. m : LineAt(t, p[i]) = lines[i]
  BY LineRead
<1>5. \A i \in 2 .. m : Len(lines[i]) = 0 <=> i = m
  OBVIOUS
<1>6. \A q \in Nat : q \in PlacesOf(CRLF, t) /\ q + 2 \in PlacesOf(CRLF, t)
        => \E i \in 2 .. m : Len(lines[i]) = 0 /\ q + 2 = p[i]
  BY BlankLineIsEmptyLine
<1>c. PlacesOf(CRLF, t) \subseteq Nat
  BY CrlfAt
<1> SUFFICES StatusLine(t) = lines[1] /\ HeaderLines(t) = {lines[i] : i \in 2 .. m - 1}
  OBVIOUS
<1> HIDE DEF m
<1>7. m \in 1 .. m /\ m \in 2 .. m /\ m \in 1 .. m + 1 /\ 1 \in 1 .. m /\ 1 \in 1 .. m + 1
  BY <1>1
<1>8. StatusLine(t) = lines[1]
  BY <1>1, <1>4, <1>7 DEF StatusLine
<1>9. ASSUME NEW x \in E PROVE x = start
  <2>1. x \in LineStarts(t) /\ x # 1 /\ x \in PlacesOf(CRLF, t)
    OBVIOUS
  <2>2. PICK i \in 1 .. m + 1 : x = p[i]
    BY <1>3, <2>1
  <2>3. i # 1 /\ x \in Nat
    BY <1>1, <2>1, <2>2
  <2>4. i - 1 \in 1 .. m /\ (i - 1) + 1 = i
    BY <1>1, <2>3
  <2>5. x - 2 \in PlacesOf(CRLF, t)
    BY <1>2, <2>2, <2>4
  <2>6. x - 2 \in Nat /\ (x - 2) + 2 = x
    BY <1>c, <2>3, <2>5
  <2>7. PICK k \in 2 .. m : Len(lines[k]) = 0 /\ (x - 2) + 2 = p[k]
    BY <1>6, <2>1, <2>5, <2>6
  <2> QED BY <1>5, <2>6, <2>7
<1>10. start \in E
  <2>1. start \in LineStarts(t)
    BY <1>3, <1>7
  <2>2. start # 1
    <3>1. 1 < m
      BY <1>1
    <3>2. p[1] + 2 <= p[m]
      BY <1>1, <1>7, <3>1
    <3> HIDE DEF start
    <3>3. 1 + 2 <= start
      BY <1>1, <3>2 DEF start
    <3> QED BY <3>3
  <2>3. start \in PlacesOf(CRLF, t)
    <3>1. p[m + 1] = start + 0 + 2 /\ start \in Nat
      BY <1>1, <1>5, <1>7
    <3>2. p[m + 1] - 2 \in PlacesOf(CRLF, t)
      BY <1>2, <1>7
    <3> HIDE DEF start
    <3>3. (start + 0 + 2) - 2 = start
      BY <3>1
    <3> QED BY <3>1, <3>2, <3>3
  <2> QED BY <2>1, <2>2, <2>3
<1>11. start \in Nat
  BY <1>1, <1>7
<1> HIDE DEF start
<1>12. Min(E) = start
  <2> HIDE DEF E
  <2>1. \A y \in E : y \in Nat /\ start <= y
    BY <1>9, <1>11
  <2> QED BY <1>10, <2>1, MinOf
<1>13. HeaderLines(t) = {LineAt(t, x) : x \in H}
  BY <1>12 DEF HeaderLines
<1>14. \A x : x \in H <=> \E i \in 2 .. m - 1 : x = p[i]
  <2>1. ASSUME NEW x \in H PROVE \E i \in 2 .. m - 1 : x = p[i]
    <3>1. x \in LineStarts(t) /\ 1 < x /\ x < start
      OBVIOUS
    <3>2. PICK i \in 1 .. m + 1 : x = p[i]
      BY <1>3, <3>1
    <3>3. i # 1
      BY <1>1, <3>1, <3>2
    <3>4. ~ (m < i)
      <4> SUFFICES ASSUME m < i PROVE FALSE
        OBVIOUS
      <4>1. p[m] + 2 <= p[i]
        BY <1>1, <1>7
      <4>2. start + 2 <= x /\ x \in Nat
        BY <1>1, <3>2, <4>1 DEF start
      <4> QED BY <1>11, <3>1, <4>2
    <3>5. i # m
      BY <1>11, <3>1, <3>2 DEF start
    <3>6. i \in 2 .. m - 1
      BY <1>1, <3>3, <3>4, <3>5
    <3> QED BY <3>2, <3>6
  <2>2. ASSUME NEW i \in 2 .. m - 1 PROVE p[i] \in H
    <3>1. i \in 1 .. m + 1 /\ 1 < i /\ i < m
      BY <1>1
    <3> DEFINE x == p[i]
    <3>2. x \in LineStarts(t)
      BY <1>3, <3>1
    <3>3. p[1] + 2 <= p[i] /\ p[i] + 2 <= p[m]
      BY <1>1, <1>7, <3>1
    <3>4. 1 + 2 <= x /\ x + 2 <= start /\ x \in Nat
      BY <1>1, <3>1, <3>3 DEF start
    <3> HIDE DEF x
    <3>5. 1 < x /\ x < start
      BY <1>11, <3>4
    <3>6. x \in H
      BY <3>2, <3>5
    <3> QED BY <3>6 DEF x
  <2> QED BY <2>1, <2>2
<1> HIDE DEF H
<1>15. \A i \in 2 .. m - 1 : LineAt(t, p[i]) = lines[i]
  BY <1>1, <1>4
<1>16. {LineAt(t, x) : x \in H} = {lines[i] : i \in 2 .. m - 1}
  <2> DEFINE J == 2 .. m - 1
  <2>1. /\ \A x : x \in H <=> \E i \in J : x = p[i]
        /\ \A i \in J : LineAt(t, p[i]) = lines[i]
    BY <1>14, <1>15
  <2> HIDE DEF J
  <2>2. \A i \in J : p[i] \in H /\ LineAt(t, p[i]) = lines[i]
    BY <2>1
  <2>3. \A x \in H : \E i \in J : LineAt(t, x) = lines[i]
    BY <2>1
  <2>4. {LineAt(t, x) : x \in H} \subseteq {lines[i] : i \in J}
    BY <2>3
  <2>5. {lines[i] : i \in J} \subseteq {LineAt(t, x) : x \in H}
    <3> SUFFICES ASSUME NEW i \in J PROVE \E x \in H : LineAt(t, x) = lines[i]
      OBVIOUS
    <3> QED BY <2>2
  <2> QED BY <2>4, <2>5 DEF J
<1> QED BY <1>8, <1>13, <1>16

\* The response of an answer that was sent to its blank line, as it is read.
LEMMA AnswerRead ==
  ASSUME NEW a, IsAnswer(a), a.ended
  PROVE  StatusLine(Text(a)) = a.status /\ HeaderLines(Text(a)) = ToSet(a.headers)
<1> DEFINE lines == Lines(a)  t == LinesText(lines)  m == Len(lines)  h == a.headers  n == Len(h)
<1>1. /\ lines \in Seq(Seq(Byte)) /\ n \in Nat /\ m = n + 2
      /\ lines[1] = a.status
      /\ \A i \in 1 .. n : lines[i + 1] = h[i]
      /\ PlainLines(lines)
      /\ \A i \in 2 .. m : Len(lines[i]) = 0 <=> i = m
  BY AnswerLines
<1>0. h \in Seq(Seq(Byte))
  BY DEF IsAnswer
<1> SUFFICES StatusLine(t) = lines[1] /\ HeaderLines(t) = ToSet(h)
  BY <1>1 DEF Text
<1> HIDE DEF lines, h
<1>2. t \in Seq(Byte) /\ \E p : LaidOut(t, p, lines)
  BY <1>1, LinesAreLaidOut
<1> HIDE DEF t
<1>3. m >= 2
  BY <1>1
<1>4. \A p : LaidOut(t, p, lines) =>
        /\ StatusLine(t) = lines[1]
        /\ HeaderLines(t) = {lines[i] : i \in 2 .. Len(lines) - 1}
  BY <1>1, <1>2, <1>3, LinesRead
<1>5. StatusLine(t) = lines[1] /\ HeaderLines(t) = {lines[i] : i \in 2 .. m - 1}
  BY <1>2, <1>4
<1>6. {lines[i] : i \in 2 .. m - 1} = {h[i] : i \in 1 .. n}
  <2> HIDE DEF m, n
  <2>1. ASSUME NEW i \in 2 .. m - 1 PROVE \E j \in 1 .. n : lines[i] = h[j]
    <3>1. i - 1 \in 1 .. n /\ (i - 1) + 1 = i
      BY <1>1
    <3>2. lines[(i - 1) + 1] = h[i - 1]
      BY <1>1, <3>1
    <3> QED BY <3>1, <3>2
  <2>2. ASSUME NEW j \in 1 .. n PROVE \E i \in 2 .. m - 1 : h[j] = lines[i]
    <3>1. j + 1 \in 2 .. m - 1
      BY <1>1
    <3> QED BY <1>1, <3>1
  <2> QED BY <2>1, <2>2
<1>7. ToSet(h) = {h[i] : i \in 1 .. n}
  <2>1. DOMAIN h = 1 .. n
    BY <1>0, LenProperties
  <2> QED BY <2>1 DEF ToSet
<1> QED BY <1>5, <1>6, <1>7

\* What stands between the name of a header and its value.
Colon == ": "

-----------------------------------------------------------------------------
(* What the parser makes of the lines *)

LEMMA ColonMeans ==
  /\ \A line : Name(line) = Before(Colon, line)
  /\ \A line : Value(line) = After(Colon, line)
  /\ \A line, name : Named(line, name) <=>
       Len(line) >= 2 /\ line[2] = Colon /\ Lower[line[1]] = name
  /\ Lower[Colon] = Colon
BY TextAssumption, Zenon DEF Colon, Name, Value, Named

\* The first place of a token, or 0.
LEMMA FindIs ==
  ASSUME NEW S, NEW s \in Seq(S), NEW t
  PROVE  \/ Find(t, s) = 0 /\ \A i \in 1 .. Len(s) : s[i] # t
         \/ /\ Find(t, s) \in 1 .. Len(s) /\ s[Find(t, s)] = t
            /\ \A i \in 1 .. Len(s) : s[i] = t => Find(t, s) <= i
<1> DEFINE I == {i \in 1 .. Len(s) : s[i] = t}
<1>1. Find(t, s) = IF I # {} THEN Min(I) ELSE 0
  BY DEF Find, SelectInSeq
<1>2. Len(s) \in Nat /\ I \in SUBSET Nat
  BY LenProperties
<1>3. CASE I = {}
  <2>1. \A i \in 1 .. Len(s) : s[i] # t
    BY <1>3
  <2> QED BY <1>1, <1>3, <2>1
<1>4. CASE I # {}
  <2> HIDE DEF I
  <2>1. PICK x \in I : \A y \in I : x <= y
    BY <1>2, <1>4, SmallestElement
  <2>2. \A y \in I : y \in Nat /\ x <= y
    BY <1>2, <2>1
  <2>3. Min(I) = x
    BY <2>1, <2>2, MinOf
  <2>4. Find(t, s) = x
    BY <1>1, <1>4, <2>3
  <2> QED BY <2>1, <2>4 DEF I
<1> QED BY <1>3, <1>4

LEMMA FindBlankIs ==
  ASSUME NEW s \in Seq(Byte)
  PROVE  \/ FindBlank(s) = 0 /\ \A i \in 1 .. Len(s) : s[i] \notin Blanks
         \/ /\ FindBlank(s) \in 1 .. Len(s) /\ s[FindBlank(s)] \in Blanks
            /\ \A i \in 1 .. Len(s) : s[i] \in Blanks => FindBlank(s) <= i
<1> DEFINE I == {i \in 1 .. Len(s) : s[i] \in Blanks}
<1>1. FindBlank(s) = IF I # {} THEN Min(I) ELSE 0
  BY DEF FindBlank, SelectInSeq
<1>2. Len(s) \in Nat /\ I \in SUBSET Nat
  BY LenProperties
<1>3. CASE I = {}
  <2>1. \A i \in 1 .. Len(s) : s[i] \notin Blanks
    BY <1>3
  <2> QED BY <1>1, <1>3, <2>1
<1>4. CASE I # {}
  <2> HIDE DEF I
  <2>1. PICK x \in I : \A y \in I : x <= y
    BY <1>2, <1>4, SmallestElement
  <2>2. \A y \in I : y \in Nat /\ x <= y
    BY <1>2, <2>1
  <2>3. Min(I) = x
    BY <2>1, <2>2, MinOf
  <2>4. FindBlank(s) = x
    BY <1>1, <1>4, <2>3
  <2> QED BY <2>1, <2>4 DEF I
<1> QED BY <1>3, <1>4

LEMMA TailIs ==
  ASSUME NEW S, NEW s \in Seq(S), s # << >>
  PROVE  /\ Tail(s) \in Seq(S) /\ Len(s) \in Nat \ {0} /\ Len(Tail(s)) = Len(s) - 1
         /\ \A i \in 1 .. Len(s) - 1 : Tail(s)[i] = s[i + 1]
<1>1. Len(s) \in Nat /\ Len(s) # 0
  BY EmptySeq, LenProperties
<1> QED BY <1>1, HeadTailProperties

\* The status line is good when it is one that switches protocols.
LEMMA StatusParsed ==
  ASSUME NEW s \in Seq(Byte)
  PROVE  GoodStatus(s) <=> Switches(s)
<1> DEFINE n == Len(s)  r == Tail(s)  f == FindBlank(r)
<1>1. CASE s = << >>
  <2>1. Len(s) = 0
    BY <1>1
  <2> QED BY <1>1, <2>1 DEF GoodStatus, Switches
<1>2. CASE s # << >>
  <2>1. /\ r \in Seq(Byte) /\ n \in Nat \ {0} /\ Len(r) = n - 1
        /\ \A i \in 1 .. n - 1 : r[i] = s[i + 1]
    BY <1>2, TailIs
  <2>2. \/ f = 0 /\ \A i \in 1 .. n - 1 : r[i] \notin Blanks
        \/ /\ f \in 1 .. n - 1 /\ r[f] \in Blanks
           /\ \A i \in 1 .. n - 1 : r[i] \in Blanks => f <= i
    BY <2>1, FindBlankIs
  <2>3. GoodStatus(s) <=> /\ s[1] = "HTTP/1.1 " /\ f > 1
                          /\ s[2] \in DOMAIN LeadingNumber /\ LeadingNumber[s[2]] = 101
    BY <1>2 DEF GoodStatus
  <2>4. Switches(s) <=> /\ n >= 3 /\ s[1] = "HTTP/1.1 "
                        /\ s[2] \in DOMAIN LeadingNumber /\ LeadingNumber[s[2]] = 101
                        /\ \E i \in 3 .. n : s[i] \in Blanks
    BY DEF Switches
  <2> HIDE DEF n, r, f
  <2>5. ASSUME f > 1 PROVE n >= 3 /\ \E i \in 3 .. n : s[i] \in Blanks
    <3>1. f \in 1 .. n - 1 /\ r[f] \in Blanks
      BY <2>2, <2>5
    <3>2. f + 1 \in 3 .. n /\ s[f + 1] \in Blanks
      BY <2>1, <2>5, <3>1
    <3> QED BY <2>1, <3>2
  <2>6. ASSUME s[2] \in DOMAIN LeadingNumber, NEW i \in 3 .. n, s[i] \in Blanks PROVE f > 1
    <3>1. i - 1 \in 1 .. n - 1 /\ (i - 1) + 1 = i
      BY <2>1
    <3>2. r[i - 1] \in Blanks
      BY <2>1, <2>6, <3>1
    <3>3. f \in 1 .. n - 1 /\ r[f] \in Blanks
      BY <2>2, <3>1, <3>2
    <3>4. f # 1
      <4>1. s[2] \notin Blanks
        BY <2>6, TextAssumption DEF Blanks
      <4>2. 1 \in 1 .. n - 1 => r[1] = s[1 + 1]
        BY <2>1
      <4>3. 1 + 1 = 2
        OBVIOUS
      <4> QED BY <3>3, <4>1, <4>2, <4>3
    <3> QED BY <2>1, <3>3, <3>4
  <2> QED BY <2>3, <2>4, <2>5, <2>6
<1> QED BY <1>1, <1>2

\* A line with a colon has the name that comes before it.
LEMMA NameParsed ==
  ASSUME NEW line \in Seq(Byte), Find(Colon, line) # 0,
         NEW text, NEW name, Lower[text] = name, name # Colon
  PROVE  /\ SameText(Name(line), <<text>>) <=> Named(line, name)
         /\ Named(line, name) => Find(Colon, line) = 2
<1> DEFINE f == Find(Colon, line)  n == Len(line)  before == SubSeq(line, 1, f - 1)
<1>1. n \in Nat
  BY LenProperties
<1>2. /\ f \in 1 .. n /\ line[f] = Colon
      /\ \A i \in 1 .. n : line[i] = Colon => f <= i
  BY FindIs
<1>3. Name(line) = before
  BY ColonMeans DEF Before
<1> HIDE DEF f
<1>4. before \in Seq(Byte) /\ Len(before) = f - 1 /\ \A j \in 1 .. f - 1 : before[j] = line[(1 - 1) + j]
  <2>1. 1 \in Nat \ {0} /\ f - 1 \in Nat /\ 1 + (f - 1) <= n + 1 /\ 1 + (f - 1) - 1 = f - 1
    BY <1>1, <1>2
  <2> HIDE DEF n
  <2>2. 1 + (f - 1) <= Len(line) + 1
    BY <2>1 DEF n
  <2> QED BY <2>1, <2>2, Slice
<1> HIDE DEF n, before
<1>5. SameText(before, <<text>>) <=> Len(before) = 1 /\ Lower[before[1]] = name
  <2>1. Len(<<text>>) = 1 /\ <<text>>[1] = text
    OBVIOUS
  <2> DEFINE one == <<text>>
  <2> HIDE DEF one
  <2>2. SameText(before, one) <=> Len(before) = 1 /\ \A i \in 1 .. Len(before) : Lower[before[i]] = Lower[one[i]]
    BY <2>1 DEF SameText, one
  <2>3. 1 .. 1 = {1}
    BY SmallRanges
  <2> QED BY <2>1, <2>2, <2>3 DEF one
<1>6. Len(before) = 1 <=> f = 2
  BY <1>1, <1>2, <1>4
<1>7. ASSUME f = 2 PROVE before[1] = line[1] /\ n >= 2 /\ line[2] = Colon
  <2>1. 1 \in 1 .. f - 1 /\ (1 - 1) + 1 = 1
    BY <1>7
  <2>2. before[1] = line[1]
    BY <1>4, <2>1
  <2> QED BY <1>1, <1>2, <1>7, <2>2
<1>8. ASSUME Named(line, name) PROVE f = 2
  <2>1. n >= 2 /\ line[2] = Colon /\ Lower[line[1]] = name
    BY <1>8, ColonMeans DEF n
  <2>2. line[1] # Colon
    BY <2>1, ColonMeans
  <2>3. 2 \in 1 .. n
    BY <1>1, <2>1
  <2>4. f <= 2 /\ f # 1
    BY <1>2, <2>1, <2>2, <2>3
  <2> QED BY <1>1, <1>2, <2>4
<1>9. ASSUME f = 2 PROVE Named(line, name) <=> Lower[before[1]] = name
  BY <1>7, <1>9, ColonMeans DEF n
<1> QED BY <1>3, <1>5, <1>6, <1>8, <1>9 DEF f

\* The value of a line is what comes behind its name and the colon.
LEMMA ValueParsed ==
  ASSUME NEW line \in Seq(Byte), Len(line) >= 2, Find(Colon, line) = 2, line[2] = Colon
  PROVE  /\ \A text : SameText(Value(line), <<text>>) <=> Len(line) = 3 /\ Lower[line[3]] = Lower[text]
         /\ \A text : Value(line) = <<text>> <=> line = <<line[1], Colon, text>>
<1> DEFINE n == Len(line)  k == n - 2  v == SubSeq(line, 3, n)
<1>1. n \in Nat /\ k \in Nat /\ 3 + k <= n + 1 /\ 3 + k - 1 = n /\ 3 \in Nat \ {0}
  BY LenProperties
<1>2. v \in Seq(Byte) /\ Len(v) = k /\ \A j \in 1 .. k : v[j] = line[(3 - 1) + j]
  <2> HIDE DEF k
  <2>1. 3 + k <= Len(line) + 1
    BY <1>1
  <2>2. /\ SubSeq(line, 3, 3 + k - 1) \in Seq(Byte) /\ Len(SubSeq(line, 3, 3 + k - 1)) = k
        /\ \A j \in 1 .. k : SubSeq(line, 3, 3 + k - 1)[j] = line[(3 - 1) + j]
    BY <1>1, <2>1, Slice
  <2> QED BY <1>1, <2>2
<1>3. Value(line) = v
  <2>1. 2 + 1 = 3
    OBVIOUS
  <2> QED BY <2>1, ColonMeans DEF After
<1>4. k = 1 <=> n = 3
  BY <1>1
<1>5. k = 1 => v[1] = line[3]
  <2>1. (3 - 1) + 1 = 3 /\ (k = 1 => 1 \in 1 .. k)
    OBVIOUS
  <2> QED BY <1>2, <2>1
<1> HIDE DEF v, k, n
<1>6. ASSUME NEW text
      PROVE  SameText(v, <<text>>) <=> n = 3 /\ Lower[line[3]] = Lower[text]
  <2>1. Len(<<text>>) = 1 /\ <<text>>[1] = text
    OBVIOUS
  <2> DEFINE one == <<text>>
  <2> HIDE DEF one
  <2>2. SameText(v, one) <=> k = 1 /\ \A i \in 1 .. k : Lower[v[i]] = Lower[one[i]]
    BY <1>2, <2>1 DEF SameText, one
  <2>3. 1 .. 1 = {1}
    BY SmallRanges
  <2> QED BY <1>4, <1>5, <2>1, <2>2, <2>3 DEF one
<1>7. ASSUME NEW text PROVE v = <<text>> <=> line = <<line[1], Colon, text>>
  <2>1. ASSUME v = <<text>> PROVE line = <<line[1], Colon, text>>
    <3>1. Len(v) = 1 /\ v[1] = text
      BY <2>1
    <3>2. n = 3 /\ line[3] = text
      BY <1>2, <1>4, <1>5, <3>1
    <3> DEFINE whole == <<line[1], line[2], line[3]>>
    <3>3. whole \in Seq(Byte) /\ Len(whole) = 3
          /\ whole[1] = line[1] /\ whole[2] = line[2] /\ whole[3] = line[3]
      <4>1. line[1] \in Byte /\ line[2] \in Byte /\ line[3] \in Byte
        <5>1. 1 \in 1 .. Len(line) /\ 2 \in 1 .. Len(line) /\ 3 \in 1 .. Len(line)
          BY <3>2 DEF n
        <5> QED BY <5>1, ElementOfSeq
      <4> QED BY <4>1
    <3> HIDE DEF whole
    <3>4. \A i \in 1 .. Len(line) : line[i] = whole[i]
      BY <3>2, <3>3, SmallRanges DEF n
    <3>5. line = whole
      BY <3>2, <3>3, <3>4, SeqEqual DEF n
    <3> QED BY <3>2, <3>5 DEF whole
  <2>2. ASSUME line = <<line[1], Colon, text>> PROVE v = <<text>>
    <3>1. Len(line) = 3 /\ line[3] = text
      BY <2>2
    <3>2. k = 1 /\ v[1] = text
      BY <1>4, <1>5, <3>1 DEF n
    <3>3. <<v[1]>> \in Seq(Byte) /\ Len(<<v[1]>>) = 1 /\ <<v[1]>>[1] = v[1]
      <4>1. 1 \in 1 .. Len(v)
        BY <1>2, <3>2
      <4>2. v[1] \in Byte
        BY <1>2, <4>1, ElementOfSeq
      <4> QED BY <4>2
    <3> DEFINE one == <<v[1]>>
    <3> HIDE DEF one
    <3>4. \A i \in 1 .. Len(v) : v[i] = one[i]
      BY <1>2, <3>2, <3>3, SmallRanges DEF one
    <3>5. v = one
      BY <1>2, <3>2, <3>3, <3>4, SeqEqual DEF one
    <3> QED BY <3>2, <3>5 DEF one
  <2> QED BY <2>1, <2>2
<1> QED BY <1>3, <1>6, <1>7 DEF n

LEMMA NotColon ==
  "upgrade" # Colon /\ "connection" # Colon /\ "sec-websocket-accept" # Colon
BY SMT DEF Colon

\* A line of the accept key, and the key in it.
LEMMA HeadersParsed ==
  ASSUME NEW H, \A line \in H : line \in Seq(Byte) /\ Find(Colon, line) # 0
  PROVE  /\ \A line \in H : SameText(Name(line), <<"Sec-WebSocket-Accept">>)
                              <=> Named(line, "sec-websocket-accept")
         /\ \A line \in H : SameText(Name(line), <<"Sec-WebSocket-Accept">>)
              => \A text : Value(line) = <<text>> <=> line = <<line[1], Colon, text>>
         /\ HasHeader(H, <<"Upgrade">>, <<"websocket">>)
              <=> \E line \in H : Says(line, "upgrade", "websocket")
         /\ HasHeader(H, <<"Connection">>, <<"Upgrade">>)
              <=> \E line \in H : Says(line, "connection", "upgrade")
<1>1. ASSUME NEW line \in H, NEW text, NEW name, Lower[text] = name, name # Colon
      PROVE  /\ SameText(Name(line), <<text>>) <=> Named(line, name)
             /\ Named(line, name) => Find(Colon, line) = 2 /\ Len(line) >= 2 /\ line[2] = Colon
  <2>1. line \in Seq(Byte) /\ Find(Colon, line) # 0
    OBVIOUS
  <2>2. SameText(Name(line), <<text>>) <=> Named(line, name)
    BY <1>1, <2>1, NameParsed
  <2>3. Named(line, name) => Find(Colon, line) = 2
    BY <1>1, <2>1, NameParsed
  <2>4. Named(line, name) => Len(line) >= 2 /\ line[2] = Colon
    BY ColonMeans
  <2> QED BY <2>2, <2>3, <2>4
<1>2. ASSUME NEW line \in H, NEW text, NEW name, Lower[text] = name, name # Colon, Named(line, name)
      PROVE  /\ \A value : SameText(Value(line), <<value>>)
                             <=> Len(line) = 3 /\ Lower[line[3]] = Lower[value]
             /\ \A value : Value(line) = <<value>> <=> line = <<line[1], Colon, value>>
  <2>0. Find(Colon, line) = 2 /\ Len(line) >= 2 /\ line[2] = Colon
    BY <1>1, <1>2, Zenon
  <2>1. line \in Seq(Byte) /\ Find(Colon, line) = 2 /\ Len(line) >= 2 /\ line[2] = Colon
    BY <2>0
  <2> QED BY <2>1, ValueParsed
<1>3. ASSUME NEW text, NEW name, Lower[text] = name, name # Colon,
             NEW value, NEW said, Lower[value] = said
      PROVE  HasHeader(H, <<text>>, <<value>>) <=> \E line \in H : Says(line, name, said)
  <2>1. ASSUME NEW line \in H
        PROVE  SameText(Name(line), <<text>>) /\ SameText(Value(line), <<value>>)
                 <=> Says(line, name, said)
    <3>1. SameText(Name(line), <<text>>) <=> Named(line, name)
      BY <1>1, <1>3
    <3>2. Named(line, name) =>
            (SameText(Value(line), <<value>>) <=> Len(line) = 3 /\ Lower[line[3]] = Lower[value])
      BY <1>2, <1>3
    <3> QED BY <1>3, <3>1, <3>2 DEF Says
  <2> QED BY <2>1 DEF HasHeader
<1>4. /\ Lower["Upgrade"] = "upgrade" /\ Lower["websocket"] = "websocket"
      /\ Lower["Connection"] = "connection"
      /\ Lower["Sec-WebSocket-Accept"] = "sec-websocket-accept"
  BY TextAssumption, Zenon
<1>5. "upgrade" # Colon /\ "connection" # Colon /\ "sec-websocket-accept" # Colon
  BY NotColon
<1>6. HasHeader(H, <<"Upgrade">>, <<"websocket">>)
        <=> \E line \in H : Says(line, "upgrade", "websocket")
  BY <1>3, <1>4, <1>5, Zenon
<1>7. HasHeader(H, <<"Connection">>, <<"Upgrade">>)
        <=> \E line \in H : Says(line, "connection", "upgrade")
  BY <1>3, <1>4, <1>5, Zenon
<1>8. \A line \in H : SameText(Name(line), <<"Sec-WebSocket-Accept">>)
                        <=> Named(line, "sec-websocket-accept")
  BY <1>1, <1>4, <1>5, Zenon
<1>9. ASSUME NEW line \in H, SameText(Name(line), <<"Sec-WebSocket-Accept">>), NEW text
      PROVE  Value(line) = <<text>> <=> line = <<line[1], Colon, text>>
  <2>1. Named(line, "sec-websocket-accept")
    BY <1>8, <1>9
  <2> QED BY <1>2, <1>4, <1>5, <2>1, Zenon
<1> QED BY <1>6, <1>7, <1>8, <1>9

LEMMA ColonIn ==
  ASSUME NEW line \in Seq(Byte)
  PROVE  Colon \in ToSet(line) <=> Find(Colon, line) # 0
<1>1. Len(line) \in Nat /\ DOMAIN line = 1 .. Len(line)
  BY LenProperties
<1>2. Colon \in ToSet(line) <=> \E i \in 1 .. Len(line) : line[i] = Colon
  BY <1>1 DEF ToSet
<1>3. \/ Find(Colon, line) = 0 /\ \A i \in 1 .. Len(line) : line[i] # Colon
      \/ Find(Colon, line) \in 1 .. Len(line) /\ line[Find(Colon, line)] = Colon
  BY FindIs
<1>4. 0 \notin 1 .. Len(line)
  BY <1>1
<1> QED BY <1>2, <1>3, <1>4

\* parseResponse accepts exactly the answers that complete the handshake, if
\* the client's hash of its key is the right one.
LEMMA ResponseParsed ==
  ASSUME NEW a, IsAnswer(a), a.ended, NEW key, AcceptKey[key] = RightAccept[key]
  PROVE  ParseResponse(key, Text(a)) = IF Acceptable(a, key) THEN "headers" ELSE "error"
<1> DEFINE H == ToSet(a.headers)  x == AcceptKey[key]
           K == {line \in H : Named(line, "sec-websocket-accept")}
           good == /\ GoodStatus(a.status)
                   /\ \A line \in H : Find(Colon, line) # 0
                   /\ HasHeader(H, <<"Upgrade">>, <<"websocket">>)
                   /\ HasHeader(H, <<"Connection">>, <<"Upgrade">>)
                   /\ AcceptMatches(key, H)
<1>1. ParseResponse(key, Text(a)) = IF good THEN "headers" ELSE "error"
  <2>1. StatusLine(Text(a)) = a.status /\ HeaderLines(Text(a)) = H
    BY AnswerRead
  <2> DEFINE t == Text(a)
  <2> HIDE DEF t, H
  <2>2. ParseResponse(key, t) =
          IF /\ GoodStatus(StatusLine(t))
             /\ \A line \in HeaderLines(t) : Find(Colon, line) # 0
             /\ HasHeader(HeaderLines(t), <<"Upgrade">>, <<"websocket">>)
             /\ HasHeader(HeaderLines(t), <<"Connection">>, <<"Upgrade">>)
             /\ AcceptMatches(key, HeaderLines(t))
          THEN "headers" ELSE "error"
    BY Zenon DEF ParseResponse, Colon
  <2>3. StatusLine(t) = a.status /\ HeaderLines(t) = H
    BY <2>1 DEF t
  <2>4. ParseResponse(key, t) = IF good THEN "headers" ELSE "error"
    BY <2>2, <2>3
  <2> QED BY <2>4 DEF t
<1>2. Acceptable(a, key) <=> /\ Switches(a.status)
                             /\ \A line \in H : Colon \in ToSet(line)
                             /\ \E line \in H : Says(line, "upgrade", "websocket")
                             /\ \E line \in H : Says(line, "connection", "upgrade")
                             /\ K # {}
                             /\ \A line \in K : line = <<line[1], Colon, x>>
  BY Zenon DEF Acceptable, Colon
<1>3. \A line \in H : line \in Seq(Byte)
  <2>1. a.headers \in Seq(Seq(Byte))
    BY DEF IsAnswer
  <2>2. DOMAIN a.headers = 1 .. Len(a.headers)
    BY <2>1, LenProperties
  <2>3. \A i \in 1 .. Len(a.headers) : a.headers[i] \in Seq(Byte)
    BY <2>1, ElementOfSeq
  <2> QED BY <2>2, <2>3 DEF ToSet
<1>4. GoodStatus(a.status) <=> Switches(a.status)
  BY StatusParsed DEF IsAnswer, IsLine
<1>5. \A line \in H : Colon \in ToSet(line) <=> Find(Colon, line) # 0
  BY <1>3, ColonIn
<1> HIDE DEF H
<1>6. CASE \A line \in H : Find(Colon, line) # 0
  <2>1. /\ \A line \in H : SameText(Name(line), <<"Sec-WebSocket-Accept">>)
                              <=> Named(line, "sec-websocket-accept")
        /\ \A line \in H : SameText(Name(line), <<"Sec-WebSocket-Accept">>)
              => \A text : Value(line) = <<text>> <=> line = <<line[1], Colon, text>>
        /\ HasHeader(H, <<"Upgrade">>, <<"websocket">>)
              <=> \E line \in H : Says(line, "upgrade", "websocket")
        /\ HasHeader(H, <<"Connection">>, <<"Upgrade">>)
              <=> \E line \in H : Says(line, "connection", "upgrade")
    BY <1>3, <1>6, HeadersParsed
  <2>2. Accepts(H) = K
    BY <2>1 DEF Accepts
  <2>3. AcceptMatches(key, H) <=> K # {} /\ \A line \in K : Value(line) = <<x>>
    BY <2>2 DEF AcceptMatches
  <2>4. \A line \in K : Value(line) = <<x>> <=> line = <<line[1], Colon, x>>
    BY <2>1
  <2> HIDE DEF K
  <2>5. AcceptMatches(key, H) <=> K # {} /\ \A line \in K : line = <<line[1], Colon, x>>
    BY <2>3, <2>4
  <2>6. good <=> Acceptable(a, key)
    BY <1>2, <1>4, <1>5, <1>6, <2>1, <2>5
  <2> HIDE DEF good
  <2> QED BY <1>1, <2>6
<1>7. CASE ~ \A line \in H : Find(Colon, line) # 0
  <2>1. ~ good /\ ~ Acceptable(a, key)
    BY <1>2, <1>5, <1>7
  <2> HIDE DEF good
  <2> QED BY <1>1, <2>1
<1> QED BY <1>6, <1>7

-----------------------------------------------------------------------------
(* Steps *)

LEMMA InitIInv == Init => IInv
<1> SUFFICES ASSUME Init PROVE IInv
  OBVIOUS
<1>1. RingOK(buf) /\ Contents(buf) = << >> /\ buf.start = 0
  BY NewRingOK DEF Init, NewRing
<1>2. << >> \in Seq(Byte) /\ << >> \in Seq(Seq(Byte))
  BY EmptySeq
<1>3. QED
  BY <1>1, <1>2 DEF Init, IInv, TypeOK, HoldsBytes, AtFront, Phases

\* A step that leaves the buffer and the network alone.
LEMMA ConnectKeeps ==
  ASSUME IInv, Connect
  PROVE  IInv'
<1> USE DEF IInv, TypeOK, HoldsBytes, AtFront, BeforeReading, Phases, Stay
<1>1. CASE RejectUrl
  BY <1>1 DEF RejectUrl
<1>2. CASE UnknownHost
  BY <1>2 DEF UnknownHost
<1>3. CASE NoTlsContext
  BY <1>3 DEF NoTlsContext
<1>4. CASE FromUrl
  BY <1>4 DEF FromUrl
<1>5. CASE TakeOptions
  BY <1>5 DEF TakeOptions
<1>6. CASE DialTcp
  BY <1>6 DEF DialTcp
<1>7. CASE DialTls
  BY <1>7 DEF DialTls
<1>8. CASE SendRequest
  <2>1. PICK key \in Keys : request' = GenerateRequest(opts, key)
    BY <1>8 DEF SendRequest
  <2>2. request'.key = key
    BY <2>1 DEF GenerateRequest
  <2>3. QED
    BY <1>8, <2>1, <2>2 DEF SendRequest
<1>9. CASE SendFails
  BY <1>9 DEF SendFails
<1>10. QED
  BY <1>1, <1>2, <1>3, <1>4, <1>5, <1>6, <1>7, <1>8, <1>9 DEF Connect

\* A receive: its bytes are appended, and the response may be taken out.
LEMMA ReceiveKeeps ==
  ASSUME IInv, Receive
  PROVE  IInv' /\ buf'.cap = buf.cap
<1>1. PICK n \in 1 .. AtMost(Len(net), WriteWindow(buf).len) :
        LET b == ReceiveInto(buf, SubSeq(net, 1, n))
        IN  /\ AwaitMore(b, View(b), n) \/ ReadResponse(b, View(b), n) \/ ReceiveMore(b)
            /\ net' = SubSeq(net, n + 1, Len(net))
  BY DEF Receive
<1> DEFINE s == SubSeq(net, 1, n)
           b == ReceiveInto(buf, s)
           len == ResponseLen(View(b), n)
<1>2. RingOK(buf) /\ Contents(buf) \in Seq(Byte) /\ net \in Seq(Byte)
  BY DEF IInv, TypeOK, HoldsBytes
<1>3. Len(net) \in Nat /\ WriteWindow(buf).len \in Nat
  BY <1>2, LenProperties, WindowFollows
<1>4. n \in Nat /\ 1 <= n /\ n <= Len(net) /\ n <= WriteWindow(buf).len
  BY <1>3 DEF AtMost
<1>5. s \in Seq(Byte) /\ Len(s) = n
  <2>1. 1 \in 1 .. Len(net) + 1 /\ n \in 0 .. Len(net) /\ n - 1 + 1 = n
    BY <1>3, <1>4
  <2>2. QED
    BY <1>2, <1>4, <2>1, PartOfBytes
<1>6. net' \in Seq(Byte)
  <2>1. n + 1 \in 1 .. Len(net) + 1 /\ Len(net) \in 0 .. Len(net)
    BY <1>3, <1>4
  <2>2. QED
    BY <1>1, <1>2, <2>1, PartOfBytes
<1> HIDE DEF s
<1>7. RingOK(b) /\ Contents(b) \in Seq(Byte) /\ b.start = buf.start /\ b.cap = buf.cap
  BY <1>2, <1>4, <1>5, ReceiveAppends
<1>8. len \in Nat
  BY <1>7, ResponseLenType
<1>9. UNCHANGED <<request, arrived, taken>>
  BY DEF Receive
<1>10. AwaitMore(b, View(b), n) \/ ReadResponse(b, View(b), n) \/ ReceiveMore(b)
  BY <1>1 DEF s
<1> HIDE DEF b
<1>11. CASE AwaitMore(b, View(b), n)
  BY <1>6, <1>7, <1>9, <1>11 DEF AwaitMore, IInv, TypeOK, HoldsBytes, AtFront
<1>12. CASE ReadResponse(b, View(b), n)
  <2>1. len \in 0 .. b.size /\ buf' = Skip(b, len) /\ phase' = "parse"
    BY <1>7, <1>8, <1>12, RingNumbers DEF ReadResponse
  <2>2. RingOK(buf') /\ Contents(buf') \in Seq(Byte) /\ buf'.cap = buf.cap
    BY <1>7, <2>1, ReadBytes
  <2>3. QED
    BY <1>6, <1>9, <2>1, <2>2 DEF IInv, TypeOK, HoldsBytes, AtFront, BeforeReading, Phases
<1>13. CASE ReceiveMore(b)
  BY <1>6, <1>7, <1>9, <1>13 DEF ReceiveMore, IInv, TypeOK, HoldsBytes, AtFront
<1>14. QED
  BY <1>10, <1>11, <1>12, <1>13

\* A frame is taken from the buffer whole.
LEMMA TakeFrameKeeps ==
  ASSUME IInv, TakeFrame
  PROVE  IInv' /\ buf'.cap = buf.cap
<1>1. RingOK(buf) /\ Contents(buf) \in Seq(Byte) /\ HasFrame(buf) /\ phase = "open"
  BY DEF IInv, TypeOK, HoldsBytes, TakeFrame
<1>2. FrameLen(buf) \in 0 .. buf.size
  BY <1>1, FrameType
<1>3. Peek(buf, FrameLen(buf), 0) \in Seq(Byte)
      /\ RingOK(buf') /\ Contents(buf') \in Seq(Byte) /\ buf'.cap = buf.cap
  BY <1>1, <1>2, ReadBytes DEF TakeFrame
<1>4. taken' \in Seq(Seq(Byte))
  BY <1>3, AppendProperties DEF IInv, TypeOK, TakeFrame
<1>5. QED
  BY <1>1, <1>3, <1>4 DEF TakeFrame, IInv, TypeOK, HoldsBytes, AtFront, BeforeReading

\* The inductive step, one case per action.
LEMMA NextIInv == IInv /\ [Next]_vars => IInv'
<1> SUFFICES ASSUME IInv, [Next]_vars PROVE IInv'
  OBVIOUS
<1>1. CASE Connect
  BY <1>1, ConnectKeeps
<1>2. CASE ServerAnswers
  <2>1. request.key \in Keys
    BY <1>2 DEF IInv, TypeOK, ServerAnswers
  <2>2. net' \in Seq(Byte)
    <3>1. IsAnswer(answer')
      BY <1>2, <2>1, AnswerAssumption DEF ServerAnswers
    <3> QED BY <1>2, <3>1, AnswerParts DEF ServerAnswers
  <2>3. QED
    BY <1>2, <2>2 DEF IInv, TypeOK, HoldsBytes, AtFront, ServerAnswers
<1>3. CASE OpenWindow
  <2>1. RingOK(buf') /\ Contents(buf') = Contents(buf)
        /\ (buf.start = 0 => buf'.start = 0)
    BY <1>3, WindowKeeps DEF IInv, TypeOK, OpenWindow
  <2>2. QED
    BY <1>3, <2>1 DEF IInv, TypeOK, HoldsBytes, AtFront, OpenWindow
<1>4. CASE Overflow
  BY <1>4 DEF Overflow, Stay, IInv, TypeOK, HoldsBytes, AtFront, BeforeReading, Phases
<1>5. CASE Receive
  BY <1>5, ReceiveKeeps
<1>6. CASE ReceiveFails
  BY <1>6 DEF ReceiveFails, IInv, TypeOK, HoldsBytes, AtFront, BeforeReading, Phases
<1>7. CASE AcceptResponse
  <2>1. buf' = buf
    BY <1>7, OtherOwner DEF AcceptResponse, IInv, TypeOK
  <2>2. QED
    BY <1>7, <2>1 DEF AcceptResponse, IInv, TypeOK, HoldsBytes, AtFront, BeforeReading, Phases
<1>8. CASE RefuseResponse
  BY <1>8 DEF RefuseResponse, Stay, IInv, TypeOK, HoldsBytes, AtFront, BeforeReading, Phases
<1>9. CASE TakeFrame
  BY <1>9, TakeFrameKeeps
<1>10. CASE LengthError
  BY <1>10 DEF LengthError, Stay, IInv, TypeOK, HoldsBytes, AtFront, BeforeReading, Phases
<1>11. CASE UNCHANGED vars
  BY <1>11 DEF vars, IInv, TypeOK, HoldsBytes, AtFront
<1>12. QED
  BY <1>1, <1>2, <1>3, <1>4, <1>5, <1>6, <1>7, <1>8, <1>9, <1>10, <1>11 DEF Next

LEMMA AlwaysIInv == Spec => []IInv
<1>1. Init => IInv
  BY InitIInv
<1>2. IInv /\ [Next]_vars => IInv'
  BY NextIInv
<1>3. QED
  BY <1>1, <1>2, PTL DEF Spec

\* The buffer stays a ring through windows, reads, growth and the move, for
\* whatever servers send and however it arrives.
THEOREM TypeCorrect == Spec => []TypeOK
<1>1. IInv => TypeOK
  BY DEF IInv
<1>2. QED
  BY <1>1, AlwaysIInv, PTL

\* The view that is searched for the blank line is what was received.
THEOREM ViewsInBounds == Spec => []ViewInBounds
<1>1. IInv => ViewInBounds
  BY ViewReads DEF IInv, TypeOK, AtFront, BeforeReading, ViewInBounds
<1>2. QED
  BY <1>1, AlwaysIInv, PTL

-----------------------------------------------------------------------------
(* The limit.  rwindow tests the capacity before it doubles: that the result *)
(* stays within the limit rests on the limit being itself a number of        *)
(* doublings away, which is the inductive invariant.                         *)

Reaches(cap) == \E n \in 0 .. MaxDoublings : cap * 2^n = MaxBuffer

FirstCap(b) == IF b.cap = 0 THEN DefaultCap ELSE b.cap

WithinLimit == Reaches(FirstCap(buf))

LEMMA Powers ==
  ASSUME NEW n \in 0 .. MaxDoublings
  PROVE  2^n \in Nat \ {0}
BY RingAssumption

\* A capacity below the limit is at most half of it.
LEMMA HalfTheLimit ==
  ASSUME NEW cap \in Nat \ {0}, Reaches(cap), cap < MaxBuffer
  PROVE  2 * cap <= MaxBuffer
<1>1. PICK n \in 0 .. MaxDoublings : cap * 2^n = MaxBuffer
  BY DEF Reaches
<1>2. n # 0
  BY <1>1, PowersAssumption
<1> DEFINE p == 2^(n - 1)
<1>3. n - 1 \in 0 .. MaxDoublings /\ 1 \in 0 .. n
  BY <1>2, RingAssumption
<1>4. p \in Nat \ {0}
  BY <1>3, Powers
<1>5. 2 * p = 2^n
  BY <1>3, PowersAssumption
<1>6. cap * (2 * p) = MaxBuffer
  BY <1>1, <1>5
<1> HIDE DEF p
<1>7. cap * (2 * p) = (2 * cap) * p /\ (2 * cap) * p >= 2 * cap
  BY <1>4
<1>8. QED
  BY <1>6, <1>7

\* Doubling up to a capacity within the limit leads to one from which the
\* limit is reached.
LEMMA DoublingStaysWithin ==
  ASSUME NEW cap \in Nat \ {0}, Reaches(cap),
         NEW newCap \in Nat, newCap <= MaxBuffer
  PROVE  DoubledCap(cap, newCap) \in Nat \ {0} /\ Reaches(DoubledCap(cap, newCap))
<1>1. PICK n \in 0 .. MaxDoublings : cap * 2^n = MaxBuffer
  BY DEF Reaches
<1> DEFINE k == Doublings(cap, newCap)
<1>2. newCap <= MaxCapacity
  BY WindowAssumption, RingAssumption
<1>3. /\ k \in 0 .. MaxDoublings /\ cap * 2^k \in Nat /\ cap * 2^k >= cap
      /\ \A j \in 0 .. k - 1 : cap * 2^j < newCap
  BY <1>2, DoublingEnds
<1> HIDE DEF k
<1>4. k <= n
  <2> SUFFICES ASSUME ~ (k <= n) PROVE FALSE
    OBVIOUS
  <2>1. n \in 0 .. k - 1
    BY <1>3
  <2>2. cap * 2^n < newCap
    BY <1>3, <2>1
  <2>3. QED
    BY <1>1, <2>2, WindowAssumption
<1>5. n - k \in 0 .. MaxDoublings /\ k \in 0 .. n
  BY <1>3, <1>4, RingAssumption
<1> DEFINE p == 2^k
           q == 2^(n - k)
<1>6. p \in Nat /\ q \in Nat /\ p * q = 2^n
  BY <1>3, <1>5, Powers, PowersAssumption
<1>7. cap * (p * q) = MaxBuffer
  BY <1>1, <1>6
<1>8. (cap * p) * q = MaxBuffer
  <2> HIDE DEF p, q
  <2>1. (cap * p) * q = cap * (p * q)
    BY <1>6
  <2>2. QED
    BY <1>7, <2>1
<1>9. Reaches(cap * 2^k)
  BY <1>5, <1>8 DEF Reaches
<1>10. QED
  BY <1>3, <1>9 DEF DoubledCap, k

LEMMA WindowWithin ==
  ASSUME NEW b, RingOK(b), ~ BufferOverflow(b), Reaches(FirstCap(b))
  PROVE  Reaches(FirstCap(RWindow(b)))
<1>1. CASE ~ NeedsGrowth(b)
  BY <1>1 DEF RWindow
<1>2. CASE NeedsGrowth(b)
  <2> DEFINE cap == FirstCap(b)
             newCap == b.cap + Window
  <2>1. /\ b.cap \in Nat /\ MaxBuffer \in Nat /\ Window \in Nat
        /\ 2 * Window <= MaxBuffer /\ cap \in Nat \ {0}
    BY RingNumbers, WindowAssumption, LimitAssumption, RingAssumption DEF FirstCap
  <2>2. b.cap < MaxBuffer
    BY <1>2, <2>1 DEF BufferOverflow
  <2>3. newCap \in Nat /\ newCap <= MaxBuffer
    <3>1. CASE b.cap = 0
      BY <2>1, <3>1
    <3>2. CASE b.cap # 0
      <4>1. cap = b.cap
        BY <3>2 DEF FirstCap
      <4>2. 2 * b.cap <= MaxBuffer
        BY <2>1, <2>2, <4>1, HalfTheLimit
      <4>3. QED
        BY <2>1, <4>2
    <3>3. QED
      BY <3>1, <3>2
  <2> DEFINE d == DoubledCap(cap, newCap)
  <2>4. d \in Nat \ {0} /\ Reaches(d)
    <3> HIDE DEF cap, newCap
    <3>1. Reaches(cap)
      BY DEF cap
    <3>2. QED
      BY <2>1, <2>3, <3>1, DoublingStaysWithin
  <2>5. RWindow(b).cap = d
    BY <1>2 DEF RWindow, Reserve, GrowUntilAtLeast, GrowTo, FirstCap
  <2> HIDE DEF d
  <2>6. QED
    BY <2>4, <2>5 DEF FirstCap
<1>3. QED
  BY <1>1, <1>2

LEMMA NextWithin == IInv /\ WithinLimit /\ [Next]_vars => WithinLimit'
<1> SUFFICES ASSUME IInv, WithinLimit, [Next]_vars PROVE WithinLimit'
  OBVIOUS
<1>1. ASSUME buf'.cap = buf.cap PROVE WithinLimit'
  BY <1>1 DEF WithinLimit, FirstCap
<1>2. CASE Connect
  <2>1. buf' = buf
    BY <1>2 DEF Connect, Stay, RejectUrl, UnknownHost, NoTlsContext, FromUrl, TakeOptions,
                DialTcp, DialTls, SendRequest, SendFails
  <2>2. QED
    BY <1>1, <2>1
<1>3. CASE OpenWindow
  <2>1. RingOK(buf) /\ ~ BufferOverflow(buf) /\ buf' = RWindow(buf)
    BY <1>3 DEF IInv, TypeOK, OpenWindow
  <2>2. QED
    BY <2>1, WindowWithin DEF WithinLimit
<1>4. CASE Receive
  BY <1>1, <1>4, ReceiveKeeps
<1>5. CASE TakeFrame
  BY <1>1, <1>5, TakeFrameKeeps
<1>6. CASE AcceptResponse
  <2>1. buf' = buf
    BY <1>6, OtherOwner DEF AcceptResponse, IInv, TypeOK
  <2>2. QED
    BY <1>1, <2>1
<1>7. CASE \/ ServerAnswers \/ Overflow \/ ReceiveFails \/ RefuseResponse \/ LengthError
           \/ UNCHANGED vars
  <2>1. buf' = buf
    BY <1>7 DEF ServerAnswers, Overflow, ReceiveFails, RefuseResponse, LengthError, Stay, vars
  <2>2. QED
    BY <1>1, <2>1
<1>8. QED
  BY <1>2, <1>3, <1>4, <1>5, <1>6, <1>7 DEF Next

\* The read buffer never outgrows MAX_BUFFER_SIZE, although rwindow tests the
\* capacity only before it doubles.
THEOREM CapacitiesBounded == Spec => []CapacityBounded
<1>1. Init => WithinLimit
  BY LimitAssumption DEF Init, NewRing, WithinLimit, FirstCap, Reaches
<1>2. IInv /\ WithinLimit /\ [Next]_vars => WithinLimit'
  BY NextWithin
<1>3. IInv /\ WithinLimit => CapacityBounded
  <2> SUFFICES ASSUME RingOK(buf), WithinLimit PROVE buf.cap <= MaxBuffer
    BY DEF IInv, TypeOK, CapacityBounded
  <2>1. buf.cap \in Nat /\ MaxBuffer \in Nat
    BY RingNumbers, WindowAssumption
  <2>2. CASE buf.cap = 0
    BY <2>1, <2>2
  <2>3. CASE buf.cap # 0
    <3>1. PICK n \in 0 .. MaxDoublings : buf.cap * 2^n = MaxBuffer
      BY <2>3 DEF WithinLimit, FirstCap, Reaches
    <3> DEFINE p == 2^n
               c == buf.cap
    <3>2. p \in Nat \ {0}
      BY Powers
    <3>3. c \in Nat /\ c * p = MaxBuffer
      BY <2>1, <3>1
    <3> HIDE DEF p, c
    <3>4. c <= c * p
      BY <3>2, <3>3
    <3>5. QED
      BY <3>3, <3>4 DEF c
  <2>4. QED
    BY <2>2, <2>3
<1>4. QED
  BY <1>1, <1>2, <1>3, AlwaysIInv, PTL DEF Spec

-----------------------------------------------------------------------------
(* Texts that are the same, cut differently *)

\* A text that is cut in two.
LEMMA CutInTwo ==
  ASSUME NEW s \in Seq(Byte), NEW n \in 0 .. Len(s)
  PROVE  /\ SubSeq(s, 1, n) \in Seq(Byte) /\ Len(SubSeq(s, 1, n)) = n
         /\ SubSeq(s, n + 1, Len(s)) \in Seq(Byte)
         /\ s = SubSeq(s, 1, n) \o SubSeq(s, n + 1, Len(s))
<1> DEFINE l == Len(s)  f == SubSeq(s, 1, n)  b == SubSeq(s, n + 1, l)
<1>1. l \in Nat /\ n \in 0 .. l /\ n \in Nat
  BY LenProperties
<1>2. f \in Seq(Byte) /\ Len(f) = n /\ \A j \in 1 .. n : f[j] = s[(1 - 1) + j]
  <2>1. 1 \in Nat \ {0} /\ n \in Nat /\ 1 + n <= Len(s) + 1 /\ 1 + n - 1 = n
    BY <1>1
  <2> QED BY <2>1, Slice
<1>3. b \in Seq(Byte) /\ Len(b) = l - n /\ \A j \in 1 .. l - n : b[j] = s[((n + 1) - 1) + j]
  <2>1. n + 1 \in Nat \ {0} /\ l - n \in Nat /\ (n + 1) + (l - n) <= Len(s) + 1
        /\ (n + 1) + (l - n) - 1 = l
    BY <1>1
  <2> HIDE DEF l
  <2>2. /\ SubSeq(s, n + 1, (n + 1) + (l - n) - 1) \in Seq(Byte)
        /\ Len(SubSeq(s, n + 1, (n + 1) + (l - n) - 1)) = l - n
        /\ \A j \in 1 .. l - n : SubSeq(s, n + 1, (n + 1) + (l - n) - 1)[j] = s[((n + 1) - 1) + j]
    BY <2>1, Slice
  <2> QED BY <2>1, <2>2
<1> HIDE DEF f, b
<1>4. /\ f \o b \in Seq(Byte) /\ Len(f \o b) = Len(f) + Len(b)
      /\ \A i \in 1 .. Len(f) + Len(b) : (f \o b)[i] = IF i <= Len(f) THEN f[i] ELSE b[i - Len(f)]
  BY <1>2, <1>3, ConcatProperties
<1> DEFINE c == f \o b
<1> HIDE DEF c
<1>5. Len(c) = l
  BY <1>1, <1>2, <1>3, <1>4 DEF c
<1>6. ASSUME NEW i \in 1 .. l PROVE s[i] = c[i]
  <2>1. c[i] = IF i <= n THEN f[i] ELSE b[i - n]
    <3>1. n + (l - n) = l
      BY <1>1
    <3> HIDE DEF l
    <3> QED BY <1>2, <1>3, <1>4, <3>1 DEF c
  <2>2. CASE i <= n
    <3>1. i \in 1 .. n /\ (1 - 1) + i = i
      BY <1>1, <2>2
    <3> QED BY <1>2, <2>1, <2>2, <3>1
  <2>3. CASE ~ (i <= n)
    <3>1. i - n \in 1 .. l - n /\ ((n + 1) - 1) + (i - n) = i
      BY <1>1, <2>3
    <3> QED BY <1>3, <2>1, <2>3, <3>1
  <2> QED BY <2>2, <2>3
<1>7. s = c
  <2>1. c \in Seq(Byte)
    BY <1>4 DEF c
  <2> QED BY <1>5, <1>6, <2>1, SeqEqual
<1> QED BY <1>2, <1>3, <1>7 DEF f, b, c

\* What stands at the front of a text is also at the front of its first part,
\* if that is long enough.
LEMMA SplitFront ==
  ASSUME NEW c \in Seq(Byte), NEW u \in Seq(Byte), NEW t \in Seq(Byte), NEW r \in Seq(Byte),
         c \o u = t \o r, Len(t) <= Len(c)
  PROVE  SubSeq(c, 1, Len(t)) = t /\ SubSeq(c, Len(t) + 1, Len(c)) \o u = r
<1> DEFINE n == Len(t)  f == SubSeq(c, 1, n)  b == SubSeq(c, n + 1, Len(c))
<1>1. n \in Nat /\ Len(c) \in Nat /\ n \in 0 .. Len(c)
  BY LenProperties
<1>2. f \in Seq(Byte) /\ Len(f) = n /\ b \in Seq(Byte) /\ c = f \o b
  BY <1>1, CutInTwo
<1> HIDE DEF f, b
<1>3. f = t
  <2>1. \A i \in 1 .. Len(f) : (f \o b)[i] = f[i]
    BY <1>2, JoinedBytes
  <2>2. \A i \in 1 .. Len(c) : (c \o u)[i] = c[i]
    BY JoinedBytes
  <2>3. \A i \in 1 .. Len(t) : (t \o r)[i] = t[i]
    BY JoinedBytes
  <2>4. \A i \in 1 .. n : i \in 1 .. Len(c)
    BY <1>1
  <2>5. \A i \in 1 .. n : f[i] = t[i]
    BY <1>2, <2>1, <2>2, <2>3, <2>4
  <2> QED BY <1>2, <2>5, SeqEqual
<1>4. t \o (b \o u) = t \o r
  <2>1. (f \o b) \o u = f \o (b \o u)
    BY <1>2, ConcatAssociative
  <2> QED BY <1>2, <1>3, <2>1
<1>5. b \o u = r
  <2> DEFINE d == b \o u
  <2>1. d \in Seq(Byte)
    BY <1>2, ConcatProperties
  <2> HIDE DEF d
  <2>2. t \o d = t \o r
    BY <1>4 DEF d
  <2>3. /\ Len(t \o d) = n + Len(d) /\ Len(d) \in Nat
        /\ \A i \in 1 .. Len(d) : (t \o d)[n + i] = d[i]
    BY <2>1, JoinedBytes
  <2>4. /\ Len(t \o r) = n + Len(r) /\ Len(r) \in Nat
        /\ \A i \in 1 .. Len(r) : (t \o r)[n + i] = r[i]
    BY JoinedBytes
  <2>5. Len(d) = Len(r)
    BY <1>1, <2>2, <2>3, <2>4
  <2>6. \A i \in 1 .. Len(d) : d[i] = r[i]
    BY <2>2, <2>3, <2>4, <2>5
  <2> QED BY <2>1, <2>5, <2>6, SeqEqual DEF d
<1> QED BY <1>3, <1>5 DEF f, b

\* Joining texts joins the first one and the rest.
LEMMA FlattenCons ==
  ASSUME NEW e \in Seq(Byte), NEW s \in Seq(Seq(Byte))
  PROVE  FlattenSeq(<<e>> \o s) = e \o FlattenSeq(s)
<1> DEFINE B == Seq(Byte)
           one == <<e>>
           S == {n \in Nat : \A w \in Seq(B) : Len(w) = n => FlattenSeq(one \o w) = e \o FlattenSeq(w)}
<1>e. <<e>> \in Seq(B) /\ Len(<<e>>) = 1 /\ <<e>>[1] = e
  BY Single
<1> HIDE DEF one
<1>1. ASSUME NEW w \in Seq(B), Len(w) = 0 PROVE FlattenSeq(one \o w) = e \o FlattenSeq(w)
  <2>1. w = << >> /\ one \o w = one
    <3>1. w = << >>
      BY <1>1, EmptySeq
    <3>2. one \in Seq(B)
      BY <1>e DEF one
    <3> QED BY <3>1, <3>2, ConcatEmptySeq
  <2>2. FlattenSeq(w) = << >>
    BY <2>1, EmptySeq DEF FlattenSeq
  <2>3. IsSequence(one) /\ Len(one) = 1
    BY <1>e DEF IsSequence, one
  <2>4. FlattenSeq(one) = one[1]
    BY <2>3, FlattenOne
  <2>5. e \o << >> = e
    BY ConcatEmptySeq
  <2> QED BY <1>e, <2>1, <2>2, <2>4, <2>5 DEF one
<1>2. 0 \in S
  BY <1>1
<1>3. ASSUME NEW n \in Nat, n \in S PROVE n + 1 \in S
  <2> SUFFICES ASSUME NEW w \in Seq(B), Len(w) = n + 1
               PROVE  FlattenSeq(one \o w) = e \o FlattenSeq(w)
    OBVIOUS
  <2> DEFINE front == SubSeq(w, 1, n)  x == w[n + 1]
  <2>1. x \in B
    <3>1. n + 1 \in 1 .. Len(w)
      OBVIOUS
    <3> QED BY <3>1, ElementOfSeq
  <2>2. front \in Seq(B) /\ Len(front) = n /\ w = Append(front, x)
    <3>1. 1 \in Nat \ {0} /\ n \in Nat /\ 1 + n <= Len(w) + 1 /\ 1 + n - 1 = n
      OBVIOUS
    <3> HIDE DEF B
    <3>2. front \in Seq(B) /\ Len(front) = n /\ \A j \in 1 .. n : front[j] = w[(1 - 1) + j]
      BY <3>1, Slice
    <3>3. \A j \in 1 .. n : (1 - 1) + j = j
      OBVIOUS
    <3> HIDE DEF front
    <3>4. \A j \in 1 .. n : front[j] = w[j]
      BY <3>2, <3>3
    <3>5. /\ Append(front, x) \in Seq(B) /\ Len(Append(front, x)) = n + 1
          /\ \A j \in 1 .. n : Append(front, x)[j] = front[j]
          /\ Append(front, x)[n + 1] = x
      BY <2>1, <3>2, AppendProperties
    <3>6. \A j \in 1 .. n + 1 : w[j] = Append(front, x)[j]
      BY <3>4, <3>5
    <3>7. w = Append(front, x)
      BY <3>5, <3>6, SeqEqual
    <3> QED BY <3>2, <3>7
  <2> HIDE DEF front, x
  <2>3. FlattenSeq(one \o front) = e \o FlattenSeq(front)
    BY <1>3, <2>2
  <2>4. one \o Append(front, x) = Append(one \o front, x)
    <3> HIDE DEF B
    <3>1. Append(front, x) = front \o <<x>> /\ <<x>> \in Seq(B)
      BY <2>1, <2>2
    <3>2. one \o front \in Seq(B)
      BY <1>e, <2>2, ConcatProperties DEF one
    <3>3. Append(one \o front, x) = (one \o front) \o <<x>>
      BY <2>1, <3>2
    <3>4. (one \o front) \o <<x>> = one \o (front \o <<x>>)
      BY <1>e, <2>2, <3>1, ConcatAssociative DEF one
    <3> QED BY <3>1, <3>3, <3>4
  <2>5. FlattenSeq(Append(one \o front, x)) = FlattenSeq(one \o front) \o x
    <3>1. one \o front \in Seq(B) /\ Len(one \o front) = 1 + n
      BY <1>e, <2>2, ConcatProperties DEF one
    <3>2. IsSequence(one \o front) /\ Len(one \o front) # 0
      BY <3>1 DEF IsSequence
    <3> QED BY <3>2, FlattenAppend
  <2>6. FlattenSeq(Append(front, x)) = FlattenSeq(front) \o x
    <3>1. CASE n = 0
      <4>1. front = << >>
        BY <2>2, <3>1, EmptySeq
      <4>2. FlattenSeq(front) = << >>
        BY <4>1, EmptySeq DEF FlattenSeq
      <4>3. IsSequence(w) /\ Len(w) = 1
        BY <3>1 DEF IsSequence
      <4>4. FlattenSeq(w) = w[1]
        BY <4>3, FlattenOne
      <4>5. w[1] = x
        BY <3>1 DEF x
      <4>6. << >> \o x = x
        BY <2>1, ConcatEmptySeq
      <4> QED BY <2>2, <4>2, <4>4, <4>5, <4>6
    <3>2. CASE n # 0
      <4>1. IsSequence(front) /\ Len(front) # 0
        BY <2>2, <3>2 DEF IsSequence
      <4> QED BY <4>1, FlattenAppend
    <3> QED BY <3>1, <3>2
  <2>7. (e \o FlattenSeq(front)) \o x = e \o (FlattenSeq(front) \o x)
    <3>1. FlattenSeq(front) \in Seq(Byte)
      BY <2>2, FlattenCut
    <3> QED BY <2>1, <3>1, ConcatAssociative
  <2> QED BY <2>2, <2>3, <2>4, <2>5, <2>6, <2>7
<1> HIDE DEF S
<1>4. Nat \subseteq S
  BY <1>2, <1>3, InductionOverSet
<1>5. Len(s) \in Nat
  BY LenProperties
<1> QED BY <1>4, <1>5 DEF S, one

\* The first of the pieces that are left is in front.
LEMMA FirstPiece ==
  ASSUME NEW pieces \in Seq(Seq(Byte)), NEW k \in Nat, k < Len(pieces)
  PROVE  /\ pieces[k + 1] \in Seq(Byte)
         /\ FlattenSeq(SubSeq(pieces, k + 2, Len(pieces))) \in Seq(Byte)
         /\ FlattenSeq(SubSeq(pieces, k + 1, Len(pieces))) =
              pieces[k + 1] \o FlattenSeq(SubSeq(pieces, k + 2, Len(pieces)))
<1> DEFINE B == Seq(Byte)  n == Len(pieces)  rest == SubSeq(pieces, k + 2, n)
<1>1. n \in Nat /\ k + 1 \in 1 .. n /\ n \in k + 1 .. n /\ (k + 1) + 1 = k + 2
  BY LenProperties
<1>2. pieces[k + 1] \in Seq(Byte)
  BY <1>1, ElementOfSeq
<1>3. rest \in Seq(B)
  <2>1. k + 2 \in Nat \ {0} /\ n - (k + 1) \in Nat /\ (k + 2) + (n - (k + 1)) <= Len(pieces) + 1
        /\ (k + 2) + (n - (k + 1)) - 1 = n
    BY <1>1
  <2> HIDE DEF n, B
  <2>2. SubSeq(pieces, k + 2, (k + 2) + (n - (k + 1)) - 1) \in Seq(B)
    BY <2>1, Slice DEF B
  <2> QED BY <2>1, <2>2
<1>4. SubSeq(pieces, k + 1, n) = <<pieces[k + 1]>> \o SubSeq(pieces, (k + 1) + 1, n)
  BY <1>1, SubSeqRecursiveFirst
<1>5. SubSeq(pieces, k + 1, n) = <<pieces[k + 1]>> \o rest
  BY <1>1, <1>4
<1>6. FlattenSeq(rest) \in Seq(Byte)
  BY <1>3, FlattenCut
<1> HIDE DEF rest
<1>7. FlattenSeq(<<pieces[k + 1]>> \o rest) = pieces[k + 1] \o FlattenSeq(rest)
  BY <1>2, <1>3, FlattenCons
<1> QED BY <1>2, <1>5, <1>6, <1>7 DEF rest

-----------------------------------------------------------------------------
(* Nibbles *)

IsNibble(n) == n \in Nat /\ n < 16

IsBit(b) == b = 0 \/ b = 1

Nibble(b0, b1, b2, b3) == b0 + 2 * b1 + 4 * b2 + 8 * b3

LEMMA SmallPowers ==
  /\ 2^0 = 1 /\ 2^1 = 2 /\ 2^2 = 4 /\ 2^3 = 8 /\ 2^16 = 65536
  /\ 16^0 = 1 /\ 16^1 = 16 /\ 16^2 = 256 /\ 16^3 = 4096
BY SMT

LEMMA BitValues ==
  \A n : Bit(n, 0) = (n \div 1) % 2 /\ Bit(n, 1) = (n \div 2) % 2
         /\ Bit(n, 2) = (n \div 4) % 2 /\ Bit(n, 3) = (n \div 8) % 2
BY SmallPowers DEF Bit

LEMMA BitsOfNibble ==
  ASSUME NEW n, IsNibble(n)
  PROVE  /\ n = Nibble(Bit(n, 0), Bit(n, 1), Bit(n, 2), Bit(n, 3))
         /\ IsBit(Bit(n, 0)) /\ IsBit(Bit(n, 1)) /\ IsBit(Bit(n, 2)) /\ IsBit(Bit(n, 3))
<1>1. n \in Nat /\ n < 16
  BY DEF IsNibble
<1>2. n = ((n \div 1) % 2) + 2 * ((n \div 2) % 2) + 4 * ((n \div 4) % 2) + 8 * ((n \div 8) % 2)
  BY <1>1
<1>3. /\ IsBit((n \div 1) % 2) /\ IsBit((n \div 2) % 2)
      /\ IsBit((n \div 4) % 2) /\ IsBit((n \div 8) % 2)
  BY <1>1 DEF IsBit
<1> QED BY <1>2, <1>3, BitValues DEF Nibble

LEMMA NibbleOfBits ==
  ASSUME NEW b0, NEW b1, NEW b2, NEW b3, IsBit(b0), IsBit(b1), IsBit(b2), IsBit(b3)
  PROVE  /\ IsNibble(Nibble(b0, b1, b2, b3))
         /\ Bit(Nibble(b0, b1, b2, b3), 0) = b0 /\ Bit(Nibble(b0, b1, b2, b3), 1) = b1
         /\ Bit(Nibble(b0, b1, b2, b3), 2) = b2 /\ Bit(Nibble(b0, b1, b2, b3), 3) = b3
<1> DEFINE n == b0 + 2 * b1 + 4 * b2 + 8 * b3
<1>1. b0 \in {0, 1} /\ b1 \in {0, 1} /\ b2 \in {0, 1} /\ b3 \in {0, 1}
  BY DEF IsBit
<1>2. n \in Nat /\ n < 16
  BY <1>1
<1>3. /\ (n \div 1) % 2 = b0 /\ (n \div 2) % 2 = b1
      /\ (n \div 4) % 2 = b2 /\ (n \div 8) % 2 = b3
  BY <1>1
<1>4. n = Nibble(b0, b1, b2, b3)
  BY DEF Nibble
<1> HIDE DEF n
<1> QED BY <1>2, <1>3, <1>4, BitValues DEF IsNibble

\* Nibbles with the same bits are equal.
LEMMA SameBits ==
  ASSUME NEW p, NEW q, IsNibble(p), IsNibble(q),
         Bit(p, 0) = Bit(q, 0), Bit(p, 1) = Bit(q, 1), Bit(p, 2) = Bit(q, 2), Bit(p, 3) = Bit(q, 3)
  PROVE  p = q
BY BitsOfNibble

NibbleXor(p, q) == p + q - 2 * NibbleAnd[<<p, q>>]

\* The bits that two have in common, and those of one of them alone.
BothBits(b, c) == b * c
OneBit(b, c)   == b + c - 2 * (b * c)

LEMMA BitResults ==
  ASSUME NEW b, NEW c, IsBit(b), IsBit(c)
  PROVE  IsBit(BothBits(b, c)) /\ IsBit(OneBit(b, c)) /\ IsBit(1 - b)
         /\ OneBit(b, c) = b + c - 2 * BothBits(b, c)
<1>1. CASE b = 0 /\ c = 0
  BY <1>1 DEF IsBit, BothBits, OneBit
<1>2. CASE b = 0 /\ c = 1
  BY <1>2 DEF IsBit, BothBits, OneBit
<1>3. CASE b = 1 /\ c = 0
  BY <1>3 DEF IsBit, BothBits, OneBit
<1>4. CASE b = 1 /\ c = 1
  BY <1>4 DEF IsBit, BothBits, OneBit
<1> QED BY <1>1, <1>2, <1>3, <1>4 DEF IsBit

LEMMA BitTable ==
  /\ BothBits(0, 0) = 0 /\ BothBits(0, 1) = 0 /\ BothBits(1, 0) = 0 /\ BothBits(1, 1) = 1
  /\ OneBit(0, 0) = 0 /\ OneBit(0, 1) = 1 /\ OneBit(1, 0) = 1 /\ OneBit(1, 1) = 0
BY DEF BothBits, OneBit

LEMMA NibbleAndBits ==
  ASSUME NEW p, NEW q, IsNibble(p), IsNibble(q)
  PROVE  NibbleAnd[<<p, q>>] =
           Nibble(BothBits(Bit(p, 0), Bit(q, 0)), BothBits(Bit(p, 1), Bit(q, 1)),
                  BothBits(Bit(p, 2), Bit(q, 2)), BothBits(Bit(p, 3), Bit(q, 3)))
<1> DEFINE r(k) == 2^k * Bit(p, k) * Bit(q, k)
<1>1. NibbleAnd[<<p, q>>] = r(0) + r(1) + r(2) + r(3)
  <2>1. p \in 0 .. 15 /\ q \in 0 .. 15
    BY DEF IsNibble
  <2> HIDE DEF r
  <2> QED BY <2>1 DEF NibbleAnd, r
<1>2. r(0) = 1 * (Bit(p, 0) * Bit(q, 0)) /\ Bit(p, 0) * Bit(q, 0) \in Nat
  BY BitsOfNibble, SmallPowers DEF IsBit
<1>3. r(1) = 2 * (Bit(p, 1) * Bit(q, 1)) /\ Bit(p, 1) * Bit(q, 1) \in Nat
  BY BitsOfNibble, SmallPowers DEF IsBit
<1>4. r(2) = 4 * (Bit(p, 2) * Bit(q, 2)) /\ Bit(p, 2) * Bit(q, 2) \in Nat
  BY BitsOfNibble, SmallPowers DEF IsBit
<1>5. r(3) = 8 * (Bit(p, 3) * Bit(q, 3)) /\ Bit(p, 3) * Bit(q, 3) \in Nat
  BY BitsOfNibble, SmallPowers DEF IsBit
<1> HIDE DEF r
<1> QED BY <1>1, <1>2, <1>3, <1>4, <1>5 DEF Nibble, BothBits

LEMMA AndNibble ==
  ASSUME NEW p, NEW q, IsNibble(p), IsNibble(q)
  PROVE  /\ IsNibble(NibbleAnd[<<p, q>>])
         /\ Bit(NibbleAnd[<<p, q>>], 0) = BothBits(Bit(p, 0), Bit(q, 0))
         /\ Bit(NibbleAnd[<<p, q>>], 1) = BothBits(Bit(p, 1), Bit(q, 1))
         /\ Bit(NibbleAnd[<<p, q>>], 2) = BothBits(Bit(p, 2), Bit(q, 2))
         /\ Bit(NibbleAnd[<<p, q>>], 3) = BothBits(Bit(p, 3), Bit(q, 3))
BY NibbleAndBits, BitsOfNibble, BitResults, NibbleOfBits

LEMMA XorNibble ==
  ASSUME NEW p, NEW q, IsNibble(p), IsNibble(q)
  PROVE  /\ IsNibble(NibbleXor(p, q))
         /\ Bit(NibbleXor(p, q), 0) = OneBit(Bit(p, 0), Bit(q, 0))
         /\ Bit(NibbleXor(p, q), 1) = OneBit(Bit(p, 1), Bit(q, 1))
         /\ Bit(NibbleXor(p, q), 2) = OneBit(Bit(p, 2), Bit(q, 2))
         /\ Bit(NibbleXor(p, q), 3) = OneBit(Bit(p, 3), Bit(q, 3))
<1>1. NibbleXor(p, q) =
        Nibble(OneBit(Bit(p, 0), Bit(q, 0)), OneBit(Bit(p, 1), Bit(q, 1)),
               OneBit(Bit(p, 2), Bit(q, 2)), OneBit(Bit(p, 3), Bit(q, 3)))
  <2>1. PICK b0, b1, b2, b3 : /\ b0 = Bit(p, 0) /\ b1 = Bit(p, 1) /\ b2 = Bit(p, 2) /\ b3 = Bit(p, 3)
    OBVIOUS
  <2>2. PICK c0, c1, c2, c3 : /\ c0 = Bit(q, 0) /\ c1 = Bit(q, 1) /\ c2 = Bit(q, 2) /\ c3 = Bit(q, 3)
    OBVIOUS
  <2>3. /\ IsBit(b0) /\ IsBit(b1) /\ IsBit(b2) /\ IsBit(b3) /\ p = Nibble(b0, b1, b2, b3)
        /\ IsBit(c0) /\ IsBit(c1) /\ IsBit(c2) /\ IsBit(c3) /\ q = Nibble(c0, c1, c2, c3)
    BY <2>1, <2>2, BitsOfNibble
  <2>4. PICK d0, d1, d2, d3 :
          d0 = BothBits(b0, c0) /\ d1 = BothBits(b1, c1) /\ d2 = BothBits(b2, c2) /\ d3 = BothBits(b3, c3)
    OBVIOUS
  <2>5. /\ IsBit(d0) /\ IsBit(d1) /\ IsBit(d2) /\ IsBit(d3)
        /\ OneBit(b0, c0) = b0 + c0 - 2 * d0 /\ OneBit(b1, c1) = b1 + c1 - 2 * d1
        /\ OneBit(b2, c2) = b2 + c2 - 2 * d2 /\ OneBit(b3, c3) = b3 + c3 - 2 * d3
    BY <2>3, <2>4, BitResults
  <2>6. NibbleAnd[<<p, q>>] = Nibble(d0, d1, d2, d3)
    BY <2>1, <2>2, <2>4, NibbleAndBits
  <2>7. Nibble(b0, b1, b2, b3) + Nibble(c0, c1, c2, c3) - 2 * Nibble(d0, d1, d2, d3) =
          Nibble(b0 + c0 - 2 * d0, b1 + c1 - 2 * d1, b2 + c2 - 2 * d2, b3 + c3 - 2 * d3)
    <3>1. /\ b0 \in Int /\ b1 \in Int /\ b2 \in Int /\ b3 \in Int
          /\ c0 \in Int /\ c1 \in Int /\ c2 \in Int /\ c3 \in Int
          /\ d0 \in Int /\ d1 \in Int /\ d2 \in Int /\ d3 \in Int
      BY <2>3, <2>5 DEF IsBit
    <3> QED BY <3>1 DEF Nibble
  <2> QED BY <2>1, <2>2, <2>3, <2>5, <2>6, <2>7 DEF NibbleXor
<1> QED BY <1>1, BitsOfNibble, BitResults, NibbleOfBits

LEMMA NotNibble ==
  ASSUME NEW p, IsNibble(p)
  PROVE  /\ IsNibble(15 - p)
         /\ Bit(15 - p, 0) = 1 - Bit(p, 0) /\ Bit(15 - p, 1) = 1 - Bit(p, 1)
         /\ Bit(15 - p, 2) = 1 - Bit(p, 2) /\ Bit(15 - p, 3) = 1 - Bit(p, 3)
<1>1. p \in Nat /\ p < 16
  BY DEF IsNibble
<1>2. IsNibble(15 - p)
  BY <1>1 DEF IsNibble
<1>3. /\ ((15 - p) \div 1) % 2 = 1 - ((p \div 1) % 2)
      /\ ((15 - p) \div 2) % 2 = 1 - ((p \div 2) % 2)
  BY <1>1
<1>4. /\ ((15 - p) \div 4) % 2 = 1 - ((p \div 4) % 2)
      /\ ((15 - p) \div 8) % 2 = 1 - ((p \div 8) % 2)
  BY <1>1
<1> QED BY <1>2, <1>3, <1>4, BitValues

-----------------------------------------------------------------------------
\* Bit by bit: the two ways to write choose and majority, and that exclusive
\* or is associative.
LEMMA ChooseBits ==
  ASSUME NEW w, NEW x, NEW y, IsBit(w), IsBit(x), IsBit(y)
  PROVE  OneBit(BothBits(w, OneBit(x, y)), y) = OneBit(BothBits(w, x), BothBits(1 - w, y))
<1>1. 1 - 0 = 1 /\ 1 - 1 = 0
  OBVIOUS
<1> QED BY <1>1, BitTable DEF IsBit

LEMMA MajorityBits ==
  ASSUME NEW w, NEW x, NEW y, IsBit(w), IsBit(x), IsBit(y)
  PROVE  LET or(b, c) == OneBit(OneBit(b, c), BothBits(b, c))
         IN  or(BothBits(or(w, x), y), BothBits(w, x)) =
               OneBit(OneBit(BothBits(w, x), BothBits(w, y)), BothBits(x, y))
BY BitTable DEF IsBit

LEMMA ParityBits ==
  ASSUME NEW w, NEW x, NEW y, IsBit(w), IsBit(x), IsBit(y)
  PROVE  OneBit(w, OneBit(x, y)) = OneBit(OneBit(w, x), y)
BY BitTable DEF IsBit

-----------------------------------------------------------------------------
(* The same for nibbles *)

NibbleBoth(p, q) == NibbleAnd[<<p, q>>]

NibbleOr(p, q) == NibbleXor(NibbleXor(p, q), NibbleBoth(p, q))

LEMMA NibblesStay ==
  ASSUME NEW p, NEW q, IsNibble(p), IsNibble(q)
  PROVE  IsNibble(NibbleBoth(p, q)) /\ IsNibble(NibbleXor(p, q)) /\ IsNibble(15 - p)
BY AndNibble, XorNibble, NotNibble DEF NibbleBoth

LEMMA BitsMove ==
  ASSUME NEW p, NEW q, IsNibble(p), IsNibble(q), NEW k \in {0, 1, 2, 3}
  PROVE  /\ IsBit(Bit(p, k))
         /\ Bit(NibbleBoth(p, q), k) = BothBits(Bit(p, k), Bit(q, k))
         /\ Bit(NibbleXor(p, q), k) = OneBit(Bit(p, k), Bit(q, k))
         /\ Bit(15 - p, k) = 1 - Bit(p, k)
BY BitsOfNibble, AndNibble, XorNibble, NotNibble DEF NibbleBoth

LEMMA EqualNibbles ==
  ASSUME NEW p, NEW q, IsNibble(p), IsNibble(q), \A k \in {0, 1, 2, 3} : Bit(p, k) = Bit(q, k)
  PROVE  p = q
BY SameBits

LEMMA ChooseNibble ==
  ASSUME NEW w, NEW x, NEW y, IsNibble(w), IsNibble(x), IsNibble(y)
  PROVE  NibbleXor(NibbleBoth(w, NibbleXor(x, y)), y) =
           NibbleXor(NibbleBoth(w, x), NibbleBoth(15 - w, y))
<1>1. /\ IsNibble(NibbleXor(x, y)) /\ IsNibble(NibbleBoth(w, NibbleXor(x, y)))
      /\ IsNibble(NibbleBoth(w, x)) /\ IsNibble(15 - w) /\ IsNibble(NibbleBoth(15 - w, y))
  BY NibblesStay
<1>2. ASSUME NEW k \in {0, 1, 2, 3}
      PROVE  Bit(NibbleXor(NibbleBoth(w, NibbleXor(x, y)), y), k) =
               Bit(NibbleXor(NibbleBoth(w, x), NibbleBoth(15 - w, y)), k)
  <2> DEFINE wk == Bit(w, k)
             xk == Bit(x, k)
             yk == Bit(y, k)
  <2>1. Bit(NibbleXor(NibbleBoth(w, NibbleXor(x, y)), y), k) = OneBit(BothBits(wk, OneBit(xk, yk)), yk)
    BY <1>1, BitsMove
  <2>2. Bit(NibbleXor(NibbleBoth(w, x), NibbleBoth(15 - w, y)), k) =
          OneBit(BothBits(wk, xk), BothBits(1 - wk, yk))
    BY <1>1, BitsMove
  <2>3. IsBit(wk) /\ IsBit(xk) /\ IsBit(yk)
    BY BitsMove
  <2> HIDE DEF wk, xk, yk
  <2> QED BY <2>1, <2>2, <2>3, ChooseBits
<1>3. /\ IsNibble(NibbleXor(NibbleBoth(w, NibbleXor(x, y)), y))
      /\ IsNibble(NibbleXor(NibbleBoth(w, x), NibbleBoth(15 - w, y)))
  BY <1>1, NibblesStay
<1> QED BY <1>2, <1>3, EqualNibbles

LEMMA MajorityNibble ==
  ASSUME NEW w, NEW x, NEW y, IsNibble(w), IsNibble(x), IsNibble(y)
  PROVE  NibbleOr(NibbleBoth(NibbleOr(w, x), y), NibbleBoth(w, x)) =
           NibbleXor(NibbleXor(NibbleBoth(w, x), NibbleBoth(w, y)), NibbleBoth(x, y))
<1> DEFINE or(b, c) == OneBit(OneBit(b, c), BothBits(b, c))
           l == NibbleOr(NibbleBoth(NibbleOr(w, x), y), NibbleBoth(w, x))
           r == NibbleXor(NibbleXor(NibbleBoth(w, x), NibbleBoth(w, y)), NibbleBoth(x, y))
<1>1. ASSUME NEW p, NEW q, IsNibble(p), IsNibble(q)
      PROVE  /\ IsNibble(NibbleOr(p, q))
             /\ \A k \in {0, 1, 2, 3} : Bit(NibbleOr(p, q), k) = or(Bit(p, k), Bit(q, k))
  <2>1. IsNibble(NibbleXor(p, q)) /\ IsNibble(NibbleBoth(p, q))
    BY <1>1, NibblesStay
  <2>2. IsNibble(NibbleOr(p, q))
    BY <2>1, NibblesStay DEF NibbleOr
  <2>3. ASSUME NEW k \in {0, 1, 2, 3} PROVE Bit(NibbleOr(p, q), k) = or(Bit(p, k), Bit(q, k))
    BY <1>1, <2>1, BitsMove DEF NibbleOr
  <2> QED BY <2>2, <2>3
<1>2. /\ IsNibble(NibbleBoth(w, x)) /\ IsNibble(NibbleBoth(w, y)) /\ IsNibble(NibbleBoth(x, y))
      /\ IsNibble(NibbleOr(w, x))
  BY <1>1, NibblesStay
<1>3. /\ IsNibble(NibbleBoth(NibbleOr(w, x), y))
      /\ IsNibble(NibbleXor(NibbleBoth(w, x), NibbleBoth(w, y)))
  BY <1>2, NibblesStay
<1>4. ASSUME NEW k \in {0, 1, 2, 3} PROVE Bit(l, k) = Bit(r, k)
  <2> DEFINE wk == Bit(w, k)
             xk == Bit(x, k)
             yk == Bit(y, k)
  <2>1. Bit(l, k) = or(BothBits(or(wk, xk), yk), BothBits(wk, xk))
    <3>1. Bit(l, k) = or(Bit(NibbleBoth(NibbleOr(w, x), y), k), Bit(NibbleBoth(w, x), k))
      <4> HIDE DEF or
      <4> QED BY <1>1, <1>2, <1>3
    <3>2. Bit(NibbleBoth(NibbleOr(w, x), y), k) = BothBits(Bit(NibbleOr(w, x), k), yk)
      BY <1>2, BitsMove
    <3>3. Bit(NibbleOr(w, x), k) = or(wk, xk)
      <4> HIDE DEF or
      <4> QED BY <1>1
    <3>4. Bit(NibbleBoth(w, x), k) = BothBits(wk, xk)
      BY BitsMove
    <3> HIDE DEF or, l
    <3> QED BY <3>1, <3>2, <3>3, <3>4
  <2>2. Bit(r, k) = OneBit(OneBit(BothBits(wk, xk), BothBits(wk, yk)), BothBits(xk, yk))
    BY <1>2, <1>3, BitsMove
  <2>3. IsBit(wk) /\ IsBit(xk) /\ IsBit(yk)
    BY BitsMove
  <2> HIDE DEF wk, xk, yk, l, r
  <2> QED BY <2>1, <2>2, <2>3, MajorityBits
<1>5. IsNibble(l) /\ IsNibble(r)
  <2>1. IsNibble(l)
    BY <1>1, <1>2, <1>3
  <2>2. IsNibble(r)
    BY <1>2, <1>3, NibblesStay
  <2> QED BY <2>1, <2>2
<1> HIDE DEF l, r
<1>6. l = r
  BY <1>4, <1>5, EqualNibbles
<1> QED BY <1>6 DEF l, r

LEMMA ParityNibble ==
  ASSUME NEW w, NEW x, NEW y, IsNibble(w), IsNibble(x), IsNibble(y)
  PROVE  NibbleXor(w, NibbleXor(x, y)) = NibbleXor(NibbleXor(w, x), y)
<1>1. IsNibble(NibbleXor(x, y)) /\ IsNibble(NibbleXor(w, x))
  BY NibblesStay
<1>2. ASSUME NEW k \in {0, 1, 2, 3}
      PROVE  Bit(NibbleXor(w, NibbleXor(x, y)), k) = Bit(NibbleXor(NibbleXor(w, x), y), k)
  <2>1. Bit(NibbleXor(w, NibbleXor(x, y)), k) = OneBit(Bit(w, k), OneBit(Bit(x, k), Bit(y, k)))
    BY <1>1, BitsMove
  <2>2. Bit(NibbleXor(NibbleXor(w, x), y), k) = OneBit(OneBit(Bit(w, k), Bit(x, k)), Bit(y, k))
    BY <1>1, BitsMove
  <2>3. IsBit(Bit(w, k)) /\ IsBit(Bit(x, k)) /\ IsBit(Bit(y, k))
    BY BitsMove
  <2> QED BY <2>1, <2>2, <2>3, ParityBits
<1>3. IsNibble(NibbleXor(w, NibbleXor(x, y))) /\ IsNibble(NibbleXor(NibbleXor(w, x), y))
  BY <1>1, NibblesStay
<1> QED BY <1>2, <1>3, EqualNibbles

-----------------------------------------------------------------------------
(* Halves *)

IsHalf(a) == a \in Nat /\ a < 65536

NibbleAt(a, k) == (a \div 16^k) % 16

Half(n0, n1, n2, n3) == n0 + 16 * n1 + 256 * n2 + 4096 * n3

LEMMA NibbleValues ==
  \A a : /\ NibbleAt(a, 0) = (a \div 1) % 16 /\ NibbleAt(a, 1) = (a \div 16) % 16
         /\ NibbleAt(a, 2) = (a \div 256) % 16 /\ NibbleAt(a, 3) = (a \div 4096) % 16
BY SmallPowers DEF NibbleAt

LEMMA NibblesOfHalf ==
  ASSUME NEW a, IsHalf(a)
  PROVE  /\ a = Half(NibbleAt(a, 0), NibbleAt(a, 1), NibbleAt(a, 2), NibbleAt(a, 3))
         /\ \A k \in {0, 1, 2, 3} : IsNibble(NibbleAt(a, k))
<1>1. a \in Nat /\ a < 65536
  BY DEF IsHalf
<1>2. a = ((a \div 1) % 16) + 16 * ((a \div 16) % 16) + 256 * ((a \div 256) % 16)
            + 4096 * ((a \div 4096) % 16)
  BY <1>1
<1>3. /\ IsNibble((a \div 1) % 16) /\ IsNibble((a \div 16) % 16)
      /\ IsNibble((a \div 256) % 16) /\ IsNibble((a \div 4096) % 16)
  BY <1>1 DEF IsNibble
<1> QED BY <1>2, <1>3, NibbleValues DEF Half

LEMMA HalfOfNibbles ==
  ASSUME NEW n0, NEW n1, NEW n2, NEW n3, IsNibble(n0), IsNibble(n1), IsNibble(n2), IsNibble(n3)
  PROVE  /\ IsHalf(Half(n0, n1, n2, n3))
         /\ NibbleAt(Half(n0, n1, n2, n3), 0) = n0 /\ NibbleAt(Half(n0, n1, n2, n3), 1) = n1
         /\ NibbleAt(Half(n0, n1, n2, n3), 2) = n2 /\ NibbleAt(Half(n0, n1, n2, n3), 3) = n3
<1> DEFINE a == n0 + 16 * n1 + 256 * n2 + 4096 * n3
<1>1. /\ n0 \in Nat /\ n1 \in Nat /\ n2 \in Nat /\ n3 \in Nat
      /\ n0 < 16 /\ n1 < 16 /\ n2 < 16 /\ n3 < 16
  BY DEF IsNibble
<1>2. a \in Nat /\ a < 65536
  BY <1>1
<1>3. (a \div 1) % 16 = n0 /\ a \div 16 = n1 + 16 * n2 + 256 * n3
  BY <1>1
<1>4. a \div 256 = n2 + 16 * n3 /\ a \div 4096 = n3
  BY <1>1
<1>5. a = Half(n0, n1, n2, n3)
  BY DEF Half
<1> HIDE DEF a
<1>6. (a \div 16) % 16 = n1
  BY <1>1, <1>3
<1>7. (a \div 256) % 16 = n2 /\ (a \div 4096) % 16 = n3
  BY <1>1, <1>4
<1> QED BY <1>2, <1>3, <1>5, <1>6, <1>7, NibbleValues DEF IsHalf

LEMMA SameNibbles ==
  ASSUME NEW a, NEW b, IsHalf(a), IsHalf(b),
         \A k \in {0, 1, 2, 3} : NibbleAt(a, k) = NibbleAt(b, k)
  PROVE  a = b
BY NibblesOfHalf

LEMMA AndHalves ==
  ASSUME NEW a, NEW b, IsHalf(a), IsHalf(b)
  PROVE  HalfAnd(a, b) =
           Half(NibbleBoth(NibbleAt(a, 0), NibbleAt(b, 0)), NibbleBoth(NibbleAt(a, 1), NibbleAt(b, 1)),
                NibbleBoth(NibbleAt(a, 2), NibbleAt(b, 2)), NibbleBoth(NibbleAt(a, 3), NibbleAt(b, 3)))
<1> DEFINE n(k) == NibbleBoth(NibbleAt(a, k), NibbleAt(b, k))
<1>1. HalfAnd(a, b) = 16^0 * n(0) + 16^1 * n(1) + 16^2 * n(2) + 16^3 * n(3)
  BY DEF HalfAnd, NibbleBoth, NibbleAt
<1>2. /\ IsNibble(n(0)) /\ IsNibble(n(1)) /\ IsNibble(n(2)) /\ IsNibble(n(3))
  BY NibblesOfHalf, NibblesStay
<1> HIDE DEF n
<1>3. n(0) \in Nat /\ n(1) \in Nat /\ n(2) \in Nat /\ n(3) \in Nat
  BY <1>2 DEF IsNibble
<1>4. HalfAnd(a, b) = Half(n(0), n(1), n(2), n(3))
  BY <1>1, <1>3, SmallPowers DEF Half
<1> QED BY <1>4 DEF n

LEMMA AndHalf ==
  ASSUME NEW a, NEW b, IsHalf(a), IsHalf(b)
  PROVE  /\ IsHalf(HalfAnd(a, b))
         /\ \A k \in {0, 1, 2, 3} :
              NibbleAt(HalfAnd(a, b), k) = NibbleBoth(NibbleAt(a, k), NibbleAt(b, k))
<1> DEFINE n(k) == NibbleBoth(NibbleAt(a, k), NibbleAt(b, k))
<1>1. /\ IsNibble(n(0)) /\ IsNibble(n(1)) /\ IsNibble(n(2)) /\ IsNibble(n(3))
  BY NibblesOfHalf, NibblesStay
<1>2. HalfAnd(a, b) = Half(n(0), n(1), n(2), n(3))
  BY AndHalves
<1> HIDE DEF n
<1>3. IsHalf(HalfAnd(a, b)) /\ \A k \in {0, 1, 2, 3} : NibbleAt(HalfAnd(a, b), k) = n(k)
  BY <1>1, <1>2, HalfOfNibbles
<1> QED BY <1>3 DEF n

LEMMA XorHalf ==
  ASSUME NEW a, NEW b, IsHalf(a), IsHalf(b)
  PROVE  /\ IsHalf(HalfXor(a, b))
         /\ \A k \in {0, 1, 2, 3} :
              NibbleAt(HalfXor(a, b), k) = NibbleXor(NibbleAt(a, k), NibbleAt(b, k))
<1> DEFINE p(k) == NibbleAt(a, k)
           q(k) == NibbleAt(b, k)
           n(k) == NibbleBoth(p(k), q(k))
           x(k) == NibbleXor(p(k), q(k))
<1>1. \A k \in {0, 1, 2, 3} : IsNibble(p(k)) /\ IsNibble(q(k)) /\ IsNibble(n(k)) /\ IsNibble(x(k))
  BY NibblesOfHalf, NibblesStay
<1>2. \A k \in {0, 1, 2, 3} : x(k) = p(k) + q(k) - 2 * n(k)
  BY DEF NibbleXor, NibbleBoth
<1>3. /\ a = Half(p(0), p(1), p(2), p(3)) /\ b = Half(q(0), q(1), q(2), q(3))
      /\ HalfAnd(a, b) = Half(n(0), n(1), n(2), n(3))
  BY NibblesOfHalf, AndHalves
<1>4. HalfXor(a, b) = a + b - 2 * HalfAnd(a, b)
  BY DEF HalfXor
<1> HIDE DEF p, q, n, x
<1>5. Half(p(0), p(1), p(2), p(3)) + Half(q(0), q(1), q(2), q(3))
        - 2 * Half(n(0), n(1), n(2), n(3)) = Half(x(0), x(1), x(2), x(3))
  <2>1. \A k \in {0, 1, 2, 3} : p(k) \in Int /\ q(k) \in Int /\ n(k) \in Int /\ x(k) \in Int
    BY <1>1 DEF IsNibble
  <2>2. /\ x(0) = p(0) + q(0) - 2 * n(0) /\ x(1) = p(1) + q(1) - 2 * n(1)
        /\ x(2) = p(2) + q(2) - 2 * n(2) /\ x(3) = p(3) + q(3) - 2 * n(3)
    BY <1>2
  <2>3. /\ p(0) \in Int /\ p(1) \in Int /\ p(2) \in Int /\ p(3) \in Int
        /\ q(0) \in Int /\ q(1) \in Int /\ q(2) \in Int /\ q(3) \in Int
        /\ n(0) \in Int /\ n(1) \in Int /\ n(2) \in Int /\ n(3) \in Int
    BY <2>1
  <2> QED BY <2>2, <2>3 DEF Half
<1>6. HalfXor(a, b) = Half(x(0), x(1), x(2), x(3))
  BY <1>3, <1>4, <1>5
<1>7. IsHalf(HalfXor(a, b)) /\ \A k \in {0, 1, 2, 3} : NibbleAt(HalfXor(a, b), k) = x(k)
  BY <1>1, <1>6, HalfOfNibbles
<1> QED BY <1>7 DEF p, q, x

LEMMA NotHalf ==
  ASSUME NEW a, IsHalf(a)
  PROVE  /\ IsHalf(65535 - a)
         /\ \A k \in {0, 1, 2, 3} : NibbleAt(65535 - a, k) = 15 - NibbleAt(a, k)
<1> DEFINE p(k) == NibbleAt(a, k)
           n(k) == 15 - p(k)
<1>1. \A k \in {0, 1, 2, 3} : IsNibble(p(k)) /\ IsNibble(n(k))
  BY NibblesOfHalf, NibblesStay
<1>2. a = Half(p(0), p(1), p(2), p(3))
  BY NibblesOfHalf
<1>3. \A k \in {0, 1, 2, 3} : n(k) = 15 - p(k)
  OBVIOUS
<1> HIDE DEF p, n
<1>4. 65535 - Half(p(0), p(1), p(2), p(3)) = Half(n(0), n(1), n(2), n(3))
  <2>1. \A k \in {0, 1, 2, 3} : p(k) \in Int /\ n(k) \in Int
    BY <1>1 DEF IsNibble
  <2>2. p(0) \in Int /\ p(1) \in Int /\ p(2) \in Int /\ p(3) \in Int
    BY <2>1
  <2>3. n(0) = 15 - p(0) /\ n(1) = 15 - p(1) /\ n(2) = 15 - p(2) /\ n(3) = 15 - p(3)
    BY <1>3
  <2> QED BY <2>2, <2>3 DEF Half
<1>5. IsHalf(65535 - a) /\ \A k \in {0, 1, 2, 3} : NibbleAt(65535 - a, k) = n(k)
  BY <1>1, <1>2, <1>4, HalfOfNibbles
<1> QED BY <1>3, <1>5 DEF p

LEMMA HalvesStay ==
  ASSUME NEW a, NEW b, IsHalf(a), IsHalf(b)
  PROVE  IsHalf(HalfAnd(a, b)) /\ IsHalf(HalfXor(a, b)) /\ IsHalf(65535 - a)
BY AndHalf, XorHalf, NotHalf

LEMMA NibblesMove ==
  ASSUME NEW a, NEW b, IsHalf(a), IsHalf(b), NEW k \in {0, 1, 2, 3}
  PROVE  /\ IsNibble(NibbleAt(a, k))
         /\ NibbleAt(HalfAnd(a, b), k) = NibbleBoth(NibbleAt(a, k), NibbleAt(b, k))
         /\ NibbleAt(HalfXor(a, b), k) = NibbleXor(NibbleAt(a, k), NibbleAt(b, k))
         /\ NibbleAt(65535 - a, k) = 15 - NibbleAt(a, k)
BY NibblesOfHalf, AndHalf, XorHalf, NotHalf

LEMMA ChooseHalf ==
  ASSUME NEW w, NEW x, NEW y, IsHalf(w), IsHalf(x), IsHalf(y)
  PROVE  HalfXor(HalfAnd(w, HalfXor(x, y)), y) = HalfXor(HalfAnd(w, x), HalfAnd(65535 - w, y))
<1>1. /\ IsHalf(HalfXor(x, y)) /\ IsHalf(HalfAnd(w, HalfXor(x, y))) /\ IsHalf(HalfAnd(w, x))
      /\ IsHalf(65535 - w) /\ IsHalf(HalfAnd(65535 - w, y))
  BY HalvesStay
<1>2. ASSUME NEW k \in {0, 1, 2, 3}
      PROVE  NibbleAt(HalfXor(HalfAnd(w, HalfXor(x, y)), y), k) =
               NibbleAt(HalfXor(HalfAnd(w, x), HalfAnd(65535 - w, y)), k)
  <2> DEFINE wk == NibbleAt(w, k)
             xk == NibbleAt(x, k)
             yk == NibbleAt(y, k)
  <2>1. NibbleAt(HalfXor(HalfAnd(w, HalfXor(x, y)), y), k) =
          NibbleXor(NibbleBoth(wk, NibbleXor(xk, yk)), yk)
    BY <1>1, NibblesMove
  <2>2. NibbleAt(HalfXor(HalfAnd(w, x), HalfAnd(65535 - w, y)), k) =
          NibbleXor(NibbleBoth(wk, xk), NibbleBoth(15 - wk, yk))
    BY <1>1, NibblesMove
  <2>3. IsNibble(wk) /\ IsNibble(xk) /\ IsNibble(yk)
    BY NibblesMove
  <2> HIDE DEF wk, xk, yk
  <2> QED BY <2>1, <2>2, <2>3, ChooseNibble
<1>3. /\ IsHalf(HalfXor(HalfAnd(w, HalfXor(x, y)), y))
      /\ IsHalf(HalfXor(HalfAnd(w, x), HalfAnd(65535 - w, y)))
  BY <1>1, HalvesStay
<1> QED BY <1>2, <1>3, SameNibbles

HalfOr(a, b) == HalfXor(HalfXor(a, b), HalfAnd(a, b))

LEMMA OrHalf ==
  ASSUME NEW a, NEW b, IsHalf(a), IsHalf(b)
  PROVE  /\ IsHalf(HalfOr(a, b))
         /\ \A k \in {0, 1, 2, 3} : NibbleAt(HalfOr(a, b), k) = NibbleOr(NibbleAt(a, k), NibbleAt(b, k))
<1>1. IsHalf(HalfXor(a, b)) /\ IsHalf(HalfAnd(a, b))
  BY HalvesStay
<1>2. IsHalf(HalfOr(a, b))
  BY <1>1, HalvesStay DEF HalfOr
<1>3. ASSUME NEW k \in {0, 1, 2, 3}
      PROVE  NibbleAt(HalfOr(a, b), k) = NibbleOr(NibbleAt(a, k), NibbleAt(b, k))
  BY <1>1, NibblesMove DEF HalfOr, NibbleOr
<1> QED BY <1>2, <1>3

LEMMA MajorityHalf ==
  ASSUME NEW w, NEW x, NEW y, IsHalf(w), IsHalf(x), IsHalf(y)
  PROVE  HalfOr(HalfAnd(HalfOr(w, x), y), HalfAnd(w, x)) =
           HalfXor(HalfXor(HalfAnd(w, x), HalfAnd(w, y)), HalfAnd(x, y))
<1> DEFINE l == HalfOr(HalfAnd(HalfOr(w, x), y), HalfAnd(w, x))
           r == HalfXor(HalfXor(HalfAnd(w, x), HalfAnd(w, y)), HalfAnd(x, y))
<1>1. /\ IsHalf(HalfAnd(w, x)) /\ IsHalf(HalfAnd(w, y)) /\ IsHalf(HalfAnd(x, y))
      /\ IsHalf(HalfOr(w, x))
  BY HalvesStay, OrHalf
<1>2. /\ IsHalf(HalfAnd(HalfOr(w, x), y)) /\ IsHalf(HalfXor(HalfAnd(w, x), HalfAnd(w, y)))
  BY <1>1, HalvesStay
<1>3. IsHalf(l) /\ IsHalf(r)
  BY <1>1, <1>2, HalvesStay, OrHalf
<1>4. ASSUME NEW k \in {0, 1, 2, 3} PROVE NibbleAt(l, k) = NibbleAt(r, k)
  <2> DEFINE wk == NibbleAt(w, k)
             xk == NibbleAt(x, k)
             yk == NibbleAt(y, k)
  <2>1. NibbleAt(l, k) = NibbleOr(NibbleBoth(NibbleOr(wk, xk), yk), NibbleBoth(wk, xk))
    <3>1. NibbleAt(l, k) =
            NibbleOr(NibbleAt(HalfAnd(HalfOr(w, x), y), k), NibbleAt(HalfAnd(w, x), k))
      BY <1>1, <1>2, OrHalf
    <3>2. NibbleAt(HalfAnd(HalfOr(w, x), y), k) = NibbleBoth(NibbleAt(HalfOr(w, x), k), yk)
      BY <1>1, NibblesMove
    <3>3. NibbleAt(HalfOr(w, x), k) = NibbleOr(wk, xk) /\ NibbleAt(HalfAnd(w, x), k) = NibbleBoth(wk, xk)
      BY OrHalf, NibblesMove
    <3> HIDE DEF l, wk, xk, yk
    <3> QED BY <3>1, <3>2, <3>3
  <2>2. NibbleAt(r, k) =
          NibbleXor(NibbleXor(NibbleBoth(wk, xk), NibbleBoth(wk, yk)), NibbleBoth(xk, yk))
    BY <1>1, <1>2, NibblesMove
  <2>3. IsNibble(wk) /\ IsNibble(xk) /\ IsNibble(yk)
    BY NibblesMove
  <2> HIDE DEF wk, xk, yk, l, r
  <2> QED BY <2>1, <2>2, <2>3, MajorityNibble
<1> HIDE DEF l, r
<1>5. l = r
  BY <1>3, <1>4, SameNibbles
<1> QED BY <1>5 DEF l, r

LEMMA ParityHalf ==
  ASSUME NEW w, NEW x, NEW y, IsHalf(w), IsHalf(x), IsHalf(y)
  PROVE  HalfXor(w, HalfXor(x, y)) = HalfXor(HalfXor(w, x), y)
<1>1. IsHalf(HalfXor(x, y)) /\ IsHalf(HalfXor(w, x))
  BY HalvesStay
<1>2. ASSUME NEW k \in {0, 1, 2, 3}
      PROVE  NibbleAt(HalfXor(w, HalfXor(x, y)), k) = NibbleAt(HalfXor(HalfXor(w, x), y), k)
  <2>1. NibbleAt(HalfXor(w, HalfXor(x, y)), k) =
          NibbleXor(NibbleAt(w, k), NibbleXor(NibbleAt(x, k), NibbleAt(y, k)))
    BY <1>1, NibblesMove
  <2>2. NibbleAt(HalfXor(HalfXor(w, x), y), k) =
          NibbleXor(NibbleXor(NibbleAt(w, k), NibbleAt(x, k)), NibbleAt(y, k))
    BY <1>1, NibblesMove
  <2>3. IsNibble(NibbleAt(w, k)) /\ IsNibble(NibbleAt(x, k)) /\ IsNibble(NibbleAt(y, k))
    BY NibblesMove
  <2> QED BY <2>1, <2>2, <2>3, ParityNibble
<1>3. IsHalf(HalfXor(w, HalfXor(x, y))) /\ IsHalf(HalfXor(HalfXor(w, x), y))
  BY <1>1, HalvesStay
<1> QED BY <1>2, <1>3, SameNibbles

-----------------------------------------------------------------------------
(* Words *)

IsWord(x) == x = <<x[1], x[2]>> /\ IsHalf(x[1]) /\ IsHalf(x[2])

LEMMA WordsStay ==
  ASSUME NEW x, NEW y, IsWord(x), IsWord(y)
  PROVE  IsWord(AndW(x, y)) /\ IsWord(XorW(x, y)) /\ IsWord(OrW(x, y)) /\ IsWord(NotW(x))
<1>1. IsWord(AndW(x, y)) /\ IsWord(XorW(x, y)) /\ IsWord(NotW(x))
  BY HalvesStay DEF IsWord, AndW, XorW, NotW
<1>2. \A v, w : IsWord(v) /\ IsWord(w) => IsWord(XorW(v, w))
  BY HalvesStay DEF IsWord, XorW
<1> QED BY <1>1, <1>2 DEF OrW

LEMMA ChooseWord ==
  ASSUME NEW w, NEW x, NEW y, IsWord(w), IsWord(x), IsWord(y)
  PROVE  XorW(AndW(w, XorW(x, y)), y) = XorW(AndW(w, x), AndW(NotW(w), y))
BY ChooseHalf DEF IsWord, XorW, AndW, NotW

LEMMA MajorityWord ==
  ASSUME NEW w, NEW x, NEW y, IsWord(w), IsWord(x), IsWord(y)
  PROVE  OrW(AndW(OrW(w, x), y), AndW(w, x)) = XorW(XorW(AndW(w, x), AndW(w, y)), AndW(x, y))
<1>1. \A u, v : OrW(u, v) = <<HalfOr(u[1], v[1]), HalfOr(u[2], v[2])>>
  BY DEF OrW, XorW, AndW, HalfOr
<1> QED BY <1>1, MajorityHalf DEF IsWord, XorW, AndW

LEMMA ParityWord ==
  ASSUME NEW w, NEW x, NEW y, IsWord(w), IsWord(x), IsWord(y)
  PROVE  XorW(w, XorW(x, y)) = XorW(XorW(w, x), y)
BY ParityHalf DEF IsWord, XorW

\* What a round of sha1.hpp mixes in is the function of the standard.
LEMMA MixIsFips ==
  ASSUME NEW t \in Nat, NEW w, NEW x, NEW y, IsWord(w), IsWord(x), IsWord(y)
  PROVE  Mix(t, w, x, y) = FipsF(t, w, x, y) /\ IsWord(Mix(t, w, x, y))
<1>1. /\ IsWord(XorW(x, y)) /\ IsWord(OrW(w, x)) /\ IsWord(AndW(w, x))
  BY WordsStay
<1>2. IsWord(AndW(w, XorW(x, y))) /\ IsWord(AndW(OrW(w, x), y))
  BY <1>1, WordsStay
<1>3. /\ IsWord(XorW(AndW(w, XorW(x, y)), y)) /\ IsWord(OrW(AndW(OrW(w, x), y), AndW(w, x)))
      /\ IsWord(XorW(w, XorW(x, y)))
  BY <1>1, <1>2, WordsStay
<1> DEFINE c == XorW(AndW(w, XorW(x, y)), y)
           m == OrW(AndW(OrW(w, x), y), AndW(w, x))
           p == XorW(w, XorW(x, y))
<1>4. Mix(t, w, x, y) = IF t < 20 THEN c ELSE IF 40 <= t /\ t <= 59 THEN m ELSE p
  BY DEF Mix
<1>5. FipsF(t, w, x, y) = IF t < 20 THEN c ELSE IF 40 <= t /\ t <= 59 THEN m ELSE p
  <2>1. c = XorW(AndW(w, x), AndW(NotW(w), y)) /\ p = XorW(XorW(w, x), y)
        /\ m = XorW(XorW(AndW(w, x), AndW(w, y)), AndW(x, y))
    BY ChooseWord, MajorityWord, ParityWord
  <2> HIDE DEF c, m, p
  <2> QED BY <2>1 DEF FipsF
<1> HIDE DEF c, m, p
<1>6. IsWord(c) /\ IsWord(m) /\ IsWord(p)
  BY <1>3 DEF c, m, p
<1> QED BY <1>4, <1>5, <1>6

LEMMA RotatePowers ==
  /\ 2^1 = 2 /\ 2^5 = 32 /\ 2^14 = 16384 /\ 2^15 = 32768 /\ 2^11 = 2048 /\ 2^2 = 4
  /\ 2^16 = 65536 /\ 16 - 1 = 15 /\ 16 - 5 = 11 /\ 16 - 14 = 2 /\ 30 - 16 = 14
BY SMT

\* The three rotations there are.
LEMMA RotatedWord ==
  ASSUME NEW x, IsWord(x)
  PROVE  IsWord(Rol(x, 1)) /\ IsWord(Rol(x, 5)) /\ IsWord(Rol(x, 30))
<1>1. ASSUME NEW a, NEW b, IsHalf(a), IsHalf(b)
      PROVE  /\ IsHalf(((a * 2) % 65536) + (b \div 32768))
             /\ IsHalf(((a * 32) % 65536) + (b \div 2048))
             /\ IsHalf(((a * 16384) % 65536) + (b \div 4))
  <2>1. a \in Nat /\ b \in Nat /\ a < 65536 /\ b < 65536
    BY <1>1 DEF IsHalf
  <2>2. ((a * 2) % 65536) + (b \div 32768) \in Nat /\ ((a * 2) % 65536) + (b \div 32768) < 65536
    BY <2>1
  <2>3. ((a * 32) % 65536) + (b \div 2048) \in Nat /\ ((a * 32) % 65536) + (b \div 2048) < 65536
    BY <2>1
  <2>4. ((a * 16384) % 65536) + (b \div 4) \in Nat /\ ((a * 16384) % 65536) + (b \div 4) < 65536
    BY <2>1
  <2> QED BY <2>2, <2>3, <2>4 DEF IsHalf
<1>2. IsHalf(x[1]) /\ IsHalf(x[2])
  BY DEF IsWord
<1>3. Rol(x, 1) = <<((x[1] * 2) % 65536) + (x[2] \div 32768), ((x[2] * 2) % 65536) + (x[1] \div 32768)>>
  BY RotatePowers DEF Rol, RolLow
<1>4. Rol(x, 5) = <<((x[1] * 32) % 65536) + (x[2] \div 2048), ((x[2] * 32) % 65536) + (x[1] \div 2048)>>
  BY RotatePowers DEF Rol, RolLow
<1>5. Rol(x, 30) = <<((x[2] * 16384) % 65536) + (x[1] \div 4), ((x[1] * 16384) % 65536) + (x[2] \div 4)>>
  BY RotatePowers DEF Rol, RolLow
<1> QED BY <1>1, <1>2, <1>3, <1>4, <1>5 DEF IsWord

\* The order of a sum does not matter, and it is a word.
LEMMA SumWord ==
  ASSUME NEW v, NEW w, NEW x, NEW y, NEW z,
         IsWord(v), IsWord(w), IsWord(x), IsWord(y), IsWord(z)
  PROVE  Plus5(z, w, x, y, v) = Plus5(v, w, z, y, x) /\ IsWord(Plus5(z, w, x, y, v))
<1>1. /\ v[1] \in Nat /\ v[2] \in Nat /\ w[1] \in Nat /\ w[2] \in Nat /\ x[1] \in Nat
      /\ x[2] \in Nat /\ y[1] \in Nat /\ y[2] \in Nat /\ z[1] \in Nat /\ z[2] \in Nat
  BY DEF IsWord, IsHalf
<1> DEFINE low  == z[2] + w[2] + x[2] + y[2] + v[2]
           high == z[1] + w[1] + x[1] + y[1] + v[1]
<1>2. /\ low = v[2] + w[2] + z[2] + y[2] + x[2] /\ high = v[1] + w[1] + z[1] + y[1] + x[1]
      /\ low \in Nat /\ high \in Nat
  BY <1>1
<1>3. Plus5(z, w, x, y, v) = <<(high + (low \div 65536)) % 65536, low % 65536>>
  BY RotatePowers DEF Plus5
<1>4. Plus5(v, w, z, y, x) =
        <<((v[1] + w[1] + z[1] + y[1] + x[1]) + ((v[2] + w[2] + z[2] + y[2] + x[2]) \div 65536)) % 65536,
          (v[2] + w[2] + z[2] + y[2] + x[2]) % 65536>>
  BY RotatePowers DEF Plus5
<1> HIDE DEF low, high
<1>5. IsHalf((high + (low \div 65536)) % 65536) /\ IsHalf(low % 65536)
  BY <1>2 DEF IsHalf
<1> QED BY <1>2, <1>3, <1>4, <1>5 DEF IsWord

\* After t rounds: the code's five registers are those of the standard, each
\* called by the name it has then, and its sixteen words the last ones of the
\* schedule, and those of the block that are still to come.
SameRegisters(s, f, t) ==
  /\ s.reg = [j \in 0 .. 4 |-> s.reg[j]]
  /\ s.reg[(0 - t) % 5] = f.r[1] /\ s.reg[(1 - t) % 5] = f.r[2] /\ s.reg[(2 - t) % 5] = f.r[3]
  /\ s.reg[(3 - t) % 5] = f.r[4] /\ s.reg[(4 - t) % 5] = f.r[5]
  /\ IsWord(f.r[1]) /\ IsWord(f.r[2]) /\ IsWord(f.r[3]) /\ IsWord(f.r[4]) /\ IsWord(f.r[5])

SameWords(b, w, t, block) ==
  /\ b = [i \in 0 .. 15 |-> b[i]]
  /\ IsSequence(w) /\ Len(w) = t
  /\ \A i \in 1 .. t : IsWord(w[i])
  /\ \A i \in 0 .. 15 : i >= t => b[i] = block[i]
  /\ \A i \in Nat : i < t /\ t <= i + 16 => b[i % 16] = w[i + 1]

SameState(s, f, t, block) == SameRegisters(s, f, t) /\ SameWords(s.block, f.w, t, block)

NextWord(s, t) == IF t < 16 THEN s.block[t] ELSE Blk(s.block, t % 16)

LEMMA WordOfRound ==
  ASSUME NEW s, NEW f, NEW t \in Nat, NEW block, SameWords(s.block, f.w, t, block),
         \A i \in 0 .. 15 : IsWord(block[i])
  PROVE  NextWord(s, t) = FipsWord(t, block, f.w) /\ IsWord(NextWord(s, t))
<1> DEFINE b == s.block
           w == f.w
<1>1. CASE t < 16
  <2>1. t \in 0 .. 15
    BY <1>1
  <2>2. b[t] = block[t] /\ IsWord(block[t])
    BY <2>1 DEF SameWords
  <2> QED BY <1>1, <2>2 DEF NextWord, FipsWord
<1>2. CASE t >= 16
  <2>1. /\ t - 3 \in Nat /\ t - 8 \in Nat /\ t - 14 \in Nat /\ t - 16 \in Nat
        /\ t - 3 < t /\ t - 8 < t /\ t - 14 < t /\ t - 16 < t
        /\ t <= (t - 3) + 16 /\ t <= (t - 8) + 16 /\ t <= (t - 14) + 16 /\ t <= (t - 16) + 16
        /\ (t - 3) + 1 = t - 2 /\ (t - 8) + 1 = t - 7 /\ (t - 14) + 1 = t - 13
        /\ (t - 16) + 1 = t - 15
    BY <1>2
  <2>2. /\ (t - 3) % 16 = ((t % 16) + 13) % 16 /\ (t - 8) % 16 = ((t % 16) + 8) % 16
        /\ (t - 14) % 16 = ((t % 16) + 2) % 16 /\ (t - 16) % 16 = t % 16
    <3>1. (t - 3) % 16 = ((t % 16) + 13) % 16
      BY <1>2
    <3>2. (t - 8) % 16 = ((t % 16) + 8) % 16
      BY <1>2
    <3>3. (t - 14) % 16 = ((t % 16) + 2) % 16
      BY <1>2
    <3>4. (t - 16) % 16 = t % 16
      BY <1>2
    <3> QED BY <3>1, <3>2, <3>3, <3>4
  <2>3. /\ b[(t - 3) % 16] = w[t - 2] /\ b[(t - 8) % 16] = w[t - 7]
        /\ b[(t - 14) % 16] = w[t - 13] /\ b[(t - 16) % 16] = w[t - 15]
    <3>1. \A i \in Nat : i < t /\ t <= i + 16 => b[i % 16] = w[i + 1]
      BY DEF SameWords
    <3> HIDE DEF b, w
    <3>2. b[(t - 3) % 16] = w[(t - 3) + 1] /\ b[(t - 8) % 16] = w[(t - 8) + 1]
      BY <2>1, <3>1
    <3>3. b[(t - 14) % 16] = w[(t - 14) + 1] /\ b[(t - 16) % 16] = w[(t - 16) + 1]
      BY <2>1, <3>1
    <3> QED BY <2>1, <3>2, <3>3
  <2>4. /\ b[((t % 16) + 13) % 16] = w[t - 2] /\ b[((t % 16) + 8) % 16] = w[t - 7]
        /\ b[((t % 16) + 2) % 16] = w[t - 13] /\ b[t % 16] = w[t - 15]
    <3> HIDE DEF b, w
    <3> QED BY <2>2, <2>3
  <2>5. /\ t - 2 \in 1 .. t /\ t - 7 \in 1 .. t /\ t - 13 \in 1 .. t /\ t - 15 \in 1 .. t
    BY <1>2
  <2>6. IsWord(w[t - 2]) /\ IsWord(w[t - 7]) /\ IsWord(w[t - 13]) /\ IsWord(w[t - 15])
    BY <2>5 DEF SameWords
  <2> DEFINE x == XorW(XorW(w[t - 2], w[t - 7]), XorW(w[t - 13], w[t - 15]))
  <2>7. IsWord(x)
    BY <2>6, WordsStay
  <2>8. Blk(b, t % 16) = Rol(x, 1)
    BY <2>4 DEF Blk
  <2>9. FipsWord(t, block, w) = Rol(x, 1)
    BY <1>2 DEF FipsWord
  <2>10. NextWord(s, t) = Blk(b, t % 16)
    BY <1>2 DEF NextWord
  <2> HIDE DEF x, b, w
  <2>11. NextWord(s, t) = Rol(x, 1) /\ FipsWord(t, block, w) = Rol(x, 1) /\ IsWord(Rol(x, 1))
    BY <2>7, <2>8, <2>9, <2>10, RotatedWord
  <2> QED BY <2>11 DEF w
<1> QED BY <1>1, <1>2

LEMMA WordsAfterRound ==
  ASSUME NEW b, NEW w, NEW t \in Nat, NEW block, SameWords(b, w, t, block), NEW x, IsWord(x)
  PROVE  SameWords([b EXCEPT ![t % 16] = x], Append(w, x), t + 1, block)
<1> DEFINE c == [b EXCEPT ![t % 16] = x]
           v == Append(w, x)
<1>1. /\ IsSequence(v) /\ Len(v) = t + 1 /\ v[t + 1] = x
      /\ \A i \in 1 .. t : v[i] = w[i]
  BY AppendAny DEF SameWords
<1>2. t % 16 \in 0 .. 15
  OBVIOUS
<1>3. /\ c = [i \in 0 .. 15 |-> c[i]] /\ c[t % 16] = x
      /\ \A i \in 0 .. 15 : i # t % 16 => c[i] = b[i]
  BY <1>2 DEF SameWords
<1> HIDE DEF c, v
<1>4. \A i \in 1 .. t + 1 : IsWord(v[i])
  <2> SUFFICES ASSUME NEW i \in 1 .. t + 1 PROVE IsWord(v[i])
    OBVIOUS
  <2>1. CASE i = t + 1
    BY <1>1, <2>1
  <2>2. CASE i # t + 1
    <3>1. i \in 1 .. t
      BY <2>2
    <3> QED BY <1>1, <3>1 DEF SameWords
  <2> QED BY <2>1, <2>2
<1>5. ASSUME NEW i \in 0 .. 15, i >= t + 1 PROVE c[i] = block[i]
  <2>1. i >= t /\ i # t % 16
    BY <1>5
  <2> QED BY <1>3, <2>1 DEF SameWords
<1>6. ASSUME NEW i \in Nat, i < t + 1, t + 1 <= i + 16 PROVE c[i % 16] = v[i + 1]
  <2>1. CASE i = t
    BY <1>1, <1>3, <2>1
  <2>2. CASE i # t
    <3>1. /\ i < t /\ t <= i + 16 /\ i % 16 # t % 16 /\ i % 16 \in 0 .. 15 /\ i + 1 \in 1 .. t
      BY <1>6, <2>2
    <3>2. c[i % 16] = b[i % 16] /\ v[i + 1] = w[i + 1]
      BY <1>1, <1>3, <3>1
    <3>3. b[i % 16] = w[i + 1]
      BY <3>1 DEF SameWords
    <3> QED BY <3>2, <3>3
  <2> QED BY <2>1, <2>2
<1>7. SameWords(c, v, t + 1, block)
  BY <1>1, <1>3, <1>4, <1>5, <1>6 DEF SameWords
<1> QED BY <1>7 DEF c, v

LEMMA RegistersAfterRound ==
  ASSUME NEW s, NEW f, NEW t \in Nat, SameRegisters(s, f, t), NEW z, IsWord(z),
         NEW s2, s2.reg = [s.reg EXCEPT ![(4 - t) % 5] = z, ![(1 - t) % 5] = Rol(@, 30)],
         NEW f2, f2.r = <<z, f.r[1], Rol(f.r[2], 30), f.r[3], f.r[4]>>
  PROVE  SameRegisters(s2, f2, t + 1)
<1> DEFINE g == s.reg
           h == s2.reg
<1>1. /\ (0 - (t + 1)) % 5 = (4 - t) % 5 /\ (1 - (t + 1)) % 5 = (0 - t) % 5
      /\ (2 - (t + 1)) % 5 = (1 - t) % 5 /\ (3 - (t + 1)) % 5 = (2 - t) % 5
      /\ (4 - (t + 1)) % 5 = (3 - t) % 5
  OBVIOUS
<1>2. /\ (0 - t) % 5 \in 0 .. 4 /\ (1 - t) % 5 \in 0 .. 4 /\ (2 - t) % 5 \in 0 .. 4
      /\ (3 - t) % 5 \in 0 .. 4 /\ (4 - t) % 5 \in 0 .. 4
  OBVIOUS
<1>3. /\ (4 - t) % 5 # (0 - t) % 5 /\ (4 - t) % 5 # (1 - t) % 5 /\ (4 - t) % 5 # (2 - t) % 5
      /\ (4 - t) % 5 # (3 - t) % 5 /\ (1 - t) % 5 # (0 - t) % 5 /\ (1 - t) % 5 # (2 - t) % 5
      /\ (1 - t) % 5 # (3 - t) % 5
  OBVIOUS
<1>4. /\ h = [j \in 0 .. 4 |-> h[j]]
      /\ h[(4 - t) % 5] = z /\ h[(1 - t) % 5] = Rol(g[(1 - t) % 5], 30)
      /\ h[(0 - t) % 5] = g[(0 - t) % 5] /\ h[(2 - t) % 5] = g[(2 - t) % 5]
      /\ h[(3 - t) % 5] = g[(3 - t) % 5]
  BY <1>2, <1>3 DEF SameRegisters
<1>5. /\ h[(0 - (t + 1)) % 5] = f2.r[1] /\ h[(1 - (t + 1)) % 5] = f2.r[2]
      /\ h[(2 - (t + 1)) % 5] = f2.r[3] /\ h[(3 - (t + 1)) % 5] = f2.r[4]
      /\ h[(4 - (t + 1)) % 5] = f2.r[5]
  BY <1>1, <1>4 DEF SameRegisters
<1>6. /\ IsWord(f2.r[1]) /\ IsWord(f2.r[2]) /\ IsWord(f2.r[3]) /\ IsWord(f2.r[4])
      /\ IsWord(f2.r[5])
  BY RotatedWord DEF SameRegisters
<1> QED BY <1>4, <1>5, <1>6 DEF SameRegisters

LEMMA ConstantWord ==
  ASSUME NEW t \in Nat
  PROVE  RoundConstant(t) = FipsK(t) /\ IsWord(RoundConstant(t))
<1> DEFINE k1 == <<23170, 31129>>
           k2 == <<28377, 60321>>
           k3 == <<36635, 48348>>
           k4 == <<51810, 49622>>
<1>1. IsWord(k1) /\ IsWord(k2) /\ IsWord(k3) /\ IsWord(k4)
  BY DEF IsWord, IsHalf
<1>2. RoundConstant(t) = FipsK(t)
  BY DEF RoundConstant, FipsK
<1>3. RoundConstant(t) = k1 \/ RoundConstant(t) = k2 \/ RoundConstant(t) = k3 \/ RoundConstant(t) = k4
  BY DEF RoundConstant
<1> HIDE DEF k1, k2, k3, k4
<1> QED BY <1>1, <1>2, <1>3

LEMMA RoundIsFips ==
  ASSUME NEW s, NEW f, NEW t \in Nat, NEW block, SameState(s, f, t, block),
         \A i \in 0 .. 15 : IsWord(block[i])
  PROVE  SameState(Round(s, t), FipsRound(f, t, block), t + 1, block)
<1> DEFINE x == NextWord(s, t)
           e == f.r[5]
           m == Mix(t, f.r[2], f.r[3], f.r[4])
           k == RoundConstant(t)
           a == Rol(f.r[1], 5)
           z == Plus5(e, m, x, k, a)
           s2 == Round(s, t)
           f2 == FipsRound(f, t, block)
<1>1. x = FipsWord(t, block, f.w) /\ IsWord(x)
  BY WordOfRound DEF SameState
<1>2. m = FipsF(t, f.r[2], f.r[3], f.r[4]) /\ IsWord(m)
  BY MixIsFips DEF SameState, SameRegisters
<1>3. k = FipsK(t) /\ IsWord(k)
  BY ConstantWord
<1>4. IsWord(a) /\ IsWord(e)
  BY RotatedWord DEF SameState, SameRegisters
<1>5. Plus5(e, m, x, k, a) = Plus5(a, m, e, k, x) /\ IsWord(z)
  <2> HIDE DEF x, m, k, a, e
  <2> QED BY <1>1, <1>2, <1>3, <1>4, SumWord
<1>6. /\ s.reg[(4 - t) % 5] = e /\ s.reg[(0 - t) % 5] = f.r[1] /\ s.reg[(1 - t) % 5] = f.r[2]
      /\ s.reg[(2 - t) % 5] = f.r[3] /\ s.reg[(3 - t) % 5] = f.r[4]
  BY DEF SameState, SameRegisters
<1>7. s2 = [block |-> [s.block EXCEPT ![t % 16] = x],
            reg   |-> [s.reg EXCEPT ![(4 - t) % 5] = z, ![(1 - t) % 5] = Rol(@, 30)]]
  BY <1>6 DEF Round, NextWord
<1>8. f2 = [w |-> Append(f.w, x),
            r |-> <<Plus5(a, m, e, k, x), f.r[1], Rol(f.r[2], 30), f.r[3], f.r[4]>>]
  BY <1>1, <1>2, <1>3 DEF FipsRound
<1> HIDE DEF x, e, m, k, a, s2, f2
<1>9. SameWords(s2.block, f2.w, t + 1, block)
  BY <1>1, <1>7, <1>8, WordsAfterRound DEF SameState
<1>10. f2.r = <<z, f.r[1], Rol(f.r[2], 30), f.r[3], f.r[4]>>
  BY <1>5, <1>8
<1>11. s2.reg = [s.reg EXCEPT ![(4 - t) % 5] = z, ![(1 - t) % 5] = Rol(@, 30)]
  BY <1>7
<1> HIDE DEF z
<1>12. SameRegisters(s2, f2, t + 1)
  BY <1>5, <1>10, <1>11, RegistersAfterRound DEF SameState
<1> QED BY <1>9, <1>12 DEF SameState, s2, f2

-----------------------------------------------------------------------------
(* The recursive functions *)

LEMMA RoundsValue ==
  ASSUME NEW digest, NEW block
  PROVE  LET f == Rounds(digest, block)
         IN  /\ f[0] = [block |-> block, reg |-> [j \in 0 .. 4 |-> digest[j + 1]]]
             /\ \A n \in Nat : n < ROUNDS => f[n + 1] = Round(f[n], n)
<1> DEFINE x == [block |-> block, reg |-> [j \in 0 .. 4 |-> digest[j + 1]]]
           S == {n \in Nat : \E g : g = [t \in 0 .. n |-> IF t = 0 THEN x ELSE Round(g[t - 1], t - 1)]}
           f == Rounds(digest, block)
<1> HIDE DEF x
<1>1. 0 \in S
  <2> DEFINE g == [t \in 0 .. 0 |-> x]
  <2>1. g = [t \in 0 .. 0 |-> IF t = 0 THEN x ELSE Round(g[t - 1], t - 1)]
    OBVIOUS
  <2> HIDE DEF g
  <2> QED BY <2>1
<1>2. ASSUME NEW n \in Nat, n \in S PROVE n + 1 \in S
  <2>1. PICK g : g = [t \in 0 .. n |-> IF t = 0 THEN x ELSE Round(g[t - 1], t - 1)]
    BY <1>2
  <2> DEFINE h == [t \in 0 .. n + 1 |-> IF t = 0 THEN x ELSE Round(g[t - 1], t - 1)]
  <2>2. \A t \in 0 .. n : h[t] = g[t]
    BY <2>1
  <2>3. h = [t \in 0 .. n + 1 |-> IF t = 0 THEN x ELSE Round(h[t - 1], t - 1)]
    <3>1. \A t \in 0 .. n + 1 : t # 0 => t - 1 \in 0 .. n
      OBVIOUS
    <3>2. \A t \in 0 .. n + 1 : t # 0 => h[t - 1] = g[t - 1]
      BY <2>2, <3>1
    <3>3. \A t \in 0 .. n + 1 : h[t] = IF t = 0 THEN x ELSE Round(g[t - 1], t - 1)
      OBVIOUS
    <3> DEFINE hh == h
    <3>4. h = [t \in 0 .. n + 1 |-> hh[t]]
      OBVIOUS
    <3> HIDE DEF h, hh
    <3>5. \A t \in 0 .. n + 1 : hh[t] = IF t = 0 THEN x ELSE Round(h[t - 1], t - 1)
      BY <3>2, <3>3 DEF hh
    <3> QED BY <3>4, <3>5
  <2> HIDE DEF h
  <2> QED BY <2>3
<1> HIDE DEF S
<1>3. ROUNDS \in Nat
  BY DEF ROUNDS
<1>4. ROUNDS \in S
  BY <1>1, <1>2, <1>3, InductionOverSet
<1>5. f = [t \in 0 .. ROUNDS |-> IF t = 0 THEN x ELSE Round(f[t - 1], t - 1)]
  BY <1>4 DEF Rounds, x, S
<1> HIDE DEF f
<1>6. f[0] = x
  BY <1>3, <1>5
<1>7. ASSUME NEW n \in Nat, n < ROUNDS PROVE f[n + 1] = Round(f[n], n)
  <2>1. n + 1 \in 0 .. ROUNDS /\ n + 1 # 0 /\ (n + 1) - 1 = n
    BY <1>3, <1>7
  <2>2. f[n + 1] = IF n + 1 = 0 THEN x ELSE Round(f[(n + 1) - 1], (n + 1) - 1)
    BY <1>5, <2>1
  <2> QED BY <2>1, <2>2
<1> QED BY <1>6, <1>7 DEF f, x

LEMMA FipsRoundsValue ==
  ASSUME NEW hash, NEW block
  PROVE  LET f == FipsRounds(hash, block)
         IN  /\ f[0] = [w |-> << >>, r |-> hash]
             /\ \A n \in Nat : n < ROUNDS => f[n + 1] = FipsRound(f[n], n, block)
<1> DEFINE x == [w |-> << >>, r |-> hash]
           S == {n \in Nat : \E g : g = [t \in 0 .. n |-> IF t = 0 THEN x ELSE FipsRound(g[t - 1], t - 1, block)]}
           f == FipsRounds(hash, block)
<1> HIDE DEF x
<1>1. 0 \in S
  <2> DEFINE g == [t \in 0 .. 0 |-> x]
  <2>1. g = [t \in 0 .. 0 |-> IF t = 0 THEN x ELSE FipsRound(g[t - 1], t - 1, block)]
    OBVIOUS
  <2> HIDE DEF g
  <2> QED BY <2>1
<1>2. ASSUME NEW n \in Nat, n \in S PROVE n + 1 \in S
  <2>1. PICK g : g = [t \in 0 .. n |-> IF t = 0 THEN x ELSE FipsRound(g[t - 1], t - 1, block)]
    BY <1>2
  <2> DEFINE h == [t \in 0 .. n + 1 |-> IF t = 0 THEN x ELSE FipsRound(g[t - 1], t - 1, block)]
  <2>2. \A t \in 0 .. n : h[t] = g[t]
    BY <2>1
  <2>3. h = [t \in 0 .. n + 1 |-> IF t = 0 THEN x ELSE FipsRound(h[t - 1], t - 1, block)]
    <3>1. \A t \in 0 .. n + 1 : t # 0 => t - 1 \in 0 .. n
      OBVIOUS
    <3>2. \A t \in 0 .. n + 1 : t # 0 => h[t - 1] = g[t - 1]
      BY <2>2, <3>1
    <3>3. \A t \in 0 .. n + 1 : h[t] = IF t = 0 THEN x ELSE FipsRound(g[t - 1], t - 1, block)
      OBVIOUS
    <3> DEFINE hh == h
    <3>4. h = [t \in 0 .. n + 1 |-> hh[t]]
      OBVIOUS
    <3> HIDE DEF h, hh
    <3>5. \A t \in 0 .. n + 1 : hh[t] = IF t = 0 THEN x ELSE FipsRound(h[t - 1], t - 1, block)
      BY <3>2, <3>3 DEF hh
    <3> QED BY <3>4, <3>5
  <2> HIDE DEF h
  <2> QED BY <2>3
<1> HIDE DEF S
<1>3. ROUNDS \in Nat
  BY DEF ROUNDS
<1>4. ROUNDS \in S
  BY <1>1, <1>2, <1>3, InductionOverSet
<1>5. f = [t \in 0 .. ROUNDS |-> IF t = 0 THEN x ELSE FipsRound(f[t - 1], t - 1, block)]
  BY <1>4 DEF FipsRounds, x, S
<1> HIDE DEF f
<1>6. f[0] = x
  BY <1>3, <1>5
<1>7. ASSUME NEW n \in Nat, n < ROUNDS PROVE f[n + 1] = FipsRound(f[n], n, block)
  <2>1. n + 1 \in 0 .. ROUNDS /\ n + 1 # 0 /\ (n + 1) - 1 = n
    BY <1>3, <1>7
  <2>2. f[n + 1] = IF n + 1 = 0 THEN x ELSE FipsRound(f[(n + 1) - 1], (n + 1) - 1, block)
    BY <1>5, <2>1
  <2> QED BY <2>1, <2>2
<1> QED BY <1>6, <1>7 DEF f, x

LEMMA AbsorbedValue ==
  ASSUME NEW sha, NEW all, Len(all) \in Nat
  PROVE  LET f == Absorbed(sha, all)
         IN  /\ f[0] = sha
             /\ \A n \in Nat : n < Len(all) \div 64 => f[n + 1] = Compressed(f[n], BufferToBlock(BlockOf(all, n + 1)))
<1> DEFINE x == sha
           S == {n \in Nat : \E g : g = [t \in 0 .. n |-> IF t = 0 THEN x ELSE Compressed(g[t - 1], BufferToBlock(BlockOf(all, t)))]}
           f == Absorbed(sha, all)
<1> HIDE DEF x
<1>1. 0 \in S
  <2> DEFINE g == [t \in 0 .. 0 |-> x]
  <2>1. g = [t \in 0 .. 0 |-> IF t = 0 THEN x ELSE Compressed(g[t - 1], BufferToBlock(BlockOf(all, t)))]
    OBVIOUS
  <2> HIDE DEF g
  <2> QED BY <2>1
<1>2. ASSUME NEW n \in Nat, n \in S PROVE n + 1 \in S
  <2>1. PICK g : g = [t \in 0 .. n |-> IF t = 0 THEN x ELSE Compressed(g[t - 1], BufferToBlock(BlockOf(all, t)))]
    BY <1>2
  <2> DEFINE h == [t \in 0 .. n + 1 |-> IF t = 0 THEN x ELSE Compressed(g[t - 1], BufferToBlock(BlockOf(all, t)))]
  <2>2. \A t \in 0 .. n : h[t] = g[t]
    BY <2>1
  <2>3. h = [t \in 0 .. n + 1 |-> IF t = 0 THEN x ELSE Compressed(h[t - 1], BufferToBlock(BlockOf(all, t)))]
    <3>1. \A t \in 0 .. n + 1 : t # 0 => t - 1 \in 0 .. n
      OBVIOUS
    <3>2. \A t \in 0 .. n + 1 : t # 0 => h[t - 1] = g[t - 1]
      BY <2>2, <3>1
    <3>3. \A t \in 0 .. n + 1 : h[t] = IF t = 0 THEN x ELSE Compressed(g[t - 1], BufferToBlock(BlockOf(all, t)))
      OBVIOUS
    <3> DEFINE hh == h
    <3>4. h = [t \in 0 .. n + 1 |-> hh[t]]
      OBVIOUS
    <3> HIDE DEF h, hh
    <3>5. \A t \in 0 .. n + 1 : hh[t] = IF t = 0 THEN x ELSE Compressed(h[t - 1], BufferToBlock(BlockOf(all, t)))
      BY <3>2, <3>3 DEF hh
    <3> QED BY <3>4, <3>5
  <2> HIDE DEF h
  <2> QED BY <2>3
<1> HIDE DEF S
<1>3. Len(all) \div 64 \in Nat
  OBVIOUS
<1>4. Len(all) \div 64 \in S
  BY <1>1, <1>2, <1>3, InductionOverSet
<1>5. f = [t \in 0 .. Len(all) \div 64 |-> IF t = 0 THEN x ELSE Compressed(f[t - 1], BufferToBlock(BlockOf(all, t)))]
  <2>1. BLOCK_BYTES = 64
    BY DEF BLOCK_BYTES, BLOCK_INTS
  <2> QED BY <1>4, <2>1 DEF Absorbed, x, S
<1> HIDE DEF f
<1>6. f[0] = x
  BY <1>3, <1>5
<1>7. ASSUME NEW n \in Nat, n < Len(all) \div 64 PROVE f[n + 1] = Compressed(f[n], BufferToBlock(BlockOf(all, n + 1)))
  <2>1. n + 1 \in 0 .. Len(all) \div 64 /\ n + 1 # 0 /\ (n + 1) - 1 = n
    BY <1>3, <1>7
  <2>2. f[n + 1] = IF n + 1 = 0 THEN x ELSE Compressed(f[(n + 1) - 1], BufferToBlock(BlockOf(all, n + 1)))
    BY <1>5, <2>1
  <2> QED BY <2>1, <2>2
<1> QED BY <1>6, <1>7 DEF f, x

LEMMA FipsBlocksValue ==
  ASSUME NEW padded, Len(padded) \in Nat
  PROVE  LET f == FipsBlocks(padded)
         IN  /\ f[0] = InitialDigest
             /\ \A n \in Nat : n < Len(padded) \div 64 => f[n + 1] = FipsCompress(f[n], BlockOf(padded, n + 1))
<1> DEFINE x == InitialDigest
           S == {n \in Nat : \E g : g = [t \in 0 .. n |-> IF t = 0 THEN x ELSE FipsCompress(g[t - 1], BlockOf(padded, t))]}
           f == FipsBlocks(padded)
<1> HIDE DEF x
<1>1. 0 \in S
  <2> DEFINE g == [t \in 0 .. 0 |-> x]
  <2>1. g = [t \in 0 .. 0 |-> IF t = 0 THEN x ELSE FipsCompress(g[t - 1], BlockOf(padded, t))]
    OBVIOUS
  <2> HIDE DEF g
  <2> QED BY <2>1
<1>2. ASSUME NEW n \in Nat, n \in S PROVE n + 1 \in S
  <2>1. PICK g : g = [t \in 0 .. n |-> IF t = 0 THEN x ELSE FipsCompress(g[t - 1], BlockOf(padded, t))]
    BY <1>2
  <2> DEFINE h == [t \in 0 .. n + 1 |-> IF t = 0 THEN x ELSE FipsCompress(g[t - 1], BlockOf(padded, t))]
  <2>2. \A t \in 0 .. n : h[t] = g[t]
    BY <2>1
  <2>3. h = [t \in 0 .. n + 1 |-> IF t = 0 THEN x ELSE FipsCompress(h[t - 1], BlockOf(padded, t))]
    <3>1. \A t \in 0 .. n + 1 : t # 0 => t - 1 \in 0 .. n
      OBVIOUS
    <3>2. \A t \in 0 .. n + 1 : t # 0 => h[t - 1] = g[t - 1]
      BY <2>2, <3>1
    <3>3. \A t \in 0 .. n + 1 : h[t] = IF t = 0 THEN x ELSE FipsCompress(g[t - 1], BlockOf(padded, t))
      OBVIOUS
    <3> DEFINE hh == h
    <3>4. h = [t \in 0 .. n + 1 |-> hh[t]]
      OBVIOUS
    <3> HIDE DEF h, hh
    <3>5. \A t \in 0 .. n + 1 : hh[t] = IF t = 0 THEN x ELSE FipsCompress(h[t - 1], BlockOf(padded, t))
      BY <3>2, <3>3 DEF hh
    <3> QED BY <3>4, <3>5
  <2> HIDE DEF h
  <2> QED BY <2>3
<1> HIDE DEF S
<1>3. Len(padded) \div 64 \in Nat
  OBVIOUS
<1>4. Len(padded) \div 64 \in S
  BY <1>1, <1>2, <1>3, InductionOverSet
<1>5. f = [t \in 0 .. Len(padded) \div 64 |-> IF t = 0 THEN x ELSE FipsCompress(f[t - 1], BlockOf(padded, t))]
  BY <1>4 DEF FipsBlocks, x, S
<1> HIDE DEF f
<1>6. f[0] = x
  BY <1>3, <1>5
<1>7. ASSUME NEW n \in Nat, n < Len(padded) \div 64 PROVE f[n + 1] = FipsCompress(f[n], BlockOf(padded, n + 1))
  <2>1. n + 1 \in 0 .. Len(padded) \div 64 /\ n + 1 # 0 /\ (n + 1) - 1 = n
    BY <1>3, <1>7
  <2>2. f[n + 1] = IF n + 1 = 0 THEN x ELSE FipsCompress(f[(n + 1) - 1], BlockOf(padded, n + 1))
    BY <1>5, <2>1
  <2> QED BY <2>1, <2>2
<1> QED BY <1>6, <1>7 DEF f, x

IsDigest(d) == d = [j \in 1 .. 5 |-> d[j]] /\ \A j \in 1 .. 5 : IsWord(d[j])

LEMMA PlusWord == ASSUME NEW x, NEW y, IsWord(x), IsWord(y) PROVE IsWord(Plus(x, y))
<1>1. x[1] \in Nat /\ x[2] \in Nat /\ y[1] \in Nat /\ y[2] \in Nat
  BY DEF IsWord, IsHalf
<1>2. Plus(x, y) = <<(x[1] + y[1] + ((x[2] + y[2]) \div 65536)) % 65536, (x[2] + y[2]) % 65536>>
  BY RotatePowers DEF Plus
<1>3. /\ IsHalf((x[1] + y[1] + ((x[2] + y[2]) \div 65536)) % 65536)
      /\ IsHalf((x[2] + y[2]) % 65536)
  BY <1>1 DEF IsHalf
<1> QED BY <1>2, <1>3 DEF IsWord

\* transform, on any block of words, is the compression of the standard.
LEMMA RoundsAreFips ==
  ASSUME NEW digest, IsDigest(digest), NEW block, block = [i \in 0 .. 15 |-> block[i]],
         \A i \in 0 .. 15 : IsWord(block[i])
  PROVE  SameState(Rounds(digest, block)[ROUNDS], FipsRounds(digest, block)[ROUNDS], ROUNDS, block)
<1> DEFINE s == Rounds(digest, block)
           f == FipsRounds(digest, block)
           S == {n \in Nat : n > ROUNDS \/ SameState(s[n], f[n], n, block)}
<1>1. /\ s[0] = [block |-> block, reg |-> [j \in 0 .. 4 |-> digest[j + 1]]]
      /\ \A n \in Nat : n < ROUNDS => s[n + 1] = Round(s[n], n)
  BY RoundsValue
<1>2. /\ f[0] = [w |-> << >>, r |-> digest]
      /\ \A n \in Nat : n < ROUNDS => f[n + 1] = FipsRound(f[n], n, block)
  BY FipsRoundsValue
<1>3. ROUNDS \in Nat
  BY DEF ROUNDS
<1> HIDE DEF s, f
<1>4. SameState(s[0], f[0], 0, block)
  <2>1. /\ s[0].block = block /\ s[0].reg = [j \in 0 .. 4 |-> digest[j + 1]]
        /\ f[0].w = << >> /\ f[0].r = digest
    BY <1>1, <1>2
  <2>2. /\ (0 - 0) % 5 = 0 /\ (1 - 0) % 5 = 1 /\ (2 - 0) % 5 = 2 /\ (3 - 0) % 5 = 3
        /\ (4 - 0) % 5 = 4
    OBVIOUS
  <2>3. SameRegisters(s[0], f[0], 0)
    BY <2>1, <2>2 DEF SameRegisters, IsDigest
  <2>4. SameWords(block, << >>, 0, block)
    <3>1. IsSequence(<< >>) /\ Len(<< >>) = 0
      BY EmptySeq DEF IsSequence
    <3> QED BY <3>1 DEF SameWords
  <2> QED BY <2>1, <2>3, <2>4 DEF SameState
<1>5. 0 \in S
  BY <1>4
<1>6. ASSUME NEW n \in Nat, n \in S PROVE n + 1 \in S
  <2>1. CASE n + 1 > ROUNDS
    BY <2>1
  <2>2. CASE ~ (n + 1 > ROUNDS)
    <3>1. n < ROUNDS /\ ~ (n > ROUNDS)
      BY <1>3, <2>2
    <3>2. SameState(s[n], f[n], n, block)
      BY <1>6, <3>1
    <3>3. s[n + 1] = Round(s[n], n) /\ f[n + 1] = FipsRound(f[n], n, block)
      BY <1>1, <1>2, <3>1
    <3>4. SameState(s[n + 1], f[n + 1], n + 1, block)
      BY <3>2, <3>3, RoundIsFips
    <3> QED BY <3>4
  <2> QED BY <2>1, <2>2
<1> HIDE DEF S
<1>7. ROUNDS \in S
  BY <1>3, <1>5, <1>6, InductionOverSet
<1>8. ~ (ROUNDS > ROUNDS)
  BY <1>3
<1>9. SameState(s[ROUNDS], f[ROUNDS], ROUNDS, block)
  BY <1>7, <1>8 DEF S
<1> QED BY <1>9 DEF s, f

LEMMA TransformIsFips ==
  ASSUME NEW digest, IsDigest(digest), NEW bytes,
         \A i \in 0 .. 15 : IsWord(BufferToBlock(bytes)[i])
  PROVE  /\ Transform(digest, BufferToBlock(bytes)) = FipsCompress(digest, bytes)
         /\ IsDigest(FipsCompress(digest, bytes))
<1> DEFINE block == BufferToBlock(bytes)
           r == Rounds(digest, block)[ROUNDS].reg
           q == FipsRounds(digest, block)[ROUNDS].r
<1>1. block = [i \in 0 .. 15 |-> block[i]]
  BY DEF BufferToBlock, BLOCK_INTS
<1>2. SameState(Rounds(digest, block)[ROUNDS], FipsRounds(digest, block)[ROUNDS], ROUNDS, block)
  <2> HIDE DEF block
  <2> QED BY <1>1, RoundsAreFips DEF block
<1>3. /\ (0 - ROUNDS) % 5 = 0 /\ (1 - ROUNDS) % 5 = 1 /\ (2 - ROUNDS) % 5 = 2
      /\ (3 - ROUNDS) % 5 = 3 /\ (4 - ROUNDS) % 5 = 4
  <2>1. ASSUME NEW j \in 0 .. 4, NEW n \in Nat, n = 80 PROVE (j - n) % 5 = j
    BY <2>1
  <2>2. ROUNDS \in Nat /\ ROUNDS = 80
    BY DEF ROUNDS
  <2>3. \A j \in 0 .. 4 : (j - ROUNDS) % 5 = j
    <3>1. TAKE j \in 0 .. 4
    <3> QED BY <2>1, <2>2, Zenon
  <2>4. 0 \in 0 .. 4 /\ 1 \in 0 .. 4 /\ 2 \in 0 .. 4 /\ 3 \in 0 .. 4 /\ 4 \in 0 .. 4
    OBVIOUS
  <2> QED BY <2>3, <2>4, Zenon
<1>4. /\ r[0] = q[1] /\ r[1] = q[2] /\ r[2] = q[3] /\ r[3] = q[4] /\ r[4] = q[5]
      /\ IsWord(q[1]) /\ IsWord(q[2]) /\ IsWord(q[3]) /\ IsWord(q[4]) /\ IsWord(q[5])
  BY <1>2, <1>3 DEF SameState, SameRegisters
<1>5. /\ Transform(digest, block) = [j \in 1 .. 5 |-> Plus(digest[j], r[j - 1])]
      /\ FipsCompress(digest, bytes) = [j \in 1 .. 5 |-> Plus(digest[j], q[j])]
  BY DEF Transform, FipsCompress
<1> HIDE DEF block, r, q
<1>6. \A j \in 1 .. 5 : r[j - 1] = q[j] /\ IsWord(q[j])
  BY <1>4
<1>7. \A j \in 1 .. 5 : IsWord(Plus(digest[j], q[j]))
  BY <1>6, PlusWord DEF IsDigest
<1>8. Transform(digest, block) = FipsCompress(digest, bytes)
  BY <1>5, <1>6
<1>9. IsDigest(FipsCompress(digest, bytes))
  BY <1>5, <1>7 DEF IsDigest
<1> QED BY <1>8, <1>9 DEF block

-----------------------------------------------------------------------------
(* Texts and blocks *)

SameBytes(u, v, n) == \A m \in Nat : 0 < m /\ m <= n => u[m] = v[m]

LEMMA BlocksOfBytes ==
  ASSUME NEW s \in Seq(Octets), Len(s) >= 64
  PROVE  \A i \in 0 .. 15 : IsWord(BufferToBlock(s)[i])
<1> SUFFICES ASSUME NEW i \in 0 .. 15 PROVE IsWord(BufferToBlock(s)[i])
  OBVIOUS
<1>1. Len(s) \in Nat
  BY OctetsOf
<1>2. /\ 4 * i + 1 \in 1 .. Len(s) /\ 4 * i + 2 \in 1 .. Len(s)
      /\ 4 * i + 3 \in 1 .. Len(s) /\ 4 * i + 4 \in 1 .. Len(s)
  BY <1>1
<1>3. \A m \in 1 .. Len(s) : s[m] \in Nat /\ s[m] < 256
  BY OctetsOf
<1>4. \A x, y \in Nat : x < 256 /\ y < 256 => IsHalf(x * 256 + y)
  BY DEF IsHalf
<1>5. IsHalf(s[4 * i + 1] * 256 + s[4 * i + 2]) /\ IsHalf(s[4 * i + 3] * 256 + s[4 * i + 4])
  BY <1>2, <1>3, <1>4
<1>6. BufferToBlock(s)[i] = <<s[4 * i + 1] * 256 + s[4 * i + 2], s[4 * i + 3] * 256 + s[4 * i + 4]>>
  BY DEF BufferToBlock, BLOCK_INTS
<1> QED BY <1>5, <1>6 DEF IsWord

LEMMA SameBlocks ==
  ASSUME NEW u, NEW v, SameBytes(u, v, 64)
  PROVE  BufferToBlock(u) = BufferToBlock(v)
<1>1. ASSUME NEW i \in 0 .. 15
      PROVE  /\ u[4 * i + 1] = v[4 * i + 1] /\ u[4 * i + 2] = v[4 * i + 2]
             /\ u[4 * i + 3] = v[4 * i + 3] /\ u[4 * i + 4] = v[4 * i + 4]
  <2>1. /\ 4 * i + 1 \in Nat /\ 0 < 4 * i + 1 /\ 4 * i + 1 <= 64
        /\ 4 * i + 2 \in Nat /\ 0 < 4 * i + 2 /\ 4 * i + 2 <= 64
        /\ 4 * i + 3 \in Nat /\ 0 < 4 * i + 3 /\ 4 * i + 3 <= 64
        /\ 4 * i + 4 \in Nat /\ 0 < 4 * i + 4 /\ 4 * i + 4 <= 64
    OBVIOUS
  <2> QED BY <2>1 DEF SameBytes
<1>2. BLOCK_INTS - 1 = 15
  BY DEF BLOCK_INTS
<1> QED BY <1>1, <1>2 DEF BufferToBlock

LEMMA BlockBytes == BLOCK_BYTES = 64
BY DEF BLOCK_BYTES, BLOCK_INTS

LEMMA BlockOfText ==
  ASSUME NEW s \in Seq(Octets), NEW k \in Nat, 64 * (k + 1) <= Len(s)
  PROVE  /\ BlockOf(s, k + 1) \in Seq(Octets) /\ Len(BlockOf(s, k + 1)) = 64
         /\ \A m \in Nat : 0 < m /\ m <= 64 => BlockOf(s, k + 1)[m] = s[64 * k + m]
<1> DEFINE b == BlockOf(s, k + 1)
           a == 64 * k + 1
           n == 64
<1>1. Len(s) \in Nat
  BY OctetsOf
<1>2. /\ a \in Nat \ {0} /\ a + n <= Len(s) + 1 /\ n \in Nat
  BY <1>1
<1>3. b = SubSeq(s, a, a + n - 1)
  <2>1. (k + 1) - 1 = k /\ 64 * (k + 1) = a + n - 1
    OBVIOUS
  <2> QED BY <2>1, BlockBytes DEF BlockOf
<1>4. a - 1 = 64 * k
  OBVIOUS
<1>5. \A m \in Nat : 0 < m /\ m <= 64 => m \in 1 .. n
  OBVIOUS
<1>6. n = 64
  OBVIOUS
<1> HIDE DEF a, b, n
<1>7. /\ b \in Seq(Octets) /\ Len(b) = n
      /\ \A m \in 1 .. n : b[m] = s[(a - 1) + m]
  BY <1>2, <1>3, Slice
<1> QED BY <1>4, <1>5, <1>6, <1>7 DEF b

-----------------------------------------------------------------------------
(* What the standard pads a message with *)

\* How many zeroes precede the length, when r bytes are left of the message
\* after its whole blocks, and how many blocks follow those.
ZeroesAfter(r) == IF r < 56 THEN 55 - r ELSE 119 - r
BlocksAfter(r) == IF r < 56 THEN 1 ELSE 2

\* The four bytes of the length, as the standard writes them.
LengthByte(bits, i) == (bits \div 256^(4 - i)) % 256
LengthBytes(bits) == [i \in 1 .. 4 |-> LengthByte(bits, i)]

IsFewest(n, r, z, q) ==
  /\ (CHOOSE k \in 0 .. 63 : (n + 1 + k + 8) % 64 = 0) = z
  /\ z \in Nat
  /\ n + z + 9 = 64 * q

LEMMA ZeroesAreTheFewest ==
  ASSUME NEW B \in Nat, NEW r \in 0 .. 63, NEW n, n = 64 * B + r
  PROVE  IsFewest(n, r, ZeroesAfter(r), B + BlocksAfter(r))
<1> DEFINE z == ZeroesAfter(r)
<1>1. z \in 0 .. 63 /\ n + z + 9 = 64 * (B + BlocksAfter(r))
  BY DEF ZeroesAfter, BlocksAfter
<1>2. B + BlocksAfter(r) \in Nat /\ n \in Nat /\ z \in Nat
  BY <1>1 DEF BlocksAfter
<1> HIDE DEF z
<1>3. ASSUME NEW q \in Nat, NEW k \in 0 .. 63, n + z + 9 = 64 * q, (n + 1 + k + 8) % 64 = 0
      PROVE  k = z
  <2>1. n + 1 + k + 8 = 64 * ((n + 1 + k + 8) \div 64)
    BY <1>2, <1>3
  <2>2. PICK p \in Nat : n + 1 + k + 8 = 64 * p
    BY <1>2, <2>1
  <2>3. k - z = 64 * (p - q)
    BY <1>2, <1>3, <2>2
  <2> QED BY <1>1, <2>3
<1>4. (n + 1 + z + 8) % 64 = 0
  <2>1. ASSUME NEW q \in Nat PROVE (64 * q) % 64 = 0
    OBVIOUS
  <2>2. n + 1 + z + 8 = 64 * (B + BlocksAfter(r))
    BY <1>1, <1>2
  <2> QED BY <1>2, <2>1, <2>2
<1>5. \A k \in 0 .. 63 : (n + 1 + k + 8) % 64 = 0 => k = z
  BY <1>1, <1>2, <1>3
<1>6. (CHOOSE k \in 0 .. 63 : (n + 1 + k + 8) % 64 = 0) = z
  BY <1>1, <1>4, <1>5
<1> QED BY <1>1, <1>2, <1>6 DEF z, IsFewest

LEMMA PowersOfBytes ==
  256^0 = 1 /\ 256^1 = 256 /\ 256^2 = 65536 /\ 256^3 = 16777216
BY SMT

LEMMA FourIsSequence ==
  ASSUME NEW T, NEW f \in [1 .. 4 -> T]
  PROVE  f \in Seq(T) /\ Len(f) = 4
<1>1. f \in Seq(T)
  BY SeqDef
<1>2. Len(f) \in Nat /\ 1 .. Len(f) = 1 .. 4
  BY <1>1, LenProperties
<1> QED BY <1>1, <1>2

LEMMA FourthPowers == 4 - 1 = 3 /\ 4 - 2 = 2 /\ 4 - 3 = 1 /\ 4 - 4 = 0
OBVIOUS

LEMMA FirstByte == \A bits \in Nat : LengthByte(bits, 1) = (bits \div 16777216) % 256
BY FourthPowers, PowersOfBytes, SMT DEF LengthByte

LEMMA SecondByte == \A bits \in Nat : LengthByte(bits, 2) = (bits \div 65536) % 256
BY FourthPowers, PowersOfBytes, SMT DEF LengthByte

LEMMA ThirdByte == \A bits \in Nat : LengthByte(bits, 3) = (bits \div 256) % 256
BY FourthPowers, PowersOfBytes, SMT DEF LengthByte

LEMMA FourthByte == \A bits \in Nat : LengthByte(bits, 4) = bits % 256
BY FourthPowers, PowersOfBytes, SMT DEF LengthByte

LEMMA LengthBytesAre ==
  ASSUME NEW bits \in Nat
  PROVE  /\ LengthBytes(bits) \in Seq(Octets) /\ Len(LengthBytes(bits)) = 4
         /\ \A i \in 1 .. 4 : LengthBytes(bits)[i] = LengthByte(bits, i)
<1>1. \A i \in 1 .. 4 : LengthByte(bits, i) \in Octets
  <2>1. \A x \in Nat : x % 256 \in Octets
    BY DEF Octets
  <2>2. bits \div 16777216 \in Nat /\ bits \div 65536 \in Nat /\ bits \div 256 \in Nat
    BY SMT
  <2>3. ASSUME NEW p, NEW x \in Nat, p = x % 256 PROVE p \in Octets
    BY <2>1, <2>3
  <2>4. LengthByte(bits, 1) \in Octets
    BY <2>2, <2>3, FirstByte, SMT
  <2>5. LengthByte(bits, 2) \in Octets
    BY <2>2, <2>3, SecondByte, SMT
  <2>6. LengthByte(bits, 3) \in Octets
    BY <2>2, <2>3, ThirdByte, SMT
  <2>7. LengthByte(bits, 4) \in Octets
    BY <2>2, <2>3, FourthByte, SMT
  <2> QED BY <2>4, <2>5, <2>6, <2>7
<1>2. LengthBytes(bits) \in [1 .. 4 -> Octets]
  BY <1>1 DEF LengthBytes
<1>3. LengthBytes(bits) \in Seq(Octets) /\ Len(LengthBytes(bits)) = 4
  BY <1>2, FourIsSequence
<1>4. \A i \in 1 .. 4 : LengthBytes(bits)[i] = LengthByte(bits, i)
  BY DEF LengthBytes
<1> QED BY <1>3, <1>4

\* The words that the last two of a block become.
LEMMA LengthWords ==
  ASSUME NEW bits \in Nat, bits \div 65536 < 65536
  PROVE  /\ LengthByte(bits, 1) * 256 + LengthByte(bits, 2) = bits \div 65536
         /\ LengthByte(bits, 3) * 256 + LengthByte(bits, 4) = bits % 65536
<1>1. bits \div 65536 \in Nat /\ bits \div 65536 < 65536 /\ bits % 65536 \in Nat /\ bits % 65536 < 65536
  BY SMT
<1>2. bits = 65536 * (bits \div 65536) + (bits % 65536)
  BY SMT
<1>3. ASSUME NEW h \in Nat, NEW l \in Nat, h < 65536, l < 65536, NEW b, b = 65536 * h + l
      PROVE  /\ ((b \div 16777216) % 256) * 256 + ((b \div 65536) % 256) = h
             /\ ((b \div 256) % 256) * 256 + (b % 256) = l
  <2>1. b \div 16777216 = h \div 256 /\ b \div 65536 = h
    BY <1>3, SMT
  <2>2. (b \div 256) % 256 = l \div 256 /\ b % 256 = l % 256
    BY <1>3, SMT
  <2>3. (h \div 256) % 256 = h \div 256
    BY <1>3, SMT
  <2>4. (h \div 256) * 256 + (h % 256) = h /\ (l \div 256) * 256 + (l % 256) = l
    BY SMT
  <2>5. (b \div 16777216) % 256 = h \div 256 /\ (b \div 65536) % 256 = h % 256
    BY <2>1, <2>3, SMT
  <2>6. ((b \div 16777216) % 256) * 256 + ((b \div 65536) % 256) = (h \div 256) * 256 + (h % 256)
    BY <2>5, SMT
  <2>7. ((b \div 256) % 256) * 256 + (b % 256) = (l \div 256) * 256 + (l % 256)
    BY <2>2, SMT
  <2> QED BY <2>4, <2>6, <2>7, SMT
<1>4. /\ ((bits \div 16777216) % 256) * 256 + ((bits \div 65536) % 256) = bits \div 65536
      /\ ((bits \div 256) % 256) * 256 + (bits % 256) = bits % 65536
  <2>1. \A h, l \in Nat : h < 65536 /\ l < 65536 /\ bits = 65536 * h + l
            => /\ ((bits \div 16777216) % 256) * 256 + ((bits \div 65536) % 256) = h
               /\ ((bits \div 256) % 256) * 256 + (bits % 256) = l
    BY <1>3, SMT
  <2> QED BY <1>1, <1>2, <2>1, SMT
<1>5. ASSUME NEW x, NEW y, NEW p \in Nat, NEW q \in Nat, x = p, y = q
      PROVE  x * 256 + y = p * 256 + q
  BY <1>5
<1>6. /\ (bits \div 16777216) % 256 \in Nat /\ (bits \div 65536) % 256 \in Nat
      /\ (bits \div 256) % 256 \in Nat /\ bits % 256 \in Nat
  BY SMT
<1>9. LengthByte(bits, 1) * 256 + LengthByte(bits, 2)
          = ((bits \div 16777216) % 256) * 256 + ((bits \div 65536) % 256)
  <2>1. ASSUME NEW p \in Nat, NEW q \in Nat, LengthByte(bits, 1) = p, LengthByte(bits, 2) = q
        PROVE  LengthByte(bits, 1) * 256 + LengthByte(bits, 2) = p * 256 + q
    BY <1>5, <2>1
  <2> QED BY <1>6, <2>1, FirstByte, SecondByte, SMT
<1>10. LengthByte(bits, 3) * 256 + LengthByte(bits, 4)
           = ((bits \div 256) % 256) * 256 + (bits % 256)
  <2>1. ASSUME NEW p \in Nat, NEW q \in Nat, LengthByte(bits, 3) = p, LengthByte(bits, 4) = q
        PROVE  LengthByte(bits, 3) * 256 + LengthByte(bits, 4) = p * 256 + q
    BY <1>5, <2>1
  <2> QED BY <1>6, <2>1, ThirdByte, FourthByte, SMT
<1> QED BY <1>4, <1>9, <1>10, SMT

\* Two texts, one after the other.
IsJoined(w, u, v) ==
  /\ w \in Seq(Octets) /\ Len(w) = Len(u) + Len(v)
  /\ \A m \in Nat : 0 < m /\ m <= Len(u) => w[m] = u[m]
  /\ \A m \in Nat : 0 < m /\ m <= Len(v) => w[Len(u) + m] = v[m]

LEMMA JoinedTexts ==
  ASSUME NEW u \in Seq(Octets), NEW v \in Seq(Octets)
  PROVE  IsJoined(u \o v, u, v)
<1> DEFINE w == u \o v
<1>1. /\ w \in Seq(Octets) /\ Len(w) = Len(u) + Len(v)
      /\ \A i \in 1 .. Len(u) + Len(v) : w[i] = IF i <= Len(u) THEN u[i] ELSE v[i - Len(u)]
  BY ConcatProperties, Zenon
<1> HIDE DEF w
<1>2. Len(u) \in Nat /\ Len(v) \in Nat
  BY OctetsOf
<1>3. ASSUME NEW m \in Nat, 0 < m, m <= Len(u) PROVE w[m] = u[m]
  <2>1. m \in 1 .. Len(u) + Len(v)
    BY <1>2, <1>3
  <2> QED BY <1>1, <1>3, <2>1
<1>4. ASSUME NEW m \in Nat, 0 < m, m <= Len(v) PROVE w[Len(u) + m] = v[m]
  <2>1. /\ Len(u) + m \in 1 .. Len(u) + Len(v) /\ ~ (Len(u) + m <= Len(u))
        /\ (Len(u) + m) - Len(u) = m
    BY <1>2, <1>4
  <2> QED BY <1>1, <2>1
<1> QED BY <1>1, <1>3, <1>4 DEF w, IsJoined

\* A text, the byte that marks its end, and n zeroes.
Marked(s, n) == s \o <<128>> \o [i \in 1 .. n |-> 0]

IsMarked(w, s, n) ==
  /\ w \in Seq(Octets) /\ Len(w) = Len(s) + 1 + n
  /\ \A m \in Nat : 0 < m /\ m <= Len(s) => w[m] = s[m]
  /\ w[Len(s) + 1] = 128
  /\ \A m \in Nat : Len(s) + 1 < m /\ m <= Len(s) + 1 + n => w[m] = 0

LEMMA MarkedText ==
  ASSUME NEW s \in Seq(Octets), NEW n \in Nat
  PROVE  IsMarked(Marked(s, n), s, n)
<1> DEFINE z == [i \in 1 .. n |-> 0]
           t == s \o <<128>>
<1>1. 0 \in Octets /\ 128 \in Octets
  BY DEF Octets
<1>2. z \in [1 .. n -> Octets]
  BY <1>1
<1>3. z \in Seq(Octets) /\ Len(z) = n
  BY <1>2, FunctionIsSeq
<1>4. \A i \in 1 .. n : z[i] = 0
  OBVIOUS
<1>5. <<128>> \in Seq(Octets) /\ Len(<<128>>) = 1 /\ <<128>>[1] = 128
  BY <1>1
<1>6. Len(s) \in Nat
  BY OctetsOf
<1> DEFINE mark == <<128>>
<1>7. mark \in Seq(Octets) /\ Len(mark) = 1 /\ mark[1] = 128
  BY <1>5
<1> HIDE DEF z, mark
<1>8. /\ s \o mark \in Seq(Octets) /\ Len(s \o mark) = Len(s) + Len(mark)
      /\ \A m \in Nat : 0 < m /\ m <= Len(s) => (s \o mark)[m] = s[m]
      /\ \A m \in Nat : 0 < m /\ m <= Len(mark) => (s \o mark)[Len(s) + m] = mark[m]
  <2>1. IsJoined(s \o mark, s, mark)
    BY <1>7, JoinedTexts
  <2> QED BY <2>1 DEF IsJoined
<1>9. Len(s \o mark) = Len(s) + 1 /\ (s \o mark)[Len(s) + 1] = 128
  BY <1>7, <1>8
<1> DEFINE u == s \o mark
<1> HIDE DEF u
<1>10. /\ u \in Seq(Octets) /\ Len(u) = Len(s) + 1
       /\ \A m \in Nat : 0 < m /\ m <= Len(s) => u[m] = s[m]
       /\ u[Len(s) + 1] = 128
  BY <1>8, <1>9 DEF u
<1>11. /\ u \o z \in Seq(Octets) /\ Len(u \o z) = Len(u) + Len(z)
       /\ \A m \in Nat : 0 < m /\ m <= Len(u) => (u \o z)[m] = u[m]
       /\ \A m \in Nat : 0 < m /\ m <= Len(z) => (u \o z)[Len(u) + m] = z[m]
  <2>1. IsJoined(u \o z, u, z)
    BY <1>3, <1>10, JoinedTexts
  <2> QED BY <2>1 DEF IsJoined
<1>12. Len(u \o z) = Len(s) + 1 + n
  BY <1>3, <1>10, <1>11
<1>13. \A m \in Nat : 0 < m /\ m <= Len(s) + 1 => (u \o z)[m] = u[m]
  BY <1>10, <1>11
<1>14. \A m \in Nat : Len(s) + 1 < m /\ m <= Len(s) + 1 + n => (u \o z)[m] = 0
  <2> SUFFICES ASSUME NEW m \in Nat, Len(s) + 1 < m, m <= Len(s) + 1 + n PROVE (u \o z)[m] = 0
    OBVIOUS
  <2>1. PICK i \in 1 .. n : m = Len(u) + i
    <3>1. m - Len(u) \in 1 .. n /\ m = Len(u) + (m - Len(u))
      BY <1>6, <1>10
    <3> QED BY <3>1
  <2>2. i \in Nat /\ 0 < i /\ i <= Len(z)
    BY <1>3
  <2> QED BY <1>4, <1>11, <2>1, <2>2
<1>15. Marked(s, n) = u \o z
  BY DEF Marked, u, z, mark
<1>16. \A m \in Nat : 0 < m /\ m <= Len(s) => (u \o z)[m] = s[m]
  BY <1>6, <1>10, <1>13
<1>17. (u \o z)[Len(s) + 1] = 128
  BY <1>6, <1>10, <1>13
<1> QED BY <1>11, <1>12, <1>14, <1>15, <1>16, <1>17 DEF IsMarked

\* The padded message, by position.
IsPadded(p, msg, q) ==
  /\ p \in Seq(Octets) /\ Len(p) = 64 * q
  /\ \A m \in Nat : 0 < m /\ m <= Len(msg) => p[m] = msg[m]
  /\ p[Len(msg) + 1] = 128
  /\ \A m \in Nat : Len(msg) + 1 < m /\ m <= 64 * q - 4 => p[m] = 0
  /\ \A i \in 1 .. 4 : p[64 * q - 4 + i] = LengthByte(8 * Len(msg), i)

LEMMA PaddedMessage ==
  ASSUME NEW msg \in Seq(Octets), NEW B \in Nat, NEW r \in 0 .. 63, Len(msg) = 64 * B + r
  PROVE  IsPadded(FipsPadded(msg), msg, B + BlocksAfter(r))
<1> DEFINE z == ZeroesAfter(r)
           q == B + BlocksAfter(r)
           l == LengthBytes(8 * Len(msg))
           u == Marked(msg, z + 4)
           n == Len(msg)
<1>1. n \in Nat /\ 8 * n \in Nat
  BY OctetsOf
<1>2. /\ (CHOOSE k \in 0 .. 63 : (n + 1 + k + 8) % 64 = 0) = z /\ z \in Nat
      /\ n + z + 9 = 64 * q
  <2>1. IsFewest(n, r, z, q)
    BY ZeroesAreTheFewest
  <2> QED BY <2>1 DEF IsFewest
<1>3. FipsPadded(msg) = u \o l
  BY <1>2 DEF FipsPadded, Marked, LengthBytes, LengthByte
<1>4. /\ l \in Seq(Octets) /\ Len(l) = 4
      /\ \A i \in 1 .. 4 : l[i] = LengthByte(8 * n, i)
  BY <1>1, LengthBytesAre
<1>5. q \in Nat
  BY DEF BlocksAfter
<1>6. z + 4 \in Nat
  BY <1>2
<1> HIDE DEF l, z, q
<1>7. /\ u \in Seq(Octets) /\ Len(u) = n + 1 + (z + 4)
      /\ \A m \in Nat : 0 < m /\ m <= n => u[m] = msg[m]
      /\ u[n + 1] = 128
      /\ \A m \in Nat : n + 1 < m /\ m <= n + 1 + (z + 4) => u[m] = 0
  <2>1. IsMarked(Marked(msg, z + 4), msg, z + 4)
    BY <1>6, MarkedText
  <2> QED BY <2>1 DEF IsMarked
<1> HIDE DEF n, u
<1>8. Len(u) = 64 * q - 4 /\ Len(u) \in Nat /\ n + 1 <= Len(u) /\ Len(u) + 4 = 64 * q
  BY <1>1, <1>2, <1>5, <1>7
<1>9. /\ u \o l \in Seq(Octets) /\ Len(u \o l) = Len(u) + Len(l)
      /\ \A m \in Nat : 0 < m /\ m <= Len(u) => (u \o l)[m] = u[m]
      /\ \A m \in Nat : 0 < m /\ m <= Len(l) => (u \o l)[Len(u) + m] = l[m]
  <2>1. IsJoined(u \o l, u, l)
    BY <1>4, <1>7, JoinedTexts
  <2> QED BY <2>1 DEF IsJoined
<1>10. \A m \in Nat : 0 < m /\ m <= Len(u) => (u \o l)[m] = u[m]
  BY <1>9
<1>11. \A m \in Nat : 0 < m /\ m <= n => (u \o l)[m] = msg[m]
  BY <1>1, <1>7, <1>8, <1>10
<1>12. (u \o l)[n + 1] = 128
  BY <1>1, <1>7, <1>8, <1>10
<1>13. \A m \in Nat : n + 1 < m /\ m <= 64 * q - 4 => (u \o l)[m] = 0
  <2>1. \A m \in Nat : n + 1 < m /\ m <= 64 * q - 4 => 0 < m /\ m <= Len(u) /\ m <= n + 1 + (z + 4)
    BY <1>1, <1>7, <1>8
  <2> QED BY <1>7, <1>10, <2>1
<1>14. \A i \in 1 .. 4 : (u \o l)[64 * q - 4 + i] = LengthByte(8 * n, i)
  <2>1. TAKE i \in 1 .. 4
  <2>2. 64 * q - 4 + i = Len(u) + i
    BY <1>8
  <2>3. i \in Nat /\ 0 < i /\ i <= Len(l)
    BY <1>4
  <2> QED BY <1>4, <1>9, <2>2, <2>3
<1>15. Len(u \o l) = 64 * q
  BY <1>4, <1>8, <1>9
<1> HIDE DEF n
<1>16. /\ u \o l \in Seq(Octets) /\ Len(u \o l) = 64 * q
       /\ \A m \in Nat : 0 < m /\ m <= n => (u \o l)[m] = msg[m]
       /\ (u \o l)[n + 1] = 128
       /\ \A m \in Nat : n + 1 < m /\ m <= 64 * q - 4 => (u \o l)[m] = 0
       /\ \A i \in 1 .. 4 : (u \o l)[64 * q - 4 + i] = LengthByte(8 * n, i)
  BY <1>9, <1>11, <1>12, <1>13, <1>14, <1>15
<1>17. /\ u \o l = FipsPadded(msg)
       /\ q = B + BlocksAfter(r) /\ n = Len(msg)
  BY <1>3 DEF n, q
<1> QED BY <1>16, <1>17 DEF IsPadded

-----------------------------------------------------------------------------
(* The object takes a message in as the standard does *)

LEMMA InitialDigestIs == IsDigest(InitialDigest)
<1> DEFINE d == InitialDigest
<1>1. d = << <<26437, 8961>>, <<61389, 43913>>, <<39098, 56574>>, <<4146, 21622>>, <<50130, 57840>> >>
  BY DEF InitialDigest
<1>2. /\ IsWord(<<26437, 8961>>) /\ IsWord(<<61389, 43913>>) /\ IsWord(<<39098, 56574>>)
      /\ IsWord(<<4146, 21622>>) /\ IsWord(<<50130, 57840>>)
  BY DEF IsWord, IsHalf
<1>3. d = [j \in 1 .. 5 |-> d[j]]
  BY <1>1
<1>4. /\ d[1] = <<26437, 8961>> /\ d[2] = <<61389, 43913>> /\ d[3] = <<39098, 56574>>
      /\ d[4] = <<4146, 21622>> /\ d[5] = <<50130, 57840>>
  BY <1>1
<1> HIDE DEF d
<1>5. IsWord(d[1]) /\ IsWord(d[2]) /\ IsWord(d[3]) /\ IsWord(d[4]) /\ IsWord(d[5])
  BY <1>2, <1>4
<1>6. \A j \in 1 .. 5 : IsWord(d[j])
  BY <1>5
<1> QED BY <1>3, <1>6 DEF IsDigest, d

LEMMA CompressedIsFips ==
  ASSUME NEW d, IsDigest(d), NEW b, NEW n, NEW bytes \in Seq(Octets), Len(bytes) >= 64
  PROVE  /\ Compressed([digest |-> d, buffer |-> b, transforms |-> n], BufferToBlock(bytes)) =
              [digest |-> FipsCompress(d, bytes), buffer |-> b, transforms |-> n + 1]
         /\ IsDigest(FipsCompress(d, bytes))
<1>1. \A i \in 0 .. 15 : IsWord(BufferToBlock(bytes)[i])
  BY BlocksOfBytes
<1>2. Transform(d, BufferToBlock(bytes)) = FipsCompress(d, bytes) /\ IsDigest(FipsCompress(d, bytes))
  BY <1>1, TransformIsFips
<1> DEFINE c == Transform(d, BufferToBlock(bytes))
<1>3. Compressed([digest |-> d, buffer |-> b, transforms |-> n], BufferToBlock(bytes)) =
         [digest |-> c, buffer |-> b, transforms |-> n + 1]
  <2> HIDE DEF c
  <2>1. Compressed([digest |-> d, buffer |-> b, transforms |-> n], BufferToBlock(bytes)) =
          [[digest |-> d, buffer |-> b, transforms |-> n] EXCEPT !.digest = c, !.transforms = n + 1]
    BY DEF Compressed, c
  <2> QED BY <2>1
<1> QED BY <1>2, <1>3

LEMMA SameBlockOf ==
  ASSUME NEW s \in Seq(Octets), NEW t \in Seq(Octets), NEW k \in Nat,
         64 * (k + 1) <= Len(s), 64 * (k + 1) <= Len(t),
         \A m \in Nat : 0 < m /\ m <= 64 * (k + 1) => s[m] = t[m]
  PROVE  BufferToBlock(BlockOf(s, k + 1)) = BufferToBlock(BlockOf(t, k + 1))
<1>1. \A m \in Nat : 0 < m /\ m <= 64 => BlockOf(s, k + 1)[m] = s[64 * k + m]
  BY BlockOfText
<1>2. \A m \in Nat : 0 < m /\ m <= 64 => BlockOf(t, k + 1)[m] = t[64 * k + m]
  BY BlockOfText
<1>3. \A m \in Nat : 0 < m /\ m <= 64 => s[64 * k + m] = t[64 * k + m]
  <2>1. \A m \in Nat : 0 < m /\ m <= 64
            => 64 * k + m \in Nat /\ 0 < 64 * k + m /\ 64 * k + m <= 64 * (k + 1)
    OBVIOUS
  <2> QED BY <2>1
<1>4. SameBytes(BlockOf(s, k + 1), BlockOf(t, k + 1), 64)
  BY <1>1, <1>2, <1>3 DEF SameBytes
<1> QED BY <1>4, SameBlocks

\* After n blocks of the message.
HasAbsorbed(sha, d, n) ==
  sha = [digest |-> d, buffer |-> << >>, transforms |-> n] /\ IsDigest(d)

LEMMA AbsorbedIsFips ==
  ASSUME NEW msg \in Seq(Octets), NEW B \in Nat, NEW r \in 0 .. 63, Len(msg) = 64 * B + r,
         NEW p, IsPadded(p, msg, B + BlocksAfter(r))
  PROVE  HasAbsorbed(Absorbed(New, msg)[B], FipsBlocks(p)[B], B)
<1> DEFINE f == Absorbed(New, msg)
           g == FipsBlocks(p)
           S == {n \in Nat : n > B \/ HasAbsorbed(f[n], g[n], n)}
<1>1. Len(msg) \in Nat /\ Len(msg) \div 64 = B /\ 64 * B <= Len(msg)
  BY OctetsOf
<1>2. p \in Seq(Octets) /\ Len(p) = 64 * (B + BlocksAfter(r)) /\ BlocksAfter(r) \in Nat
  BY DEF IsPadded, BlocksAfter
<1>3. Len(p) \in Nat /\ Len(p) \div 64 = B + BlocksAfter(r) /\ 64 * B <= Len(p)
  <2>1. ASSUME NEW q \in Nat PROVE 64 * q \in Nat /\ (64 * q) \div 64 = q
    OBVIOUS
  <2>2. ASSUME NEW c \in Nat PROVE B + c \in Nat /\ 64 * B <= 64 * (B + c)
    OBVIOUS
  <2> DEFINE c == BlocksAfter(r)
  <2> HIDE DEF c
  <2>3. c \in Nat /\ Len(p) = 64 * (B + c)
    BY <1>2 DEF c
  <2>4. B + c \in Nat /\ 64 * B <= 64 * (B + c)
    BY <2>2, <2>3
  <2>5. 64 * (B + c) \in Nat /\ (64 * (B + c)) \div 64 = B + c
    BY <2>1, <2>4
  <2>6. Len(p) \in Nat /\ Len(p) \div 64 = B + c /\ 64 * B <= Len(p)
    BY <2>3, <2>4, <2>5
  <2> QED BY <2>6 DEF c
<1>4. f[0] = New /\ \A n \in Nat : n < B => f[n + 1] = Compressed(f[n], BufferToBlock(BlockOf(msg, n + 1)))
  BY <1>1, AbsorbedValue
<1>5. g[0] = InitialDigest /\ \A n \in Nat : n < B => g[n + 1] = FipsCompress(g[n], BlockOf(p, n + 1))
  <2>1. /\ g[0] = InitialDigest
        /\ \A n \in Nat : n < Len(p) \div 64 => g[n + 1] = FipsCompress(g[n], BlockOf(p, n + 1))
    BY <1>3, FipsBlocksValue
  <2>2. \A n \in Nat : n < B => n < Len(p) \div 64
    BY <1>2, <1>3
  <2> QED BY <2>1, <2>2
<1>6. \A m \in Nat : 0 < m /\ m <= Len(msg) => p[m] = msg[m]
  BY DEF IsPadded
<1> HIDE DEF f, g
<1>7. 0 \in S
  BY <1>4, <1>5, InitialDigestIs DEF HasAbsorbed, New
<1>8. ASSUME NEW n \in Nat, n \in S PROVE n + 1 \in S
  <2>1. CASE n + 1 > B
    BY <2>1
  <2>2. CASE ~ (n + 1 > B)
    <3>1. n < B /\ ~ (n > B) /\ 64 * (n + 1) <= Len(msg) /\ 64 * (n + 1) <= Len(p)
      BY <1>1, <1>3, <2>2
    <3>2. f[n] = [digest |-> g[n], buffer |-> << >>, transforms |-> n] /\ IsDigest(g[n])
      BY <1>8, <3>1 DEF HasAbsorbed
    <3>3. \A m \in Nat : 0 < m /\ m <= 64 * (n + 1) => p[m] = msg[m]
      <4>1. 64 * (n + 1) \in Nat
        OBVIOUS
      <4>2. ASSUME NEW k \in Nat, k <= Len(msg), NEW m \in Nat, m <= k PROVE m <= Len(msg)
        BY <1>1, <4>2
      <4>3. ASSUME NEW m \in Nat, 0 < m, m <= 64 * (n + 1) PROVE p[m] = msg[m]
        <5>1. m <= Len(msg)
          BY <3>1, <4>1, <4>2, <4>3
        <5> QED BY <1>6, <4>3, <5>1
      <4> QED BY <4>3
    <3>4. p \in Seq(Octets) /\ 64 * (n + 1) <= Len(msg) /\ 64 * (n + 1) <= Len(p)
      BY <1>2, <3>1
    <3>5. BufferToBlock(BlockOf(msg, n + 1)) = BufferToBlock(BlockOf(p, n + 1))
      BY <3>3, <3>4, SameBlockOf
    <3>6. BlockOf(p, n + 1) \in Seq(Octets) /\ Len(BlockOf(p, n + 1)) >= 64
      <4>1. BlockOf(p, n + 1) \in Seq(Octets) /\ Len(BlockOf(p, n + 1)) = 64
        BY <3>4, BlockOfText
      <4>2. 64 >= 64
        OBVIOUS
      <4> QED BY <4>1, <4>2
    <3>7. /\ Compressed(f[n], BufferToBlock(BlockOf(p, n + 1))) =
               [digest |-> FipsCompress(g[n], BlockOf(p, n + 1)), buffer |-> << >>, transforms |-> n + 1]
          /\ IsDigest(FipsCompress(g[n], BlockOf(p, n + 1)))
      BY <3>2, <3>6, CompressedIsFips
    <3>8. f[n + 1] = Compressed(f[n], BufferToBlock(BlockOf(p, n + 1)))
      BY <1>4, <3>1, <3>5
    <3>9. g[n + 1] = FipsCompress(g[n], BlockOf(p, n + 1))
      BY <1>5, <3>1
    <3>10. HasAbsorbed(f[n + 1], g[n + 1], n + 1)
      BY <3>7, <3>8, <3>9 DEF HasAbsorbed
    <3> QED BY <3>10
  <2> QED BY <2>1, <2>2
<1> HIDE DEF S
<1>9. B \in S
  BY <1>7, <1>8, InductionOverSet
<1>10. ~ (B > B)
  OBVIOUS
<1> QED BY <1>9, <1>10 DEF S, f, g

-----------------------------------------------------------------------------
(* The last blocks *)

\* The block after the one that the marker overflowed into.
Cleared(block) == [i \in 0 .. 15 |-> IF i < 14 THEN Zero ELSE block[i]]

FinalSteps(sha, block, bits, r) ==
  /\ r < 56 => Final(sha) = Compressed(sha, WithLength(block, bits)).digest
  /\ ~ (r < 56) => Final(sha) =
         Compressed(Compressed(sha, block), WithLength(Cleared(block), bits)).digest

LEMMA FinalIs ==
  ASSUME NEW sha, NEW r \in 0 .. 63, Len(sha.buffer) = r, sha.transforms \in Nat
  PROVE  FinalSteps(sha, BufferToBlock(Marked(sha.buffer, 63 - r)), (sha.transforms * 64 + r) * 8, r)
<1> DEFINE block == BufferToBlock(Marked(sha.buffer, 63 - r))
           bits  == (sha.transforms * 64 + r) * 8
<1>1. /\ 64 - (Len(sha.buffer) + 1) = 63 - r
      /\ BLOCK_BYTES - (Len(sha.buffer) + 1) = 63 - r
      /\ (sha.transforms * BLOCK_BYTES + Len(sha.buffer)) * 8 = bits
      /\ TwoBlocks(Len(sha.buffer) + 1) <=> ~ (r < 56)
      /\ BLOCK_INTS - 1 = 15 /\ BLOCK_INTS - 2 = 14
  BY BlockBytes DEF TwoBlocks, BLOCK_INTS
<1>2. Marked(sha.buffer, 63 - r) =
        sha.buffer \o <<128>> \o [i \in 1 .. BLOCK_BYTES - (Len(sha.buffer) + 1) |-> 0]
  BY <1>1 DEF Marked
<1>3. Cleared(block) = [i \in 0 .. BLOCK_INTS - 1 |-> IF i < BLOCK_INTS - 2 THEN Zero ELSE block[i]]
  BY <1>1 DEF Cleared
<1>4. Final(sha) =
        Compressed(IF TwoBlocks(Len(sha.buffer) + 1) THEN Compressed(sha, block) ELSE sha,
                   WithLength(IF TwoBlocks(Len(sha.buffer) + 1) THEN Cleared(block) ELSE block,
                              bits)).digest
  <2> HIDE DEF bits
  <2> QED BY <1>1, <1>2, <1>3 DEF Final
<1> HIDE DEF block, bits
<1> QED BY <1>1, <1>4 DEF block, bits, FinalSteps

IsBlock(block)        == block = [i \in 0 .. 15 |-> block[i]]
SameFront(block, c)   == \A i \in 0 .. 13 : block[i] = c[i]
FitsAWord(bits)       == bits \in Nat /\ bits \div 65536 < 65536
EndsInLength(v, bits) ==
  (\A m \in 57 .. 60 : v[m] = 0) /\ (\A i \in 1 .. 4 : v[60 + i] = LengthByte(bits, i))

\* A block that ends in the length.
LEMMA LengthBlock ==
  ASSUME NEW block, IsBlock(block), NEW bits, FitsAWord(bits),
         NEW v, SameFront(block, BufferToBlock(v)), EndsInLength(v, bits)
  PROVE  WithLength(block, bits) = BufferToBlock(v)
<1>0. /\ block = [i \in 0 .. 15 |-> block[i]] /\ bits \in Nat /\ bits \div 65536 < 65536
      /\ \A i \in 0 .. 13 : block[i] = BufferToBlock(v)[i]
      /\ \A m \in 57 .. 60 : v[m] = 0
      /\ \A i \in 1 .. 4 : v[60 + i] = LengthByte(bits, i)
  BY SMT DEF IsBlock, FitsAWord, SameFront, EndsInLength
<1> DEFINE w == WithLength(block, bits)
           b == BufferToBlock(v)
           h == <<bits \div 65536, bits % 65536>>
<1>1. 2^16 = 65536 /\ BLOCK_INTS - 1 = 15 /\ BLOCK_INTS - 2 = 14
  BY RotatePowers DEF BLOCK_INTS
<1>2. w = [block EXCEPT ![15] = h, ![14] = Zero]
  BY <1>0, <1>1 DEF WithLength
<1>3. b = [i \in 0 .. 15 |-> b[i]]
  BY <1>1 DEF BufferToBlock
<1>4. b[15] = <<v[61] * 256 + v[62], v[63] * 256 + v[64]>>
  <2>1. 4 * 15 + 1 = 61 /\ 4 * 15 + 2 = 62 /\ 4 * 15 + 3 = 63 /\ 4 * 15 + 4 = 64
    OBVIOUS
  <2> QED BY <1>1, <2>1 DEF BufferToBlock
<1>5. b[14] = <<v[57] * 256 + v[58], v[59] * 256 + v[60]>>
  <2>1. 4 * 14 + 1 = 57 /\ 4 * 14 + 2 = 58 /\ 4 * 14 + 3 = 59 /\ 4 * 14 + 4 = 60
    OBVIOUS
  <2> QED BY <1>1, <2>1 DEF BufferToBlock
<1>6. b[14] = Zero
  <2>1. v[57] = 0 /\ v[58] = 0 /\ v[59] = 0 /\ v[60] = 0
    BY <1>0
  <2>2. 0 * 256 + 0 = 0
    OBVIOUS
  <2> HIDE DEF b
  <2> QED BY <1>5, <2>1, <2>2 DEF Zero
<1>7. b[15] = h
  <2>1. 60 + 1 = 61 /\ 60 + 2 = 62 /\ 60 + 3 = 63 /\ 60 + 4 = 64
    OBVIOUS
  <2>2. v[61] = LengthByte(bits, 1) /\ v[62] = LengthByte(bits, 2)
        /\ v[63] = LengthByte(bits, 3) /\ v[64] = LengthByte(bits, 4)
    BY <1>0, <2>1
  <2>3. /\ LengthByte(bits, 1) * 256 + LengthByte(bits, 2) = bits \div 65536
        /\ LengthByte(bits, 3) * 256 + LengthByte(bits, 4) = bits % 65536
    BY <1>0, LengthWords
  <2> HIDE DEF b
  <2>4. b[15] = <<LengthByte(bits, 1) * 256 + LengthByte(bits, 2),
                 LengthByte(bits, 3) * 256 + LengthByte(bits, 4)>>
    BY <1>4, <2>2
  <2> QED BY <2>3, <2>4
<1>8. \A i \in 0 .. 13 : w[i] = b[i]
  BY <1>0, <1>2
<1>9. w[14] = Zero /\ w[15] = h /\ w = [i \in 0 .. 15 |-> w[i]]
  <2> HIDE DEF h
  <2> QED BY <1>0, <1>2
<1> HIDE DEF w, b, h
<1>10. \A i \in 0 .. 15 : i \in 0 .. 13 \/ i = 14 \/ i = 15
  OBVIOUS
<1>11. \A i \in 0 .. 15 : w[i] = b[i]
  BY <1>6, <1>7, <1>8, <1>9, <1>10
<1> QED BY <1>3, <1>9, <1>11 DEF w, b

\* The fourteen words before the length.
LEMMA SameWordsBefore ==
  ASSUME NEW u, NEW v, SameBytes(u, v, 56)
  PROVE  SameFront(BufferToBlock(u), BufferToBlock(v))
<1>1. ASSUME NEW i \in 0 .. 13
      PROVE  /\ u[4 * i + 1] = v[4 * i + 1] /\ u[4 * i + 2] = v[4 * i + 2]
             /\ u[4 * i + 3] = v[4 * i + 3] /\ u[4 * i + 4] = v[4 * i + 4]
  <2>1. /\ 4 * i + 1 \in Nat /\ 0 < 4 * i + 1 /\ 4 * i + 1 <= 56
        /\ 4 * i + 2 \in Nat /\ 0 < 4 * i + 2 /\ 4 * i + 2 <= 56
        /\ 4 * i + 3 \in Nat /\ 0 < 4 * i + 3 /\ 4 * i + 3 <= 56
        /\ 4 * i + 4 \in Nat /\ 0 < 4 * i + 4 /\ 4 * i + 4 <= 56
    OBVIOUS
  <2> QED BY <2>1 DEF SameBytes
<1>2. BLOCK_INTS - 1 = 15
  BY DEF BLOCK_INTS
<1>3. \A i \in 0 .. 13 : i \in 0 .. 15
  OBVIOUS
<1> QED BY <1>1, <1>2, <1>3 DEF BufferToBlock, SameFront

LEMMA ZeroWordsBefore ==
  ASSUME NEW v, \A m \in Nat : 0 < m /\ m <= 56 => v[m] = 0, NEW block
  PROVE  SameFront(Cleared(block), BufferToBlock(v)) /\ IsBlock(Cleared(block))
<1>1. ASSUME NEW i \in 0 .. 13
      PROVE  v[4 * i + 1] = 0 /\ v[4 * i + 2] = 0 /\ v[4 * i + 3] = 0 /\ v[4 * i + 4] = 0
  <2>1. /\ 4 * i + 1 \in Nat /\ 0 < 4 * i + 1 /\ 4 * i + 1 <= 56
        /\ 4 * i + 2 \in Nat /\ 0 < 4 * i + 2 /\ 4 * i + 2 <= 56
        /\ 4 * i + 3 \in Nat /\ 0 < 4 * i + 3 /\ 4 * i + 3 <= 56
        /\ 4 * i + 4 \in Nat /\ 0 < 4 * i + 4 /\ 4 * i + 4 <= 56
    OBVIOUS
  <2> QED BY <2>1
<1>2. BLOCK_INTS - 1 = 15 /\ 0 * 256 + 0 = 0
  BY DEF BLOCK_INTS
<1>3. \A i \in 0 .. 13 : i \in 0 .. 15
  OBVIOUS
<1>4. ASSUME NEW i \in 0 .. 13
      PROVE  BufferToBlock(v)[i] = <<v[4 * i + 1] * 256 + v[4 * i + 2], v[4 * i + 3] * 256 + v[4 * i + 4]>>
  BY <1>2, <1>3 DEF BufferToBlock
<1>5. \A i \in 0 .. 13 : BufferToBlock(v)[i] = Zero
  BY <1>1, <1>2, <1>4 DEF Zero
<1>6. \A i \in 0 .. 13 : Cleared(block)[i] = Zero
  BY DEF Cleared
<1>7. IsBlock(Cleared(block))
  BY DEF Cleared, IsBlock
<1> QED BY <1>5, <1>6, <1>7 DEF SameFront

\* What is left of the message after its B whole blocks.
IsRest(b, msg, B, r) ==
  /\ Len(msg) = 64 * B + r /\ b \in Seq(Octets) /\ Len(b) = r
  /\ \A m \in Nat : 0 < m /\ m <= r => b[m] = msg[64 * B + m]

\* u is p from its block k on, as far as the length that ends it.
Agrees(u, p, k, q) ==
  \A m \in Nat : 0 < m /\ m <= 64 /\ 64 * k + m <= 64 * q - 4 => u[m] = p[64 * k + m]

IsBlockAt(v, p, k) == \A m \in Nat : 0 < m /\ m <= 64 => v[m] = p[64 * k + m]

LEMMA PaddedBlock ==
  ASSUME NEW msg, NEW p, NEW q \in Nat, IsPadded(p, msg, q), NEW k \in Nat, k < q
  PROVE  IsBlockAt(BlockOf(p, k + 1), p, k)
<1>1. p \in Seq(Octets) /\ 64 * (k + 1) <= Len(p)
  BY DEF IsPadded
<1> QED BY <1>1, BlockOfText DEF IsBlockAt

\* The partial block, marked and filled up, is the padded message from there on.
LEMMA MarkedIsPadded ==
  ASSUME NEW msg, NEW B \in Nat, NEW r \in 0 .. 63, NEW b, IsRest(b, msg, B, r),
         NEW q \in Nat, NEW p, IsPadded(p, msg, q)
  PROVE  Agrees(Marked(b, 63 - r), p, B, q)
<1> DEFINE u == Marked(b, 63 - r)
<1>0. /\ Len(msg) = 64 * B + r /\ b \in Seq(Octets) /\ Len(b) = r
      /\ \A m \in Nat : 0 < m /\ m <= r => b[m] = msg[64 * B + m]
  BY DEF IsRest
<1>1. 63 - r \in Nat
  OBVIOUS
<1>2. IsMarked(u, b, 63 - r)
  BY <1>0, <1>1, MarkedText
<1> HIDE DEF u
<1>3. /\ \A m \in Nat : 0 < m /\ m <= r => u[m] = b[m]
      /\ u[r + 1] = 128
      /\ \A m \in Nat : r + 1 < m /\ m <= r + 1 + (63 - r) => u[m] = 0
  BY <1>0, <1>2 DEF IsMarked
<1>4. /\ \A m \in Nat : 0 < m /\ m <= Len(msg) => p[m] = msg[m]
      /\ p[Len(msg) + 1] = 128
      /\ \A m \in Nat : Len(msg) + 1 < m /\ m <= 64 * q - 4 => p[m] = 0
  BY DEF IsPadded
<1> SUFFICES ASSUME NEW m \in Nat, 0 < m, m <= 64, 64 * B + m <= 64 * q - 4
             PROVE  u[m] = p[64 * B + m]
  BY DEF u, Agrees
<1>5. CASE m <= r
  <2>1. 64 * B + m \in Nat /\ 0 < 64 * B + m /\ 64 * B + m <= Len(msg)
    BY <1>0, <1>5
  <2>2. p[64 * B + m] = msg[64 * B + m]
    BY <1>4, <2>1
  <2> QED BY <1>0, <1>3, <1>5, <2>2
<1>6. CASE m = r + 1
  <2>1. 64 * B + m = Len(msg) + 1
    BY <1>0, <1>6
  <2> QED BY <1>3, <1>4, <1>6, <2>1
<1>7. CASE r + 1 < m
  <2>1. 64 * B + m \in Nat /\ Len(msg) + 1 < 64 * B + m /\ m <= r + 1 + (63 - r)
    BY <1>0, <1>7
  <2> QED BY <1>3, <1>4, <1>7, <2>1
<1> QED BY <1>5, <1>6, <1>7

\* The length takes the last four bytes of the padded message, with zeroes before.
LEMMA LastBlock ==
  ASSUME NEW msg, Len(msg) \in Nat, NEW k \in Nat, NEW p, IsPadded(p, msg, k + 1),
         Len(msg) + 1 <= 64 * k + 56, NEW v, IsBlockAt(v, p, k)
  PROVE  EndsInLength(v, 8 * Len(msg))
<1>1. \A m \in Nat : 0 < m /\ m <= 64 => v[m] = p[64 * k + m]
  BY DEF IsBlockAt
<1>2. ASSUME NEW i \in 1 .. 4 PROVE v[60 + i] = LengthByte(8 * Len(msg), i)
  <2>1. 60 + i \in Nat /\ 0 < 60 + i /\ 60 + i <= 64 /\ 64 * k + (60 + i) = 64 * (k + 1) - 4 + i
    OBVIOUS
  <2>2. v[60 + i] = p[64 * k + (60 + i)]
    BY <1>1, <2>1
  <2>3. p[64 * (k + 1) - 4 + i] = LengthByte(8 * Len(msg), i)
    BY DEF IsPadded
  <2> QED BY <2>1, <2>2, <2>3
<1>3. ASSUME NEW m \in 57 .. 60 PROVE v[m] = 0
  <2>1. /\ m \in Nat /\ 0 < m /\ m <= 64 /\ 64 * k + m \in Nat
        /\ Len(msg) + 1 < 64 * k + m /\ 64 * k + m <= 64 * (k + 1) - 4
    OBVIOUS
  <2>2. \A j \in Nat : Len(msg) + 1 < j /\ j <= 64 * (k + 1) - 4 => p[j] = 0
    BY DEF IsPadded
  <2> QED BY <1>1, <2>1, <2>2
<1> QED BY <1>2, <1>3 DEF EndsInLength

LEMMA BlockIsFunction == \A v : IsBlock(BufferToBlock(v))
BY DEF BufferToBlock, BLOCK_INTS, IsBlock

\* One block is left.
LEMMA OneBlockLeft ==
  ASSUME NEW msg, NEW B \in Nat, NEW r \in 0 .. 63, r < 56, NEW b, IsRest(b, msg, B, r),
         NEW p, IsPadded(p, msg, B + 1), FitsAWord(8 * Len(msg))
  PROVE  WithLength(BufferToBlock(Marked(b, 63 - r)), 8 * Len(msg)) = BufferToBlock(BlockOf(p, B + 1))
<1> DEFINE u == Marked(b, 63 - r)
           v == BlockOf(p, B + 1)
           q == B + 1
<1>1. q \in Nat /\ B < q /\ IsPadded(p, msg, q)
  OBVIOUS
<1>2. IsBlockAt(v, p, B)
  <2> HIDE DEF q
  <2> QED BY <1>1, PaddedBlock
<1>3. Agrees(u, p, B, q)
  <2> HIDE DEF q
  <2> QED BY <1>1, MarkedIsPadded
<1>4. Len(msg) \in Nat /\ Len(msg) + 1 <= 64 * B + 56
  BY DEF IsRest
<1> HIDE DEF u, v
<1>5. EndsInLength(v, 8 * Len(msg))
  BY <1>2, <1>4, LastBlock
<1>6. SameBytes(u, v, 56)
  <2>1. \A m \in Nat : 0 < m /\ m <= 56 => m <= 64 /\ 64 * B + m <= 64 * q - 4
    OBVIOUS
  <2> HIDE DEF q
  <2> QED BY <1>2, <1>3, <2>1 DEF IsBlockAt, Agrees, SameBytes
<1>7. SameFront(BufferToBlock(u), BufferToBlock(v))
  BY <1>6, SameWordsBefore
<1>8. IsBlock(BufferToBlock(u))
  BY BlockIsFunction
<1>9. WithLength(BufferToBlock(u), 8 * Len(msg)) = BufferToBlock(v)
  BY <1>5, <1>7, <1>8, LengthBlock
<1> QED BY <1>9 DEF u, v

\* Two blocks are left.
LEMMA TwoBlocksLeft ==
  ASSUME NEW msg, NEW B \in Nat, NEW r \in 0 .. 63, ~ (r < 56), NEW b, IsRest(b, msg, B, r),
         NEW p, IsPadded(p, msg, B + 2), FitsAWord(8 * Len(msg))
  PROVE  /\ BufferToBlock(Marked(b, 63 - r)) = BufferToBlock(BlockOf(p, B + 1))
         /\ WithLength(Cleared(BufferToBlock(Marked(b, 63 - r))), 8 * Len(msg))
              = BufferToBlock(BlockOf(p, (B + 1) + 1))
<1> DEFINE u == Marked(b, 63 - r)
           v == BlockOf(p, B + 1)
           c == B + 1
           w == BlockOf(p, c + 1)
           q == c + 1
<1>1. q \in Nat /\ B < q /\ c \in Nat /\ c < q /\ IsPadded(p, msg, q)
  <2>1. c + 1 = B + 2
    OBVIOUS
  <2> QED BY <2>1
<1>2. IsBlockAt(v, p, B)
  <2> HIDE DEF q
  <2> QED BY <1>1, PaddedBlock
<1>3. IsBlockAt(w, p, c)
  <2> HIDE DEF q, c
  <2> QED BY <1>1, PaddedBlock
<1>4. Agrees(u, p, B, q)
  <2> HIDE DEF q
  <2> QED BY <1>1, MarkedIsPadded
<1>5. Len(msg) \in Nat /\ Len(msg) + 1 <= 64 * c
  BY DEF IsRest
<1> HIDE DEF u, v, w
<1>6. SameBytes(u, v, 64)
  <2>1. \A m \in Nat : 0 < m /\ m <= 64 => 64 * B + m <= 64 * q - 4
    OBVIOUS
  <2> HIDE DEF q
  <2> QED BY <1>2, <1>4, <2>1 DEF IsBlockAt, Agrees, SameBytes
<1>7. BufferToBlock(u) = BufferToBlock(v)
  BY <1>6, SameBlocks
<1>8. EndsInLength(w, 8 * Len(msg))
  <2>1. Len(msg) + 1 <= 64 * c + 56 /\ IsPadded(p, msg, c + 1)
    BY <1>1, <1>5
  <2> HIDE DEF c
  <2> QED BY <1>1, <1>3, <1>5, <2>1, LastBlock
<1>9. \A m \in Nat : 0 < m /\ m <= 56 => w[m] = 0
  <2> SUFFICES ASSUME NEW m \in Nat, 0 < m, m <= 56 PROVE w[m] = 0
    OBVIOUS
  <2>1. /\ m <= 64 /\ 64 * c + m \in Nat /\ Len(msg) + 1 < 64 * c + m
        /\ 64 * c + m <= 64 * q - 4
    BY <1>5
  <2>2. \A j \in Nat : Len(msg) + 1 < j /\ j <= 64 * q - 4 => p[j] = 0
    <3> HIDE DEF q
    <3> QED BY <1>1 DEF IsPadded
  <2> HIDE DEF c, q
  <2> QED BY <1>3, <2>1, <2>2 DEF IsBlockAt
<1>10. SameFront(Cleared(BufferToBlock(u)), BufferToBlock(w)) /\ IsBlock(Cleared(BufferToBlock(u)))
  BY <1>9, ZeroWordsBefore
<1>11. WithLength(Cleared(BufferToBlock(u)), 8 * Len(msg)) = BufferToBlock(w)
  BY <1>8, <1>10, LengthBlock
<1> QED BY <1>7, <1>11 DEF u, v, w

\* A message: B whole blocks and r bytes.
InBlocks(msg, B, r) ==
  msg \in Seq(Octets) /\ B \in Nat /\ r \in 0 .. 63 /\ Len(msg) = 64 * B + r

IsSlice(b, s, a, n) == b \in Seq(Octets) /\ Len(b) = n /\ \A j \in 1 .. n : b[j] = s[(a - 1) + j]

LEMMA LastSlice ==
  ASSUME NEW s \in Seq(Octets), NEW a \in Nat \ {0}, NEW n \in Nat, a + n - 1 = Len(s)
  PROVE  IsSlice(SubSeq(s, a, Len(s)), s, a, n)
<1>1. a + n <= Len(s) + 1
  OBVIOUS
<1>2. /\ SubSeq(s, a, a + n - 1) \in Seq(Octets) /\ Len(SubSeq(s, a, a + n - 1)) = n
      /\ \A j \in 1 .. n : SubSeq(s, a, a + n - 1)[j] = s[(a - 1) + j]
  BY <1>1, Slice
<1> QED BY <1>2 DEF IsSlice

LEMMA UpdateIs ==
  ASSUME NEW msg, NEW B, NEW r, InBlocks(msg, B, r), NEW d, HasAbsorbed(Absorbed(New, msg)[B], d, B)
  PROVE  LET b == SubSeq(msg, 64 * B + 1, Len(msg))
         IN  /\ Update(New, msg) = [digest |-> d, buffer |-> b, transforms |-> B]
             /\ IsRest(b, msg, B, r)
<1> DEFINE b == SubSeq(msg, 64 * B + 1, Len(msg))
           a == 64 * B + 1
<1>1. msg \in Seq(Octets) /\ B \in Nat /\ r \in 0 .. 63 /\ Len(msg) = 64 * B + r
  BY DEF InBlocks
<1>2. Len(msg) \div 64 = B
  BY <1>1
<1>3. New.buffer \o msg = msg
  <2>1. << >> \o msg = msg
    BY <1>1, ConcatEmptySeq
  <2> QED BY <2>1 DEF New
<1>4. Update(New, msg) = [Absorbed(New, msg)[B] EXCEPT !.buffer = b]
  BY <1>2, <1>3, BlockBytes DEF Update
<1>5. Update(New, msg) = [digest |-> d, buffer |-> b, transforms |-> B]
  <2>1. Absorbed(New, msg)[B] = [digest |-> d, buffer |-> << >>, transforms |-> B]
    BY DEF HasAbsorbed
  <2> HIDE DEF b
  <2> QED BY <1>4, <2>1
<1>6. a \in Nat \ {0} /\ r \in Nat /\ a + r <= Len(msg) + 1 /\ a + r - 1 = Len(msg) /\ a - 1 = 64 * B
  BY <1>1
<1>7. /\ b \in Seq(Octets) /\ Len(b) = r /\ \A j \in 1 .. r : b[j] = msg[64 * B + j]
  <2>1. IsSlice(b, msg, a, r)
    <3> HIDE DEF a
    <3>1. b = SubSeq(msg, a, Len(msg))
      BY DEF a
    <3> HIDE DEF b
    <3> QED BY <1>1, <1>6, <3>1, LastSlice
  <2> HIDE DEF a, b
  <2> QED BY <1>6, <2>1 DEF IsSlice
<1>8. IsRest(b, msg, B, r)
  <2>1. \A m \in Nat : 0 < m /\ m <= r => m \in 1 .. r
    BY <1>1
  <2> HIDE DEF b
  <2> QED BY <1>1, <1>7, <2>1 DEF IsRest
<1> QED BY <1>5, <1>8

\* final, on what update left, makes the last one or two steps of the standard.
LEMMA FinalIsFips ==
  ASSUME NEW msg, NEW B, NEW r, InBlocks(msg, B, r), FitsAWord(8 * Len(msg)),
         NEW p, IsPadded(p, msg, B + BlocksAfter(r)),
         NEW b, IsRest(b, msg, B, r), IsDigest(FipsBlocks(p)[B])
  PROVE  Final([digest |-> FipsBlocks(p)[B], buffer |-> b, transforms |-> B])
           = FipsBlocks(p)[B + BlocksAfter(r)]
<1> DEFINE g == FipsBlocks(p)
           d == g[B]
           sha == [digest |-> d, buffer |-> b, transforms |-> B]
           block == BufferToBlock(Marked(b, 63 - r))
           bits == (B * 64 + r) * 8
           c == B + 1
<1>1. B \in Nat /\ c \in Nat /\ r \in 0 .. 63 /\ Len(msg) = 64 * B + r /\ Len(b) = r
  BY DEF InBlocks, IsRest
<1>2. bits = 8 * Len(msg)
  BY <1>1
<1>3. /\ r < 56 => Final(sha) = Compressed(sha, WithLength(block, bits)).digest
      /\ ~ (r < 56) => Final(sha) =
             Compressed(Compressed(sha, block), WithLength(Cleared(block), bits)).digest
  <2> HIDE DEF block, bits
  <2>1. sha.buffer = b /\ sha.transforms = B
    OBVIOUS
  <2> HIDE DEF sha
  <2>2. FinalSteps(sha, BufferToBlock(Marked(sha.buffer, 63 - r)), (sha.transforms * 64 + r) * 8, r)
    BY <1>1, <2>1, FinalIs
  <2>3. FinalSteps(sha, block, bits, r)
    BY <2>1, <2>2 DEF block, bits
  <2> QED BY <2>3 DEF FinalSteps
<1>4. p \in Seq(Octets) /\ Len(p) = 64 * (B + BlocksAfter(r)) /\ B + BlocksAfter(r) \in Nat
  BY <1>1 DEF IsPadded, BlocksAfter
<1>5. \A n \in Nat : n < B + BlocksAfter(r) => g[n + 1] = FipsCompress(g[n], BlockOf(p, n + 1))
  <2>1. ASSUME NEW q \in Nat PROVE 64 * q \in Nat /\ (64 * q) \div 64 = q
    OBVIOUS
  <2>2. Len(p) \in Nat /\ Len(p) \div 64 = B + BlocksAfter(r)
    BY <1>4, <2>1
  <2>3. \A n \in Nat : n < Len(p) \div 64 => g[n + 1] = FipsCompress(g[n], BlockOf(p, n + 1))
    BY <2>2, FipsBlocksValue
  <2> QED BY <2>2, <2>3
<1>6. BlockOf(p, B + 1) \in Seq(Octets) /\ Len(BlockOf(p, B + 1)) >= 64
  <2>1. 64 * (B + 1) <= Len(p)
    BY <1>1, <1>4 DEF BlocksAfter
  <2> QED BY <1>1, <1>4, <2>1, BlockOfText
<1>7. /\ Compressed(sha, BufferToBlock(BlockOf(p, B + 1)))
             = [digest |-> FipsCompress(d, BlockOf(p, B + 1)), buffer |-> b, transforms |-> B + 1]
      /\ IsDigest(FipsCompress(d, BlockOf(p, B + 1)))
  BY <1>6, CompressedIsFips
<1>8. g[B + 1] = FipsCompress(d, BlockOf(p, B + 1))
  BY <1>1, <1>5 DEF BlocksAfter
<1>9. CASE r < 56
  <2>1. BlocksAfter(r) = 1 /\ IsPadded(p, msg, B + 1)
    BY <1>9 DEF BlocksAfter
  <2>2. WithLength(block, bits) = BufferToBlock(BlockOf(p, B + 1))
    BY <1>1, <1>2, <1>9, <2>1, OneBlockLeft
  <2> HIDE DEF sha, block, bits, g, d
  <2>3. Final(sha) = FipsCompress(d, BlockOf(p, B + 1))
    BY <1>3, <1>7, <1>9, <2>2
  <2> QED BY <1>8, <2>1, <2>3 DEF sha, g, d
<1>10. CASE ~ (r < 56)
  <2>1. BlocksAfter(r) = 2 /\ IsPadded(p, msg, B + 2) /\ B + 2 = c + 1
    BY <1>1, <1>10 DEF BlocksAfter
  <2>2. /\ block = BufferToBlock(BlockOf(p, B + 1))
        /\ WithLength(Cleared(block), bits) = BufferToBlock(BlockOf(p, c + 1))
    BY <1>1, <1>2, <1>10, <2>1, TwoBlocksLeft
  <2>3. BlockOf(p, c + 1) \in Seq(Octets) /\ Len(BlockOf(p, c + 1)) >= 64
    <3>1. 64 * (c + 1) <= Len(p)
      BY <1>1, <1>4, <2>1
    <3> HIDE DEF c
    <3> QED BY <1>1, <1>4, <3>1, BlockOfText
  <2>4. g[c + 1] = FipsCompress(g[c], BlockOf(p, c + 1))
    <3>1. c < B + BlocksAfter(r)
      BY <1>1, <2>1
    <3> HIDE DEF c, g
    <3> QED BY <1>1, <1>5, <3>1
  <2>5. Compressed(sha, block) = [digest |-> g[c], buffer |-> b, transforms |-> c] /\ IsDigest(g[c])
    <3> HIDE DEF sha, block, g, d
    <3> QED BY <1>7, <1>8, <2>2
  <2> HIDE DEF c
  <2>6. Compressed([digest |-> g[c], buffer |-> b, transforms |-> c], BufferToBlock(BlockOf(p, c + 1)))
          = [digest |-> FipsCompress(g[c], BlockOf(p, c + 1)), buffer |-> b, transforms |-> c + 1]
    BY <2>3, <2>5, CompressedIsFips
  <2> HIDE DEF sha, block, bits, g
  <2>7. Final(sha) = FipsCompress(g[c], BlockOf(p, c + 1))
    BY <1>3, <1>10, <2>2, <2>5, <2>6
  <2> QED BY <2>1, <2>4, <2>7 DEF sha, g
<1> QED BY <1>9, <1>10

LEMMA PowerOfWord == 2^32 = 65536 * 65536
BY SMT

\* The hash that sha1.hpp computes is the SHA-1 of FIPS 180-4, for every
\* message of less than 2^32 bits.
THEOREM HashIsSha1 ==
  \A msg \in Seq(Octets) : 8 * Len(msg) < 2^32 => Final(Update(New, msg)) = FipsSha1(msg)
<1> SUFFICES ASSUME NEW msg \in Seq(Octets), 8 * Len(msg) < 2^32
             PROVE  Final(Update(New, msg)) = FipsSha1(msg)
  OBVIOUS
<1> DEFINE B == Len(msg) \div 64
           r == Len(msg) % 64
           p == FipsPadded(msg)
           b == SubSeq(msg, 64 * B + 1, Len(msg))
           d == FipsBlocks(p)[B]
<1>1. Len(msg) \in Nat
  BY OctetsOf
<1>2. B \in Nat /\ r \in 0 .. 63 /\ Len(msg) = 64 * B + r
  <2>1. ASSUME NEW n \in Nat
        PROVE  n \div 64 \in Nat /\ n % 64 \in 0 .. 63 /\ n = 64 * (n \div 64) + (n % 64)
    OBVIOUS
  <2> QED BY <1>1, <2>1, Zenon
<1>3. FitsAWord(8 * Len(msg))
  <2>1. ASSUME NEW n \in Nat, 8 * n < 2^32 PROVE (8 * n) \div 65536 < 65536
    BY <2>1, PowerOfWord, SMT
  <2> QED BY <1>1, <2>1, SMT DEF FitsAWord
<1> HIDE DEF B, r, p, d
<1>4. InBlocks(msg, B, r)
  BY <1>2 DEF InBlocks
<1>5. IsPadded(p, msg, B + BlocksAfter(r))
  BY <1>2, PaddedMessage DEF p
<1>6. HasAbsorbed(Absorbed(New, msg)[B], d, B)
  BY <1>2, <1>5, AbsorbedIsFips DEF d
<1>7. IsDigest(d)
  BY <1>6 DEF HasAbsorbed
<1>8. Update(New, msg) = [digest |-> d, buffer |-> b, transforms |-> B] /\ IsRest(b, msg, B, r)
  BY <1>4, <1>6, UpdateIs
<1> HIDE DEF b
<1>9. Final([digest |-> d, buffer |-> b, transforms |-> B]) = FipsBlocks(p)[B + BlocksAfter(r)]
  BY <1>3, <1>4, <1>5, <1>7, <1>8, FinalIsFips DEF d
<1>10. FipsSha1(msg) = FipsBlocks(p)[B + BlocksAfter(r)]
  <2>1. ASSUME NEW q \in Nat PROVE (64 * q) \div 64 = q
    OBVIOUS
  <2>2. B + BlocksAfter(r) \in Nat
    BY <1>2 DEF BlocksAfter
  <2>3. Len(p) \div 64 = B + BlocksAfter(r)
    BY <1>5, <2>1, <2>2 DEF IsPadded
  <2> QED BY <2>3 DEF FipsSha1, p
<1> QED BY <1>8, <1>9, <1>10

-----------------------------------------------------------------------------
(* What has happened to the answer *)

\* What the client has received and not yet read, and what is on its way.
Left == Contents(buf) \o net

\* The frames behind the answer that were not taken, and the part of one.
Untaken == FlattenSeq(SubSeq(answer.frames, Len(taken) + 1, Len(answer.frames))) \o answer.more

Answered == answer # NoAnswer /\ request.key \in Keys /\ answer \in Answers[request.key]

Story ==
  /\ answer = NoAnswer \/ Answered
  /\ phase \in BeforeReading =>
       /\ taken = << >>
       /\ Left = IF answer = NoAnswer THEN << >> ELSE AnswerBytes(answer)
  /\ phase \in {"start", "options", "connected"} => answer = NoAnswer
  /\ phase = "parse" =>
       /\ Answered /\ answer.ended /\ taken = << >>
       /\ response = Text(answer) /\ Left = Behind(answer)
  /\ phase = "open" =>
       /\ Answered /\ Acceptable(answer, request.key)
       /\ Len(taken) <= Len(answer.frames) /\ Left = Untaken
  /\ phase = "refused" => Answered /\ ~ Acceptable(answer, request.key)

HashIsRight == \A k \in Keys : AcceptKey[k] = RightAccept[k]

\* What the two accept keys of a nonce are: the base64 of a digest of the
\* nonce's text and the GUID of RFC 6455, sixty bytes.  The client takes the
\* digest with its own hash, and the server SHA-1 as FIPS 180-4 defines it.
KeysAreHashed(text, base64) ==
  \A k \in Keys :
    /\ text[k] \in Seq(Octets) /\ Len(text[k]) = 60
    /\ AcceptKey[k] = base64[Final(Update(New, text[k]))]
    /\ RightAccept[k] = base64[FipsSha1(text[k])]

LEMMA TheHashIsRight ==
  ASSUME NEW text, NEW base64, KeysAreHashed(text, base64) PROVE HashIsRight
<1> SUFFICES ASSUME NEW k \in Keys PROVE AcceptKey[k] = RightAccept[k]
  BY DEF HashIsRight
<1>1. /\ text[k] \in Seq(Octets) /\ Len(text[k]) = 60
      /\ AcceptKey[k] = base64[Final(Update(New, text[k]))]
      /\ RightAccept[k] = base64[FipsSha1(text[k])]
  BY DEF KeysAreHashed
<1>2. 8 * Len(text[k]) < 2^32
  BY <1>1, PowerOfWord, SMT
<1>3. Final(Update(New, text[k])) = FipsSha1(text[k])
  BY <1>1, <1>2, HashIsSha1
<1> QED BY <1>1, <1>3

LEMMA AnsweredWith == Answered => IsAnswer(answer)
BY AnswerAssumption DEF Answered

LEMMA InitStory == Init => Story
<1> SUFFICES ASSUME Init PROVE Story
  OBVIOUS
<1>1. Contents(buf) = << >>
  BY NewRingOK DEF Init, NewRing
<1>2. << >> \o << >> = << >>
  BY EmptySeq, ConcatEmptySeq
<1>3. Left = << >>
  BY <1>1, <1>2 DEF Init, Left
<1> QED BY <1>3 DEF Init, Story, BeforeReading

\* The steps that leave the answer, the buffer and the network alone.
LEMMA ConnectTells ==
  ASSUME Story, Connect
  PROVE  Story'
<1> USE DEF Story, BeforeReading, Left, Answered, Stay
<1>1. CASE RejectUrl
  BY <1>1 DEF RejectUrl
<1>2. CASE UnknownHost
  BY <1>2 DEF UnknownHost
<1>3. CASE NoTlsContext
  BY <1>3 DEF NoTlsContext
<1>4. CASE FromUrl
  BY <1>4 DEF FromUrl
<1>5. CASE TakeOptions
  BY <1>5 DEF TakeOptions
<1>6. CASE DialTcp
  BY <1>6 DEF DialTcp
<1>7. CASE DialTls
  BY <1>7 DEF DialTls
<1>8. CASE SendRequest
  BY <1>8 DEF SendRequest
<1>9. CASE SendFails
  BY <1>9 DEF SendFails
<1>10. QED
  BY <1>1, <1>2, <1>3, <1>4, <1>5, <1>6, <1>7, <1>8, <1>9 DEF Connect

LEMMA NoAnswerIsNone == ASSUME NEW a, IsAnswer(a) PROVE a # NoAnswer
<1>1. "more" \in DOMAIN a
  BY DEF IsAnswer
<1>2. DOMAIN NoAnswer = {"status", "ended", "frames"}
  BY DEF NoAnswer
<1>3. "more" \notin DOMAIN NoAnswer
  BY <1>2
<1> QED BY <1>1, <1>3

LEMMA ServerAnswersTells ==
  ASSUME IInv, Story, ServerAnswers
  PROVE  Story'
<1>1. /\ phase = "response" /\ answer = NoAnswer
      /\ answer' \in Answers[request.key] /\ net' = AnswerBytes(answer')
      /\ UNCHANGED <<phase, request, buf, response, taken>>
  BY DEF ServerAnswers
<1>2. request.key \in Keys
  BY DEF ServerAnswers, IInv, TypeOK
<1>3. IsAnswer(answer')
  BY <1>1, <1>2, AnswerAssumption
<1>4. answer' # NoAnswer /\ AnswerBytes(answer') \in Seq(Byte)
  BY <1>3, NoAnswerIsNone, AnswerParts
<1>5. Contents(buf) \o net = << >> /\ taken = << >>
  BY <1>1 DEF Story, BeforeReading, Left
<1>6. Contents(buf) = << >>
  <2>1. Contents(buf) \in Seq(Byte) /\ net \in Seq(Byte)
    BY DEF IInv, HoldsBytes, TypeOK
  <2> QED BY <1>5, <2>1, ConcatSimplifications
<1>7. Left' = AnswerBytes(answer')
  <2>1. << >> \o AnswerBytes(answer') = AnswerBytes(answer')
    BY <1>4, ConcatEmptySeq
  <2>2. Left' = Contents(buf)' \o net'
    BY DEF Left
  <2>3. Contents(buf)' = Contents(buf)
    BY <1>1
  <2> QED BY <1>1, <1>6, <2>1, <2>2, <2>3
<1>8. Answered'
  BY <1>1, <1>2, <1>4 DEF Answered
<1> QED BY <1>1, <1>4, <1>5, <1>7, <1>8 DEF Story, BeforeReading

LEMMA OpenWindowTells ==
  ASSUME IInv, Story, OpenWindow
  PROVE  Story'
<1>1. Contents(buf') = Contents(buf)
  BY WindowKeeps DEF IInv, TypeOK, OpenWindow
<1>2. Left' = Left
  BY <1>1 DEF Left, OpenWindow
<1>3. UNCHANGED <<phase, request, answer, response, taken>>
  BY DEF OpenWindow
<1>4. Untaken' = Untaken
  BY <1>3 DEF Untaken
<1>5. Answered' = Answered
  BY <1>3 DEF Answered
<1> QED BY <1>2, <1>3, <1>4, <1>5 DEF Story

\* A receive goes from the network to the buffer; the response is read where
\* the answer's lines end.
LEMMA ReceiveTells ==
  ASSUME IInv, Story, Receive
  PROVE  Story'
<1>1. PICK n \in 1 .. AtMost(Len(net), WriteWindow(buf).len) :
        LET b == ReceiveInto(buf, SubSeq(net, 1, n))
        IN  /\ AwaitMore(b, View(b), n) \/ ReadResponse(b, View(b), n) \/ ReceiveMore(b)
            /\ net' = SubSeq(net, n + 1, Len(net))
  BY DEF Receive
<1> DEFINE s == SubSeq(net, 1, n)
           b == ReceiveInto(buf, s)
           len == ResponseLen(View(b), n)
           c == Contents(b)
           u == net'
<1>2. RingOK(buf) /\ Contents(buf) \in Seq(Byte) /\ net \in Seq(Byte)
  BY DEF IInv, TypeOK, HoldsBytes
<1>3. Len(net) \in Nat /\ WriteWindow(buf).len \in Nat
  BY <1>2, LenProperties, WindowFollows
<1>4. n \in 0 .. Len(net) /\ n <= WriteWindow(buf).len
  BY <1>3 DEF AtMost
<1>5. s \in Seq(Byte) /\ Len(s) = n /\ u \in Seq(Byte) /\ net = s \o u
  BY <1>1, <1>2, <1>4, CutInTwo
<1>6. AwaitMore(b, View(b), n) \/ ReadResponse(b, View(b), n) \/ ReceiveMore(b)
  BY <1>1
<1>7. UNCHANGED <<request, answer, taken>>
  BY DEF Receive
<1> HIDE DEF s, u
<1>8. /\ RingOK(b) /\ c \in Seq(Byte) /\ b.start = buf.start
      /\ c = Contents(buf) \o s
  BY <1>2, <1>4, <1>5, ReceiveAppends
<1> HIDE DEF b, c
<1>9. c \o u = Left
  <2>1. (Contents(buf) \o s) \o u = Contents(buf) \o (s \o u)
    BY <1>2, <1>5, ConcatAssociative
  <2> QED BY <1>5, <1>8, <2>1 DEF Left
<1>10. Untaken' = Untaken /\ Answered' = Answered
  BY <1>7 DEF Untaken, Answered
<1>11. ASSUME buf' = b PROVE Left' = Left
  <2>1. Left' = Contents(buf') \o u
    BY DEF Left, u
  <2> QED BY <1>9, <1>11, <2>1 DEF c
<1>12. CASE AwaitMore(b, View(b), n)
  <2>1. UNCHANGED <<phase, response>> /\ Left' = Left
    BY <1>11, <1>12 DEF AwaitMore
  <2> QED BY <1>7, <1>10, <2>1 DEF Story
<1>13. CASE ReceiveMore(b)
  <2>1. UNCHANGED <<phase, response>> /\ Left' = Left
    BY <1>11, <1>13 DEF ReceiveMore
  <2> QED BY <1>7, <1>10, <2>1 DEF Story
<1>14. CASE ReadResponse(b, View(b), n)
  <2>1. /\ phase = "response" /\ len <= b.size
        /\ response' = Peek(b, len, 0) /\ buf' = Skip(b, len) /\ phase' = "parse"
    BY <1>14 DEF ReadResponse
  <2>2. View(b) = c /\ len = FindText(BlankLine, c) + 3
    <3>1. b.start = 0
      BY <1>8, <2>1 DEF IInv, AtFront, BeforeReading
    <3> QED BY <1>8, <3>1, ViewReads DEF ResponseLen, c
  <2>3. b.size \in Nat /\ Len(c) = b.size
    BY <1>8, RingNumbers, ContentsType DEF c
  <2>4. FindText(BlankLine, c) \in Nat
    <3>1. Len(BlankLine) \in Nat
      BY BlankLineType, LenProperties
    <3> QED BY <1>8, <3>1, FindTextLeast
  <2> HIDE DEF len
  <2>5. answer # NoAnswer
    <3> SUFFICES ASSUME answer = NoAnswer PROVE FALSE
      OBVIOUS
    <3>1. c \o u = << >>
      BY <1>9, <2>1 DEF Story, BeforeReading
    <3>2. c = << >>
      BY <1>5, <1>8, <3>1, ConcatSimplifications
    <3>3. Len(c) = 0
      BY <3>2, EmptySeq
    <3> QED BY <2>1, <2>2, <2>3, <2>4, <3>3
  <2> DEFINE a == answer
  <2>6. Answered /\ IsAnswer(a)
    BY <2>5, AnsweredWith DEF Story
  <2>7. c \o u = AnswerBytes(a) /\ taken = << >>
    BY <1>9, <2>1, <2>5 DEF Story, BeforeReading
  <2> HIDE DEF a
  <2>8. FindText(BlankLine, c) + 3 <= Len(c)
    BY <2>1, <2>2, <2>3
  <2>9. a.ended /\ FindText(BlankLine, c) + 3 = Len(Text(a))
    BY <1>5, <1>8, <2>6, <2>7, <2>8, ResponseIsLines
  <2>10. /\ Text(a) \in Seq(Byte) /\ Behind(a) \in Seq(Byte)
         /\ c \o u = Text(a) \o Behind(a)
    BY <2>6, <2>7, <2>9, AnswerParts
  <2>11. Len(Text(a)) <= Len(c) /\ len = Len(Text(a)) /\ len \in 0 .. b.size
    BY <2>2, <2>3, <2>4, <2>8, <2>9
  <2>12. SubSeq(c, 1, len) = Text(a) /\ SubSeq(c, len + 1, Len(c)) \o u = Behind(a)
    BY <1>5, <1>8, <2>10, <2>11, SplitFront
  <2>13. response' = Text(a) /\ Contents(buf') = SubSeq(c, len + 1, Len(c))
    BY <1>8, <2>1, <2>3, <2>11, <2>12, ReadBytes DEF c
  <2>14. Left' = Behind(a)
    <3>1. Left' = Contents(buf') \o u
      BY DEF Left, u
    <3> QED BY <2>12, <2>13, <3>1
  <2> QED BY <1>7, <1>10, <2>1, <2>6, <2>7, <2>9, <2>13, <2>14 DEF Story, BeforeReading, a
<1> QED BY <1>6, <1>12, <1>13, <1>14

\* A response is accepted when its answer completes the handshake, and only then.
LEMMA ResponseSettles ==
  ASSUME HashIsRight, Story, phase = "parse"
  PROVE  /\ Answered
         /\ ParseResponse(request.key, response) =
              IF Acceptable(answer, request.key) THEN "headers" ELSE "error"
<1>1. Answered /\ answer.ended /\ response = Text(answer)
  BY DEF Story
<1>2. AcceptKey[request.key] = RightAccept[request.key]
  BY <1>1 DEF HashIsRight, Answered
<1>3. IsAnswer(answer)
  BY <1>1, AnsweredWith
<1> QED BY <1>1, <1>2, <1>3, ResponseParsed

LEMMA AcceptResponseTells ==
  ASSUME HashIsRight, IInv, Story, AcceptResponse
  PROVE  Story' /\ Acceptable(answer, request.key)
<1>1. /\ phase = "parse" /\ phase' = "open" /\ buf' = MovedTo(buf)
      /\ ParseResponse(request.key, response) = "headers"
      /\ UNCHANGED <<request, answer, net, response, taken>>
  BY DEF AcceptResponse
<1>2. buf' = buf
  BY <1>1, OtherOwner DEF IInv, TypeOK
<1>3. Answered /\ Acceptable(answer, request.key)
  <2>1. "headers" # "error"
    OBVIOUS
  <2> QED BY <1>1, <2>1, ResponseSettles
<1>4. Left = Behind(answer) /\ taken = << >>
  BY <1>1 DEF Story
<1>5. answer.frames \in Seq(Seq(Byte))
  BY <1>3, AnsweredWith DEF IsAnswer
<1>6. Untaken = Behind(answer)
  <2>1. Len(taken) = 0 /\ 0 + 1 = 1
    BY <1>4, EmptySeq
  <2>2. SubSeq(answer.frames, 1, Len(answer.frames)) = answer.frames
    BY <1>5, SubSeqFull
  <2> QED BY <2>1, <2>2 DEF Untaken, Behind
<1>7. Len(taken) <= Len(answer.frames)
  <2>1. Len(taken) = 0 /\ Len(answer.frames) \in Nat
    BY <1>4, <1>5, EmptySeq, LenProperties
  <2> QED BY <2>1
<1>8. /\ Left' = Left /\ Untaken' = Untaken /\ Answered' = Answered
      /\ Acceptable(answer, request.key)' = Acceptable(answer, request.key)
  BY <1>1, <1>2 DEF Left, Untaken, Answered
<1> QED BY <1>1, <1>3, <1>4, <1>6, <1>7, <1>8 DEF Story, BeforeReading

LEMMA RefuseResponseTells ==
  ASSUME HashIsRight, IInv, Story, RefuseResponse
  PROVE  Story'
<1>1. /\ phase = "parse" /\ phase' = "refused"
      /\ ParseResponse(request.key, response) = "error"
      /\ UNCHANGED <<request, answer>>
  BY DEF RefuseResponse, Stay
<1>2. Answered /\ ~ Acceptable(answer, request.key)
  <2>1. "headers" # "error"
    OBVIOUS
  <2> QED BY <1>1, <2>1, ResponseSettles
<1>3. Answered' = Answered /\ Acceptable(answer, request.key)' = Acceptable(answer, request.key)
  BY <1>1 DEF Answered
<1> QED BY <1>1, <1>2, <1>3 DEF Story, BeforeReading

-----------------------------------------------------------------------------
(* Taking a frame *)

LEMMA HalfTheSize == SizeMod \in Nat /\ SizeMod \div 2 \in Nat /\ SizeMod \div 2 < SizeMod
BY SizeAssumption, WindowAssumption

\* The head of the first frame is what the buffer begins with.
LEMMA HeadRead ==
  ASSUME NEW b, RingOK(b), NEW c, c = Contents(b), c \in Seq(Byte), b.size > 0
  PROVE  /\ Len(c) = b.size /\ b.size \in Nat
         /\ c[1] \in Byte /\ Peek(b, 1, 0)[1] = c[1]
<1>1. b.size \in Nat /\ Len(c) = b.size
  BY RingNumbers, ContentsType
<1>2. 1 \in 0 .. b.size /\ 1 \in 0 .. Len(c) /\ 1 \in 1 .. Len(c)
  BY <1>1
<1>3. Peek(b, 1, 0) = SubSeq(c, 1, 1)
  BY <1>2, ReadBytes
<1>4. SubSeq(c, 1, 1)[1] = c[1]
  <2>1. 1 \in Nat \ {0} /\ 1 \in Nat /\ 1 + 1 <= Len(c) + 1 /\ 1 + 1 - 1 = 1 /\ (1 - 1) + 1 = 1
        /\ 1 \in 1 .. 1
    BY <1>1
  <2> QED BY <2>1, Slice
<1>5. c[1] \in Byte
  BY <1>2, ElementOfSeq
<1> QED BY <1>1, <1>3, <1>4, <1>5

\* What the reader takes is the next frame of the answer, and nothing else:
\* neither a part of one, nor more than one.
LEMMA TakeFrameTells ==
  ASSUME IInv, Story, TakeFrame
  PROVE  /\ Story'
         /\ Len(taken) < Len(answer.frames)
         /\ taken' = Append(taken, answer.frames[Len(taken) + 1])
<1> DEFINE c == Contents(buf)  u == net  a == answer  k == Len(taken)  n == Len(a.frames)
           h == c[1]  left == FlattenSeq(SubSeq(a.frames, k + 1, n))
<1>1. /\ RingOK(buf) /\ c \in Seq(Byte) /\ u \in Seq(Byte) /\ taken \in Seq(Seq(Byte))
  BY DEF IInv, TypeOK, HoldsBytes
<1>2. /\ phase = "open" /\ HasFrame(buf) /\ ~ TooLong(buf)
      /\ taken' = Append(taken, Peek(buf, FrameLen(buf), 0))
      /\ buf' = Skip(buf, FrameLen(buf))
      /\ UNCHANGED <<phase, request, answer, net, response>>
  BY DEF TakeFrame
<1>3. /\ Answered /\ Acceptable(answer, request.key) /\ k <= n
      /\ c \o u = left \o a.more
  BY <1>2 DEF Story, Left, Untaken
<1>4. IsAnswer(a)
  BY <1>3, AnsweredWith
<1>5. /\ a.frames \in Seq(Seq(Byte)) /\ a.more \in Seq(Byte)
      /\ \A i \in 1 .. n : IsWholeFrame(a.frames[i])
      /\ a.more # << >> => Len(a.more) <= Announced[a.more[1]]
  BY <1>4 DEF IsAnswer, IsPartOfFrame
<1>6. k \in Nat /\ n \in Nat
  BY <1>1, <1>5, LenProperties
<1>7. buf.size > 0
  BY <1>2 DEF HasFrame
<1>8. Len(c) = buf.size /\ buf.size \in Nat /\ h \in Byte /\ Peek(buf, 1, 0)[1] = h
  BY <1>1, <1>7, HeadRead
<1> DEFINE m == Announced[h]
<1>9. m \in Nat
  BY <1>8, HeadAssumption
<1>10. FrameLen(buf) = (1 + m) % SizeMod /\ ~ (m >= SizeMod \div 2) /\ Len(c) >= FrameLen(buf)
  BY <1>2, <1>8 DEF FrameLen, TooLong, HasFrame
<1> HIDE DEF c, u, a, k, n, h, left, m
<1>11. FrameLen(buf) = 1 + m
  <2>1. 1 + m \in Nat /\ 1 + m < SizeMod
    BY <1>9, <1>10, HalfTheSize
  <2> QED BY <1>10, <2>1, HalfTheSize
<1>12. (c \o u)[1] = h
  <2>1. 1 \in 1 .. Len(c)
    BY <1>7, <1>8
  <2> QED BY <1>1, <2>1, JoinedBytes DEF h
<1>13. k # n
  <2> SUFFICES ASSUME k = n PROVE FALSE
    OBVIOUS
  <2>1. left = << >>
    <3>1. SubSeq(a.frames, k + 1, n) = << >>
      <4> DEFINE B == Seq(Byte)
      <4>1. /\ k + 1 \in Nat \ {0} /\ 0 \in Nat /\ (k + 1) + 0 <= n + 1
            /\ (k + 1) + 0 - 1 = n
        BY <1>6
      <4>2. a.frames \in Seq(B) /\ n = Len(a.frames)
        BY <1>5 DEF n
      <4> HIDE DEF B
      <4>3. /\ SubSeq(a.frames, k + 1, (k + 1) + 0 - 1) \in Seq(B)
            /\ Len(SubSeq(a.frames, k + 1, (k + 1) + 0 - 1)) = 0
        BY <4>1, <4>2, Slice
      <4> QED BY <4>1, <4>3, EmptySeq
    <3> QED BY <3>1, EmptySeq DEF left, FlattenSeq
  <2>2. c \o u = a.more
    BY <1>3, <1>5, <2>1, ConcatEmptySeq
  <2>3. Len(a.more) >= Len(c) /\ Len(a.more) \in Nat /\ Len(a.more) # 0
    <3>1. Len(c \o u) = Len(c) + Len(u) /\ Len(u) \in Nat /\ Len(c) \in Nat
      BY <1>1, JoinedBytes
    <3> QED BY <1>7, <1>8, <2>2, <3>1
  <2>4. a.more # << >>
    BY <2>3, EmptySeq
  <2>5. Len(a.more) <= m
    BY <1>5, <1>12, <2>2, <2>4 DEF m
  <2> QED BY <1>8, <1>9, <1>10, <1>11, <2>3, <2>5
<1>14. k < n /\ k + 1 \in 1 .. n
  BY <1>3, <1>6, <1>13
<1> DEFINE f == a.frames[k + 1]  rest == FlattenSeq(SubSeq(a.frames, k + 2, n))
<1>15. f \in Seq(Byte) /\ rest \in Seq(Byte) /\ left = f \o rest
  BY <1>5, <1>6, <1>14, FirstPiece DEF left, n
<1>16. f # << >> /\ Len(f) = 1 + Announced[f[1]]
  BY <1>5, <1>14 DEF IsWholeFrame
<1> DEFINE r == rest \o a.more
<1> HIDE DEF f, rest
<1>17. c \o u = f \o r /\ r \in Seq(Byte)
  <2>1. (f \o rest) \o a.more = f \o (rest \o a.more)
    <3> DEFINE more == a.more
    <3>1. more \in Seq(Byte) /\ f \in Seq(Byte) /\ rest \in Seq(Byte)
      BY <1>5, <1>15
    <3> HIDE DEF more
    <3>2. (f \o rest) \o more = f \o (rest \o more)
      BY <3>1, ConcatAssociative
    <3> QED BY <3>2 DEF more
  <2>2. rest \o a.more \in Seq(Byte)
    BY <1>5, <1>15, ConcatProperties
  <2> QED BY <1>3, <1>15, <2>1, <2>2
<1> HIDE DEF r
<1>18. f[1] = h
  <2>1. Len(f) \in Nat /\ Len(f) # 0
    BY <1>15, <1>16, EmptySeq, LenProperties
  <2>2. 1 \in 1 .. Len(f)
    BY <2>1
  <2>3. (f \o r)[1] = f[1]
    BY <1>15, <1>17, <2>2, JoinedBytes
  <2> QED BY <1>12, <1>17, <2>3
<1>19. Len(f) = FrameLen(buf) /\ Len(f) <= Len(c) /\ Len(f) \in 0 .. buf.size
  <2>1. Len(f) = 1 + m
    BY <1>16, <1>18 DEF m
  <2> QED BY <1>8, <1>9, <1>10, <1>11, <2>1
<1>20. SubSeq(c, 1, Len(f)) = f /\ SubSeq(c, Len(f) + 1, Len(c)) \o u = r
  BY <1>1, <1>15, <1>17, <1>19, SplitFront
<1>21. /\ Peek(buf, Len(f), 0) = SubSeq(c, 1, Len(f))
       /\ Contents(Skip(buf, Len(f))) = SubSeq(c, Len(f) + 1, buf.size)
  BY <1>1, <1>19, ReadBytes DEF c
<1>22. taken' = Append(taken, f)
  BY <1>2, <1>19, <1>20, <1>21
<1>23. Len(taken') = k + 1
  BY <1>1, <1>15, <1>22, AppendProperties DEF k
<1>24. Left' = r
  <2>1. Left' = Contents(buf') \o net'
    BY DEF Left
  <2> QED BY <1>2, <1>8, <1>19, <1>20, <1>21, <2>1 DEF u
<1>25. Untaken' = r
  <2>1. Untaken' = FlattenSeq(SubSeq(a.frames, (k + 1) + 1, n)) \o a.more
    BY <1>2, <1>23 DEF Untaken, a, n
  <2>2. (k + 1) + 1 = k + 2
    BY <1>6
  <2> QED BY <2>1, <2>2 DEF r, rest
<1>26. Len(taken)' <= Len(answer.frames)'
  <2>1. k + 1 <= n
    BY <1>6, <1>14
  <2> QED BY <1>2, <1>23, <2>1 DEF n, a
<1>27. Answered' = Answered /\ Acceptable(answer, request.key)' = Acceptable(answer, request.key)
  BY <1>2 DEF Answered
<1>28. Story'
  BY <1>2, <1>3, <1>24, <1>25, <1>26, <1>27 DEF Story, BeforeReading
<1> QED BY <1>14, <1>22, <1>28 DEF f, a, k, n

LEMMA NextStory ==
  ASSUME HashIsRight, IInv, Story, [Next]_vars
  PROVE  Story'
<1>1. CASE Connect
  BY <1>1, ConnectTells
<1>2. CASE ServerAnswers
  BY <1>2, ServerAnswersTells
<1>3. CASE OpenWindow
  BY <1>3, OpenWindowTells
<1>4. CASE Overflow
  BY <1>4 DEF Overflow, Stay, Story, Answered, BeforeReading
<1>5. CASE Receive
  BY <1>5, ReceiveTells
<1>6. CASE ReceiveFails
  BY <1>6 DEF ReceiveFails, Story, Answered, BeforeReading
<1>7. CASE AcceptResponse
  BY <1>7, AcceptResponseTells
<1>8. CASE RefuseResponse
  BY <1>8, RefuseResponseTells
<1>9. CASE TakeFrame
  BY <1>9, TakeFrameTells
<1>10. CASE LengthError
  BY <1>10 DEF LengthError, Stay, Story, Answered, BeforeReading
<1>11. CASE UNCHANGED vars
  <2>1. Left' = Left /\ Untaken' = Untaken
    BY <1>11 DEF vars, Left, Untaken
  <2> QED BY <1>11, <2>1 DEF vars, Story, Answered
<1>12. QED
  BY <1>1, <1>2, <1>3, <1>4, <1>5, <1>6, <1>7, <1>8, <1>9, <1>10, <1>11 DEF Next

LEMMA AlwaysStory == ASSUME HashIsRight PROVE Spec => [](IInv /\ Story)
<1>1. Init => IInv /\ Story
  BY InitIInv, InitStory
<1>2. IInv /\ Story /\ [Next]_vars => IInv' /\ Story'
  BY NextIInv, NextStory
<1> QED BY <1>1, <1>2, PTL DEF Spec

\* An answer is refused only if it does not complete the handshake: wherever
\* the network cut it, and whatever frames came with it.
THEOREM RefusesRightly ==
  ASSUME NEW text, NEW base64, KeysAreHashed(text, base64)
  PROVE  Spec => []RefusedRightly
<1>1. IInv /\ Story => RefusedRightly
  BY DEF Story, RefusedRightly
<1>2. Spec => [](IInv /\ Story)
  BY TheHashIsRight, AlwaysStory
<1> QED BY <1>1, <1>2, PTL

-----------------------------------------------------------------------------
(* Opening *)

LEMMA InitOpens == Init => Connecting!Init
BY DEF Init, Connecting!Init, Outcome

\* Where connecting has not been answered, and where it has ended.
LEMMA OutcomeOf ==
  /\ phase \in {"start", "options", "connected", "response", "parse"} => Outcome = "pending"
  /\ phase = "open" => Outcome = "open"
  /\ phase \in {"bad url", "no options", "unreachable", "refused", "broken", "overflow",
                "length error"} => Outcome = "failed"
BY DEF Outcome

LEMMA OutcomeNext ==
  /\ phase' \in {"start", "options", "connected", "response", "parse"} => Outcome' = "pending"
  /\ phase' = "open" => Outcome' = "open"
  /\ phase' \in {"bad url", "no options", "unreachable", "refused", "broken", "overflow",
                "length error"} => Outcome' = "failed"
BY DEF Outcome

\* A step of an attempt that is over, or that only ends it.
LEMMA FailOpens ==
  ASSUME UNCHANGED <<request, answer, taken>>, Outcome' = "failed"
  PROVE  [Connecting!Next]_(Connecting!vars)
<1>1. CASE Outcome = "failed"
  BY <1>1 DEF Connecting!vars
<1>2. CASE Outcome # "failed"
  <2>1. Connecting!Fail
    BY <1>2 DEF Connecting!Fail
  <2> QED BY <2>1 DEF Connecting!Next
<1> QED BY <1>1, <1>2

LEMMA StutterOpens ==
  ASSUME UNCHANGED <<request, answer, taken>>, Outcome' = Outcome
  PROVE  [Connecting!Next]_(Connecting!vars)
BY DEF Connecting!vars

LEMMA ConnectOpens ==
  ASSUME Story, Connect
  PROVE  [Connecting!Next]_(Connecting!vars)
<1>1. CASE RejectUrl
  BY <1>1, OutcomeNext, FailOpens DEF RejectUrl, Stay
<1>2. CASE UnknownHost
  BY <1>2, OutcomeNext, FailOpens DEF UnknownHost, Stay
<1>3. CASE NoTlsContext
  BY <1>3, OutcomeNext, FailOpens DEF NoTlsContext, Stay
<1>4. CASE FromUrl
  BY <1>4, OutcomeOf, OutcomeNext, StutterOpens DEF FromUrl, Stay
<1>5. CASE TakeOptions
  BY <1>5, OutcomeOf, OutcomeNext, StutterOpens DEF TakeOptions, Stay
<1>6. CASE DialTcp
  BY <1>6, OutcomeOf, OutcomeNext, StutterOpens, FailOpens DEF DialTcp, Stay
<1>7. CASE DialTls
  BY <1>7, OutcomeOf, OutcomeNext, StutterOpens, FailOpens DEF DialTls, Stay
<1>8. CASE SendRequest
  <2>1. /\ phase = "connected" /\ phase' = "response" /\ answer = NoAnswer
        /\ UNCHANGED <<answer, taken>>
    BY <1>8 DEF SendRequest, Story
  <2>2. Outcome = "pending" /\ Outcome' = "pending"
    BY <2>1, OutcomeOf, OutcomeNext
  <2>3. Connecting!Ask
    BY <2>1, <2>2 DEF Connecting!Ask
  <2> QED BY <2>3 DEF Connecting!Next
<1>9. CASE SendFails
  BY <1>9, OutcomeNext, FailOpens DEF SendFails, Stay
<1>10. QED
  BY <1>1, <1>2, <1>3, <1>4, <1>5, <1>6, <1>7, <1>8, <1>9 DEF Connect

\* Every step of connecting is one of Opening, or none.
LEMMA NextOpens ==
  ASSUME HashIsRight, IInv, Story, [Next]_vars
  PROVE  [Connecting!Next]_(Connecting!vars)
<1>1. CASE Connect
  BY <1>1, ConnectOpens
<1>2. CASE ServerAnswers
  <2>1. /\ phase = "response" /\ answer = NoAnswer /\ answer' \in Answers[request.key]
        /\ request.key \in Keys /\ UNCHANGED <<phase, request, taken>>
    BY <1>2 DEF ServerAnswers, IInv, TypeOK
  <2>2. Outcome = "pending" /\ Outcome' = "pending"
    BY <2>1, OutcomeOf, OutcomeNext
  <2>3. answer' \in Offers
    BY <2>1 DEF Offers
  <2>4. Connecting!Answer
    BY <2>1, <2>2, <2>3 DEF Connecting!Answer
  <2> QED BY <2>4 DEF Connecting!Next
<1>3. CASE OpenWindow
  <2>1. UNCHANGED <<phase, request, answer, taken>>
    BY <1>3 DEF OpenWindow
  <2>2. Outcome' = Outcome
    BY <2>1 DEF Outcome
  <2> QED BY <2>1, <2>2, StutterOpens
<1>4. CASE Overflow
  BY <1>4, OutcomeNext, FailOpens DEF Overflow, Stay
<1>5. CASE Receive
  <2>1. UNCHANGED <<request, answer, taken>>
    BY <1>5 DEF Receive
  <2>2. phase' = phase \/ (phase = "response" /\ phase' = "parse")
    <3>1. PICK n \in 1 .. AtMost(Len(net), WriteWindow(buf).len) :
            LET b == ReceiveInto(buf, SubSeq(net, 1, n))
            IN  AwaitMore(b, View(b), n) \/ ReadResponse(b, View(b), n) \/ ReceiveMore(b)
      BY <1>5 DEF Receive
    <3> DEFINE b == ReceiveInto(buf, SubSeq(net, 1, n))
    <3>2. AwaitMore(b, View(b), n) \/ ReadResponse(b, View(b), n) \/ ReceiveMore(b)
      BY <3>1
    <3> HIDE DEF b
    <3>3. CASE AwaitMore(b, View(b), n)
      BY <3>3 DEF AwaitMore
    <3>4. CASE ReadResponse(b, View(b), n)
      BY <3>4 DEF ReadResponse
    <3>5. CASE ReceiveMore(b)
      BY <3>5 DEF ReceiveMore
    <3> QED BY <3>2, <3>3, <3>4, <3>5
  <2>3. CASE phase' = phase
    <3>1. Outcome' = Outcome
      BY <2>3 DEF Outcome
    <3> QED BY <2>1, <3>1, StutterOpens
  <2>4. CASE phase = "response" /\ phase' = "parse"
    BY <2>1, <2>4, OutcomeOf, OutcomeNext, StutterOpens
  <2> QED BY <2>2, <2>3, <2>4
<1>6. CASE ReceiveFails
  BY <1>6, OutcomeNext, FailOpens DEF ReceiveFails
<1>7. CASE AcceptResponse
  <2>1. /\ phase = "parse" /\ phase' = "open" /\ UNCHANGED <<request, answer, taken>>
        /\ Acceptable(answer, request.key) /\ answer # NoAnswer
    BY <1>7, AcceptResponseTells DEF AcceptResponse, Story, Answered
  <2>2. Outcome = "pending" /\ Outcome' = "open"
    BY <2>1, OutcomeOf, OutcomeNext
  <2>3. Connecting!Open
    BY <2>1, <2>2 DEF Connecting!Open
  <2> QED BY <2>3 DEF Connecting!Next
<1>8. CASE RefuseResponse
  BY <1>8, OutcomeNext, FailOpens DEF RefuseResponse, Stay
<1>9. CASE TakeFrame
  <2>1. /\ phase = "open" /\ phase' = "open" /\ UNCHANGED <<request, answer>>
    BY <1>9 DEF TakeFrame
  <2>2. Outcome = "open" /\ Outcome' = "open"
    BY <2>1, OutcomeOf, OutcomeNext
  <2>3. Connecting!Deliver
    BY <1>9, <2>1, <2>2, TakeFrameTells DEF Connecting!Deliver
  <2> QED BY <2>3 DEF Connecting!Next
<1>10. CASE LengthError
  BY <1>10, OutcomeNext, FailOpens DEF LengthError, Stay
<1>11. CASE UNCHANGED vars
  BY <1>11, StutterOpens DEF vars, Outcome
<1>12. QED
  BY <1>1, <1>2, <1>3, <1>4, <1>5, <1>6, <1>7, <1>8, <1>9, <1>10, <1>11 DEF Next

\* Seen from outside, connecting is Opening: a connection opens only on an
\* answer that accepts the client's key, and what the reader takes are the
\* frames behind it, whole and in order, however the bytes were cut.
THEOREM ConnectingIsOpening ==
  ASSUME NEW text, NEW base64, KeysAreHashed(text, base64)
  PROVE  Spec => HandshakeImplementsOpening
<1>1. Init => Connecting!Init
  BY InitOpens
<1>2. IInv /\ Story /\ [Next]_vars => [Connecting!Next]_(Connecting!vars)
  BY TheHashIsRight, NextOpens
<1>3. Spec => [](IInv /\ Story)
  BY TheHashIsRight, AlwaysStory
<1> QED BY <1>1, <1>2, <1>3, PTL DEF Spec, HandshakeImplementsOpening, Connecting!Spec

-----------------------------------------------------------------------------
(* URLs *)

\* What ends an authority, and what stands before a port.
Slash == "/"
PortSign == ":"

LEMMA SchemesDiffer ==
  ASSUME NEW tls \in BOOLEAN
  PROVE  Scheme(tls) \in {"ws://", "wss://"} /\ (Scheme(tls) = "wss://") = tls
<1>1. "wss://" # "ws://"
  OBVIOUS
<1>2. CASE tls = TRUE
  BY <1>1, <1>2 DEF Scheme
<1>3. CASE tls = FALSE
  BY <1>1, <1>3 DEF Scheme
<1> QED BY <1>2, <1>3

\* The first n tokens, if the next one is the first t or there is none.
LEMMA BeforeIs ==
  ASSUME NEW S, NEW s \in Seq(S), NEW t, NEW n \in 0 .. Len(s),
         \A i \in 1 .. n : s[i] # t,
         n # Len(s) => s[n + 1] = t
  PROVE  /\ Before(t, s) = SubSeq(s, 1, n)
         /\ n = Len(s) => Find(t, s) = 0
         /\ n # Len(s) => Find(t, s) = n + 1
<1> DEFINE f == Find(t, s)  m == Len(s)
<1>1. m \in Nat /\ n \in Nat
  BY LenProperties
<1>2. \/ f = 0 /\ \A i \in 1 .. m : s[i] # t
      \/ f \in 1 .. m /\ s[f] = t /\ \A i \in 1 .. m : s[i] = t => f <= i
  BY FindIs
<1>3. Before(t, s) = IF f = 0 THEN s ELSE SubSeq(s, 1, f - 1)
  BY DEF Before
<1>4. \A i \in 1 .. n : s[i] # t
  OBVIOUS
<1>5. n # m => s[n + 1] = t
  OBVIOUS
<1>6. n \in 0 .. m
  OBVIOUS
<1>7. SubSeq(s, 1, m) = s
  BY SubSeqFull
<1> HIDE DEF f, m
<1>8. CASE n = m
  <2>0. \A i \in 1 .. m : s[i] # t
    BY <1>4, <1>8
  <2>1. f = 0
    BY <1>2, <2>0, Zenon
  <2> QED BY <1>3, <1>7, <1>8, <2>1 DEF f, m
<1>9. CASE n # m
  <2>1. n + 1 \in 1 .. m
    BY <1>1, <1>6, <1>9
  <2>2. f \in 1 .. m /\ s[f] = t /\ f <= n + 1
    BY <1>2, <1>5, <1>9, <2>1
  <2>3. f \notin 1 .. n
    BY <1>4, <2>2
  <2>f. f \in Nat \ {0} /\ f <= n + 1
    BY <2>2
  <2>4. f = n + 1
    BY <1>1, <2>f, <2>3
  <2>5. f # 0 /\ f - 1 = n
    BY <1>1, <2>4
  <2> QED BY <1>3, <1>9, <2>4, <2>5 DEF f, m
<1> QED BY <1>8, <1>9

\* What parseUrl returns, by what the authority is.
Parsed(tls, ip, hostname, path, port) ==
  [ok |-> TRUE, tls |-> tls, ip |-> ip, hostname |-> hostname, path |-> path, port |-> port]

LEMMA ParsedLiteral ==
  ASSUME NEW text, NEW tls \in BOOLEAN, text[1] = Scheme(tls),
         NEW authority, authority = Before(Slash, Tail(text)), authority # << >>,
         NEW path, path = SubSeq(Tail(text), Len(authority) + 1, Len(Tail(text)))
  PROVE  /\ authority \in DOMAIN SocketAddresses =>
              ParseUrl(text) = Parsed(tls, SocketAddresses[authority].ip, << >>, path,
                                      SocketAddresses[authority].port)
         /\ authority \notin DOMAIN SocketAddresses /\ authority \in DOMAIN IpAddresses =>
              ParseUrl(text) = Parsed(tls, IpAddresses[authority], << >>, path, DefaultPort(tls))
<1>1. /\ text[1] \in {"ws://", "wss://"} /\ (text[1] = "wss://") = tls
      /\ Before("/", Tail(text)) = authority
      /\ SubSeq(Tail(text), Len(authority) + 1, Len(Tail(text))) = path
  BY SchemesDiffer DEF Slash
<1>2. ASSUME authority \in DOMAIN SocketAddresses
      PROVE  ParseUrl(text) = Parsed(tls, SocketAddresses[authority].ip, << >>, path,
                                     SocketAddresses[authority].port)
  BY <1>1, <1>2, Zenon DEF ParseUrl, Parsed
<1>3. ASSUME authority \notin DOMAIN SocketAddresses, authority \in DOMAIN IpAddresses
      PROVE  ParseUrl(text) = Parsed(tls, IpAddresses[authority], << >>, path, DefaultPort(tls))
  BY <1>1, <1>3, Zenon DEF ParseUrl, Parsed
<1> QED BY <1>2, <1>3

LEMMA ParsedHost ==
  ASSUME NEW text, NEW tls \in BOOLEAN, text[1] = Scheme(tls),
         NEW authority, authority = Before(Slash, Tail(text)), authority # << >>,
         NEW path, path = SubSeq(Tail(text), Len(authority) + 1, Len(Tail(text))),
         authority \notin DOMAIN SocketAddresses \cup DOMAIN IpAddresses
  PROVE  /\ Find(PortSign, authority) = 0 =>
              ParseUrl(text) = Parsed(tls, NoIp, Before(PortSign, authority), path, DefaultPort(tls))
         /\ Find(PortSign, authority) # 0 /\ IsPort(After(PortSign, authority)) =>
              ParseUrl(text) = Parsed(tls, NoIp, Before(PortSign, authority), path,
                LET given == LeadingNumber[After(PortSign, authority)[1]]
                IN  IF given = 0 THEN DefaultPort(tls) ELSE given)
<1>1. /\ text[1] \in {"ws://", "wss://"} /\ (text[1] = "wss://") = tls
      /\ Before("/", Tail(text)) = authority
      /\ SubSeq(Tail(text), Len(authority) + 1, Len(Tail(text))) = path
  BY SchemesDiffer DEF Slash
<1>2. ASSUME Find(PortSign, authority) = 0
      PROVE  ParseUrl(text) = Parsed(tls, NoIp, Before(PortSign, authority), path, DefaultPort(tls))
  BY <1>1, <1>2, Zenon DEF ParseUrl, Parsed, PortSign
<1>3. ASSUME Find(PortSign, authority) # 0, IsPort(After(PortSign, authority))
      PROVE  ParseUrl(text) = Parsed(tls, NoIp, Before(PortSign, authority), path,
                LET given == LeadingNumber[After(PortSign, authority)[1]]
                IN  IF given = 0 THEN DefaultPort(tls) ELSE given)
  BY <1>1, <1>3, Zenon DEF ParseUrl, Parsed, PortSign
<1> QED BY <1>2, <1>3

\* The options that a URL with this meaning leads to.
GoodOptions(o, meant) ==
  /\ o.tls = meant.tls /\ o.ip = meant.ip /\ o.port = meant.port /\ o.hostname = meant.name
  /\ meant.path = IF o.path = << >> THEN <<Slash>> ELSE o.path

\* The rest of a text behind its first token, cut.
LEMMA TailSlice ==
  ASSUME NEW S, NEW s \in Seq(S), Len(s) >= 1,
         NEW a \in Nat \ {0}, NEW n \in Nat, a + n <= Len(s)
  PROVE  /\ SubSeq(Tail(s), a, a + n - 1) = SubSeq(s, a + 1, a + n)
         /\ Len(SubSeq(s, a + 1, a + n)) = n
         /\ SubSeq(s, a + 1, a + n) \in Seq(S)
<1> DEFINE t == Tail(s)  l == Len(s)
<1>1. /\ t \in Seq(S) /\ l \in Nat \ {0} /\ Len(t) = l - 1
      /\ \A i \in 1 .. l - 1 : t[i] = s[i + 1]
  <2>1. s # << >>
    BY EmptySeq
  <2> QED BY <2>1, TailIs
<1>2. a + n <= l
  OBVIOUS
<1> HIDE DEF t, l
<1> DEFINE x == SubSeq(t, a, a + n - 1)  y == SubSeq(s, a + 1, a + n)
<1>3. x \in Seq(S) /\ Len(x) = n /\ \A j \in 1 .. n : x[j] = t[(a - 1) + j]
  <2>1. a + n <= Len(t) + 1
    BY <1>1, <1>2
  <2> QED BY <1>1, <2>1, Slice
<1>4. y \in Seq(S) /\ Len(y) = n /\ \A j \in 1 .. n : y[j] = s[((a + 1) - 1) + j]
  <2>0. l \in Nat
    BY <1>1
  <2>1. a + 1 \in Nat \ {0} /\ (a + 1) + n <= l + 1 /\ (a + 1) + n - 1 = a + n
    BY <1>2, <2>0
  <2>2. /\ SubSeq(s, a + 1, (a + 1) + n - 1) \in Seq(S)
        /\ Len(SubSeq(s, a + 1, (a + 1) + n - 1)) = n
        /\ \A j \in 1 .. n : SubSeq(s, a + 1, (a + 1) + n - 1)[j] = s[((a + 1) - 1) + j]
    BY <2>1, Slice DEF l
  <2> QED BY <2>1, <2>2
<1> HIDE DEF x, y
<1>5. ASSUME NEW j \in 1 .. n PROVE x[j] = y[j]
  <2>0. l \in Nat
    BY <1>1
  <2>1. (a - 1) + j \in 1 .. l - 1 /\ ((a - 1) + j) + 1 = ((a + 1) - 1) + j
    BY <1>2, <2>0
  <2> QED BY <1>1, <1>3, <1>4, <2>1
<1>6. x = y
  BY <1>3, <1>4, <1>5, SeqEqual
<1> QED BY <1>4, <1>6 DEF x, y, t

\* The authority and the path that parseUrl finds are the ones meant.
LEMMA UrlCut ==
  ASSUME NEW S, NEW text \in Seq(S), NEW n \in 2 .. Len(text),
         Slash \notin ToSet(SubSeq(text, 2, n)),
         \/ SubSeq(text, n + 1, Len(text)) = << >>
         \/ SubSeq(text, n + 1, Len(text))[1] = Slash
  PROVE  /\ SubSeq(text, 2, n) \in Seq(S) /\ SubSeq(text, 2, n) # << >>
         /\ SubSeq(text, 2, n) = Before(Slash, Tail(text))
         /\ SubSeq(text, n + 1, Len(text)) =
              SubSeq(Tail(text), Len(SubSeq(text, 2, n)) + 1, Len(Tail(text)))
<1> DEFINE authority == SubSeq(text, 2, n)  path == SubSeq(text, n + 1, Len(text))
           l == Len(text)  t == Tail(text)  k == n - 1
<1>1. l \in Nat /\ n \in 2 .. l /\ k \in Nat \ {0} /\ k + 1 = n /\ k + 1 <= l /\ l >= 1
  BY LenProperties
<1>s. /\ text \in Seq(S) /\ l = Len(text) /\ t = Tail(text)
      /\ authority = SubSeq(text, 2, n) /\ path = SubSeq(text, n + 1, l)
  OBVIOUS
<1>h. Slash \notin ToSet(authority) /\ (path = << >> \/ path[1] = Slash)
  OBVIOUS
<1>2. /\ t \in Seq(S) /\ Len(t) = l - 1
      /\ \A i \in 1 .. l - 1 : t[i] = text[i + 1]
  <2>1. text # << >>
    BY <1>1, EmptySeq
  <2> QED BY <2>1, TailIs
<1>t. Len(t) = l - 1
  BY <1>2
<1> HIDE DEF l, t, k, authority, path
<1>3. authority = SubSeq(t, 1, k) /\ Len(authority) = k /\ authority \in Seq(S)
  <2>1. 1 \in Nat \ {0} /\ k \in Nat /\ 1 + k <= Len(text) /\ 1 + k - 1 = k /\ 1 + 1 = 2 /\ 1 + k = n
        /\ Len(text) >= 1
    BY <1>1, <1>s
  <2>2. /\ SubSeq(t, 1, 1 + k - 1) = SubSeq(text, 1 + 1, 1 + k)
        /\ Len(SubSeq(text, 1 + 1, 1 + k)) = k
        /\ SubSeq(text, 1 + 1, 1 + k) \in Seq(S)
    BY <1>s, <2>1, TailSlice
  <2> QED BY <1>s, <2>1, <2>2
<1>4. path = SubSeq(t, k + 1, l - 1) /\ Len(path) = l - n /\ path \in Seq(S)
  <2>1. n \in Nat \ {0} /\ l - n \in Nat /\ n + (l - n) <= Len(text) /\ n + (l - n) - 1 = l - 1
        /\ n + (l - n) = l /\ Len(text) >= 1 /\ k + 1 = n
    BY <1>1, <1>s
  <2>2. /\ SubSeq(t, n, n + (l - n) - 1) = SubSeq(text, n + 1, n + (l - n))
        /\ Len(SubSeq(text, n + 1, n + (l - n))) = l - n
        /\ SubSeq(text, n + 1, n + (l - n)) \in Seq(S)
    BY <1>s, <2>1, TailSlice
  <2> QED BY <1>s, <2>1, <2>2
<1>5. ASSUME NEW i \in 1 .. k PROVE t[i] # Slash
  <2>1. authority[i] \in ToSet(authority)
    <3>1. DOMAIN authority = 1 .. k
      BY <1>3, LenProperties
    <3> QED BY <3>1 DEF ToSet
  <2>2. authority[i] = t[i]
    <3>1. 1 \in Nat \ {0} /\ k \in Nat /\ 1 + k <= Len(t) + 1 /\ 1 + k - 1 = k /\ (1 - 1) + i = i
      BY <1>1, <1>t
    <3> QED BY <1>2, <1>3, <3>1, Slice
  <2> QED BY <1>h, <2>1, <2>2
<1>6. ASSUME k # Len(t) PROVE t[k + 1] = Slash
  <2>1. l - n # 0
    BY <1>1, <1>t, <1>6
  <2>2. path # << >>
    BY <1>4, <2>1, EmptySeq
  <2>3. path[1] = t[k + 1]
    <3>1. /\ k + 1 \in Nat \ {0} /\ l - n \in Nat /\ (k + 1) + (l - n) <= Len(t) + 1
          /\ (k + 1) + (l - n) - 1 = l - 1 /\ 1 \in 1 .. l - n
          /\ ((k + 1) - 1) + 1 = k + 1
      BY <1>1, <1>t, <2>1
    <3> DEFINE d == l - n
    <3> HIDE DEF d
    <3>d. k + 1 \in Nat \ {0} /\ d \in Nat /\ (k + 1) + d <= Len(t) + 1
      BY <3>1 DEF d
    <3>2. \A j \in 1 .. d : SubSeq(t, k + 1, (k + 1) + d - 1)[j] = t[((k + 1) - 1) + j]
      <4> DEFINE a == k + 1
      <4>1. a \in Nat \ {0} /\ a + d <= Len(t) + 1 /\ t \in Seq(S)
        BY <1>2, <3>d
      <4> HIDE DEF a
      <4>2. \A j \in 1 .. d : SubSeq(t, a, a + d - 1)[j] = t[(a - 1) + j]
        BY <3>d, <4>1, Slice
      <4> QED BY <4>2 DEF a
    <3>3. 1 \in 1 .. d /\ (k + 1) + d - 1 = l - 1 /\ ((k + 1) - 1) + 1 = k + 1
      BY <3>1 DEF d
    <3>4. SubSeq(t, k + 1, (k + 1) + d - 1)[1] = t[((k + 1) - 1) + 1]
      BY <3>2, <3>3
    <3>5. path = SubSeq(t, k + 1, (k + 1) + d - 1)
      BY <1>4, <3>3
    <3> QED BY <3>3, <3>4, <3>5
  <2> QED BY <1>h, <2>2, <2>3
<1>7. Before(Slash, t) = SubSeq(t, 1, k)
  <2>1. k \in 0 .. Len(t)
    BY <1>1, <1>t
  <2> QED BY <1>2, <1>5, <1>6, <2>1, BeforeIs
<1>8. authority # << >>
  BY <1>1, <1>3, EmptySeq
<1> QED BY <1>s, <1>t, <1>3, <1>4, <1>7, <1>8 DEF authority, path, l, t

\* The ports of 16 bits.
LEMMA PortRange ==
  ASSUME NEW p \in Nat, 0 < p, p < 65536
  PROVE  p < 2^16 /\ p # 0 /\ p \in Nat
BY PowersOfCodePoint

\* A name and its port, as parseUrl takes them apart.
LEMMA NameAlone ==
  ASSUME NEW S, NEW name \in Seq(S), PortSign \notin ToSet(name)
  PROVE  Find(PortSign, name) = 0 /\ Before(PortSign, name) = name
<1> DEFINE k == Len(name)
<1>1. k \in Nat /\ DOMAIN name = 1 .. k
  BY LenProperties
<1>2. \A i \in 1 .. k : name[i] # PortSign
  BY <1>1 DEF ToSet
<1>3. k \in 0 .. k
  BY <1>1
<1>4. Find(PortSign, name) = 0 /\ Before(PortSign, name) = SubSeq(name, 1, k)
  BY <1>2, <1>3, BeforeIs
<1> QED BY <1>4, SubSeqFull

LEMMA NameWithPort ==
  ASSUME NEW S, NEW name \in Seq(S), PortSign \notin ToSet(name),
         NEW token \in S, PortSign \in S
  PROVE  LET authority == name \o <<PortSign, token>>
         IN  /\ Find(PortSign, authority) # 0
             /\ Before(PortSign, authority) = name
             /\ After(PortSign, authority) # << >> /\ After(PortSign, authority)[1] = token
<1> DEFINE k == Len(name)  port == <<PortSign, token>>  a == name \o port
<1>1. k \in Nat /\ DOMAIN name = 1 .. k
  BY LenProperties
<1>2. \A i \in 1 .. k : name[i] # PortSign
  BY <1>1 DEF ToSet
<1>3. port \in Seq(S) /\ Len(port) = 2 /\ port[1] = PortSign /\ port[2] = token
  BY Pair
<1> SUFFICES /\ Find(PortSign, a) # 0 /\ Before(PortSign, a) = name
             /\ After(PortSign, a) # << >> /\ After(PortSign, a)[1] = token
  OBVIOUS
<1> HIDE DEF port
<1>4. /\ a \in Seq(S) /\ Len(a) = k + Len(port)
      /\ \A i \in 1 .. k : a[i] = name[i]
      /\ \A i \in 1 .. Len(port) : a[k + i] = port[i]
  <2>1. port \in Seq(S)
    BY <1>3
  <2> QED BY <2>1, JoinedParts
<1> HIDE DEF a
<1>5. Len(a) = k + 2 /\ a[k + 1] = PortSign /\ a[k + 2] = token
  BY <1>1, <1>3, <1>4
<1>6. k \in 0 .. Len(a) /\ k # Len(a)
  <2>1. k \in Nat /\ Len(a) = k + 2
    BY <1>1, <1>5
  <2> QED BY <2>1
<1>7. \A i \in 1 .. k : a[i] # PortSign
  BY <1>2, <1>4
<1>k. k = Len(name)
  OBVIOUS
<1> HIDE DEF k
<1>8. Find(PortSign, a) = k + 1 /\ Before(PortSign, a) = SubSeq(a, 1, k)
  BY <1>4, <1>5, <1>6, <1>7, BeforeIs
<1>9. SubSeq(a, 1, k) = name
  <2>1. 1 \in Nat \ {0} /\ k \in Nat /\ 1 + k <= Len(a) + 1 /\ 1 + k - 1 = k
    BY <1>1, <1>5
  <2>2. /\ SubSeq(a, 1, k) \in Seq(S) /\ Len(SubSeq(a, 1, k)) = k
        /\ \A j \in 1 .. k : SubSeq(a, 1, k)[j] = a[(1 - 1) + j]
    BY <1>4, <2>1, Slice
  <2>3. \A j \in 1 .. k : (1 - 1) + j = j
    OBVIOUS
  <2>4. \A j \in 1 .. k : SubSeq(a, 1, k)[j] = name[j]
    BY <1>4, <2>2, <2>3
  <2> QED BY <1>k, <2>2, <2>4, SeqEqual
<1>10. After(PortSign, a) = SubSeq(a, (k + 1) + 1, Len(a))
  BY <1>8 DEF After
<1> DEFINE b == k + 2
<1>11. /\ b \in Nat \ {0} /\ 1 \in Nat /\ b + 1 <= Len(a) + 1 /\ b + 1 - 1 = Len(a)
       /\ (k + 1) + 1 = b /\ (b - 1) + 1 = k + 2 /\ 1 \in 1 .. 1
  <2>1. k \in Nat /\ Len(a) = k + 2
    BY <1>1, <1>5
  <2> QED BY <2>1
<1> HIDE DEF b
<1> DEFINE w == SubSeq(a, b, b + 1 - 1)
<1>12. w \in Seq(S) /\ Len(w) = 1 /\ \A j \in 1 .. 1 : w[j] = a[(b - 1) + j]
  BY <1>4, <1>11, Slice
<1>15. After(PortSign, a) = w
  BY <1>10, <1>11
<1> HIDE DEF w
<1>13. w[1] = token
  BY <1>5, <1>11, <1>12
<1>14. w # << >>
  <2>1. w \in Seq(S) /\ Len(w) = 1
    BY <1>12
  <2>2. Len(w) # 0
    BY <2>1
  <2> QED BY <2>1, <2>2, EmptySeq
<1>16. k + 1 # 0
  BY <1>1
<1> QED BY <1>8, <1>9, <1>13, <1>14, <1>15, <1>16

\* A URL with a meaning is parsed to it.
LEMMA MeaningParsed ==
  ASSUME NEW text, NEW meant, MeantBy(text, meant)
  PROVE  /\ text # NoUrl /\ NamesHost(ParseUrl(text))
         /\ GoodOptions(OptionsFrom(ParseUrl(text)), meant)
         /\ meant.tls \in BOOLEAN /\ meant.port \in Nat /\ 0 < meant.port /\ meant.port < 65536
<1> DEFINE tls == meant.tls  S == STRING
<1>1. /\ text \in Seq(S) /\ Len(text) >= 2 /\ tls \in BOOLEAN /\ text[1] = Scheme(tls)
  BY DEF MeantBy
<1>p. meant.port \in Nat /\ 0 < meant.port /\ meant.port < 65536
  BY DEF MeantBy
<1>2. PICK n \in 2 .. Len(text) :
        LET authority == SubSeq(text, 2, n)
            path      == SubSeq(text, n + 1, Len(text))
        IN  /\ "/" \notin ToSet(authority)
            /\ path # << >> => path[1] = "/"
            /\ meant.path = IF path = << >> THEN <<"/">> ELSE path
            /\ MeantAddress(authority, meant) \/ MeantName(authority, meant)
  BY DEF MeantBy
<1> DEFINE authority == SubSeq(text, 2, n)  path == SubSeq(text, n + 1, Len(text))
<1>3. /\ Slash \notin ToSet(authority) /\ (path # << >> => path[1] = Slash)
      /\ meant.path = (IF path = << >> THEN <<Slash>> ELSE path)
      /\ MeantAddress(authority, meant) \/ MeantName(authority, meant)
  BY <1>2, Zenon DEF Slash
<1>4. /\ authority = SubSeq(text, 2, n) /\ path = SubSeq(text, n + 1, Len(text))
  OBVIOUS
<1> HIDE DEF S, authority, path
<1>5. /\ authority \in Seq(S) /\ authority # << >>
      /\ authority = Before(Slash, Tail(text))
      /\ path = SubSeq(Tail(text), Len(authority) + 1, Len(Tail(text)))
  <2>1. Slash \notin ToSet(authority) /\ (path = << >> \/ path[1] = Slash)
    BY <1>3
  <2>2. text \in Seq(S)
    BY <1>1
  <2>3. n \in 2 .. Len(text)
    BY <1>2
  <2>4. /\ SubSeq(text, 2, n) \in Seq(S) /\ SubSeq(text, 2, n) # << >>
        /\ SubSeq(text, 2, n) = Before(Slash, Tail(text))
        /\ SubSeq(text, n + 1, Len(text)) =
             SubSeq(Tail(text), Len(SubSeq(text, 2, n)) + 1, Len(Tail(text)))
    <3>1. /\ Slash \notin ToSet(SubSeq(text, 2, n))
          /\ SubSeq(text, n + 1, Len(text)) = << >> \/ SubSeq(text, n + 1, Len(text))[1] = Slash
      BY <1>4, <2>1
    <3> QED BY <2>2, <2>3, <3>1, UrlCut
  <2> QED BY <1>4, <2>4
<1>6. text # NoUrl
  BY <1>1, EmptySeq DEF NoUrl
<1>7. DefaultPort(tls) = StandardPort(tls)
  BY DEF DefaultPort, StandardPort
<1>8. CASE MeantAddress(authority, meant)
  <2>1. /\ meant.name = << >> /\ meant.ip # NoIp
        /\ IF authority \in DOMAIN SocketAddresses
           THEN SocketAddresses[authority] = [ip |-> meant.ip, port |-> meant.port]
           ELSE /\ authority \in DOMAIN IpAddresses
                /\ IpAddresses[authority] = meant.ip /\ meant.port = StandardPort(tls)
    BY <1>8 DEF MeantAddress
  <2>2. ParseUrl(text) = Parsed(tls, meant.ip, << >>, path, meant.port)
    <3>1. CASE authority \in DOMAIN SocketAddresses
      <4>1. SocketAddresses[authority].ip = meant.ip /\ SocketAddresses[authority].port = meant.port
        BY <2>1, <3>1
      <4>2. ParseUrl(text) = Parsed(tls, SocketAddresses[authority].ip, << >>, path,
                                    SocketAddresses[authority].port)
        BY <1>1, <1>5, <3>1, ParsedLiteral
      <4> QED BY <4>1, <4>2
    <3>2. CASE authority \notin DOMAIN SocketAddresses
      <4>1. /\ authority \in DOMAIN IpAddresses /\ IpAddresses[authority] = meant.ip
            /\ meant.port = StandardPort(tls)
        BY <2>1, <3>2
      <4>2. ParseUrl(text) = Parsed(tls, IpAddresses[authority], << >>, path, DefaultPort(tls))
        BY <1>1, <1>5, <3>2, <4>1, ParsedLiteral
      <4> QED BY <1>7, <4>1, <4>2
    <3> QED BY <3>1, <3>2
  <2>3. NamesHost(ParseUrl(text))
    BY <2>1, <2>2 DEF Parsed, NamesHost
  <2>4. GoodOptions(OptionsFrom(ParseUrl(text)), meant)
    BY <1>3, <2>1, <2>2 DEF Parsed, OptionsFrom, GoodOptions
  <2> QED BY <1>1, <1>p, <1>6, <2>3, <2>4
<1>9. CASE MeantName(authority, meant)
  <2> DEFINE name == meant.name
  <2>1. /\ authority \notin DOMAIN SocketAddresses \cup DOMAIN IpAddresses
        /\ name \in DOMAIN HostAddresses /\ HostAddresses[name] = meant.ip
        /\ name \in Seq(STRING) /\ name # << >> /\ PortSign \notin ToSet(name)
    BY <1>9, Zenon DEF MeantName, PortSign
  <2>2. \/ authority = name /\ meant.port = StandardPort(tls)
        \/ \E token \in DOMAIN LeadingNumber :
             authority = name \o <<PortSign, token>> /\ meant.port = LeadingNumber[token]
    BY <1>9, Zenon DEF MeantName, PortSign
  <2> HIDE DEF name
  <2>3. ParseUrl(text) = Parsed(tls, NoIp, name, path, meant.port)
    <3>1. CASE authority = name /\ meant.port = StandardPort(tls)
      <4>1. Find(PortSign, authority) = 0 /\ Before(PortSign, authority) = name
        BY <2>1, <3>1, NameAlone
      <4>2. ParseUrl(text) = Parsed(tls, NoIp, Before(PortSign, authority), path, DefaultPort(tls))
        BY <1>1, <1>5, <2>1, <4>1, ParsedHost
      <4> QED BY <1>7, <3>1, <4>1, <4>2
    <3>2. ASSUME NEW token \in DOMAIN LeadingNumber,
                 authority = name \o <<PortSign, token>>, meant.port = LeadingNumber[token]
          PROVE  ParseUrl(text) = Parsed(tls, NoIp, name, path, meant.port)
      <4> DEFINE T == STRING \cup {PortSign, token}
      <4>1. name \in Seq(T)
        <5>1. name \in [1 .. Len(name) -> T] /\ Len(name) \in Nat
          BY <2>1, LenProperties, ElementOfSeq
        <5> QED BY <5>1, FunctionIsSeq
      <4>2. token \in T /\ PortSign \in T
        OBVIOUS
      <4> HIDE DEF T
      <4>3. /\ Find(PortSign, authority) # 0 /\ Before(PortSign, authority) = name
            /\ After(PortSign, authority) # << >> /\ After(PortSign, authority)[1] = token
        BY <2>1, <3>2, <4>1, <4>2, NameWithPort
      <4>4. IsPort(After(PortSign, authority))
        <5>1. LeadingNumber[token] < 2^16
          BY <1>p, <3>2, PortRange
        <5> QED BY <3>2, <4>3, <5>1 DEF IsPort
      <4>5. ParseUrl(text) = Parsed(tls, NoIp, Before(PortSign, authority), path,
              LET given == LeadingNumber[After(PortSign, authority)[1]]
              IN  IF given = 0 THEN DefaultPort(tls) ELSE given)
        BY <1>1, <1>5, <2>1, <4>3, <4>4, ParsedHost
      <4>6. LeadingNumber[token] # 0
        BY <1>p, <3>2, PortRange
      <4> QED BY <3>2, <4>3, <4>5, <4>6
    <3> QED BY <2>2, <3>1, <3>2
  <2>4. NamesHost(ParseUrl(text))
    BY <2>1, <2>3 DEF Parsed, NamesHost
  <2>5. GoodOptions(OptionsFrom(ParseUrl(text)), meant)
    BY <1>3, <2>1, <2>3 DEF Parsed, OptionsFrom, GoodOptions, name
  <2> QED BY <1>1, <1>p, <1>6, <2>4, <2>5
<1> QED BY <1>3, <1>8, <1>9

\* What a documented URL has led to: the options it names, and later the
\* request made from them.
Told ==
  LET meant == Documented[url]
  IN  /\ phase # "bad url"
      /\ opts # NoOptions => GoodOptions(opts, meant)
      /\ phase \in {"options", "connected"} => opts # NoOptions
      /\ phase \in {"start", "options", "connected"} => request = NoRequest
      /\ request # NoRequest =>
           opts # NoOptions /\ \E key \in Keys : request = GenerateRequest(opts, key)

UrlInv == url \in DOMAIN Documented => Told

\* The request says what the options mean.
LEMMA RequestSays ==
  ASSUME NEW o, NEW meant, GoodOptions(o, meant), meant.tls \in BOOLEAN,
         meant.port \in Nat, 0 < meant.port, NEW key
  PROVE  LET r == GenerateRequest(o, key)
         IN  /\ r.path = meant.path
             /\ meant.name # << >> => r.host.name = meant.name
             /\ meant.port = IF r.host.port = 0 THEN StandardPort(meant.tls) ELSE r.host.port
<1>1. /\ o.tls = meant.tls /\ o.port = meant.port /\ o.hostname = meant.name
      /\ meant.path = IF o.path = << >> THEN <<"/">> ELSE o.path
  BY Zenon DEF GoodOptions, Slash
<1> DEFINE r == GenerateRequest(o, key)
<1>2. /\ r.path = IF o.path = << >> THEN <<"/">> ELSE o.path
      /\ r.host.name = IF o.hostname = << >> THEN <<"localhost">> ELSE o.hostname
      /\ r.host.port = IF IsStandardPort(o) THEN 0 ELSE o.port
  BY DEF GenerateRequest
<1>3. r.path = meant.path
  BY <1>1, <1>2, Zenon
<1>4. meant.name # << >> => r.host.name = meant.name
  BY <1>1, <1>2
<1>5. meant.port = IF r.host.port = 0 THEN StandardPort(meant.tls) ELSE r.host.port
  <2> DEFINE p == r.host.port  q == meant.port
  <2>1. p = (IF IsStandardPort(o) THEN 0 ELSE q) /\ q # 0
    BY <1>1, <1>2
  <2>2. IsStandardPort(o) => q = StandardPort(meant.tls)
    BY <1>1, <2>1 DEF IsStandardPort, StandardPort
  <2> HIDE DEF p, q
  <2>3. q = IF p = 0 THEN StandardPort(meant.tls) ELSE p
    BY <2>1, <2>2
  <2> QED BY <2>3 DEF p, q
<1> QED BY <1>3, <1>4, <1>5

LEMMA ToldMeans ==
  ASSUME UrlInv
  PROVE  ConnectsWhereUrlSays
<1> SUFFICES ASSUME url \in DOMAIN Documented
             PROVE  LET meant == Documented[url]
                    IN  /\ phase # "bad url"
                        /\ opts # NoOptions =>
                             opts.tls = meant.tls /\ opts.ip = meant.ip /\ opts.port = meant.port
                        /\ request # NoRequest =>
                             /\ request.path = meant.path
                             /\ meant.name # << >> => request.host.name = meant.name
                             /\ meant.port =
                                  IF request.host.port = 0 THEN StandardPort(meant.tls)
                                                           ELSE request.host.port
  BY DEF ConnectsWhereUrlSays
<1> DEFINE meant == Documented[url]
<1>1. /\ phase # "bad url" /\ (opts # NoOptions => GoodOptions(opts, meant))
      /\ request # NoRequest =>
           opts # NoOptions /\ \E key \in Keys : request = GenerateRequest(opts, key)
  BY DEF UrlInv, Told
<1>2. meant.tls \in BOOLEAN /\ meant.port \in Nat /\ 0 < meant.port
  <2>1. MeantBy(url, meant)
    BY DocumentedAssumption
  <2> HIDE DEF meant
  <2> QED BY <2>1, MeaningParsed
<1> HIDE DEF meant
<1>3. opts # NoOptions => opts.tls = meant.tls /\ opts.ip = meant.ip /\ opts.port = meant.port
  BY <1>1 DEF GoodOptions
<1>4. ASSUME request # NoRequest
      PROVE  /\ request.path = meant.path
             /\ meant.name # << >> => request.host.name = meant.name
             /\ meant.port = IF request.host.port = 0 THEN StandardPort(meant.tls)
                                                      ELSE request.host.port
  <2>1. PICK key \in Keys : request = GenerateRequest(opts, key)
    BY <1>1, <1>4
  <2>2. GoodOptions(opts, meant)
    BY <1>1, <1>4
  <2> QED BY <1>2, <2>1, <2>2, RequestSays
<1> QED BY <1>1, <1>3, <1>4 DEF meant

LEMMA InitTold == Init => UrlInv
BY DEF Init, UrlInv, Told

\* Until the request is sent the URL is what decides.
LEMMA ConnectKeepsTold ==
  ASSUME UrlInv, Connect
  PROVE  UrlInv'
<1> SUFFICES ASSUME url' \in DOMAIN Documented PROVE Told'
  BY DEF UrlInv
<1>1. url' = url
  BY DEF Connect, RejectUrl, UnknownHost, NoTlsContext, FromUrl, TakeOptions, DialTcp, DialTls,
         SendRequest, SendFails, Stay
<1>2. url \in DOMAIN Documented /\ Told
  BY <1>1 DEF UrlInv
<1>3. MeantBy(url, Documented[url])
  BY <1>2, DocumentedAssumption
<1>4. /\ url # NoUrl /\ NamesHost(ParseUrl(url))
      /\ GoodOptions(OptionsFrom(ParseUrl(url)), Documented[url])
  BY <1>3, MeaningParsed
<1>5. CASE RejectUrl
  BY <1>4, <1>5 DEF RejectUrl
<1>6. CASE UnknownHost
  BY <1>1, <1>2, <1>6 DEF UnknownHost, Stay, Told
<1>7. CASE NoTlsContext
  BY <1>1, <1>2, <1>7 DEF NoTlsContext, Stay, Told
<1>8. CASE FromUrl
  <2> DEFINE o == OptionsFrom(ParseUrl(url))
  <2>1. opts' = o /\ phase' = "options" /\ request' = request /\ phase = "start"
    BY <1>8 DEF FromUrl, Stay
  <2>2. o # NoOptions
    <3>1. "tls" \in DOMAIN o
      BY DEF OptionsFrom
    <3>2. "tls" \notin DOMAIN NoOptions
      BY DEF NoOptions
    <3> HIDE DEF o
    <3> QED BY <3>1, <3>2
  <2> HIDE DEF o
  <2>3. GoodOptions(o, Documented[url])
    BY <1>4 DEF o
  <2>4. request = NoRequest
    BY <1>2, <2>1 DEF Told
  <2> QED BY <1>1, <2>1, <2>2, <2>3, <2>4 DEF Told
<1>9. CASE TakeOptions
  BY <1>4, <1>9 DEF TakeOptions
<1>10. CASE DialTcp
  BY <1>1, <1>2, <1>10 DEF DialTcp, Stay, Told
<1>11. CASE DialTls
  BY <1>1, <1>2, <1>11 DEF DialTls, Stay, Told
<1>12. CASE SendRequest
  <2>1. /\ phase = "connected" /\ phase' = "response" /\ opts' = opts
        /\ \E key \in Keys : request' = GenerateRequest(opts, key)
    BY <1>12 DEF SendRequest
  <2> QED BY <1>1, <1>2, <2>1 DEF Told
<1>13. CASE SendFails
  BY <1>1, <1>2, <1>13 DEF SendFails, Stay, Told
<1> QED
  BY <1>5, <1>6, <1>7, <1>8, <1>9, <1>10, <1>11, <1>12, <1>13 DEF Connect

\* After that nothing of it changes.
LEMMA NextTold ==
  ASSUME UrlInv, [Next]_vars
  PROVE  UrlInv'
<1>1. CASE Connect
  BY <1>1, ConnectKeepsTold
<1>2. ASSUME UNCHANGED <<url, opts, request>>,
             phase' \notin {"start", "options", "connected", "bad url"} \/ phase' = phase
      PROVE  UrlInv'
  BY <1>2 DEF UrlInv, Told
<1>3. CASE ServerAnswers
  BY <1>2, <1>3 DEF ServerAnswers
<1>4. CASE OpenWindow
  BY <1>2, <1>4 DEF OpenWindow
<1>5. CASE Overflow
  BY <1>2, <1>5 DEF Overflow, Stay
<1>6. CASE Receive
  <2>1. UNCHANGED <<url, opts, request>>
    BY <1>6 DEF Receive
  <2>2. PICK n \in 1 .. AtMost(Len(net), WriteWindow(buf).len) :
          LET b == ReceiveInto(buf, SubSeq(net, 1, n))
          IN  AwaitMore(b, View(b), n) \/ ReadResponse(b, View(b), n) \/ ReceiveMore(b)
    BY <1>6 DEF Receive
  <2> DEFINE b == ReceiveInto(buf, SubSeq(net, 1, n))
  <2>3. AwaitMore(b, View(b), n) \/ ReadResponse(b, View(b), n) \/ ReceiveMore(b)
    BY <2>2
  <2> HIDE DEF b
  <2>4. phase' = "parse" \/ phase' = phase
    BY <2>3 DEF AwaitMore, ReadResponse, ReceiveMore
  <2> QED BY <1>2, <2>1, <2>4
<1>7. CASE ReceiveFails
  BY <1>2, <1>7 DEF ReceiveFails
<1>8. CASE AcceptResponse
  BY <1>2, <1>8 DEF AcceptResponse
<1>9. CASE RefuseResponse
  BY <1>2, <1>9 DEF RefuseResponse, Stay
<1>10. CASE TakeFrame
  BY <1>2, <1>10 DEF TakeFrame
<1>11. CASE LengthError
  BY <1>2, <1>11 DEF LengthError, Stay
<1>12. CASE UNCHANGED vars
  BY <1>2, <1>12 DEF vars
<1> QED
  BY <1>1, <1>3, <1>4, <1>5, <1>6, <1>7, <1>8, <1>9, <1>10, <1>11, <1>12 DEF Next

\* A URL as the documentation writes them leads to the address, the port and
\* the encryption that it names, and the request asks for its path and host,
\* whichever addresses, names and ports there are.
THEOREM UrlsAreFollowed == Spec => []ConnectsWhereUrlSays
<1>1. Init => UrlInv
  BY InitTold
<1>2. UrlInv /\ [Next]_vars => UrlInv'
  BY NextTold
<1>3. UrlInv => ConnectsWhereUrlSays
  BY ToldMeans
<1> QED BY <1>1, <1>2, <1>3, PTL DEF Spec
=============================================================================
