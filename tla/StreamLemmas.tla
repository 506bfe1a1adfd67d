---------------------------- MODULE StreamLemmas ----------------------------
(***************************************************************************)
(* Facts that several proofs share: induction over the natural numbers,    *)
(* stated for sets; appending to and flattening sequences of anything;     *)
(* a stream of which one part is on the wire and the rest in a buffer (a   *)
(* byte is its position); and texts of real bytes, of which isValidUtf8    *)
(* accepts exactly the well-formed ones.                                   *)
(***************************************************************************)
EXTENDS Utf8, SequencesExt, SequenceTheorems, WellFoundedInduction, TLAPS

-----------------------------------------------------------------------------
(* Induction *)

Less == OpToRel(<, Nat)

LEMMA LessMeans == \A x, y \in Nat : <<x, y>> \in Less <=> x < y
BY DEF Less, OpToRel

LEMMA SmallestElement ==
  ASSUME NEW T \in SUBSET Nat, T # {}
  PROVE  \E x \in T : \A y \in T : x <= y
<1>1. IsWellFoundedOn(Less, Nat)
  BY NatLessThanWellFounded DEF Less
<1>2. PICK x \in T : \A y \in T : ~ (<<y, x>> \in Less)
  BY <1>1, WFMin
<1>3. ASSUME NEW y \in T PROVE x <= y
  <2>1. x \in Nat /\ y \in Nat
    OBVIOUS
  <2>2. ~ (y < x)
    BY <1>2, <2>1, LessMeans
  <2> QED BY <2>1, <2>2
<1> QED BY <1>3

\* A set that holds 0 and the successor of each of its numbers holds them all.
LEMMA InductionOverSet ==
  ASSUME NEW S, 0 \in S, \A n \in Nat : n \in S => n + 1 \in S
  PROVE  Nat \subseteq S
<1> DEFINE T == Nat \ S
<1>1. CASE T = {}
  BY <1>1
<1>2. CASE T # {}
  <2>1. PICK x \in T : \A y \in T : x <= y
    BY <1>2, SmallestElement
  <2>2. x # 0 /\ x - 1 \in Nat
    BY <2>1
  <2>3. x - 1 \notin T
    BY <2>1, <2>2
  <2> QED BY <2>1, <2>2, <2>3
<1> QED BY <1>1, <1>2

-----------------------------------------------------------------------------
(* Sequences of anything *)

\* A sequence of anything: what Len, indexing and Append need to know.
IsSequence(s) == \E T : s \in Seq(T)

LEMMA AppendAny ==
  ASSUME NEW s, IsSequence(s), NEW e
  PROVE  /\ IsSequence(Append(s, e))
         /\ Len(s) \in Nat
         /\ Len(Append(s, e)) = Len(s) + 1
         /\ \A i \in 1 .. Len(s) : Append(s, e)[i] = s[i]
         /\ Append(s, e)[Len(s) + 1] = e
<1>1. PICK T : s \in Seq(T)
  BY DEF IsSequence
<1> DEFINE W == T \cup {e}
<1>2. s \in Seq(W) /\ e \in W
  BY <1>1, SeqMonotonic
<1> HIDE DEF W
<1>3. /\ Append(s, e) \in Seq(W) /\ Len(Append(s, e)) = Len(s) + 1
      /\ \A i \in 1 .. Len(s) : Append(s, e)[i] = s[i]
      /\ Append(s, e)[Len(s) + 1] = e
  BY <1>2, AppendProperties
<1>4. QED
  BY <1>2, <1>3 DEF IsSequence

-----------------------------------------------------------------------------
(* Flattening *)

\* The recursive function in FlattenSeq, up to the n-th element.
FlattensUpTo(seqs, n, g) ==
  g = [i \in 1 .. n |-> IF i = 1 THEN seqs[i] ELSE g[i - 1] \o seqs[i]]

LEMMA FlattensUpToExists ==
  ASSUME NEW seqs
  PROVE  \A n \in Nat : \E g : FlattensUpTo(seqs, n, g)
<1> DEFINE S == {n \in Nat : \E g : FlattensUpTo(seqs, n, g)}
<1>1. 0 \in S
  <2> DEFINE g == [i \in 1 .. 0 |-> << >>]
  <2>1. 1 .. 0 = {}
    OBVIOUS
  <2>2. FlattensUpTo(seqs, 0, g)
    BY <2>1 DEF FlattensUpTo
  <2> HIDE DEF g
  <2> QED BY <2>2
<1>2. ASSUME NEW n \in Nat, n \in S PROVE n + 1 \in S
  <2>1. PICK g : FlattensUpTo(seqs, n, g)
    BY <1>2
  <2> DEFINE h == [i \in 1 .. n + 1 |->
                     IF i <= n THEN g[i]
                     ELSE IF i = 1 THEN seqs[i] ELSE g[i - 1] \o seqs[i]]
  <2>2. ASSUME NEW i \in 1 .. n + 1
        PROVE  h[i] = IF i = 1 THEN seqs[i] ELSE h[i - 1] \o seqs[i]
    <3>1. CASE i <= n
      <4>1. i \in 1 .. n /\ (i # 1 => i - 1 \in 1 .. n /\ i - 1 \in 1 .. n + 1 /\ i - 1 <= n)
        BY <3>1
      <4>2. g[i] = IF i = 1 THEN seqs[i] ELSE g[i - 1] \o seqs[i]
        BY <2>1, <4>1, Zenon DEF FlattensUpTo
      <4>3. h[i] = g[i] /\ (i # 1 => h[i - 1] = g[i - 1])
        BY <3>1, <4>1
      <4> HIDE DEF h
      <4> QED BY <4>2, <4>3
    <3>2. CASE ~ (i <= n)
      <4>1. i # 1 => i - 1 \in 1 .. n + 1 /\ i - 1 <= n
        OBVIOUS
      <4>2. i # 1 => h[i - 1] = g[i - 1]
        BY <4>1
      <4>3. h[i] = IF i = 1 THEN seqs[i] ELSE g[i - 1] \o seqs[i]
        BY <3>2
      <4> HIDE DEF h
      <4> QED BY <4>2, <4>3
    <3> QED BY <3>1, <3>2
  <2>3. h = [i \in 1 .. n + 1 |-> h[i]]
    OBVIOUS
  <2> HIDE DEF h
  <2>4. FlattensUpTo(seqs, n + 1, h)
    BY <2>2, <2>3, Zenon DEF FlattensUpTo
  <2> QED BY <2>4
<1> HIDE DEF S
<1>3. Nat \subseteq S
  BY <1>1, <1>2, InductionOverSet
<1> QED BY <1>3 DEF S

LEMMA FlattenValue ==
  ASSUME NEW seqs, IsSequence(seqs), Len(seqs) # 0
  PROVE  \E g : /\ FlattenSeq(seqs) = g[Len(seqs)]
                /\ g[1] = seqs[1]
                /\ \A j \in 1 .. Len(seqs) - 1 : g[j + 1] = g[j] \o seqs[j + 1]
<1>1. Len(seqs) \in Nat /\ seqs # << >>
  BY DEF IsSequence
<1> DEFINE g == CHOOSE g : FlattensUpTo(seqs, Len(seqs), g)
<1>2. FlattensUpTo(seqs, Len(seqs), g)
  BY <1>1, FlattensUpToExists, Zenon
<1>3. FlattenSeq(seqs) = g[Len(seqs)]
  BY <1>1, Zenon DEF FlattenSeq, FlattensUpTo
<1> HIDE DEF g
<1> DEFINE n == Len(seqs)
<1>4. n \in Nat /\ n # 0 /\ FlattensUpTo(seqs, n, g)
  BY <1>1, <1>2
<1> HIDE DEF n
<1>5. \A i \in 1 .. n : g[i] = IF i = 1 THEN seqs[i] ELSE g[i - 1] \o seqs[i]
  BY <1>4, Zenon DEF FlattensUpTo
<1>6. g[1] = seqs[1]
  BY <1>4, <1>5
<1>7. ASSUME NEW j \in 1 .. n - 1 PROVE g[j + 1] = g[j] \o seqs[j + 1]
  <2>1. j + 1 \in 1 .. n /\ j + 1 # 1 /\ (j + 1) - 1 = j
    BY <1>4
  <2> QED BY <1>5, <2>1
<1> QED BY <1>3, <1>6, <1>7 DEF n

LEMMA FlattenOne ==
  ASSUME NEW seqs, IsSequence(seqs), Len(seqs) = 1
  PROVE  FlattenSeq(seqs) = seqs[1]
<1>1. Len(seqs) # 0
  OBVIOUS
<1> QED BY <1>1, FlattenValue

\* One more element is put at the end.
LEMMA FlattenAppend ==
  ASSUME NEW seqs, IsSequence(seqs), Len(seqs) # 0, NEW e
  PROVE  FlattenSeq(Append(seqs, e)) = FlattenSeq(seqs) \o e
<1> DEFINE more == Append(seqs, e)  n == Len(seqs)
<1>1. /\ IsSequence(more) /\ n \in Nat /\ n # 0 /\ Len(more) = n + 1
      /\ \A i \in 1 .. n : more[i] = seqs[i]
      /\ more[n + 1] = e
  BY AppendAny
<1>2. PICK g : /\ FlattenSeq(seqs) = g[n] /\ g[1] = seqs[1]
               /\ \A j \in 1 .. n - 1 : g[j + 1] = g[j] \o seqs[j + 1]
  BY FlattenValue
<1> HIDE DEF more, n
<1>3. PICK h : /\ FlattenSeq(more) = h[n + 1] /\ h[1] = more[1]
               /\ \A j \in 1 .. (n + 1) - 1 : h[j + 1] = h[j] \o more[j + 1]
  <2>1. Len(more) # 0
    BY <1>1
  <2>2. \E h : /\ FlattenSeq(more) = h[Len(more)] /\ h[1] = more[1]
               /\ \A j \in 1 .. Len(more) - 1 : h[j + 1] = h[j] \o more[j + 1]
    BY <1>1, <2>1, FlattenValue, Zenon
  <2> QED BY <1>1, <2>2, Zenon
<1> DEFINE S == {j \in Nat : j + 1 <= n => h[j + 1] = g[j + 1]}
<1>4. 0 \in S
  <2>1. 1 \in 1 .. n
    BY <1>1
  <2> QED BY <1>1, <1>2, <1>3, <2>1
<1>5. ASSUME NEW j \in Nat, j \in S PROVE j + 1 \in S
  <2>1. SUFFICES ASSUME (j + 1) + 1 <= n PROVE h[(j + 1) + 1] = g[(j + 1) + 1]
    BY <1>5
  <2>2. h[j + 1] = g[j + 1]
    BY <1>1, <1>5, <2>1
  <2>3. j + 1 \in 1 .. n - 1 /\ j + 1 \in 1 .. (n + 1) - 1 /\ (j + 1) + 1 \in 1 .. n
    BY <1>1, <2>1
  <2> HIDE DEF S
  <2>4. more[(j + 1) + 1] = seqs[(j + 1) + 1]
    BY <1>1, <2>3
  <2> QED BY <1>2, <1>3, <2>2, <2>3, <2>4
<1> HIDE DEF S
<1>6. n - 1 \in S
  <2>1. Nat \subseteq S
    BY <1>4, <1>5, InductionOverSet
  <2> QED BY <1>1, <2>1
<1>7. h[n] = g[n]
  <2>1. (n - 1) + 1 = n
    BY <1>1
  <2> QED BY <1>1, <1>6, <2>1 DEF S
<1>8. h[n + 1] = h[n] \o more[n + 1]
  <2>1. n \in 1 .. (n + 1) - 1
    BY <1>1
  <2> QED BY <1>3, <2>1
<1> QED BY <1>1, <1>2, <1>3, <1>7, <1>8 DEF more, n

-----------------------------------------------------------------------------
(* Runs of consecutive numbers *)

\* The numbers from a + 1 to a + n, as a sequence.
Run(a, n) == [i \in 1 .. n |-> a + i]

LEMMA RunProperties ==
  ASSUME NEW a \in Nat, NEW n \in Nat
  PROVE  /\ Run(a, n) \in Seq(Nat)
         /\ Len(Run(a, n)) = n
         /\ \A i \in 1 .. n : Run(a, n)[i] = a + i
BY DEF Run

\* What Run(a, n) is followed by when it goes on.
LEMMA RunGoesOn ==
  ASSUME NEW a \in Nat, NEW m \in Nat, NEW n \in Nat
  PROVE  Run(a, m) \o Run(a + m, n) = Run(a, m + n)
<1> DEFINE s == Run(a, m)  t == Run(a + m, n)  u == Run(a, m + n)
<1>0. a + m \in Nat /\ m + n \in Nat
  OBVIOUS
<1>s. s \in Seq(Nat) /\ Len(s) = m /\ \A i \in 1 .. m : s[i] = a + i
  BY RunProperties
<1>t. t \in Seq(Nat) /\ Len(t) = n /\ \A i \in 1 .. n : t[i] = (a + m) + i
  BY <1>0, RunProperties
<1>u. u \in Seq(Nat) /\ Len(u) = m + n /\ \A i \in 1 .. m + n : u[i] = a + i
  BY <1>0, RunProperties
<1> HIDE DEF s, t, u
<1>2. /\ s \o t \in Seq(Nat) /\ Len(s \o t) = m + n
      /\ \A i \in 1 .. m + n : (s \o t)[i] = IF i <= m THEN s[i] ELSE t[i - m]
  BY <1>s, <1>t, ConcatProperties
<1>3. ASSUME NEW i \in 1 .. m + n
      PROVE  (s \o t)[i] = u[i]
  <2>0. i \in Nat /\ i >= 1 /\ u[i] = a + i
    BY <1>u
  <2>1. CASE i <= m
    BY <1>s, <1>2, <2>0, <2>1
  <2>2. CASE i > m
    <3>1. i - m \in 1 .. n
      BY <2>0, <2>2
    <3>2. t[i - m] = (a + m) + (i - m)
      BY <1>t, <3>1
    <3> QED BY <1>2, <2>0, <2>2, <3>2
  <2>3. i <= m \/ i > m
    BY <2>0
  <2> QED BY <2>1, <2>2, <2>3
<1>4. s \o t = u
  BY <1>u, <1>2, <1>3, SeqEqual
<1> QED BY <1>4 DEF s, t, u

LEMMA PartOfRun ==
  ASSUME NEW a \in Nat, NEW n \in Nat, NEW k \in 0 .. n
  PROVE  /\ SubSeq(Run(a, n), 1, k) = Run(a, k)
         /\ SubSeq(Run(a, n), k + 1, n) = Run(a + k, n - k)
<1>1. /\ Run(a, n) \in Seq(Nat) /\ Len(Run(a, n)) = n
      /\ \A i \in 1 .. n : Run(a, n)[i] = a + i
  BY RunProperties
<1>2. /\ Run(a, k) \in Seq(Nat) /\ Len(Run(a, k)) = k
      /\ \A i \in 1 .. k : Run(a, k)[i] = a + i
  BY RunProperties
<1>0. a + k \in Nat /\ n - k \in Nat
  OBVIOUS
<1>3. /\ Run(a + k, n - k) \in Seq(Nat) /\ Len(Run(a + k, n - k)) = n - k
      /\ \A i \in 1 .. n - k : Run(a + k, n - k)[i] = (a + k) + i
  BY <1>0, RunProperties
<1> DEFINE r == Run(a, n)  s == SubSeq(r, 1, k)  t == SubSeq(r, k + 1, n)
<1>4. /\ s \in Seq(Nat) /\ Len(s) = k
      /\ \A i \in 1 .. k : s[i] = r[i]
  BY <1>1, SubSeqProperties
<1>5. /\ t \in Seq(Nat) /\ Len(t) = n - k
      /\ \A i \in 1 .. n - k : t[i] = r[k + i]
  BY <1>1, SubSeqProperties
<1> HIDE DEF r, s, t
<1>6. s = Run(a, k)
  BY <1>1, <1>2, <1>4, SeqEqual DEF r
<1>7. t = Run(a + k, n - k)
  <2>1. ASSUME NEW i \in 1 .. n - k
        PROVE  t[i] = Run(a + k, n - k)[i]
    <3>1. k + i \in 1 .. n /\ a + (k + i) = (a + k) + i
      OBVIOUS
    <3>2. r[k + i] = a + (k + i)
      BY <1>1, <3>1 DEF r
    <3> QED BY <1>3, <1>5, <3>1, <3>2
  <2> QED BY <1>3, <1>5, <2>1, SeqEqual
<1> QED BY <1>6, <1>7 DEF r, s, t

-----------------------------------------------------------------------------
(* A stream of which w has been sent and b is still in the buffer *)

InOrder(w, b, total) ==
  /\ Len(w) + Len(b) = total
  /\ w = Run(0, Len(w))
  /\ b = Run(Len(w), Len(b))

\* Writing appends the next bytes to the buffer.
LEMMA StreamGrows ==
  ASSUME NEW w \in Seq(Nat), NEW b \in Seq(Nat), NEW total \in Nat,
         InOrder(w, b, total), NEW size \in Nat
  PROVE  /\ b \o Run(total, size) \in Seq(Nat)
         /\ InOrder(w, b \o Run(total, size), total + size)
<1>1. Len(w) \in Nat /\ Len(b) \in Nat /\ Len(w) + Len(b) = total
  BY DEF InOrder
<1>2. b \o Run(total, size) = Run(Len(w), Len(b) + size)
  <2>1. b = Run(Len(w), Len(b))
    BY DEF InOrder
  <2>2. Run(Len(w), Len(b)) \o Run(Len(w) + Len(b), size) = Run(Len(w), Len(b) + size)
    BY <1>1, RunGoesOn
  <2> QED BY <1>1, <2>1, <2>2
<1>3. Len(b) + size \in Nat
  BY <1>1
<1>4. /\ b \o Run(total, size) \in Seq(Nat)
      /\ Len(b \o Run(total, size)) = Len(b) + size
  BY <1>1, <1>2, <1>3, RunProperties
<1>5. Len(w) + (Len(b) + size) = total + size
  BY <1>1
<1> QED BY <1>2, <1>4, <1>5 DEF InOrder

\* A short send moves n bytes from the front of the buffer to the wire.
LEMMA StreamMoves ==
  ASSUME NEW w \in Seq(Nat), NEW b \in Seq(Nat), NEW total,
         InOrder(w, b, total), NEW n \in 0 .. Len(b)
  PROVE  /\ SubSeq(b, 1, n) = Run(Len(w), n)
         /\ w \o SubSeq(b, 1, n) \in Seq(Nat)
         /\ SubSeq(b, n + 1, Len(b)) \in Seq(Nat)
         /\ Len(w \o SubSeq(b, 1, n)) = Len(w) + n
         /\ Len(SubSeq(b, n + 1, Len(b))) = Len(b) - n
         /\ InOrder(w \o SubSeq(b, 1, n), SubSeq(b, n + 1, Len(b)), total)
<1> DEFINE lw == Len(w)  lb == Len(b)
<1>1. /\ lw \in Nat /\ lb \in Nat /\ n \in 0 .. lb /\ n \in Nat
      /\ lw + lb = total /\ w = Run(0, lw) /\ b = Run(lw, lb)
  BY DEF InOrder
<1> HIDE DEF lw, lb
<1>2. /\ lw + n \in Nat /\ lb - n \in Nat /\ 0 \in Nat
      /\ (lw + n) + (lb - n) = total /\ 0 + lw = lw
  BY <1>1
<1>3. /\ SubSeq(b, 1, n) = Run(lw, n)
      /\ SubSeq(b, n + 1, lb) = Run(lw + n, lb - n)
  BY <1>1, PartOfRun
<1>4. w \o SubSeq(b, 1, n) = Run(0, lw + n)
  <2>1. Run(0, lw) \o Run(0 + lw, n) = Run(0, lw + n)
    BY <1>1, <1>2, RunGoesOn
  <2> QED BY <1>1, <1>2, <1>3, <2>1
<1>5. /\ w \o SubSeq(b, 1, n) \in Seq(Nat)
      /\ Len(w \o SubSeq(b, 1, n)) = lw + n
  <2>1. Run(0, lw + n) \in Seq(Nat) /\ Len(Run(0, lw + n)) = lw + n
    BY <1>2, RunProperties
  <2> QED BY <1>4, <2>1, Zenon
<1>6. /\ SubSeq(b, n + 1, lb) \in Seq(Nat)
      /\ Len(SubSeq(b, n + 1, lb)) = lb - n
  <2>1. /\ Run(lw + n, lb - n) \in Seq(Nat)
        /\ Len(Run(lw + n, lb - n)) = lb - n
    BY <1>2, RunProperties
  <2> QED BY <1>3, <2>1, Zenon
<1>7. InOrder(w \o SubSeq(b, 1, n), SubSeq(b, n + 1, lb), total)
  BY <1>2, <1>3, <1>4, <1>5, <1>6 DEF InOrder
<1> QED BY <1>3, <1>5, <1>6, <1>7 DEF lw, lb

-----------------------------------------------------------------------------
(* Bytes *)

Octets == 0 .. 255

LEMMA OctetsOf ==
  ASSUME NEW s \in Seq(Octets)
  PROVE  /\ Len(s) \in Nat
         /\ \A i \in 1 .. Len(s) : s[i] \in Octets /\ s[i] \in Nat /\ s[i] < 256
<1>1. \A i \in 1 .. Len(s) : s[i] \in Octets
  OBVIOUS
<1>2. \A x \in Octets : x \in Nat /\ x < 256
  BY DEF Octets
<1> QED BY <1>1, <1>2

\* A slice of a stream, from position a on.
LEMMA Slice ==
  ASSUME NEW S, NEW s \in Seq(S), NEW a \in Nat \ {0}, NEW n \in Nat, a + n <= Len(s) + 1
  PROVE  /\ SubSeq(s, a, a + n - 1) \in Seq(S)
         /\ Len(SubSeq(s, a, a + n - 1)) = n
         /\ \A j \in 1 .. n : SubSeq(s, a, a + n - 1)[j] = s[(a - 1) + j]
<1> DEFINE b == a + n - 1
<1>1. Len(s) \in Nat
  OBVIOUS
<1>2. a \in 1 .. Len(s) + 1 /\ b \in a - 1 .. Len(s) /\ b - a + 1 = n
  BY <1>1
<1> HIDE DEF b
<1>3. /\ SubSeq(s, a, b) \in Seq(S) /\ Len(SubSeq(s, a, b)) = b - a + 1
      /\ \A j \in 1 .. b - a + 1 : SubSeq(s, a, b)[j] = s[a + j - 1]
  BY <1>2, SubSeqProperties
<1>4. \A j \in 1 .. n : a + j - 1 = (a - 1) + j
  OBVIOUS
<1>5. \A j \in 1 .. n : SubSeq(s, a, b)[j] = s[(a - 1) + j]
  BY <1>2, <1>3, <1>4, Zenon
<1> QED BY <1>2, <1>3, <1>5 DEF b

-----------------------------------------------------------------------------
(* UTF-8: one character *)

LEMMA PowersOfCodePoint == 2^6 = 64 /\ 2^11 = 2048 /\ 2^12 = 4096 /\ 2^16 = 65536
                           /\ 2^18 = 262144 /\ 2^21 = 2097152
BY SMT

LEMMA LeadRanges ==
  ASSUME NEW a \in Nat, a < 256
  PROVE  SequenceLength(a) = IF a < 128 THEN 1 ELSE IF a < 192 THEN 0
                             ELSE IF a < 224 THEN 2 ELSE IF a < 240 THEN 3
                             ELSE IF a < 248 THEN 4 ELSE 0
BY SMT DEF SequenceLength

LEMMA TrailRange ==
  ASSUME NEW b \in Nat
  PROVE  IsTrail(b) <=> (128 <= b /\ b <= 191)
BY SMT DEF IsTrail

\* The characters of one, two, three and four bytes.
Good1(a) == a < 128
Good2(a, b) == 194 <= a /\ a <= 223 /\ 128 <= b /\ b <= 191
Good3(a, b, c) ==
  /\ 128 <= c /\ c <= 191
  /\ \/ a = 224 /\ 160 <= b /\ b <= 191
     \/ 225 <= a /\ a <= 236 /\ 128 <= b /\ b <= 191
     \/ a = 237 /\ 128 <= b /\ b <= 159
     \/ 238 <= a /\ a <= 239 /\ 128 <= b /\ b <= 191
Good4(a, b, c, d) ==
  /\ 128 <= c /\ c <= 191 /\ 128 <= d /\ d <= 191
  /\ \/ a = 240 /\ 144 <= b /\ b <= 191
     \/ 241 <= a /\ a <= 243 /\ 128 <= b /\ b <= 191
     \/ a = 244 /\ 128 <= b /\ b <= 143

LEMMA OneByteValue ==
  ASSUME NEW a \in Nat, a < 128
  PROVE  IsCodePointValid(a) /\ ~ IsOverlongSequence(a, 1)
BY SMT DEF IsCodePointValid, IsOverlongSequence

LEMMA TwoByteValue ==
  ASSUME NEW a \in Nat, 192 <= a, a <= 223, NEW b \in Nat, 128 <= b, b <= 191,
         NEW cp, cp = ((a * 64) % 2048) + (b % 64)
  PROVE  IsCodePointValid(cp) /\ ~ IsOverlongSequence(cp, 2) <=> Good2(a, b)
<1>1. (a * 64) % 2048 = (a - 192) * 64 /\ b % 64 = b - 128
  BY SMT
<1>2. cp = (a - 192) * 64 + (b - 128)
  BY <1>1
<1> QED BY <1>2, SMT DEF IsCodePointValid, IsOverlongSequence, Good2

LEMMA ThreeByteValue ==
  ASSUME NEW a \in Nat, 224 <= a, a <= 239, NEW b \in Nat, 128 <= b, b <= 191,
         NEW c \in Nat, 128 <= c, c <= 191,
         NEW cp, cp = ((a * 4096) % 65536) + ((b * 64) % 4096) + (c % 64)
  PROVE  IsCodePointValid(cp) /\ ~ IsOverlongSequence(cp, 3) <=> Good3(a, b, c)
<1>1. (a * 4096) % 65536 = (a - 224) * 4096
  BY SMT
<1>2. (b * 64) % 4096 = (b - 128) * 64 /\ c % 64 = c - 128
  BY SMT
<1>3. cp = (a - 224) * 4096 + (b - 128) * 64 + (c - 128)
  BY <1>1, <1>2
<1> QED BY <1>3, SMT DEF IsCodePointValid, IsOverlongSequence, Good3

LEMMA FourByteValue ==
  ASSUME NEW a \in Nat, 240 <= a, a <= 247, NEW b \in Nat, 128 <= b, b <= 191,
         NEW c \in Nat, 128 <= c, c <= 191, NEW d \in Nat, 128 <= d, d <= 191,
         NEW cp, cp = ((a * 262144) % 2097152) + ((b * 4096) % 262144)
                      + ((c * 64) % 4096) + (d % 64)
  PROVE  IsCodePointValid(cp) /\ ~ IsOverlongSequence(cp, 4) <=> Good4(a, b, c, d)
<1>1. (a * 262144) % 2097152 = (a - 240) * 262144
  BY SMT
<1>2. (b * 4096) % 262144 = (b - 128) * 4096
  BY SMT
<1>3. (c * 64) % 4096 = (c - 128) * 64 /\ d % 64 = d - 128
  BY SMT
<1>4. cp = (a - 240) * 262144 + (b - 128) * 4096 + (c - 128) * 64 + (d - 128)
  BY <1>1, <1>2, <1>3
<1> QED BY <1>4, SMT DEF IsCodePointValid, IsOverlongSequence, Good4

LEMMA ValidatedLength ==
  ASSUME NEW s \in Seq(Octets), NEW i \in 1 .. Len(s)
  PROVE  /\ ValidateNext(s, i) \in {0, 1, 2, 3, 4}
         /\ \A k \in {1, 2, 3, 4} :
              ValidateNext(s, i) = k <=>
                /\ SequenceLength(s[i]) = k
                /\ i + k - 1 <= Len(s)
                /\ \A j \in i + 1 .. i + k - 1 : IsTrail(s[j])
                /\ IsCodePointValid(CodePoint(s, i, k))
                /\ ~ IsOverlongSequence(CodePoint(s, i, k), k)
<1> DEFINE length == SequenceLength(s[i])
           fine(k) == /\ i + k - 1 <= Len(s)
                      /\ \A j \in i + 1 .. i + k - 1 : IsTrail(s[j])
                      /\ IsCodePointValid(CodePoint(s, i, k))
                      /\ ~ IsOverlongSequence(CodePoint(s, i, k), k)
<1>1. s[i] \in Nat /\ s[i] < 256
  BY OctetsOf
<1>2. length \in {0, 1, 2, 3, 4}
  <2> DEFINE a == s[i]
  <2> HIDE DEF a
  <2>1. a \in Nat /\ a < 256
    BY <1>1 DEF a
  <2>2. SequenceLength(a) \in {0, 1, 2, 3, 4}
    BY <2>1, LeadRanges
  <2> QED BY <2>2 DEF a
<1>3. ValidateNext(s, i) = IF length # 0 /\ fine(length) THEN length ELSE 0
  BY DEF ValidateNext
<1> HIDE DEF length, fine
<1>4. /\ ValidateNext(s, i) \in {0, 1, 2, 3, 4}
      /\ \A k \in {1, 2, 3, 4} : ValidateNext(s, i) = k <=> (length = k /\ fine(k))
  BY <1>2, <1>3
<1> QED BY <1>4 DEF length, fine

LEMMA RangesOfTwo ==
  ASSUME NEW a \in Nat, NEW b \in Nat, Good2(a, b)
  PROVE  192 <= a /\ a <= 223 /\ 128 <= b /\ b <= 191
BY SMT DEF Good2

LEMMA RangesOfThree ==
  ASSUME NEW a \in Nat, NEW b \in Nat, NEW c \in Nat, Good3(a, b, c)
  PROVE  224 <= a /\ a <= 239 /\ 128 <= b /\ b <= 191 /\ 128 <= c /\ c <= 191
BY SMT DEF Good3

LEMMA RangesOfFour ==
  ASSUME NEW a \in Nat, NEW b \in Nat, NEW c \in Nat, NEW d \in Nat, Good4(a, b, c, d)
  PROVE  /\ 240 <= a /\ a <= 247 /\ 128 <= b /\ b <= 191
         /\ 128 <= c /\ c <= 191 /\ 128 <= d /\ d <= 191
BY SMT DEF Good4

LEMMA DecodesOne ==
  ASSUME NEW s \in Seq(Octets), NEW i \in 1 .. Len(s)
  PROVE  ValidateNext(s, i) = 1 <=> Good1(s[i])
<1> DEFINE a == s[i]
<1>1. a \in Nat /\ a < 256 /\ Len(s) \in Nat /\ i \in Nat
  BY OctetsOf
<1>2. i + 1 - 1 <= Len(s) /\ i + 1 .. i + 1 - 1 = {}
  BY <1>1
<1>3. CodePoint(s, i, 1) = a
  BY SMT DEF CodePoint
<1>4. ValidateNext(s, i) = 1 <=>
        /\ SequenceLength(a) = 1 /\ IsCodePointValid(a) /\ ~ IsOverlongSequence(a, 1)
  BY <1>2, <1>3, ValidatedLength, SMT
<1> HIDE DEF a
<1>5. SequenceLength(a) = 1 <=> a < 128
  BY <1>1, LeadRanges, SMT
<1>6. a < 128 => IsCodePointValid(a) /\ ~ IsOverlongSequence(a, 1)
  BY <1>1, OneByteValue, SMT
<1>7. ValidateNext(s, i) = 1 <=> a < 128
  BY <1>4, <1>5, <1>6
<1> QED BY <1>7 DEF Good1, a

LEMMA DecodesTwo ==
  ASSUME NEW s \in Seq(Octets), NEW i \in 1 .. Len(s), i + 1 <= Len(s)
  PROVE  ValidateNext(s, i) = 2 <=> Good2(s[i], s[i + 1])
<1> DEFINE a == s[i]  b == s[i + 1]
           cp == ((a * 64) % 2048) + (b % 64)
<1>1. i \in Nat /\ Len(s) \in Nat /\ i + 1 \in 1 .. Len(s)
  OBVIOUS
<1>2. /\ a \in Nat /\ a < 256
      /\ b \in Nat /\ b < 256
  BY <1>1, OctetsOf
<1>3. i + 2 - 1 <= Len(s) /\ i + 1 .. i + 2 - 1 = {i + 1}
  BY <1>1
<1>4. CodePoint(s, i, 2) = cp
  BY PowersOfCodePoint, SMT DEF CodePoint
<1> HIDE DEF cp
<1>5. (\A j \in i + 1 .. i + 2 - 1 : IsTrail(s[j])) <=> (IsTrail(b))
  BY <1>3, Zenon
<1>6. ValidateNext(s, i) = 2 <=>
        /\ SequenceLength(a) = 2
        /\ IsTrail(b)
        /\ IsCodePointValid(cp) /\ ~ IsOverlongSequence(cp, 2)
  <2>1. ValidateNext(s, i) = 2 <=>
          /\ SequenceLength(s[i]) = 2
          /\ i + 2 - 1 <= Len(s)
          /\ \A j \in i + 1 .. i + 2 - 1 : IsTrail(s[j])
          /\ IsCodePointValid(CodePoint(s, i, 2))
          /\ ~ IsOverlongSequence(CodePoint(s, i, 2), 2)
    BY ValidatedLength, Zenon
  <2> QED BY <1>3, <1>4, <1>5, <2>1, Zenon
<1>7. cp = ((a * 64) % 2048) + (b % 64)
  BY DEF cp
<1> HIDE DEF a, b
<1>8. SequenceLength(a) = 2 <=> (192 <= a /\ a <= 223)
  BY <1>2, LeadRanges, SMT
<1>9. IsTrail(b) <=>
        128 <= b /\ b <= 191
  BY <1>2, TrailRange, SMT
<1>10. 192 <= a /\ a <= 223 /\ 128 <= b /\ b <= 191 =>
         (IsCodePointValid(cp) /\ ~ IsOverlongSequence(cp, 2) <=> Good2(a, b))
  BY <1>2, <1>7, TwoByteValue, SMT
<1>11. Good2(a, b) =>
         192 <= a /\ a <= 223 /\ 128 <= b /\ b <= 191
  BY <1>2, RangesOfTwo, SMT
<1>12. ValidateNext(s, i) = 2 <=> Good2(a, b)
  BY <1>6, <1>8, <1>9, <1>10, <1>11
<1> QED BY <1>12 DEF a, b

LEMMA DecodesThree ==
  ASSUME NEW s \in Seq(Octets), NEW i \in 1 .. Len(s), i + 2 <= Len(s)
  PROVE  ValidateNext(s, i) = 3 <=> Good3(s[i], s[i + 1], s[i + 2])
<1> DEFINE a == s[i]  b == s[i + 1]  c == s[i + 2]
           cp == ((a * 4096) % 65536) + ((b * 64) % 4096) + (c % 64)
<1>1. i \in Nat /\ Len(s) \in Nat /\ i + 1 \in 1 .. Len(s) /\ i + 2 \in 1 .. Len(s)
  OBVIOUS
<1>2. /\ a \in Nat /\ a < 256
      /\ b \in Nat /\ b < 256
      /\ c \in Nat /\ c < 256
  BY <1>1, OctetsOf
<1>3. i + 3 - 1 <= Len(s) /\ i + 1 .. i + 3 - 1 = {i + 1, i + 2}
  BY <1>1
<1>4. CodePoint(s, i, 3) = cp
  BY PowersOfCodePoint, SMT DEF CodePoint
<1> HIDE DEF cp
<1>5. (\A j \in i + 1 .. i + 3 - 1 : IsTrail(s[j])) <=> (IsTrail(b) /\ IsTrail(c))
  BY <1>3, Zenon
<1>6. ValidateNext(s, i) = 3 <=>
        /\ SequenceLength(a) = 3
        /\ IsTrail(b) /\ IsTrail(c)
        /\ IsCodePointValid(cp) /\ ~ IsOverlongSequence(cp, 3)
  <2>1. ValidateNext(s, i) = 3 <=>
          /\ SequenceLength(s[i]) = 3
          /\ i + 3 - 1 <= Len(s)
          /\ \A j \in i + 1 .. i + 3 - 1 : IsTrail(s[j])
          /\ IsCodePointValid(CodePoint(s, i, 3))
          /\ ~ IsOverlongSequence(CodePoint(s, i, 3), 3)
    BY ValidatedLength, Zenon
  <2> QED BY <1>3, <1>4, <1>5, <2>1, Zenon
<1>7. cp = ((a * 4096) % 65536) + ((b * 64) % 4096) + (c % 64)
  BY DEF cp
<1> HIDE DEF a, b, c
<1>8. SequenceLength(a) = 3 <=> (224 <= a /\ a <= 239)
  BY <1>2, LeadRanges, SMT
<1>9. IsTrail(b) /\ IsTrail(c) <=>
        128 <= b /\ b <= 191 /\ 128 <= c /\ c <= 191
  BY <1>2, TrailRange, SMT
<1>10. 224 <= a /\ a <= 239 /\ 128 <= b /\ b <= 191 /\ 128 <= c /\ c <= 191 =>
         (IsCodePointValid(cp) /\ ~ IsOverlongSequence(cp, 3) <=> Good3(a, b, c))
  BY <1>2, <1>7, ThreeByteValue, SMT
<1>11. Good3(a, b, c) =>
         224 <= a /\ a <= 239 /\ 128 <= b /\ b <= 191 /\ 128 <= c /\ c <= 191
  BY <1>2, RangesOfThree, SMT
<1>12. ValidateNext(s, i) = 3 <=> Good3(a, b, c)
  BY <1>6, <1>8, <1>9, <1>10, <1>11
<1> QED BY <1>12 DEF a, b, c

LEMMA DecodesFour ==
  ASSUME NEW s \in Seq(Octets), NEW i \in 1 .. Len(s), i + 3 <= Len(s)
  PROVE  ValidateNext(s, i) = 4 <=> Good4(s[i], s[i + 1], s[i + 2], s[i + 3])
<1> DEFINE a == s[i]  b == s[i + 1]  c == s[i + 2]  d == s[i + 3]
           cp == ((a * 262144) % 2097152) + ((b * 4096) % 262144) + ((c * 64) % 4096)
                   + (d % 64)
<1>1. i \in Nat /\ Len(s) \in Nat /\ i + 1 \in 1 .. Len(s) /\ i + 2 \in 1 .. Len(s) /\ i + 3 \in 1 .. Len(s)
  OBVIOUS
<1>2. /\ a \in Nat /\ a < 256
      /\ b \in Nat /\ b < 256
      /\ c \in Nat /\ c < 256
      /\ d \in Nat /\ d < 256
  BY <1>1, OctetsOf
<1>3. i + 4 - 1 <= Len(s) /\ i + 1 .. i + 4 - 1 = {i + 1, i + 2, i + 3}
  BY <1>1
<1>4. CodePoint(s, i, 4) = cp
  BY PowersOfCodePoint, SMT DEF CodePoint
<1> HIDE DEF cp
<1>5. (\A j \in i + 1 .. i + 4 - 1 : IsTrail(s[j])) <=> (IsTrail(b) /\ IsTrail(c) /\ IsTrail(d))
  BY <1>3, Zenon
<1>6. ValidateNext(s, i) = 4 <=>
        /\ SequenceLength(a) = 4
        /\ IsTrail(b) /\ IsTrail(c) /\ IsTrail(d)
        /\ IsCodePointValid(cp) /\ ~ IsOverlongSequence(cp, 4)
  <2>1. ValidateNext(s, i) = 4 <=>
          /\ SequenceLength(s[i]) = 4
          /\ i + 4 - 1 <= Len(s)
          /\ \A j \in i + 1 .. i + 4 - 1 : IsTrail(s[j])
          /\ IsCodePointValid(CodePoint(s, i, 4))
          /\ ~ IsOverlongSequence(CodePoint(s, i, 4), 4)
    BY ValidatedLength, Zenon
  <2> QED BY <1>3, <1>4, <1>5, <2>1, Zenon
<1>7. cp = ((a * 262144) % 2097152) + ((b * 4096) % 262144) + ((c * 64) % 4096)
                   + (d % 64)
  BY DEF cp
<1> HIDE DEF a, b, c, d
<1>8. SequenceLength(a) = 4 <=> (240 <= a /\ a <= 247)
  BY <1>2, LeadRanges, SMT
<1>9. IsTrail(b) /\ IsTrail(c) /\ IsTrail(d) <=>
        128 <= b /\ b <= 191 /\ 128 <= c /\ c <= 191 /\ 128 <= d /\ d <= 191
  BY <1>2, TrailRange, SMT
<1>10. 240 <= a /\ a <= 247 /\ 128 <= b /\ b <= 191 /\ 128 <= c /\ c <= 191 /\ 128 <= d /\ d <= 191 =>
         (IsCodePointValid(cp) /\ ~ IsOverlongSequence(cp, 4) <=> Good4(a, b, c, d))
  BY <1>2, <1>7, FourByteValue, SMT
<1>11. Good4(a, b, c, d) =>
         240 <= a /\ a <= 247 /\ 128 <= b /\ b <= 191 /\ 128 <= c /\ c <= 191 /\ 128 <= d /\ d <= 191
  BY <1>2, RangesOfFour, SMT
<1>12. ValidateNext(s, i) = 4 <=> Good4(a, b, c, d)
  BY <1>6, <1>8, <1>9, <1>10, <1>11
<1> QED BY <1>12 DEF a, b, c, d

-----------------------------------------------------------------------------
(* UTF-8: one row of the table *)

InRow(t, row) ==
  Len(row) = Len(t) /\ \A i \in 1 .. Len(t) : row[i][1] <= t[i] /\ t[i] <= row[i][2]

LEMMA SmallRanges == 1 .. 1 = {1} /\ 1 .. 2 = {1, 2} /\ 1 .. 3 = {1, 2, 3}
                     /\ 1 .. 4 = {1, 2, 3, 4}
OBVIOUS

LEMMA RowOfOne ==
  ASSUME NEW t, NEW p1, NEW q1
  PROVE  InRow(t, << <<p1, q1>> >>) <=>
           Len(t) = 1 /\ p1 <= t[1] /\ t[1] <= q1
<1> DEFINE row == << <<p1, q1>> >>
<1>1. Len(row) = 1 /\ row[1][1] = p1 /\ row[1][2] = q1
  OBVIOUS
<1> HIDE DEF row
<1>2. InRow(t, row) <=>
        Len(t) = 1 /\ \A i \in 1 .. 1 : row[i][1] <= t[i] /\ t[i] <= row[i][2]
  BY <1>1, Zenon DEF InRow
<1>3. (\A i \in 1 .. 1 : row[i][1] <= t[i] /\ t[i] <= row[i][2]) <=>
        (/\ p1 <= t[1] /\ t[1] <= q1)
  BY <1>1, SmallRanges, Zenon
<1> QED BY <1>2, <1>3 DEF row

LEMMA RowOfTwo ==
  ASSUME NEW t, NEW p1, NEW q1, NEW p2, NEW q2
  PROVE  InRow(t, << <<p1, q1>>, <<p2, q2>> >>) <=>
           Len(t) = 2 /\ p1 <= t[1] /\ t[1] <= q1 /\ p2 <= t[2] /\ t[2] <= q2
<1> DEFINE row == << <<p1, q1>>, <<p2, q2>> >>
<1>1. Len(row) = 2 /\ row[1][1] = p1 /\ row[1][2] = q1 /\ row[2][1] = p2 /\ row[2][2] = q2
  OBVIOUS
<1> HIDE DEF row
<1>2. InRow(t, row) <=>
        Len(t) = 2 /\ \A i \in 1 .. 2 : row[i][1] <= t[i] /\ t[i] <= row[i][2]
  BY <1>1, Zenon DEF InRow
<1>3. (\A i \in 1 .. 2 : row[i][1] <= t[i] /\ t[i] <= row[i][2]) <=>
        (/\ p1 <= t[1] /\ t[1] <= q1 /\ p2 <= t[2] /\ t[2] <= q2)
  BY <1>1, SmallRanges, Zenon
<1> QED BY <1>2, <1>3 DEF row

LEMMA RowOfThree ==
  ASSUME NEW t, NEW p1, NEW q1, NEW p2, NEW q2, NEW p3, NEW q3
  PROVE  InRow(t, << <<p1, q1>>, <<p2, q2>>, <<p3, q3>> >>) <=>
           Len(t) = 3 /\ p1 <= t[1] /\ t[1] <= q1 /\ p2 <= t[2] /\ t[2] <= q2 /\ p3 <= t[3] /\ t[3] <= q3
<1> DEFINE row == << <<p1, q1>>, <<p2, q2>>, <<p3, q3>> >>
<1>1. Len(row) = 3 /\ row[1][1] = p1 /\ row[1][2] = q1 /\ row[2][1] = p2 /\ row[2][2] = q2 /\ row[3][1] = p3 /\ row[3][2] = q3
  OBVIOUS
<1> HIDE DEF row
<1>2. InRow(t, row) <=>
        Len(t) = 3 /\ \A i \in 1 .. 3 : row[i][1] <= t[i] /\ t[i] <= row[i][2]
  BY <1>1, Zenon DEF InRow
<1>3. (\A i \in 1 .. 3 : row[i][1] <= t[i] /\ t[i] <= row[i][2]) <=>
        (/\ p1 <= t[1] /\ t[1] <= q1 /\ p2 <= t[2] /\ t[2] <= q2 /\ p3 <= t[3] /\ t[3] <= q3)
  BY <1>1, SmallRanges, Zenon
<1> QED BY <1>2, <1>3 DEF row

LEMMA RowOfFour ==
  ASSUME NEW t, NEW p1, NEW q1, NEW p2, NEW q2, NEW p3, NEW q3, NEW p4, NEW q4
  PROVE  InRow(t, << <<p1, q1>>, <<p2, q2>>, <<p3, q3>>, <<p4, q4>> >>) <=>
           Len(t) = 4 /\ p1 <= t[1] /\ t[1] <= q1 /\ p2 <= t[2] /\ t[2] <= q2 /\ p3 <= t[3] /\ t[3] <= q3 /\ p4 <= t[4] /\ t[4] <= q4
<1> DEFINE row == << <<p1, q1>>, <<p2, q2>>, <<p3, q3>>, <<p4, q4>> >>
<1>1. Len(row) = 4 /\ row[1][1] = p1 /\ row[1][2] = q1 /\ row[2][1] = p2 /\ row[2][2] = q2 /\ row[3][1] = p3 /\ row[3][2] = q3 /\ row[4][1] = p4 /\ row[4][2] = q4
  OBVIOUS
<1> HIDE DEF row
<1>2. InRow(t, row) <=>
        Len(t) = 4 /\ \A i \in 1 .. 4 : row[i][1] <= t[i] /\ t[i] <= row[i][2]
  BY <1>1, Zenon DEF InRow
<1>3. (\A i \in 1 .. 4 : row[i][1] <= t[i] /\ t[i] <= row[i][2]) <=>
        (/\ p1 <= t[1] /\ t[1] <= q1 /\ p2 <= t[2] /\ t[2] <= q2 /\ p3 <= t[3] /\ t[3] <= q3 /\ p4 <= t[4] /\ t[4] <= q4)
  BY <1>1, SmallRanges, Zenon
<1> QED BY <1>2, <1>3 DEF row

LEMMA CharShape ==
  ASSUME NEW t \in Seq(Octets)
  PROVE  WellFormedChar(t) <=>
           \/ Len(t) = 1 /\ Good1(t[1])
           \/ Len(t) = 2 /\ Good2(t[1], t[2])
           \/ Len(t) = 3 /\ Good3(t[1], t[2], t[3])
           \/ Len(t) = 4 /\ Good4(t[1], t[2], t[3], t[4])
<1> DEFINE n == Len(t)  a == t[1]  b == t[2]  c == t[3]  d == t[4]
<1>1. WellFormedChar(t) <=> \E row \in WellFormedRows : InRow(t, row)
  BY Zenon DEF WellFormedChar, InRow
<1> DEFINE r1 == << <<0, 127>> >>
           r2 == << <<194, 223>>, <<128, 191>> >>
           r3 == << <<224, 224>>, <<160, 191>>, <<128, 191>> >>
           r4 == << <<225, 236>>, <<128, 191>>, <<128, 191>> >>
           r5 == << <<237, 237>>, <<128, 159>>, <<128, 191>> >>
           r6 == << <<238, 239>>, <<128, 191>>, <<128, 191>> >>
           r7 == << <<240, 240>>, <<144, 191>>, <<128, 191>>, <<128, 191>> >>
           r8 == << <<241, 243>>, <<128, 191>>, <<128, 191>>, <<128, 191>> >>
           r9 == << <<244, 244>>, <<128, 143>>, <<128, 191>>, <<128, 191>> >>
<1>2. WellFormedRows = {r1, r2, r3, r4, r5, r6, r7, r8, r9}
  BY Zenon DEF WellFormedRows
<1>3. InRow(t, r1) <=> n = 1 /\ 0 <= a /\ a <= 127
  BY RowOfOne
<1>4. InRow(t, r2) <=> n = 2 /\ 194 <= a /\ a <= 223 /\ 128 <= b /\ b <= 191
  BY RowOfTwo
<1>5. InRow(t, r3) <=> n = 3 /\ 224 <= a /\ a <= 224 /\ 160 <= b /\ b <= 191 /\ 128 <= c /\ c <= 191
  BY RowOfThree
<1>6. InRow(t, r4) <=> n = 3 /\ 225 <= a /\ a <= 236 /\ 128 <= b /\ b <= 191 /\ 128 <= c /\ c <= 191
  BY RowOfThree
<1>7. InRow(t, r5) <=> n = 3 /\ 237 <= a /\ a <= 237 /\ 128 <= b /\ b <= 159 /\ 128 <= c /\ c <= 191
  BY RowOfThree
<1>8. InRow(t, r6) <=> n = 3 /\ 238 <= a /\ a <= 239 /\ 128 <= b /\ b <= 191 /\ 128 <= c /\ c <= 191
  BY RowOfThree
<1>9. InRow(t, r7) <=> n = 4 /\ 240 <= a /\ a <= 240 /\ 144 <= b /\ b <= 191 /\ 128 <= c /\ c <= 191 /\ 128 <= d /\ d <= 191
  BY RowOfFour
<1>10. InRow(t, r8) <=> n = 4 /\ 241 <= a /\ a <= 243 /\ 128 <= b /\ b <= 191 /\ 128 <= c /\ c <= 191 /\ 128 <= d /\ d <= 191
  BY RowOfFour
<1>11. InRow(t, r9) <=> n = 4 /\ 244 <= a /\ a <= 244 /\ 128 <= b /\ b <= 143 /\ 128 <= c /\ c <= 191 /\ 128 <= d /\ d <= 191
  BY RowOfFour
<1> HIDE DEF n, a, b, c, d, r1, r2, r3, r4, r5, r6, r7, r8, r9
<1>12. WellFormedChar(t) <=>
         \/ InRow(t, r1)
         \/ InRow(t, r2)
         \/ InRow(t, r3)
         \/ InRow(t, r4)
         \/ InRow(t, r5)
         \/ InRow(t, r6)
         \/ InRow(t, r7)
         \/ InRow(t, r8)
         \/ InRow(t, r9)
  BY <1>1, <1>2, Zenon
<1>13. (n >= 1 => a \in Nat) /\ (n >= 2 => b \in Nat) /\ (n >= 3 => c \in Nat) /\ (n >= 4 => d \in Nat)
       /\ n \in Nat
  <2>1. \A i \in 1 .. Len(t) : t[i] \in Nat
    BY OctetsOf
  <2> QED BY <2>1 DEF n, a, b, c, d
<1>14. n = 1 => ((0 <= a /\ a <= 127) <=> Good1(a))
  BY <1>13, SMT DEF Good1
<1>15. n = 3 =>
         (\/ InRow(t, r3) \/ InRow(t, r4) \/ InRow(t, r5) \/ InRow(t, r6)
          <=> Good3(a, b, c))
  BY <1>5, <1>6, <1>7, <1>8, <1>13, SMT DEF Good3
<1>16. n = 4 => (InRow(t, r7) \/ InRow(t, r8) \/ InRow(t, r9) <=> Good4(a, b, c, d))
  BY <1>9, <1>10, <1>11, <1>13, SMT DEF Good4
<1>17. n = 2 => (InRow(t, r2) <=> Good2(a, b))
  BY <1>4, <1>13, SMT DEF Good2
<1>18. n = 1 => (InRow(t, r1) <=> Good1(a))
  BY <1>3, <1>14, Zenon
<1>19. /\ InRow(t, r1) => n = 1
       /\ InRow(t, r2) => n = 2
       /\ InRow(t, r3) \/ InRow(t, r4) \/ InRow(t, r5) \/ InRow(t, r6) => n = 3
       /\ InRow(t, r7) \/ InRow(t, r8) \/ InRow(t, r9) => n = 4
  BY <1>3, <1>4, <1>5, <1>6, <1>7, <1>8, <1>9, <1>10, <1>11, SMT
<1>20. WellFormedChar(t) <=>
         \/ n = 1 /\ Good1(a)
         \/ n = 2 /\ Good2(a, b)
         \/ n = 3 /\ Good3(a, b, c)
         \/ n = 4 /\ Good4(a, b, c, d)
  BY <1>12, <1>15, <1>16, <1>17, <1>18, <1>19
<1> QED BY <1>20 DEF n, a, b, c, d

\* The decoder steps over exactly the well-formed characters.
LEMMA StepsOverCharacters ==
  ASSUME NEW s \in Seq(Octets), NEW b \in 1 .. Len(s), NEW e \in b .. Len(s)
  PROVE  WellFormedChar(SubSeq(s, b, e)) <=> ValidateNext(s, b) = (e - b) + 1
<1> DEFINE m == (e - b) + 1  t == SubSeq(s, b, e)
<1>1. b \in Nat \ {0} /\ e \in Nat /\ Len(s) \in Nat /\ m \in Nat \ {0} /\ m \in Nat
      /\ b + m <= Len(s) + 1 /\ b + m - 1 = e
  OBVIOUS
<1> HIDE DEF m
<1>2. /\ t \in Seq(Octets) /\ Len(t) = m /\ \A j \in 1 .. m : t[j] = s[(b - 1) + j]
  BY <1>1, Slice
<1> HIDE DEF t
<1>3. WellFormedChar(t) <=>
        \/ m = 1 /\ Good1(t[1])
        \/ m = 2 /\ Good2(t[1], t[2])
        \/ m = 3 /\ Good3(t[1], t[2], t[3])
        \/ m = 4 /\ Good4(t[1], t[2], t[3], t[4])
  BY <1>2, CharShape
<1>4. ValidateNext(s, b) \in {0, 1, 2, 3, 4}
  BY ValidatedLength
<1>5. ASSUME m = 1
      PROVE  ValidateNext(s, b) = 1 <=> Good1(t[1])
  <2>1. 1 \in 1 .. m
    BY <1>5
  <2>2. (b - 1) + 1 = b
    BY <1>1
  <2>3. t[1] = s[b]
    BY <1>2, <2>1, <2>2, Zenon
  <2>5. ValidateNext(s, b) = 1 <=> Good1(s[b])
    BY DecodesOne, Zenon
  <2> QED BY <2>3, <2>5, Zenon
<1>6. ASSUME m = 2
      PROVE  ValidateNext(s, b) = 2 <=> Good2(t[1], t[2])
  <2>1. 1 \in 1 .. m /\ 2 \in 1 .. m
    BY <1>6
  <2>2. (b - 1) + 1 = b /\ (b - 1) + 2 = b + 1
    BY <1>1
  <2>3. t[1] = s[b] /\ t[2] = s[b + 1]
    BY <1>2, <2>1, <2>2, Zenon
  <2>4. b + 1 <= Len(s)
    BY <1>1, <1>6
  <2>5. ValidateNext(s, b) = 2 <=> Good2(s[b], s[b + 1])
    BY <2>4, DecodesTwo, Zenon
  <2> QED BY <2>3, <2>5, Zenon
<1>7. ASSUME m = 3
      PROVE  ValidateNext(s, b) = 3 <=> Good3(t[1], t[2], t[3])
  <2>1. 1 \in 1 .. m /\ 2 \in 1 .. m /\ 3 \in 1 .. m
    BY <1>7
  <2>2. (b - 1) + 1 = b /\ (b - 1) + 2 = b + 1 /\ (b - 1) + 3 = b + 2
    BY <1>1
  <2>3. t[1] = s[b] /\ t[2] = s[b + 1] /\ t[3] = s[b + 2]
    BY <1>2, <2>1, <2>2, Zenon
  <2>4. b + 2 <= Len(s)
    BY <1>1, <1>7
  <2>5. ValidateNext(s, b) = 3 <=> Good3(s[b], s[b + 1], s[b + 2])
    BY <2>4, DecodesThree, Zenon
  <2> QED BY <2>3, <2>5, Zenon
<1>8. ASSUME m = 4
      PROVE  ValidateNext(s, b) = 4 <=> Good4(t[1], t[2], t[3], t[4])
  <2>1. 1 \in 1 .. m /\ 2 \in 1 .. m /\ 3 \in 1 .. m /\ 4 \in 1 .. m
    BY <1>8
  <2>2. (b - 1) + 1 = b /\ (b - 1) + 2 = b + 1 /\ (b - 1) + 3 = b + 2 /\ (b - 1) + 4 = b + 3
    BY <1>1
  <2>3. t[1] = s[b] /\ t[2] = s[b + 1] /\ t[3] = s[b + 2] /\ t[4] = s[b + 3]
    BY <1>2, <2>1, <2>2, Zenon
  <2>4. b + 3 <= Len(s)
    BY <1>1, <1>8
  <2>5. ValidateNext(s, b) = 4 <=> Good4(s[b], s[b + 1], s[b + 2], s[b + 3])
    BY <2>4, DecodesFour, Zenon
  <2> QED BY <2>3, <2>5, Zenon
<1>9. WellFormedChar(t) <=> ValidateNext(s, b) = m
  BY <1>1, <1>3, <1>4, <1>5, <1>6, <1>7, <1>8
<1> QED BY <1>9 DEF m, t

-----------------------------------------------------------------------------
(* UTF-8: a text *)

\* A text is well-formed from a position on.
CutAt(s, p, ends) ==
  /\ p <= Len(s) => Len(s) \in ends
  /\ \A e \in ends :
       \E b \in p .. e :
         /\ b = p \/ b - 1 \in ends
         /\ (b .. e) \cap ends = {e}
         /\ WellFormedChar(SubSeq(s, b, e))

WellFormedFrom(s, p) == \E ends \in SUBSET (p .. Len(s)) : CutAt(s, p, ends)

LEMMA WholeText ==
  ASSUME NEW s \in Seq(Octets)
  PROVE  WellFormedText(s) <=> WellFormedFrom(s, 1)
<1>1. s # << >> <=> 1 <= Len(s)
  OBVIOUS
<1> QED BY <1>1, Zenon DEF WellFormedText, WellFormedFrom, CutAt

\* The first character and what follows it.
LEMMA CharacterInFront ==
  ASSUME NEW s \in Seq(Octets), NEW p \in 1 .. Len(s), NEW q \in p .. Len(s),
         WellFormedChar(SubSeq(s, p, q)), WellFormedFrom(s, q + 1)
  PROVE  WellFormedFrom(s, p)
<1> DEFINE n == Len(s)
<1>0. n \in Nat /\ p \in Nat /\ q \in Nat /\ p <= q /\ q <= n /\ 1 <= p
  OBVIOUS
<1>1. PICK rest \in SUBSET (q + 1 .. n) : CutAt(s, q + 1, rest)
  BY DEF WellFormedFrom
<1> DEFINE ends == rest \cup {q}
<1>2. /\ q + 1 <= n => n \in rest
      /\ \A e \in rest :
           \E b \in q + 1 .. e :
             /\ b = q + 1 \/ b - 1 \in rest
             /\ (b .. e) \cap rest = {e}
             /\ WellFormedChar(SubSeq(s, b, e))
  BY <1>1 DEF CutAt
<1>3. \A e \in rest : e \in Int /\ q + 1 <= e /\ e <= n
  BY <1>0
<1>4. ends \in SUBSET (p .. n)
  BY <1>0, <1>3
<1>5. n \in ends
  <2>1. q + 1 <= n \/ q = n
    BY <1>0
  <2> QED BY <1>2, <2>1
<1>6. ASSUME NEW e \in ends
      PROVE  \E b \in p .. e : /\ b = p \/ b - 1 \in ends
                               /\ (b .. e) \cap ends = {e}
                               /\ WellFormedChar(SubSeq(s, b, e))
  <2>1. CASE e = q
    <3>1. p \in p .. e
      BY <1>0, <2>1
    <3>2. (p .. q) \cap ends = {q}
      BY <1>0, <1>3
    <3> QED BY <2>1, <3>1, <3>2
  <2>2. CASE e # q
    <3>1. e \in rest
      BY <2>2
    <3>2. PICK b \in q + 1 .. e : /\ b = q + 1 \/ b - 1 \in rest
                                  /\ (b .. e) \cap rest = {e}
                                  /\ WellFormedChar(SubSeq(s, b, e))
      BY <1>2, <3>1
    <3>3. b \in Int /\ q + 1 <= b /\ b <= e /\ e \in Int /\ b \in p .. e
      BY <1>0, <1>3, <3>1
    <3>4. b = p \/ b - 1 \in ends
      <4>1. b = q + 1 => b - 1 = q
        BY <1>0
      <4> QED BY <3>2, <4>1
    <3>5. q \notin b .. e
      BY <1>0, <3>3
    <3>6. (b .. e) \cap ends = {e}
      BY <3>2, <3>5
    <3> QED BY <3>2, <3>3, <3>4, <3>6
  <2> QED BY <2>1, <2>2
<1>7. CutAt(s, p, ends)
  BY <1>5, <1>6 DEF CutAt
<1> QED BY <1>4, <1>7 DEF WellFormedFrom

LEMMA CharacterOff ==
  ASSUME NEW s \in Seq(Octets), NEW p \in 1 .. Len(s), WellFormedFrom(s, p)
  PROVE  \E q \in p .. Len(s) :
           WellFormedChar(SubSeq(s, p, q)) /\ WellFormedFrom(s, q + 1)
<1> DEFINE n == Len(s)
<1>0. n \in Nat /\ p \in Nat /\ p <= n /\ 1 <= p
  OBVIOUS
<1>1. PICK ends \in SUBSET (p .. n) : CutAt(s, p, ends)
  BY DEF WellFormedFrom
<1>2. /\ n \in ends
      /\ \A e \in ends :
           \E b \in p .. e :
             /\ b = p \/ b - 1 \in ends
             /\ (b .. e) \cap ends = {e}
             /\ WellFormedChar(SubSeq(s, b, e))
  BY <1>0, <1>1 DEF CutAt
<1>3. \A e \in ends : e \in Nat /\ p <= e /\ e <= n
  BY <1>0
<1>4. ends \in SUBSET Nat /\ ends # {}
  BY <1>2, <1>3
<1>5. PICK q \in ends : \A e \in ends : q <= e
  BY <1>4, SmallestElement
<1>6. q \in Nat /\ p <= q /\ q <= n /\ q \in p .. n
  BY <1>0, <1>3
<1>7. WellFormedChar(SubSeq(s, p, q))
  <2>1. PICK b \in p .. q : /\ b = p \/ b - 1 \in ends
                            /\ WellFormedChar(SubSeq(s, b, q))
    BY <1>2
  <2>2. b - 1 \notin ends
    <3>1. ~ (q <= b - 1)
      BY <1>0, <1>6
    <3> QED BY <1>5, <3>1
  <2> QED BY <2>1, <2>2
<1> DEFINE rest == ends \ {q}
<1>8. \A e \in rest : q + 1 <= e /\ e \in Nat /\ e <= n
  BY <1>3, <1>5, <1>6
<1>9. rest \in SUBSET (q + 1 .. n)
  BY <1>6, <1>8
<1>10. q + 1 <= n => n \in rest
  BY <1>2, <1>6
<1>11. ASSUME NEW e \in rest
       PROVE  \E b \in q + 1 .. e : /\ b = q + 1 \/ b - 1 \in rest
                                    /\ (b .. e) \cap rest = {e}
                                    /\ WellFormedChar(SubSeq(s, b, e))
  <2>1. PICK b \in p .. e : /\ b = p \/ b - 1 \in ends
                            /\ (b .. e) \cap ends = {e}
                            /\ WellFormedChar(SubSeq(s, b, e))
    BY <1>2
  <2>2. q + 1 <= e /\ e \in Nat /\ b \in Int /\ p <= b /\ b <= e
    BY <1>0, <1>8
  <2>3. q \notin b .. e
    BY <2>1
  <2>4. q + 1 <= b /\ b \in q + 1 .. e
    BY <1>6, <2>2, <2>3
  <2>5. b # p
    BY <1>0, <1>6, <2>4
  <2>6. b = q + 1 \/ b - 1 \in rest
    <3>1. b - 1 = q => b = q + 1
      BY <1>6, <2>2
    <3> QED BY <2>1, <2>5, <3>1
  <2>7. (b .. e) \cap rest = {e}
    BY <2>1
  <2> QED BY <2>1, <2>4, <2>6, <2>7
<1>12. CutAt(s, q + 1, rest)
  BY <1>10, <1>11 DEF CutAt
<1>13. WellFormedFrom(s, q + 1)
  BY <1>9, <1>12 DEF WellFormedFrom
<1> QED BY <1>6, <1>7, <1>13

LEMMA NothingLeft ==
  ASSUME NEW s \in Seq(Octets)
  PROVE  WellFormedFrom(s, Len(s) + 1)
<1>1. ~ (Len(s) + 1 <= Len(s))
  OBVIOUS
<1>2. CutAt(s, Len(s) + 1, {})
  BY <1>1 DEF CutAt
<1> QED BY <1>2 DEF WellFormedFrom

\* The recursive function in FindInvalid, as far as it is needed from
\* position lo on.
StepsFrom(s, lo, g) ==
  g = [i \in lo .. Len(s) + 1 |->
         IF i > Len(s) \/ ValidateNext(s, i) = 0 THEN i
         ELSE g[i + ValidateNext(s, i)]]

LEMMA StepIsAhead ==
  ASSUME NEW s \in Seq(Octets), NEW i \in 1 .. Len(s), ValidateNext(s, i) # 0
  PROVE  /\ i + ValidateNext(s, i) \in i + 1 .. Len(s) + 1
         /\ ValidateNext(s, i) \in {1, 2, 3, 4}
<1> DEFINE v == ValidateNext(s, i)
<1>1. v \in {0, 1, 2, 3, 4}
  BY ValidatedLength
<1>2. v \in {1, 2, 3, 4}
  BY <1>1
<1>3. i + v - 1 <= Len(s)
  BY <1>2, ValidatedLength, Zenon
<1> HIDE DEF v
<1>4. i + v \in i + 1 .. Len(s) + 1
  BY <1>2, <1>3
<1> QED BY <1>2, <1>4 DEF v

LEMMA StepsFromExists ==
  ASSUME NEW s \in Seq(Octets)
  PROVE  \E g : StepsFrom(s, 1, g)
<1> DEFINE end == Len(s) + 1
           S == {m \in Nat : m <= Len(s) => \E g : StepsFrom(s, end - m, g)}
<1>0. Len(s) \in Nat /\ end \in Nat /\ end = Len(s) + 1
  OBVIOUS
<1>1. 0 \in S
  <2> DEFINE g == [p \in end .. end |-> p]
  <2>1. StepsFrom(s, end, g)
    <3>1. \A p \in end .. end : p > Len(s)
      BY <1>0
    <3> QED BY <1>0, <3>1 DEF StepsFrom
  <2>2. end - 0 = end
    BY <1>0
  <2> QED BY <2>1, <2>2
<1>2. ASSUME NEW m \in Nat, m \in S PROVE m + 1 \in S
  <2> SUFFICES ASSUME m + 1 <= Len(s) PROVE \E g : StepsFrom(s, end - (m + 1), g)
    OBVIOUS
  <2> DEFINE lo == end - (m + 1)
  <2>0. lo \in 1 .. Len(s) /\ end - m = lo + 1 /\ lo # end /\ lo \in Nat
    BY <1>0
  <2>1. PICK g : StepsFrom(s, lo + 1, g)
    BY <1>0, <1>2, <2>0
  <2> HIDE DEF lo
  <2> DEFINE body(f, p) == IF p > Len(s) \/ ValidateNext(s, p) = 0 THEN p
                           ELSE f[p + ValidateNext(s, p)]
             new == body(g, lo)
             h == [p \in lo .. end |-> IF p = lo THEN new ELSE g[p]]
  <2>2. \A p \in lo + 1 .. end : g[p] = body(g, p)
    BY <1>0, <2>1 DEF StepsFrom
  <2> HIDE DEF new, end
  <2>3. /\ h[lo] = new
        /\ \A p \in lo + 1 .. end : p \in lo .. end /\ p # lo /\ h[p] = g[p]
    BY <1>0, <2>0
  <2>4. ASSUME NEW p \in lo .. end PROVE h[p] = body(h, p)
    <3>1. body(h, p) = body(g, p)
      <4>1. CASE p > Len(s) \/ ValidateNext(s, p) = 0
        BY <4>1
      <4>2. CASE ~ (p > Len(s) \/ ValidateNext(s, p) = 0)
        <5>1. p \in 1 .. Len(s) /\ ValidateNext(s, p) # 0
          BY <1>0, <2>0, <4>2
        <5>2. p + ValidateNext(s, p) \in p + 1 .. Len(s) + 1
          BY <5>1, StepIsAhead
        <5>3. p + ValidateNext(s, p) \in lo + 1 .. end
          <6>1. \A q \in p + 1 .. Len(s) + 1 : q \in lo + 1 .. end
            BY <1>0, <2>0, <5>1
          <6> QED BY <5>2, <6>1
        <5>4. h[p + ValidateNext(s, p)] = g[p + ValidateNext(s, p)]
          BY <2>3, <5>3
        <5> HIDE DEF h
        <5> QED BY <4>2, <5>4
      <4> QED BY <4>1, <4>2
    <3>2. CASE p = lo
      BY <2>3, <3>1, <3>2 DEF new
    <3>3. CASE p # lo
      <4>1. p \in lo + 1 .. end
        BY <1>0, <2>0, <3>3
      <4> HIDE DEF body, h
      <4> QED BY <2>2, <2>3, <3>1, <4>1
    <3> QED BY <3>2, <3>3
  <2>5. h = [p \in lo .. end |-> body(h, p)]
    <3> HIDE DEF body
    <3>1. h = [p \in lo .. end |-> h[p]]
      OBVIOUS
    <3> HIDE DEF h
    <3> QED BY <2>4, <3>1
  <2>6. StepsFrom(s, lo, h)
    BY <1>0, <2>5 DEF StepsFrom
  <2> HIDE DEF h
  <2> QED BY <2>6 DEF lo
<1> HIDE DEF S
<1>3. Nat \subseteq S
  BY <1>1, <1>2, InductionOverSet
<1>4. \E g : StepsFrom(s, end - Len(s), g)
  BY <1>0, <1>3 DEF S
<1>5. end - Len(s) = 1
  BY <1>0
<1> QED BY <1>4, <1>5

LEMMA StepsValue ==
  ASSUME NEW s \in Seq(Octets)
  PROVE  \E g : StepsFrom(s, 1, g) /\ FindInvalid(s) = g[1]
<1> DEFINE c == CHOOSE g : StepsFrom(s, 1, g)
<1>1. StepsFrom(s, 1, c)
  BY StepsFromExists
<1>2. c = CHOOSE g : g = [i \in 1 .. Len(s) + 1 |->
         IF i > Len(s) \/ ValidateNext(s, i) = 0 THEN i
         ELSE g[i + ValidateNext(s, i)]]
  BY DEF StepsFrom
<1>3. FindInvalid(s) = c[1]
  BY <1>2 DEF FindInvalid
<1> QED BY <1>1, <1>3

\* The decoder accepts a text from a position on when it is well-formed there.
LEMMA DecoderIsExact ==
  ASSUME NEW s \in Seq(Octets)
  PROVE  IsValidUtf8(s) <=> WellFormedText(s)
<1> DEFINE n == Len(s)  end == n + 1
<1>0. n \in Nat /\ end \in Nat /\ end = n + 1
  OBVIOUS
<1>1. PICK g : StepsFrom(s, 1, g) /\ FindInvalid(s) = g[1]
  BY StepsValue
<1> DEFINE agree(p) == g[p] = end <=> WellFormedFrom(s, p)
           S == {m \in Nat : \A j \in 0 .. m : j <= n => agree(end - j)}
<1>2. \A p \in 1 .. end :
        g[p] = IF p > n \/ ValidateNext(s, p) = 0 THEN p ELSE g[p + ValidateNext(s, p)]
  BY <1>1 DEF StepsFrom
<1>3. agree(end)
  <2>1. end \in 1 .. end /\ end > n
    BY <1>0
  <2>2. g[end] = end
    BY <1>2, <2>1
  <2> QED BY <2>2, NothingLeft
<1>4. ASSUME NEW p \in 1 .. n,
             \A q \in p + 1 .. end : agree(q)
      PROVE  agree(p)
  <2> DEFINE v == ValidateNext(s, p)
  <2>0. p \in 1 .. end /\ ~ (p > n) /\ p \in Nat /\ p # end
    BY <1>0
  <2>1. CASE v = 0
    <3>1. g[p] = p
      BY <1>2, <2>0, <2>1
    <3>2. ASSUME WellFormedFrom(s, p) PROVE FALSE
      <4>1. PICK q \in p .. n : WellFormedChar(SubSeq(s, p, q))
        BY <3>2, CharacterOff
      <4>2. v = (q - p) + 1
        BY <4>1, StepsOverCharacters
      <4> HIDE DEF v
      <4> QED BY <1>0, <2>1, <4>1, <4>2
    <3> QED BY <2>0, <3>1, <3>2
  <2>2. CASE v # 0
    <3>1. p + v \in p + 1 .. end /\ v \in {1, 2, 3, 4}
      BY <2>2, StepIsAhead
    <3>2. g[p] = g[p + v]
      BY <1>2, <2>0, <2>2
    <3>3. g[p + v] = end <=> WellFormedFrom(s, p + v)
      BY <1>4, <3>1
    <3> DEFINE q == p + v - 1
    <3>4. q \in p .. n /\ v = (q - p) + 1 /\ p + v = q + 1
      <4> HIDE DEF v
      <4> QED BY <1>0, <2>0, <3>1
    <3> HIDE DEF q
    <3>5. WellFormedChar(SubSeq(s, p, q))
      BY <3>4, StepsOverCharacters
    <3>6. WellFormedFrom(s, p + v) => WellFormedFrom(s, p)
      BY <3>4, <3>5, CharacterInFront
    <3>7. ASSUME WellFormedFrom(s, p) PROVE WellFormedFrom(s, p + v)
      <4>1. PICK e \in p .. n : WellFormedChar(SubSeq(s, p, e)) /\ WellFormedFrom(s, e + 1)
        BY <3>7, CharacterOff
      <4>2. v = (e - p) + 1
        BY <4>1, StepsOverCharacters
      <4> HIDE DEF v
      <4>3. p + v = e + 1
        BY <1>0, <2>0, <4>2
      <4> QED BY <4>1, <4>3
    <3> HIDE DEF v
    <3> QED BY <3>2, <3>3, <3>6, <3>7
  <2> QED BY <2>1, <2>2
<1> HIDE DEF agree
<1>5. 0 \in S
  <2>1. \A j \in 0 .. 0 : end - j = end
    BY <1>0
  <2> QED BY <1>3, <2>1
<1>6. ASSUME NEW m \in Nat, m \in S PROVE m + 1 \in S
  <2>1. ASSUME NEW j \in 0 .. m + 1, j <= n PROVE agree(end - j)
    <3>1. CASE j <= m
      BY <1>6, <2>1, <3>1
    <3>2. CASE j > m
      <4> DEFINE p == end - j
      <4>1. p \in 1 .. n /\ j = m + 1
        BY <1>0, <2>1, <3>2
      <4>2. ASSUME NEW q \in p + 1 .. end PROVE agree(q)
        <5>1. end - q \in 0 .. m /\ end - q <= n /\ end - (end - q) = q
          BY <1>0, <2>1, <4>1
        <5>2. agree(end - (end - q))
          BY <1>6, <5>1
        <5> QED BY <5>1, <5>2
      <4> HIDE DEF p
      <4>3. agree(p)
        BY <1>4, <4>1, <4>2
      <4> QED BY <4>3 DEF p
    <3> QED BY <3>1, <3>2
  <2> QED BY <2>1
<1>7. agree(1)
  <2> HIDE DEF S
  <2>1. n \in S
    BY <1>0, <1>5, <1>6, InductionOverSet
  <2>2. n \in 0 .. n /\ n <= n /\ end - n = 1
    BY <1>0
  <2>3. agree(end - n)
    BY <2>1, <2>2 DEF S
  <2> QED BY <2>2, <2>3
<1>8. IsValidUtf8(s) <=> g[1] = end
  BY <1>1 DEF IsValidUtf8
<1> QED BY <1>7, <1>8, WholeText DEF agree

\* Bytes below 128 are characters of their own.
LEMMA AsciiIsText ==
  ASSUME NEW s \in Seq(Octets), \A i \in 1 .. Len(s) : s[i] < 128
  PROVE  IsValidUtf8(s)
<1> DEFINE n == Len(s)  ends == 1 .. n
<1>1. n \in Nat /\ ends \in SUBSET (1 .. n) /\ (s # << >> => n \in ends)
  OBVIOUS
<1>2. ASSUME NEW e \in ends
      PROVE  \E b \in 1 .. e : /\ b = 1 \/ b - 1 \in ends
                               /\ (b .. e) \cap ends = {e}
                               /\ WellFormedChar(SubSeq(s, b, e))
  <2>1. e \in 1 .. e /\ (e = 1 \/ e - 1 \in ends) /\ (e .. e) \cap ends = {e}
        /\ e \in e .. n /\ (e - e) + 1 = 1
    BY <1>1
  <2>2. ValidateNext(s, e) = 1
    BY DecodesOne DEF Good1
  <2>3. WellFormedChar(SubSeq(s, e, e))
    BY <2>1, <2>2, StepsOverCharacters
  <2> HIDE DEF ends
  <2> QED BY <2>1, <2>3
<1>3. WellFormedText(s)
  BY <1>1, <1>2 DEF WellFormedText
<1> QED BY <1>3, DecoderIsExact

=============================================================================
