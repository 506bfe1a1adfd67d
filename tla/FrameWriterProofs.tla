-------------------------- MODULE FrameWriterProofs --------------------------
(***************************************************************************)
(* Proofs about FrameWriter: a server that follows RFC 6455 reads back     *)
(* every message that was written, for every capacity, scratch size, key,  *)
(* payload and cut of flush.                                               *)
(***************************************************************************)
EXTENDS FrameWriter, MCUtf8, RingProofs, StreamLemmas

-----------------------------------------------------------------------------
(* Sequences *)

\* Where the elements of two sequences are once they are joined.
LEMMA Joined ==
  ASSUME NEW S, NEW s \in Seq(S), NEW t \in Seq(S)
  PROVE  /\ s \o t \in Seq(S) /\ Len(s \o t) = Len(s) + Len(t)
         /\ \A j \in 1 .. Len(s) : (s \o t)[j] = s[j]
         /\ \A j \in 1 .. Len(t) : (s \o t)[Len(s) + j] = t[j]
OBVIOUS

LEMMA Regrouped ==
  ASSUME NEW S
  PROVE  \A s, t, u \in Seq(S) : (s \o t) \o u = s \o (t \o u)
BY ConcatAssociative

-----------------------------------------------------------------------------
(* Masking *)

Bit(a, w) == (a \div w) % 2

LEMMA BitSum ==
  ASSUME NEW x \in Nat, NEW y \in Nat
  PROVE  (x + y) % 2 = ((x % 2) + (y % 2)) % 2
OBVIOUS

LEMMA BitsOf ==
  ASSUME NEW a \in 0 .. 255
  PROVE  a = Bit(a, 1) + 2 * Bit(a, 2) + 4 * Bit(a, 4) + 8 * Bit(a, 8)
               + 16 * Bit(a, 16) + 32 * Bit(a, 32) + 64 * Bit(a, 64)
               + 128 * Bit(a, 128)
BY SMTT(60) DEF Bit

LEMMA BitsGiven ==
  ASSUME NEW p \in {0, 1}, NEW q \in {0, 1}, NEW r \in {0, 1}, NEW s \in {0, 1},
         NEW t \in {0, 1}, NEW u \in {0, 1}, NEW v \in {0, 1}, NEW w \in {0, 1},
         NEW x, x = p + 2*q + 4*r + 8*s + 16*t + 32*u + 64*v + 128*w
  PROVE  /\ x \in 0 .. 255
         /\ Bit(x, 1) = p /\ Bit(x, 2) = q /\ Bit(x, 4) = r /\ Bit(x, 8) = s
         /\ Bit(x, 16) = t /\ Bit(x, 32) = u /\ Bit(x, 64) = v /\ Bit(x, 128) = w
BY DEF Bit

\* The bits of a ^ b.
LEMMA XorBits ==
  ASSUME NEW a \in Byte, NEW b \in Byte
  PROVE  /\ Xor(a, b) \in Byte
         /\ \A w \in {1, 2, 4, 8, 16, 32, 64, 128} :
              Bit(Xor(a, b), w) = (Bit(a, w) + Bit(b, w)) % 2
<1>0. Byte = 0 .. 255 /\ a \in 0 .. 255 /\ b \in 0 .. 255
  BY ByteAssumption
<1> DEFINE x(w) == (a \div w + b \div w) % 2
<1>1. \A w \in {1, 2, 4, 8, 16, 32, 64, 128} :
        /\ x(w) \in {0, 1}
        /\ x(w) = (Bit(a, w) + Bit(b, w)) % 2
  <2> SUFFICES ASSUME NEW w \in {1, 2, 4, 8, 16, 32, 64, 128}
               PROVE  x(w) \in {0, 1} /\ x(w) = (Bit(a, w) + Bit(b, w)) % 2
    OBVIOUS
  <2>1. a \div w \in Nat /\ b \div w \in Nat
    BY <1>0
  <2>2. x(w) = (Bit(a, w) + Bit(b, w)) % 2
    BY <2>1, BitSum DEF Bit
  <2>3. x(w) \in {0, 1}
    BY <2>1
  <2> QED BY <2>2, <2>3
<1>2. Xor(a, b) = 1 * x(1) + 2 * x(2) + 4 * x(4) + 8 * x(8) + 16 * x(16)
                    + 32 * x(32) + 64 * x(64) + 128 * x(128)
  BY DEF Xor
<1> DEFINE p == x(1) q == x(2) r == x(4) s == x(8)
           t == x(16) u == x(32) v == x(64) z == x(128)
<1>3. /\ p \in {0, 1} /\ q \in {0, 1} /\ r \in {0, 1} /\ s \in {0, 1}
      /\ t \in {0, 1} /\ u \in {0, 1} /\ v \in {0, 1} /\ z \in {0, 1}
  BY <1>1
<1>4. Xor(a, b) = 1 * p + 2 * q + 4 * r + 8 * s + 16 * t + 32 * u + 64 * v + 128 * z
  BY <1>2
<1>5. \A w \in {1, 2, 4, 8, 16, 32, 64, 128} :
        (Bit(a, w) + Bit(b, w)) % 2 = x(w)
  BY <1>1
<1> DEFINE y == Xor(a, b)
<1>6. /\ y \in Byte
      /\ Bit(y, 1) = x(1) /\ Bit(y, 2) = x(2) /\ Bit(y, 4) = x(4) /\ Bit(y, 8) = x(8)
      /\ Bit(y, 16) = x(16) /\ Bit(y, 32) = x(32) /\ Bit(y, 64) = x(64)
      /\ Bit(y, 128) = x(128)
  <2> HIDE DEF p, q, r, s, t, u, v, z, y
  <2>1. y = p + 2*q + 4*r + 8*s + 16*t + 32*u + 64*v + 128*z
    BY <1>3, <1>4 DEF y
  <2>2. /\ y \in 0 .. 255
        /\ Bit(y, 1) = p /\ Bit(y, 2) = q /\ Bit(y, 4) = r /\ Bit(y, 8) = s
        /\ Bit(y, 16) = t /\ Bit(y, 32) = u /\ Bit(y, 64) = v /\ Bit(y, 128) = z
    BY <1>3, <2>1, BitsGiven, SMTT(60)
  <2> QED BY <1>0, <2>2 DEF p, q, r, s, t, u, v, z
<1> HIDE DEF x, y
<1>7. \A w \in {1, 2, 4, 8, 16, 32, 64, 128} : Bit(y, w) = x(w)
  BY <1>6
<1> QED BY <1>5, <1>6, <1>7 DEF y

\* The server's masking undoes the client's.
LEMMA XorTwice ==
  ASSUME NEW a \in Byte, NEW k \in Byte
  PROVE  Xor(Xor(a, k), k) = a
<1> DEFINE m == Xor(a, k)  y == Xor(m, k)
<1>0. /\ m \in Byte
      /\ \A w \in {1, 2, 4, 8, 16, 32, 64, 128} : Bit(m, w) = (Bit(a, w) + Bit(k, w)) % 2
  BY XorBits
<1> HIDE DEF m
<1>1. /\ y \in Byte
      /\ \A w \in {1, 2, 4, 8, 16, 32, 64, 128} : Bit(y, w) = (Bit(m, w) + Bit(k, w)) % 2
  BY <1>0, XorBits
<1>2. ASSUME NEW w \in {1, 2, 4, 8, 16, 32, 64, 128}
      PROVE  Bit(y, w) = Bit(a, w)
  <2>1. /\ Bit(m, w) = (Bit(a, w) + Bit(k, w)) % 2
        /\ Bit(y, w) = (Bit(m, w) + Bit(k, w)) % 2
    BY <1>0, <1>1
  <2>2. Bit(a, w) \in {0, 1} /\ Bit(k, w) \in {0, 1}
    BY ByteAssumption DEF Bit
  <2> HIDE DEF y
  <2> QED BY <2>1, <2>2
<1> HIDE DEF y
<1>3. y = Bit(y, 1) + 2 * Bit(y, 2) + 4 * Bit(y, 4) + 8 * Bit(y, 8)
               + 16 * Bit(y, 16) + 32 * Bit(y, 32) + 64 * Bit(y, 64)
               + 128 * Bit(y, 128)
  BY <1>1, BitsOf, ByteAssumption
<1>4. a = Bit(a, 1) + 2 * Bit(a, 2) + 4 * Bit(a, 4) + 8 * Bit(a, 8)
               + 16 * Bit(a, 16) + 32 * Bit(a, 32) + 64 * Bit(a, 64)
               + 128 * Bit(a, 128)
  BY BitsOf, ByteAssumption
<1>5. y = a
  BY <1>2, <1>3, <1>4
<1> QED BY <1>5 DEF m, y

-----------------------------------------------------------------------------
(* The length field *)

\* The bytes that follow the second byte of a header.
FormOf(len) == IF len < 126 THEN 0 ELSE IF len <= 65535 THEN 2 ELSE 8

MaxLength == 2147483647

\* The longest number to which Number can add one more byte.
MaxPrefix == 8388607

LEMMA Powers == 256^0 = 1 /\ 256^1 = 256 /\ 256^2 = 65536 /\ 256^3 = 16777216
                /\ 2^23 - 1 = MaxPrefix /\ 2^30 = 1073741824
BY SMT DEF MaxPrefix

LEMMA TwoDigits ==
  ASSUME NEW len \in Nat, len <= 65535, NEW a, NEW b,
         a = (len \div 256) % 256, b = (len \div 1) % 256
  PROVE  a \in Byte /\ b \in Byte /\ a * 256 + b = len
BY ByteAssumption

LEMMA BigEndianTwo ==
  ASSUME NEW len \in Nat, len <= 65535
  PROVE  /\ BigEndian(len, 2) \in Seq(Byte) /\ Len(BigEndian(len, 2)) = 2
         /\ BigEndian(len, 2)[1] * 256 + BigEndian(len, 2)[2] = len
<1> DEFINE f == BigEndian(len, 2)
<1>1. f = [i \in 1 .. 2 |-> (len \div 256^(2 - i)) % 256]
  BY DEF BigEndian
<1>2. f[1] = (len \div 256) % 256 /\ f[2] = (len \div 1) % 256
  BY <1>1, Powers
<1>3. f[1] \in Byte /\ f[2] \in Byte /\ f[1] * 256 + f[2] = len
  BY <1>2, TwoDigits
<1> HIDE DEF f
<1>4. f = <<f[1], f[2]>>
  BY <1>1
<1> DEFINE a == f[1]  b == f[2]
<1> HIDE DEF a, b
<1>5. f = <<a, b>> /\ a \in Byte /\ b \in Byte
  BY <1>3, <1>4 DEF a, b
<1>6. f \in Seq(Byte) /\ Len(f) = 2
  BY <1>5
<1> QED BY <1>3, <1>6 DEF f

LEMMA BigEndianFour ==
  ASSUME NEW len \in Nat, len <= MaxLength
  PROVE  /\ BigEndian(len, 4) \in Seq(Byte) /\ Len(BigEndian(len, 4)) = 4
         /\ BigEndian(len, 4)[1] < 128
         /\ BigEndian(len, 4)[1] * 16777216 + BigEndian(len, 4)[2] * 65536
              + BigEndian(len, 4)[3] * 256 + BigEndian(len, 4)[4] = len
<1> DEFINE f == BigEndian(len, 4)
<1>1. f = [i \in 1 .. 4 |-> (len \div 256^(4 - i)) % 256]
  BY SMT DEF BigEndian
<1>2. /\ f[1] = (len \div 16777216) % 256 /\ f[2] = (len \div 65536) % 256
      /\ f[3] = (len \div 256) % 256 /\ f[4] = (len \div 1) % 256
  BY <1>1, Powers, SMT
<1> DEFINE a == f[1]  b == f[2]  c == f[3]  d == f[4]
<1> HIDE DEF a, b, c, d
<1>3. /\ a \in Byte /\ a < 128 /\ b \in Byte /\ c \in Byte /\ d \in Byte
      /\ a * 16777216 + b * 65536 + c * 256 + d = len
  <2>1. /\ a = (len \div 16777216) % 256 /\ b = (len \div 65536) % 256
        /\ c = (len \div 256) % 256 /\ d = (len \div 1) % 256
    BY <1>2, SMT DEF a, b, c, d
  <2>2. len <= 2147483647
    BY SMT DEF MaxLength
  <2> HIDE DEF f
  <2> QED BY <2>1, <2>2, ByteAssumption, SMTT(60)
<1> HIDE DEF f
<1>4. f = <<a, b, c, d>>
  BY <1>1, SMT DEF a, b, c, d
<1>5. f \in Seq(Byte) /\ Len(f) = 4
  BY <1>3, <1>4, SMT
<1>6. f[1] = a /\ f[2] = b /\ f[3] = c /\ f[4] = d
  BY SMT DEF a, b, c, d
<1> QED BY <1>3, <1>5, <1>6, SMT DEF f

Word(a, b, c, d) == a * 16777216 + b * 65536 + c * 256 + d

\* What the server finds in a length field.
IsField(f, len) ==
  /\ f \in Seq(Byte) /\ Len(f) = 1 + FormOf(len)
  /\ f[1] \in Byte /\ f[1] < 128
  /\ FormOf(len) = 0 => f[1] = len /\ len < 126
  /\ FormOf(len) = 2 => f[1] = 126 /\ f[2] * 256 + f[3] = len
  /\ FormOf(len) = 8 =>
       /\ f[1] = 127 /\ f[2] = 0 /\ f[3] = 0 /\ f[4] = 0 /\ f[5] = 0 /\ f[6] < 128
       /\ Word(f[6], f[7], f[8], f[9]) = len

LEMMA FieldShape ==
  ASSUME NEW len \in Nat, len <= MaxLength
  PROVE  IsField(LengthField(len), len)
<1> DEFINE f == LengthField(len)
<1>1. CASE len < 126
  <2>1. f = <<len>> /\ FormOf(len) = 0
    BY <1>1, SMT DEF LengthField, FormOf
  <2>2. len \in Byte
    BY <1>1, ByteAssumption, SMT
  <2>3. f \in Seq(Byte) /\ Len(f) = 1 /\ f[1] = len
    BY <2>1, <2>2, SMT
  <2> HIDE DEF f
  <2>4. IsField(f, len)
    BY <1>1, <2>1, <2>2, <2>3, SMT DEF IsField
  <2> QED BY <2>4 DEF f
<1>2. CASE len >= 126 /\ len <= 65535
  <2> DEFINE g == BigEndian(len, 2)  h == <<126>>
  <2>1. f = h \o g /\ FormOf(len) = 2
    BY <1>2, SMT DEF LengthField, FormOf
  <2>2. g \in Seq(Byte) /\ Len(g) = 2 /\ g[1] * 256 + g[2] = len
    BY <1>2, BigEndianTwo, SMT
  <2>3. h \in Seq(Byte) /\ Len(h) = 1 /\ h[1] = 126 /\ 126 \in Byte
    BY ByteAssumption, SMT
  <2> HIDE DEF g, f, h
  <2>4. /\ f \in Seq(Byte) /\ Len(f) = 3
        /\ \A j \in 1 .. Len(h) : f[j] = h[j]
        /\ \A j \in 1 .. Len(g) : f[Len(h) + j] = g[j]
    <3>0. h \in Seq(Byte) /\ g \in Seq(Byte)
      BY <2>2, <2>3, SMT
    <3>1. /\ h \o g \in Seq(Byte) /\ Len(h \o g) = Len(h) + Len(g)
          /\ \A j \in 1 .. Len(h) : (h \o g)[j] = h[j]
          /\ \A j \in 1 .. Len(g) : (h \o g)[Len(h) + j] = g[j]
      BY <3>0, Joined
    <3>2. Len(h) + Len(g) = 3
      BY <2>2, <2>3, SMT
    <3>3. f = h \o g
      BY <2>1
    <3> QED BY <3>1, <3>2, <3>3, Zenon
  <2>5. f[1] = 126 /\ f[2] = g[1] /\ f[3] = g[2]
    BY <2>2, <2>3, <2>4, SMT
  <2>6. IsField(f, len)
    BY <2>1, <2>2, <2>3, <2>4, <2>5, SMT DEF IsField
  <2> QED BY <2>6 DEF f
<1>3. CASE len > 65535
  <2> DEFINE g == BigEndian(len, 4)  h == <<127, 0, 0, 0, 0>>
  <2>1. f = h \o g /\ FormOf(len) = 8
    BY <1>3, SMT DEF LengthField, FormOf
  <2>2. g \in Seq(Byte) /\ Len(g) = 4 /\ g[1] < 128
        /\ g[1] * 16777216 + g[2] * 65536 + g[3] * 256 + g[4] = len
    BY BigEndianFour, SMT
  <2>3. h \in Seq(Byte) /\ Len(h) = 5 /\ h[1] = 127 /\ 127 \in Byte
        /\ h[2] = 0 /\ h[3] = 0 /\ h[4] = 0 /\ h[5] = 0
    BY ByteAssumption, SMT
  <2> HIDE DEF g, f, h
  <2>4. /\ f \in Seq(Byte) /\ Len(f) = 9
        /\ \A j \in 1 .. Len(h) : f[j] = h[j]
        /\ \A j \in 1 .. Len(g) : f[Len(h) + j] = g[j]
    <3>0. h \in Seq(Byte) /\ g \in Seq(Byte)
      BY <2>2, <2>3, SMT
    <3>1. /\ h \o g \in Seq(Byte) /\ Len(h \o g) = Len(h) + Len(g)
          /\ \A j \in 1 .. Len(h) : (h \o g)[j] = h[j]
          /\ \A j \in 1 .. Len(g) : (h \o g)[Len(h) + j] = g[j]
      BY <3>0, Joined
    <3>2. Len(h) + Len(g) = 9
      BY <2>2, <2>3, SMT
    <3>3. f = h \o g
      BY <2>1
    <3> QED BY <3>1, <3>2, <3>3, Zenon
  <2>5. /\ f[1] = 127 /\ f[2] = 0 /\ f[3] = 0 /\ f[4] = 0 /\ f[5] = 0
        /\ f[6] = g[1] /\ f[7] = g[2] /\ f[8] = g[3] /\ f[9] = g[4]
    BY <2>2, <2>3, <2>4, SMT
  <2>6. IsField(f, len)
    BY <2>1, <2>2, <2>3, <2>4, <2>5, SMT DEF IsField, Word
  <2> QED BY <2>6 DEF f
<1> QED BY <1>1, <1>2, <1>3

-----------------------------------------------------------------------------
(* The server reads the length *)

NumberUpTo(bytes, m, g) ==
  g = [i \in 0 .. m |->
         IF i = 0 THEN 0 ELSE AtMost(g[i - 1], 2^23 - 1) * 256 + bytes[i]]

LEMMA ByteNumber ==
  ASSUME NEW x \in Byte
  PROVE  x \in Nat /\ x < 256
BY ByteAssumption

LEMMA BytesOf ==
  ASSUME NEW s \in Seq(Byte)
  PROVE  /\ Len(s) \in Nat
         /\ \A i \in 1 .. Len(s) : s[i] \in Byte /\ s[i] \in Nat /\ s[i] < 256
<1>1. \A i \in 1 .. Len(s) : s[i] \in Byte
  OBVIOUS
<1> QED BY <1>1, ByteNumber

\* The recursive function in Number exists.
LEMMA NumberUpToExists ==
  ASSUME NEW bytes
  PROVE  \A m \in Nat : \E g : NumberUpTo(bytes, m, g)
<1> DEFINE S == {m \in Nat : \E g : NumberUpTo(bytes, m, g)}
<1>1. 0 \in S
  <2> DEFINE g == [i \in 0 .. 0 |-> 0]
  <2>1. NumberUpTo(bytes, 0, g)
    BY DEF NumberUpTo
  <2> QED BY <2>1
<1>2. ASSUME NEW m \in Nat, m \in S PROVE m + 1 \in S
  <2>1. PICK g : NumberUpTo(bytes, m, g)
    BY <1>2
  <2> DEFINE next(v, i) == AtMost(v, 2^23 - 1) * 256 + bytes[i]
             last == next(g[m], m + 1)
             h == [i \in 0 .. m + 1 |-> IF i = m + 1 THEN last ELSE g[i]]
  <2> HIDE DEF last, next
  <2>2. \A i \in 0 .. m : h[i] = g[i]
    OBVIOUS
  <2>3. h[m + 1] = last
    OBVIOUS
  <2> DEFINE e(i) == IF i = 0 THEN 0 ELSE next(h[i - 1], i)
  <2>4. ASSUME NEW i \in 0 .. m + 1 PROVE h[i] = e(i)
    <3>1. CASE i = m + 1
      <4>1. i # 0 /\ i - 1 = m /\ m \in 0 .. m
        BY <3>1
      <4>2. h[i - 1] = g[m]
        BY <2>2, <4>1
      <4> QED BY <2>3, <3>1, <4>1, <4>2 DEF last
    <3>2. CASE i # m + 1
      <4>1. i \in 0 .. m /\ (i # 0 => i - 1 \in 0 .. m)
        BY <3>2
      <4>2. h[i] = g[i] /\ (i # 0 => h[i - 1] = g[i - 1])
        BY <2>2, <4>1
      <4>3. g[i] = IF i = 0 THEN 0 ELSE next(g[i - 1], i)
        BY <2>1, <4>1 DEF NumberUpTo, next
      <4> QED BY <4>2, <4>3
    <3> QED BY <3>1, <3>2
  <2>5. h = [i \in 0 .. m + 1 |-> e(i)]
    <3> HIDE DEF e
    <3>1. h = [i \in 0 .. m + 1 |-> h[i]]
      OBVIOUS
    <3> HIDE DEF h
    <3> QED BY <2>4, <3>1
  <2>6. NumberUpTo(bytes, m + 1, h)
    BY <2>5 DEF NumberUpTo, next
  <2> HIDE DEF h
  <2> QED BY <2>6
<1> HIDE DEF S
<1>3. Nat \subseteq S
  BY <1>1, <1>2, InductionOverSet
<1> QED BY <1>3 DEF S

LEMMA NumberValue ==
  ASSUME NEW bytes, Len(bytes) \in Nat
  PROVE  \E g : NumberUpTo(bytes, Len(bytes), g) /\ Number(bytes) = g[Len(bytes)]
<1>1. \E g : NumberUpTo(bytes, Len(bytes), g)
  BY NumberUpToExists
<1> DEFINE c == CHOOSE g : NumberUpTo(bytes, Len(bytes), g)
<1>2. NumberUpTo(bytes, Len(bytes), c)
  BY <1>1
<1>3. c = CHOOSE g : g = [i \in 0 .. Len(bytes) |->
         IF i = 0 THEN 0 ELSE AtMost(g[i - 1], 2^23 - 1) * 256 + bytes[i]]
  BY DEF NumberUpTo
<1>4. Number(bytes) = c[Len(bytes)]
  BY <1>3 DEF Number
<1> QED BY <1>2, <1>4

LEMMA NumberNat ==
  ASSUME NEW bytes \in Seq(Byte)
  PROVE  Number(bytes) \in Nat
<1> DEFINE n == Len(bytes)
<1>1. n \in Nat
  OBVIOUS
<1>2. PICK g : NumberUpTo(bytes, n, g) /\ Number(bytes) = g[n]
  BY NumberValue
<1> DEFINE S == {i \in Nat : i <= n => g[i] \in Nat}
<1>3. 0 \in S
  BY <1>1, <1>2 DEF NumberUpTo
<1>4. ASSUME NEW i \in Nat, i \in S PROVE i + 1 \in S
  <2> SUFFICES ASSUME i + 1 <= n PROVE g[i + 1] \in Nat
    OBVIOUS
  <2>1. i \in 0 .. n /\ i + 1 \in 0 .. n /\ i + 1 \in 1 .. n /\ (i + 1) - 1 = i /\ i + 1 # 0
    BY <1>1
  <2>2. g[i + 1] = AtMost(g[i], 2^23 - 1) * 256 + bytes[i + 1]
    BY <1>2, <2>1 DEF NumberUpTo
  <2>3. g[i] \in Nat
    BY <1>1, <1>4, <2>1
  <2>4. bytes[i + 1] \in Nat
    BY <2>1, BytesOf
  <2>5. AtMost(g[i], 2^23 - 1) \in Nat
    BY <2>3, Powers, SMT DEF AtMost, MaxPrefix
  <2> DEFINE v == AtMost(g[i], 2^23 - 1)
  <2> HIDE DEF v
  <2>6. v * 256 + bytes[i + 1] \in Nat
    BY <2>4, <2>5 DEF v
  <2> QED BY <2>2, <2>6 DEF v
<1> HIDE DEF S
<1>5. Nat \subseteq S
  BY <1>3, <1>4, InductionOverSet
<1> QED BY <1>1, <1>2, <1>5 DEF S

\* The steps of Number, one by one.
LEMMA NumberStep ==
  ASSUME NEW bytes, NEW m \in Nat, NEW g, NumberUpTo(bytes, m, g), NEW i \in 1 .. m,
         NEW v \in Nat, g[i - 1] = v, v <= MaxPrefix
  PROVE  g[i] = v * 256 + bytes[i]
<1>1. g[i] = AtMost(g[i - 1], 2^23 - 1) * 256 + bytes[i]
  BY DEF NumberUpTo
<1>2. AtMost(v, 2^23 - 1) = v
  BY Powers, SMT DEF AtMost, MaxPrefix
<1> QED BY <1>1, <1>2, Zenon

LEMMA NumberOfTwo ==
  ASSUME NEW bytes \in Seq(Byte), Len(bytes) = 2
  PROVE  Number(bytes) = bytes[1] * 256 + bytes[2]
<1> DEFINE n == Len(bytes)
<1>0. Len(bytes) \in Nat
  OBVIOUS
<1>1. PICK g : NumberUpTo(bytes, n, g) /\ Number(bytes) = g[n]
  BY <1>0, NumberValue
<1> DEFINE a == bytes[1]
<1>2. n = 2 /\ n \in Nat /\ a \in Nat /\ a < 256
  <2>1. 1 \in 1 .. Len(bytes)
    OBVIOUS
  <2> QED BY <2>1, BytesOf
<1>3. g[0] = 0
  BY <1>1, <1>2 DEF NumberUpTo
<1> HIDE DEF n
<1>4. g[1] = a
  <2>1. 1 \in 1 .. n /\ 1 - 1 = 0
    BY <1>2
  <2>2. g[1] = 0 * 256 + bytes[1]
    BY <1>1, <1>2, <1>3, <2>1, NumberStep, SMT DEF MaxPrefix
  <2> QED BY <1>2, <2>2
<1>5. g[2] = a * 256 + bytes[2]
  <2>1. 2 \in 1 .. n /\ 2 - 1 = 1
    BY <1>2
  <2> QED BY <1>1, <1>2, <1>4, <2>1, NumberStep, SMT DEF MaxPrefix
<1> QED BY <1>1, <1>2, <1>5

LEMMA NumberOfEight ==
  ASSUME NEW bytes \in Seq(Byte)
  PROVE  /\ Len(bytes) = 8
         /\ bytes[1] = 0 /\ bytes[2] = 0 /\ bytes[3] = 0 /\ bytes[4] = 0 /\ bytes[5] < 128
         => Number(bytes) = Word(bytes[5], bytes[6], bytes[7], bytes[8])
<1>b. \A i \in 1 .. Len(bytes) : bytes[i] \in Nat /\ bytes[i] < 256
  BY BytesOf, Zenon
<1> SUFFICES ASSUME Len(bytes) = 8,
                    bytes[1] = 0, bytes[2] = 0, bytes[3] = 0, bytes[4] = 0, bytes[5] < 128
             PROVE  Number(bytes) = Word(bytes[5], bytes[6], bytes[7], bytes[8])
  OBVIOUS
<1> DEFINE n == Len(bytes)
<1>0. Len(bytes) \in Nat
  OBVIOUS
<1>1. PICK g : NumberUpTo(bytes, n, g) /\ Number(bytes) = g[n]
  BY <1>0, NumberValue, Zenon
<1> DEFINE a == bytes[5]  b == bytes[6]  c == bytes[7]  d == bytes[8]
<1>2. n = 8 /\ n \in Nat
  OBVIOUS
<1>3. /\ a \in Nat /\ a < 128 /\ b \in Nat /\ b < 256
      /\ c \in Nat /\ c < 256 /\ d \in Nat /\ d < 256
  <2>1. 5 \in 1 .. Len(bytes) /\ 6 \in 1 .. Len(bytes) /\ 7 \in 1 .. Len(bytes)
        /\ 8 \in 1 .. Len(bytes)
    OBVIOUS
  <2> QED BY <1>b, <2>1, SMT
<1>4. g[0] = 0
  BY <1>1, <1>2, SMT DEF NumberUpTo
<1> HIDE DEF n, a, b, c, d
<1>5. \A i \in 1 .. n, v \in Nat :
        g[i - 1] = v /\ v <= MaxPrefix => g[i] = v * 256 + bytes[i]
  BY <1>1, <1>2, NumberStep, SMT
<1>6. 0 <= MaxPrefix
  BY SMT DEF MaxPrefix
<1>7. g[1] = 0 /\ g[2] = 0 /\ g[3] = 0 /\ g[4] = 0
  <2>1. \A i \in 1 .. 4 : i \in 1 .. n /\ bytes[i] = 0
    BY <1>2, SMT
  <2>2. ASSUME NEW i \in 1 .. 4, g[i - 1] = 0 PROVE g[i] = 0
    <3>1. i \in 1 .. n /\ bytes[i] = 0
      BY <2>1, SMT
    <3>2. g[i] = 0 * 256 + bytes[i]
      BY <1>5, <1>6, <2>2, <3>1, SMT
    <3> QED BY <3>1, <3>2, SMT
  <2>3. g[1] = 0
    BY <1>4, <2>2, SMT
  <2>4. g[2] = 0
    BY <2>2, <2>3, SMT
  <2>5. g[3] = 0
    BY <2>2, <2>4, SMT
  <2>6. g[4] = 0
    BY <2>2, <2>5, SMT
  <2> QED BY <2>3, <2>4, <2>5, <2>6, SMT
<1>8. g[5] = a
  <2>1. 5 \in 1 .. n /\ 5 - 1 = 4
    BY <1>2, SMT
  <2>2. g[5] = 0 * 256 + bytes[5]
    BY <1>5, <1>6, <1>7, <2>1, SMT
  <2> QED BY <1>3, <2>2, SMT DEF a
<1> DEFINE v6 == a * 256 + b  v7 == v6 * 256 + c  v8 == v7 * 256 + d
<1>9. g[6] = v6
  <2>1. 6 \in 1 .. n /\ 6 - 1 = 5
    BY <1>2, SMT
  <2>2. a \in Nat /\ a <= MaxPrefix
    BY <1>3, SMT DEF MaxPrefix
  <2>3. g[6] = a * 256 + bytes[6]
    BY <1>5, <1>8, <2>1, <2>2, SMT
  <2> QED BY <2>3, SMT DEF b
<1>10. g[7] = v7
  <2>1. 7 \in 1 .. n /\ 7 - 1 = 6
    BY <1>2, SMT
  <2>2. v6 \in Nat /\ v6 <= MaxPrefix
    BY <1>3, SMT DEF MaxPrefix
  <2> HIDE DEF v6
  <2>3. g[7] = v6 * 256 + bytes[7]
    BY <1>5, <1>9, <2>1, <2>2, SMT
  <2> QED BY <2>3, SMT DEF c
<1>11. g[8] = v8
  <2>1. 8 \in 1 .. n /\ 8 - 1 = 7
    BY <1>2, SMT
  <2>2. v7 \in Nat /\ v7 <= MaxPrefix
    BY <1>3, SMT DEF MaxPrefix
  <2> HIDE DEF v7
  <2>3. g[8] = v7 * 256 + bytes[8]
    BY <1>5, <1>10, <2>1, <2>2, SMT
  <2> QED BY <2>3, SMT DEF d
<1>12. v8 = Word(a, b, c, d)
  BY <1>3, SMT DEF Word
<1> HIDE DEF v8
<1>13. Number(bytes) = v8
  BY <1>1, <1>2, <1>11, SMT
<1> QED BY <1>12, <1>13, SMT DEF a, b, c, d

LEMMA SevenBits ==
  ASSUME NEW y \in Nat, y < 128
  PROVE  (128 + y) % 128 = y
OBVIOUS

\* Where a length field stands in a stream, its length is what is read.
LEMMA FieldIsRead ==
  ASSUME NEW len \in Nat, NEW f, IsField(f, len),
         NEW s \in Seq(Byte), NEW p \in Nat \ {0}, p + Len(f) <= Len(s),
         s[p + 1] = 128 + f[1],
         \A j \in 2 .. Len(f) : s[p + j] = f[j]
  PROVE  /\ LengthForm(s[p + 1]) = FormOf(len)
         /\ AnnouncedLength(s, p) = len
<1> DEFINE form == FormOf(len)
<1>0. /\ f[1] \in Nat /\ f[1] < 128
      /\ Len(f) = 1 + form /\ form \in {0, 2, 8} /\ form \in Nat /\ Len(s) \in Nat
  BY ByteNumber, SMT DEF IsField, FormOf
<1>1. s[p + 1] % 128 = f[1]
  BY <1>0, SevenBits, SMT
<1> HIDE DEF form
<1>f. /\ form = 0 => f[1] = len /\ len < 126
      /\ form = 2 => f[1] = 126 /\ f[2] * 256 + f[3] = len
      /\ form = 8 =>
           /\ f[1] = 127 /\ f[2] = 0 /\ f[3] = 0 /\ f[4] = 0 /\ f[5] = 0 /\ f[6] < 128
           /\ Word(f[6], f[7], f[8], f[9]) = len
  BY SMT DEF IsField, form
<1>2. LengthForm(s[p + 1]) = form
  <2>1. LengthForm(s[p + 1]) = (IF f[1] = 126 THEN 2 ELSE IF f[1] = 127 THEN 8 ELSE 0)
    BY <1>1, SMT DEF LengthForm
  <2> QED BY <1>0, <1>f, <2>1, SMT
<1> DEFINE e == SubSeq(s, p + 2, p + 1 + form)
<1>3. AnnouncedLength(s, p) = IF form = 0 THEN f[1] ELSE Number(e)
  BY <1>1, <1>2, SMT DEF AnnouncedLength
<1>4. /\ e \in Seq(Byte) /\ Len(e) = form
      /\ \A j \in 1 .. form : e[j] = f[1 + j]
  <2> DEFINE a == p + 2
  <2>1. a \in Nat \ {0} /\ a + form <= Len(s) + 1 /\ a + form - 1 = p + 1 + form
        /\ a - 1 = p + 1 /\ a = p + 2
    BY <1>0, SMT
  <2> HIDE DEF a
  <2>2. /\ SubSeq(s, a, a + form - 1) \in Seq(Byte) /\ Len(SubSeq(s, a, a + form - 1)) = form
        /\ \A j \in 1 .. form : SubSeq(s, a, a + form - 1)[j] = s[(a - 1) + j]
    BY <1>0, <2>1, Slice, SMT
  <2>3. ASSUME NEW j \in 1 .. form PROVE s[(a - 1) + j] = f[1 + j]
    <3>1. (a - 1) + j = p + (1 + j) /\ 1 + j \in 2 .. Len(f)
      BY <1>0, <2>1, SMT
    <3> QED BY <3>1, SMT
  <2>4. e = SubSeq(s, a, a + form - 1)
    BY <2>1, Zenon
  <2> QED BY <2>2, <2>3, <2>4, Zenon
<1> HIDE DEF e
<1>5. CASE form = 0
  BY <1>2, <1>3, <1>5, <1>f, SMT DEF form
<1>6. CASE form = 2
  <2>1. Number(e) = e[1] * 256 + e[2]
    BY <1>4, <1>6, NumberOfTwo, SMT
  <2>2. e[1] = f[2] /\ e[2] = f[3]
    BY <1>4, <1>6, SMT
  <2> QED BY <1>2, <1>3, <1>6, <1>f, <2>1, <2>2, SMT DEF form
<1>7. CASE form = 8
  <2>1. /\ e[1] = f[2] /\ e[2] = f[3] /\ e[3] = f[4] /\ e[4] = f[5]
        /\ e[5] = f[6] /\ e[6] = f[7] /\ e[7] = f[8] /\ e[8] = f[9]
    BY <1>4, <1>7, SMT
  <2>2. /\ f[2] = 0 /\ f[3] = 0 /\ f[4] = 0 /\ f[5] = 0 /\ f[6] < 128
        /\ Word(f[6], f[7], f[8], f[9]) = len
    BY <1>7, <1>f, SMT
  <2>3. e \in Seq(Byte) /\ Len(e) = 8 /\ e[1] = 0 /\ e[2] = 0 /\ e[3] = 0 /\ e[4] = 0 /\ e[5] < 128
    BY <1>4, <1>7, <2>1, <2>2, SMT
  <2>4. Number(e) = Word(e[5], e[6], e[7], e[8])
    BY <2>3, NumberOfEight, Zenon
  <2>5. Number(e) = len
    BY <2>1, <2>2, <2>4, SMT
  <2> QED BY <1>2, <1>3, <1>7, <2>5, SMT DEF form
<1> QED BY <1>0, <1>5, <1>6, <1>7, SMT

-----------------------------------------------------------------------------
(* A frame *)

Key == [1 .. 4 -> Byte]

\* What _writeMessage accepts and its caller can have stored.
Sendable(msg) ==
  /\ msg.type \in Type \ {"Fragment"}
  /\ msg.data \in Seq(Byte) /\ Len(msg.data) <= MaxLength

FrameOf(msg, key) == Header(msg, key) \o Mask(msg.data, key)

LEMMA KeyIsSeq ==
  ASSUME NEW key \in Key
  PROVE  key \in Seq(Byte) /\ Len(key) = 4
<1> DEFINE a == key[1]  b == key[2]  c == key[3]  d == key[4]
<1>1. a \in Byte /\ b \in Byte /\ c \in Byte /\ d \in Byte
  BY DEF Key
<1>2. key = <<a, b, c, d>>
  BY DEF Key
<1> HIDE DEF a, b, c, d
<1> QED BY <1>1, <1>2

LEMMA MaskIsBytes ==
  ASSUME NEW data \in Seq(Byte), NEW key \in Key
  PROVE  /\ Mask(data, key) \in Seq(Byte) /\ Len(Mask(data, key)) = Len(data)
         /\ \A i \in 1 .. Len(data) :
              /\ ((i - 1) % 4) + 1 \in 1 .. 4
              /\ Mask(data, key)[i] = Xor(data[i], key[((i - 1) % 4) + 1])
<1> DEFINE n == Len(data)
<1>1. n \in Nat /\ \A i \in 1 .. n : data[i] \in Byte
  OBVIOUS
<1>2. \A i \in 1 .. n : ((i - 1) % 4) + 1 \in 1 .. 4
  BY <1>1
<1>3. \A j \in 1 .. 4 : key[j] \in Byte
  BY DEF Key
<1> DEFINE m == [i \in 1 .. n |-> Xor(data[i], key[((i - 1) % 4) + 1])]
<1>4. \A i \in 1 .. n : Xor(data[i], key[((i - 1) % 4) + 1]) \in Byte
  BY <1>1, <1>2, <1>3, XorBits
<1>5. m \in [1 .. n -> Byte]
  BY <1>4
<1>6. Mask(data, key) = m
  BY DEF Mask
<1> HIDE DEF n
<1>7. m \in Seq(Byte) /\ Len(m) = n
  BY <1>1, <1>5, FunctionIsSeq
<1> QED BY <1>2, <1>6, <1>7 DEF n

LEMMA OpcodeByte ==
  ASSUME NEW type \in Type \ {"Fragment"}
  PROVE  /\ 128 + OpcodeOf[type] \in Byte
         /\ OpcodeOf[type] = CASE type = "Text"   -> 1
                               [] type = "Binary" -> 2
                               [] type = "Close"  -> 8
                               [] type = "Ping"   -> 9
                               [] type = "Pong"   -> 10
BY ByteAssumption DEF OpcodeOf, Type

LEMMA MaskBit ==
  ASSUME NEW x \in Byte, x < 128
  PROVE  128 + x \in Byte
BY ByteAssumption

\* The header and the payload, byte by byte.
LEMMA FrameShape ==
  ASSUME NEW msg, Sendable(msg), NEW key \in Key
  PROVE  LET data  == msg.data
             field == LengthField(Len(data))
             form  == FormOf(Len(data))
             f     == FrameOf(msg, key)
         IN  /\ Header(msg, key) \in Seq(Byte) /\ Len(Header(msg, key)) = 6 + form
             /\ f \in Seq(Byte) /\ Len(f) = 6 + form + Len(data)
             /\ f[1] = 128 + OpcodeOf[msg.type]
             /\ f[2] = 128 + field[1]
             /\ \A j \in 2 .. Len(field) : f[1 + j] = field[j]
             /\ \A j \in 1 .. 4 : f[2 + form + j] = key[j]
             /\ \A i \in 1 .. Len(data) :
                  f[6 + form + i] = Xor(data[i], key[((i - 1) % 4) + 1])
<1> DEFINE data == msg.data  len == Len(data)  field == LengthField(len)
           form == FormOf(len)  f == FrameOf(msg, key)  h == Header(msg, key)
           m == Mask(data, key)
           start == <<128 + OpcodeOf[msg.type], 128 + Head(field)>>
           t == Tail(field)
           st == start \o t
<1>0. data \in Seq(Byte) /\ len \in Nat /\ len <= MaxLength /\ form \in Nat
  BY DEF Sendable, FormOf
<1>1. /\ field \in Seq(Byte) /\ Len(field) = 1 + form
      /\ field[1] \in Byte /\ field[1] < 128 /\ Len(field) \in Nat
  BY <1>0, FieldShape DEF IsField
<1>2. h = st \o key /\ f = h \o m
  BY DEF Header, FrameOf
<1>3. key \in Seq(Byte) /\ Len(key) = 4
  BY KeyIsSeq
<1>4. /\ m \in Seq(Byte) /\ Len(m) = len
      /\ \A i \in 1 .. len : m[i] = Xor(data[i], key[((i - 1) % 4) + 1])
  BY <1>0, MaskIsBytes
<1> HIDE DEF field, form, h, m, f
<1>5. /\ start \in Seq(Byte) /\ Len(start) = 2
      /\ start[1] = 128 + OpcodeOf[msg.type] /\ start[2] = 128 + field[1]
  <2>1. 128 + OpcodeOf[msg.type] \in Byte
    BY OpcodeByte DEF Sendable
  <2>2. Head(field) = field[1] /\ 128 + field[1] \in Byte
    BY <1>1, MaskBit
  <2> QED BY <2>1, <2>2
<1>6. t \in Seq(Byte) /\ Len(t) = form /\ \A j \in 1 .. form : t[j] = field[1 + j]
  <2>1. field # << >>
    BY <1>0, <1>1
  <2>2. t \in Seq(Byte) /\ Len(t) = Len(field) - 1
        /\ \A j \in 1 .. Len(field) - 1 : t[j] = field[j + 1]
    BY <1>1, <2>1, HeadTailProperties
  <2> QED BY <1>0, <1>1, <2>2
<1> HIDE DEF start, t
<1>7. /\ st \in Seq(Byte) /\ Len(st) = 2 + form
      /\ \A j \in 1 .. 2 : st[j] = start[j]
      /\ \A j \in 1 .. form : st[2 + j] = field[1 + j]
  <2>0. start \in Seq(Byte) /\ t \in Seq(Byte)
    BY <1>5, <1>6
  <2>1. /\ st \in Seq(Byte) /\ Len(st) = Len(start) + Len(t)
        /\ \A j \in 1 .. Len(start) : st[j] = start[j]
        /\ \A j \in 1 .. Len(t) : st[Len(start) + j] = t[j]
    BY <2>0, Joined
  <2> HIDE DEF st
  <2> QED BY <1>5, <1>6, <2>1
<1> HIDE DEF st
<1>8. /\ h \in Seq(Byte) /\ Len(h) = 6 + form
      /\ \A j \in 1 .. 2 + form : h[j] = st[j]
      /\ \A j \in 1 .. 4 : h[2 + form + j] = key[j]
  <2>0. st \in Seq(Byte) /\ key \in Seq(Byte)
    BY <1>3, <1>7
  <2>1. /\ st \o key \in Seq(Byte) /\ Len(st \o key) = Len(st) + Len(key)
        /\ \A j \in 1 .. Len(st) : (st \o key)[j] = st[j]
        /\ \A j \in 1 .. Len(key) : (st \o key)[Len(st) + j] = key[j]
    BY <2>0, Joined
  <2>2. (2 + form) + 4 = 6 + form
    BY <1>0
  <2> QED BY <1>2, <1>3, <1>7, <2>1, <2>2
<1>9. /\ f \in Seq(Byte) /\ Len(f) = 6 + form + len
      /\ \A j \in 1 .. 6 + form : f[j] = h[j]
      /\ \A i \in 1 .. len : f[6 + form + i] = m[i]
  <2>0. h \in Seq(Byte) /\ m \in Seq(Byte)
    BY <1>4, <1>8
  <2>1. /\ h \o m \in Seq(Byte) /\ Len(h \o m) = Len(h) + Len(m)
        /\ \A j \in 1 .. Len(h) : (h \o m)[j] = h[j]
        /\ \A j \in 1 .. Len(m) : (h \o m)[Len(h) + j] = m[j]
    BY <2>0, Joined
  <2> QED BY <1>2, <1>4, <1>8, <2>1
<1>10. f[1] = 128 + OpcodeOf[msg.type] /\ f[2] = 128 + field[1]
  <2>1. \A j \in 1 .. 2 : j \in 1 .. 6 + form /\ j \in 1 .. 2 + form
    BY <1>0
  <2>2. \A j \in 1 .. 2 : f[j] = start[j]
    BY <1>7, <1>8, <1>9, <2>1
  <2> QED BY <1>5, <2>2
<1>11. \A j \in 2 .. Len(field) : f[1 + j] = field[j]
  <2> TAKE j \in 2 .. Len(field)
  <2>1. /\ j - 1 \in 1 .. form /\ 2 + (j - 1) = 1 + j /\ 1 + (j - 1) = j
        /\ 1 + j \in 1 .. 6 + form /\ 1 + j \in 1 .. 2 + form
    BY <1>0, <1>1
  <2>2. st[2 + (j - 1)] = field[1 + (j - 1)]
    BY <1>7, <2>1
  <2> QED BY <1>8, <1>9, <2>1, <2>2
<1>12. \A j \in 1 .. 4 : f[2 + form + j] = key[j]
  <2> TAKE j \in 1 .. 4
  <2>1. 2 + form + j \in 1 .. 6 + form
    BY <1>0
  <2> QED BY <1>8, <1>9, <2>1
<1> QED BY <1>4, <1>8, <1>9, <1>10, <1>11, <1>12 DEF field, form, f, h

-----------------------------------------------------------------------------
(* The payload goes through the scratch array *)

LEMMA PrefixGrows ==
  ASSUME NEW S, NEW s \in Seq(S), NEW i \in Nat, NEW j \in Nat, i <= j, j <= Len(s)
  PROVE  /\ SubSeq(s, 1, i) \in Seq(S) /\ Len(SubSeq(s, 1, i)) = i
         /\ SubSeq(s, i + 1, j) \in Seq(S) /\ Len(SubSeq(s, i + 1, j)) = j - i
         /\ SubSeq(s, 1, i) \o SubSeq(s, i + 1, j) = SubSeq(s, 1, j)
<1>1. Len(s) \in Nat
  OBVIOUS
<1> DEFINE a == SubSeq(s, 1, i)  b == SubSeq(s, i + 1, j)  c == SubSeq(s, 1, j)
<1>2. a \in Seq(S) /\ Len(a) = i /\ \A k \in 1 .. i : a[k] = s[k]
  <2>1. /\ a \in Seq(S) /\ Len(a) = i - 1 + 1
        /\ \A k \in 1 .. i - 1 + 1 : a[k] = s[1 + k - 1]
    BY <1>1, SubSeqProperties
  <2> HIDE DEF a
  <2> QED BY <2>1
<1>3. c \in Seq(S) /\ Len(c) = j /\ \A k \in 1 .. j : c[k] = s[k]
  <2>1. /\ c \in Seq(S) /\ Len(c) = j - 1 + 1
        /\ \A k \in 1 .. j - 1 + 1 : c[k] = s[1 + k - 1]
    BY <1>1, SubSeqProperties
  <2> HIDE DEF c
  <2> QED BY <2>1
<1>4. b \in Seq(S) /\ Len(b) = j - i /\ \A k \in 1 .. j - i : b[k] = s[i + k]
  <2>1. /\ b \in Seq(S) /\ Len(b) = j - (i + 1) + 1
        /\ \A k \in 1 .. j - (i + 1) + 1 : b[k] = s[(i + 1) + k - 1]
    BY <1>1, SubSeqProperties
  <2> HIDE DEF b
  <2> QED BY <2>1
<1> HIDE DEF a, b, c
<1>5. /\ a \o b \in Seq(S) /\ Len(a \o b) = Len(a) + Len(b)
      /\ \A k \in 1 .. Len(a) : (a \o b)[k] = a[k]
      /\ \A k \in 1 .. Len(b) : (a \o b)[Len(a) + k] = b[k]
  <2>1. a \in Seq(S) /\ b \in Seq(S)
    BY <1>2, <1>4
  <2> QED BY <2>1, Joined
<1>6. ASSUME NEW k \in 1 .. j PROVE (a \o b)[k] = c[k]
  <2>1. CASE k <= i
    BY <1>2, <1>3, <1>5, <2>1
  <2>2. CASE k > i
    <3>1. k - i \in 1 .. j - i /\ i + (k - i) = k
      BY <2>2
    <3>2. b[k - i] = s[k]
      BY <1>4, <3>1
    <3>3. (a \o b)[i + (k - i)] = b[k - i]
      BY <1>2, <1>4, <1>5, <3>1
    <3> QED BY <1>3, <3>1, <3>2, <3>3
  <2>3. k <= i \/ k > i
    OBVIOUS
  <2> QED BY <2>1, <2>2, <2>3
<1>7. a \o b = c
  <2>1. Len(a \o b) = j
    BY <1>2, <1>4, <1>5
  <2> QED BY <1>3, <1>5, <1>6, <2>1, SeqEqual
<1> QED BY <1>2, <1>4, <1>7 DEF a, b, c

LEMMA CeilingDivision ==
  ASSUME NEW n \in Nat, NEW size \in Nat \ {0}
  PROVE  /\ (n + size - 1) \div size \in Nat
         /\ size * ((n + size - 1) \div size) >= n
         /\ size * ((n + size - 1) \div size) < n + size
OBVIOUS

LEMMA ScratchPositive == ScratchSize \in Nat \ {0}
BY FrameWriterAssumption

\* What has gone through the scratch array after k blocks.
Passed(bytes, k) == SubSeq(bytes, 1, AtMost(ScratchSize * k, Len(bytes)))

LEMMA BlockFollows ==
  ASSUME NEW bytes \in Seq(Byte), NEW k \in 1 .. Len(Blocks(bytes))
  PROVE  /\ Blocks(bytes)[k] \in Seq(Byte)
         /\ Passed(bytes, k - 1) \o Blocks(bytes)[k] = Passed(bytes, k)
<1> DEFINE n == Len(bytes)  c == (n + ScratchSize - 1) \div ScratchSize
           from == ScratchSize * (k - 1)  to == AtMost(ScratchSize * k, n)
           blocks == [j \in 1 .. c |->
                        SubSeq(bytes, ScratchSize * (j - 1) + 1,
                               AtMost(ScratchSize * j, n))]
<1>0. n \in Nat /\ ScratchSize \in Nat \ {0} /\ ScratchSize \in Nat
  BY ScratchPositive
<1>1. c \in Nat /\ ScratchSize * c < n + ScratchSize
  <2> HIDE DEF n
  <2> QED BY <1>0, CeilingDivision
<1> HIDE DEF c
<1>2. Blocks(bytes) = blocks /\ Len(blocks) = c
  BY <1>1 DEF Blocks, c
<1>3. k \in 1 .. c /\ k \in Nat /\ k - 1 \in Nat
  BY <1>1, <1>2
<1>4. blocks[k] = SubSeq(bytes, from + 1, to)
  BY <1>3
<1>5. from \in Nat /\ from <= to /\ to <= n /\ to \in Nat
      /\ AtMost(ScratchSize * (k - 1), n) = from
  <2>1. ScratchSize * k \in Nat /\ ScratchSize * (k - 1) \in Nat
        /\ ScratchSize * k = ScratchSize * (k - 1) + ScratchSize
    BY <1>0, <1>3
  <2>2. ScratchSize * k <= ScratchSize * c
    BY <1>0, <1>1, <1>3
  <2> DEFINE x == ScratchSize * k  y == ScratchSize * (k - 1)  z == ScratchSize * c
  <2>3. z \in Nat
    BY <1>0, <1>1
  <2> HIDE DEF x, y, z, n
  <2>4. x \in Nat /\ y \in Nat /\ x = y + ScratchSize /\ x <= z /\ z < n + ScratchSize
    BY <1>1, <2>1, <2>2 DEF x, y, z
  <2>5. y < n
    BY <1>0, <2>3, <2>4
  <2>6. y <= AtMost(x, n) /\ AtMost(x, n) <= n /\ AtMost(x, n) \in Nat /\ AtMost(y, n) = y
    BY <1>0, <2>4, <2>5 DEF AtMost
  <2> QED BY <2>4, <2>6 DEF x, y
<1>6. /\ SubSeq(bytes, from + 1, to) \in Seq(Byte)
      /\ SubSeq(bytes, 1, from) \o SubSeq(bytes, from + 1, to) = SubSeq(bytes, 1, to)
  <2> HIDE DEF from, to
  <2> QED BY <1>5, PrefixGrows
<1>7. Passed(bytes, k - 1) = SubSeq(bytes, 1, from) /\ Passed(bytes, k) = SubSeq(bytes, 1, to)
  BY <1>5 DEF Passed
<1> QED BY <1>2, <1>4, <1>6, <1>7

LEMMA BlocksCover ==
  ASSUME NEW bytes \in Seq(Byte)
  PROVE  /\ Len(Blocks(bytes)) \in Nat
         /\ Passed(bytes, 0) = << >>
         /\ Passed(bytes, Len(Blocks(bytes))) = bytes
<1> DEFINE n == Len(bytes)  c == (n + ScratchSize - 1) \div ScratchSize
<1>0. n \in Nat /\ ScratchSize \in Nat \ {0}
  BY ScratchPositive
<1>1. c \in Nat /\ ScratchSize * c >= n
  <2> HIDE DEF n
  <2> QED BY <1>0, CeilingDivision
<1>2. Len(Blocks(bytes)) = c
  <2> HIDE DEF c
  <2> DEFINE blocks == [j \in 1 .. c |->
                        SubSeq(bytes, ScratchSize * (j - 1) + 1,
                               AtMost(ScratchSize * j, n))]
  <2>1. Blocks(bytes) = blocks
    BY DEF Blocks, c
  <2>2. Len(blocks) = c
    BY <1>1
  <2> QED BY <2>1, <2>2
<1> HIDE DEF c
<1>3. AtMost(ScratchSize * 0, n) = 0
  BY <1>0 DEF AtMost
<1>4. AtMost(ScratchSize * c, n) = n
  <2> DEFINE z == ScratchSize * c
  <2>1. z \in Nat /\ z >= n
    BY <1>0, <1>1
  <2> HIDE DEF z
  <2> QED BY <1>0, <2>1 DEF AtMost, z
<1>5. SubSeq(bytes, 1, 0) = << >> /\ SubSeq(bytes, 1, n) = bytes
  OBVIOUS
<1> QED BY <1>1, <1>2, <1>3, <1>4, <1>5 DEF Passed

-----------------------------------------------------------------------------
(* The frame goes into the ring *)

WritesUpTo(first, blocks, m, g) ==
  g = [k \in 0 .. m |-> IF k = 0 THEN first ELSE Write(g[k - 1], blocks[k])]

\* The recursive function in WriteFrame exists.
LEMMA WritesUpToExists ==
  ASSUME NEW first, NEW blocks
  PROVE  \A m \in Nat : \E g : WritesUpTo(first, blocks, m, g)
<1> DEFINE S == {m \in Nat : \E g : WritesUpTo(first, blocks, m, g)}
<1>1. 0 \in S
  <2> DEFINE g == [i \in 0 .. 0 |-> first]
  <2>1. WritesUpTo(first, blocks, 0, g)
    BY DEF WritesUpTo
  <2> QED BY <2>1
<1>2. ASSUME NEW m \in Nat, m \in S PROVE m + 1 \in S
  <2>1. PICK g : WritesUpTo(first, blocks, m, g)
    BY <1>2
  <2> DEFINE last == Write(g[m], blocks[m + 1])
             h == [i \in 0 .. m + 1 |-> IF i = m + 1 THEN last ELSE g[i]]
  <2> HIDE DEF last
  <2>2. \A i \in 0 .. m : h[i] = g[i]
    OBVIOUS
  <2>3. h[m + 1] = last
    OBVIOUS
  <2> DEFINE e(i) == IF i = 0 THEN first ELSE Write(h[i - 1], blocks[i])
  <2>4. ASSUME NEW i \in 0 .. m + 1 PROVE h[i] = e(i)
    <3>1. CASE i = m + 1
      <4>1. i # 0 /\ i - 1 = m /\ m \in 0 .. m
        BY <3>1
      <4>2. h[i - 1] = g[m]
        BY <2>2, <4>1
      <4> QED BY <2>3, <3>1, <4>1, <4>2 DEF last
    <3>2. CASE i # m + 1
      <4>1. i \in 0 .. m /\ (i # 0 => i - 1 \in 0 .. m)
        BY <3>2
      <4>2. h[i] = g[i] /\ (i # 0 => h[i - 1] = g[i - 1])
        BY <2>2, <4>1
      <4>3. g[i] = IF i = 0 THEN first ELSE Write(g[i - 1], blocks[i])
        BY <2>1, <4>1 DEF WritesUpTo
      <4> QED BY <4>2, <4>3
    <3> QED BY <3>1, <3>2
  <2>5. h = [i \in 0 .. m + 1 |-> e(i)]
    <3> HIDE DEF e
    <3>1. h = [i \in 0 .. m + 1 |-> h[i]]
      OBVIOUS
    <3> HIDE DEF h
    <3> QED BY <2>4, <3>1
  <2>6. WritesUpTo(first, blocks, m + 1, h)
    BY <2>5 DEF WritesUpTo
  <2> HIDE DEF h
  <2> QED BY <2>6
<1> HIDE DEF S
<1>3. Nat \subseteq S
  BY <1>1, <1>2, InductionOverSet
<1> QED BY <1>3 DEF S

\* However the payload is cut into blocks, the ring takes one whole frame.
LEMMA FrameIsWritten ==
  ASSUME NEW b, RingOK(b), NEW msg, Sendable(msg), NEW key \in Key,
         b.size + Len(FrameOf(msg, key)) <= MaxCapacity
  PROVE  /\ RingOK(WriteFrame(b, msg, key))
         /\ Contents(WriteFrame(b, msg, key)) = Contents(b) \o FrameOf(msg, key)
<1> DEFINE h == Header(msg, key)  m == Mask(msg.data, key)  blocks == Blocks(m)
           n == Len(blocks)  first == Write(b, h)  old == Contents(b)
<1>1. /\ h \in Seq(Byte) /\ FrameOf(msg, key) = h \o m
      /\ msg.data \in Seq(Byte)
  BY FrameShape DEF FrameOf, Sendable
<1>2. m \in Seq(Byte)
  BY <1>1, MaskIsBytes
<1> HIDE DEF m
<1>3. /\ n \in Nat /\ Passed(m, 0) = << >> /\ Passed(m, n) = m
  BY <1>2, BlocksCover
<1>4. \A k \in 1 .. n : /\ blocks[k] \in Seq(Byte)
                        /\ Passed(m, k - 1) \o blocks[k] = Passed(m, k)
  BY <1>2, BlockFollows
<1>5. \A k \in 0 .. n : /\ Passed(m, k) \in Seq(Byte) /\ Len(Passed(m, k)) <= Len(m)
                        /\ Len(Passed(m, k)) \in Nat /\ Len(m) \in Nat
  <2> TAKE k \in 0 .. n
  <2>1. ScratchSize * k \in Nat
    BY <1>3, ScratchPositive
  <2>2. Len(m) \in Nat
    BY <1>2
  <2> DEFINE x == ScratchSize * k  y == AtMost(x, Len(m))
  <2> HIDE DEF x
  <2>3. y \in Nat /\ y <= Len(m)
    BY <2>1, <2>2 DEF AtMost, x
  <2> HIDE DEF y
  <2>4. SubSeq(m, 1, y) \in Seq(Byte) /\ Len(SubSeq(m, 1, y)) = y
    BY <1>2, <2>2, <2>3, PrefixGrows
  <2> QED BY <2>2, <2>3, <2>4 DEF Passed, x, y
<1> HIDE DEF blocks, n
<1>6. b.size \in Nat /\ b.size + Len(h) + Len(m) <= MaxCapacity /\ Len(h) \in Nat
      /\ Len(m) \in Nat /\ MaxCapacity \in Nat
  <2>1. Len(h \o m) = Len(h) + Len(m) /\ Len(h) \in Nat /\ Len(m) \in Nat
    BY <1>1, <1>2
  <2>2. b.size \in Nat
    BY RingNumbers
  <2> QED BY <1>1, <2>1, <2>2, RingAssumption
<1>7. old \in Seq(Cell) /\ Len(old) = b.size
  BY ContentsType
<1>8. RingOK(first) /\ Contents(first) = old \o h
  <2>1. b.size + Len(h) <= MaxCapacity
    BY <1>6
  <2> QED BY <1>1, <2>1, WriteAppends
<1> HIDE DEF first, h, old
<1> DEFINE c == CHOOSE g : WritesUpTo(first, blocks, n, g)
<1>9. WritesUpTo(first, blocks, n, c)
  <2>1. \E g : WritesUpTo(first, blocks, n, g)
    BY <1>3, WritesUpToExists
  <2> QED BY <2>1
<1>10. WriteFrame(b, msg, key) = c[n]
  <2>1. c = CHOOSE g : g = [k \in 0 .. n |->
              IF k = 0 THEN first ELSE Write(g[k - 1], blocks[k])]
    BY DEF WritesUpTo
  <2> QED BY <2>1 DEF WriteFrame, first, blocks, n, h, m
<1> HIDE DEF c
<1> DEFINE good(k) == RingOK(c[k]) /\ Contents(c[k]) = (old \o h) \o Passed(m, k)
           S == {k \in Nat : k <= n => good(k)}
<1>11. old \o h \in Seq(Cell) /\ Len(old \o h) = b.size + Len(h)
  <2>1. h \in Seq(Cell)
    BY <1>1 DEF Cell
  <2> QED BY <1>7, <2>1
<1>12. 0 \in S
  <2>1. c[0] = first
    BY <1>3, <1>9 DEF WritesUpTo
  <2>2. (old \o h) \o << >> = old \o h
    BY <1>11
  <2> QED BY <1>3, <1>8, <2>1, <2>2
<1>13. ASSUME NEW k \in Nat, k \in S PROVE k + 1 \in S
  <2> SUFFICES ASSUME k + 1 <= n PROVE good(k + 1)
    OBVIOUS
  <2>1. k \in 0 .. n /\ k + 1 \in 0 .. n /\ k + 1 \in 1 .. n /\ (k + 1) - 1 = k /\ k + 1 # 0
    BY <1>3
  <2>2. c[k + 1] = Write(c[k], blocks[k + 1])
    BY <1>9, <2>1 DEF WritesUpTo
  <2>3. RingOK(c[k]) /\ Contents(c[k]) = (old \o h) \o Passed(m, k)
    BY <1>13, <2>1
  <2> DEFINE s == blocks[k + 1]  p == Passed(m, k)  q == Passed(m, k + 1)  o == old \o h
  <2>4. s \in Seq(Byte) /\ p \o s = q
    BY <1>4, <2>1
  <2>5. p \in Seq(Byte) /\ Len(p) \in Nat /\ Len(q) <= Len(m) /\ Len(q) \in Nat
    BY <1>5, <2>1
  <2>6. o \in Seq(Cell) /\ Len(o) = b.size + Len(h)
    BY <1>11
  <2> HIDE DEF s, p, q, o
  <2>7. c[k].size = Len(o) + Len(p) /\ Len(q) = Len(p) + Len(s) /\ Len(s) \in Nat
    <3>1. Len(Contents(c[k])) = c[k].size
      BY <2>3, ContentsType
    <3>2. p \in Seq(Cell)
      BY <2>5 DEF Cell
    <3>3. Len(o \o p) = Len(o) + Len(p)
      BY <2>6, <3>2
    <3>4. Len(p \o s) = Len(p) + Len(s) /\ Len(s) \in Nat
      BY <2>4, <2>5
    <3>5. Contents(c[k]) = o \o p
      BY <2>3 DEF o, p
    <3> QED BY <2>4, <3>1, <3>3, <3>4, <3>5
  <2>8. c[k].size + Len(s) <= MaxCapacity
    <3> DEFINE lo == Len(o)  lp == Len(p)  ls == Len(s)  lq == Len(q)  lh == Len(h)
               lm == Len(m)  size == c[k].size  old0 == b.size
    <3>1. /\ lo = old0 + lh /\ size = lo + lp /\ lq = lp + ls /\ lq <= lm
          /\ old0 + lh + lm <= MaxCapacity
          /\ lp \in Nat /\ ls \in Nat /\ lq \in Nat /\ lh \in Nat /\ lm \in Nat
          /\ old0 \in Nat /\ MaxCapacity \in Nat
      BY <1>6, <2>5, <2>6, <2>7
    <3> HIDE DEF lo, lp, ls, lq, lh, lm, size, old0
    <3>2. size + ls <= MaxCapacity
      BY <3>1
    <3> QED BY <3>2 DEF size, ls
  <2>9. RingOK(Write(c[k], s)) /\ Contents(Write(c[k], s)) = Contents(c[k]) \o s
    BY <2>3, <2>4, <2>8, WriteAppends
  <2>10. (o \o p) \o s = o \o (p \o s)
    <3>1. p \in Seq(Cell) /\ s \in Seq(Cell)
      BY <2>4, <2>5 DEF Cell
    <3>2. \A x, y, z \in Seq(Cell) : (x \o y) \o z = x \o (y \o z)
      BY Regrouped
    <3> QED BY <2>6, <3>1, <3>2, Zenon
  <2> QED BY <2>2, <2>3, <2>4, <2>9, <2>10 DEF s, p, q, o
<1> HIDE DEF S
<1>14. Nat \subseteq S
  BY <1>12, <1>13, InductionOverSet
<1>15. good(n)
  BY <1>3, <1>14, SMTT(60) DEF S
<1>16. (old \o h) \o m = old \o (h \o m)
  <2>1. old \in Seq(Cell) /\ h \in Seq(Cell) /\ m \in Seq(Cell)
    BY <1>1, <1>2, <1>7, SMTT(60) DEF Cell
  <2>2. \A x, y, z \in Seq(Cell) : (x \o y) \o z = x \o (y \o z)
    BY Regrouped, SMTT(60)
  <2> QED BY <2>1, <2>2, Zenon
<1> QED BY <1>1, <1>3, <1>10, <1>15, <1>16 DEF old

-----------------------------------------------------------------------------
(* The server reads a frame *)

View(msg) ==
  [first |-> 128 + OpcodeOf[msg.type], masked |-> TRUE, data |-> msg.data]

\* The bytes of a frame stand in a stream after a others.
StandsAt(s, a, f) ==
  /\ a \in Nat /\ a + Len(f) <= Len(s)
  /\ \A j \in 1 .. Len(f) : s[a + j] = f[j]

\* Wherever a frame stands the server finds it whole, finds where it ends,
\* and unmasks its payload.
LEMMA FrameIsRead ==
  ASSUME NEW msg, Sendable(msg), NEW key \in Key, NEW s \in Seq(Byte),
         NEW a, StandsAt(s, a, FrameOf(msg, key))
  PROVE  /\ WholeAt(s, a + 1)
         /\ NextAt(s, a + 1) = a + Len(FrameOf(msg, key)) + 1
         /\ FrameAt(s, a + 1) = View(msg)
         /\ Len(FrameOf(msg, key)) \in Nat \ {0}
<1> DEFINE data == msg.data  len == Len(data)  field == LengthField(len)
           form == FormOf(len)  f == FrameOf(msg, key)  p == a + 1
<1>0. data \in Seq(Byte) /\ len \in Nat /\ len <= MaxLength /\ form \in Nat
  BY DEF Sendable, FormOf
<1>1. field[1] \in Byte /\ field[1] < 128 /\ field[1] \in Nat
      /\ IsField(field, len) /\ Len(field) = 1 + form
  <2>1. IsField(field, len)
    BY <1>0, FieldShape
  <2> QED BY <2>1, ByteNumber DEF IsField
<1>2. /\ Len(f) = 6 + form + len
      /\ f[1] = 128 + OpcodeOf[msg.type]
      /\ f[2] = 128 + field[1]
      /\ \A j \in 2 .. Len(field) : f[1 + j] = field[j]
      /\ \A j \in 1 .. 4 : f[2 + form + j] = key[j]
      /\ \A i \in 1 .. len : f[6 + form + i] = Xor(data[i], key[((i - 1) % 4) + 1])
  BY FrameShape
<1>3. /\ a \in Nat /\ a + Len(f) <= Len(s) /\ Len(s) \in Nat
      /\ \A j \in 1 .. Len(f) : s[a + j] = f[j]
  BY DEF StandsAt
<1> HIDE DEF form, field, f
<1> DEFINE lf == Len(f)  ls == Len(s)  lw == Len(field)
<1>n. /\ len \in Nat /\ form \in Nat /\ a \in Nat /\ ls \in Nat /\ lf \in Nat
      /\ lf = 6 + form + len /\ lw = 1 + form /\ a + lf <= ls /\ lf \in Nat \ {0}
  <2> HIDE DEF len
  <2>1. 6 + form + len \in Nat \ {0}
    BY <1>0
  <2> QED BY <1>0, <1>1, <1>2, <1>3, <2>1
<1> HIDE DEF len, lf, ls, lw
<1>4. /\ s[p] = 128 + OpcodeOf[msg.type] /\ s[p + 1] = 128 + field[1]
      /\ \A j \in 2 .. Len(field) : s[p + j] = field[j]
      /\ \A j \in 1 .. 4 : s[a + (2 + form + j)] = key[j]
      /\ \A i \in 1 .. len : s[a + (6 + form + i)] = Xor(data[i], key[((i - 1) % 4) + 1])
  <2>1. 1 \in 1 .. lf /\ 2 \in 1 .. lf /\ p = a + 1 /\ p + 1 = a + 2
    BY <1>n
  <2>2. \A j \in 2 .. lw : 1 + j \in 1 .. lf /\ p + j = a + (1 + j)
    BY <1>n
  <2>3. \A j \in 1 .. 4 : 2 + form + j \in 1 .. lf
    BY <1>n
  <2>4. \A i \in 1 .. len : 6 + form + i \in 1 .. lf
    BY <1>n
  <2> USE DEF lf, lw
  <2>5. s[p] = f[1] /\ s[p + 1] = f[2]
    BY <1>3, <2>1
  <2>6. \A j \in 2 .. Len(field) : s[p + j] = field[j]
    BY <1>2, <1>3, <2>2, SMTT(60)
  <2>7. \A j \in 1 .. 4 : s[a + (2 + form + j)] = key[j]
    BY <1>2, <1>3, <2>3
  <2>8. \A i \in 1 .. len : s[a + (6 + form + i)] = Xor(data[i], key[((i - 1) % 4) + 1])
    BY <1>2, <1>3, <2>4
  <2> QED BY <1>2, <2>5, <2>6, <2>7, <2>8
<1>5. LengthForm(s[p + 1]) = form /\ AnnouncedLength(s, p) = len
  <2>1. p \in Nat \ {0} /\ p + lw <= ls
    BY <1>n
  <2> HIDE DEF p
  <2>2. p + Len(field) <= Len(s)
    BY <2>1 DEF lw, ls
  <2>3. LengthForm(s[p + 1]) = FormOf(len) /\ AnnouncedLength(s, p) = len
    BY <1>1, <1>4, <1>n, <2>1, <2>2, FieldIsRead, ZenonT(60)
  <2> QED BY <2>3 DEF form
<1>6. PayloadAt(s, p) = a + 7 + form
  BY <1>n, <1>5 DEF PayloadAt
<1>7. WholeAt(s, p)
  <2>1. /\ p + 5 <= ls /\ a + 7 + form <= ls + 1
        /\ len <= ls + 1 - (a + 7 + form)
    BY <1>n
  <2> QED BY <1>5, <1>6, <2>1 DEF WholeAt, ls
<1>8. NextAt(s, p) = a + lf + 1
  BY <1>n, <1>5, <1>6 DEF NextAt
<1>9. FrameAt(s, p) = View(msg)
  <2> DEFINE at == PayloadAt(s, p)
             read == [i \in 1 .. AnnouncedLength(s, p) |->
                        Xor(s[at + i - 1], s[at - 4 + ((i - 1) % 4)])]
  <2>1. ASSUME NEW i \in 1 .. len
        PROVE  Xor(s[at + i - 1], s[at - 4 + ((i - 1) % 4)]) = data[i]
    <3> DEFINE q == (i - 1) % 4  k == key[q + 1]
    <3>1. q \in 0 .. 3 /\ q + 1 \in 1 .. 4
      BY <1>n
    <3> HIDE DEF q
    <3>2. /\ at + i - 1 = a + (6 + form + i)
          /\ at - 4 + q = a + (2 + form + (q + 1))
      BY <1>n, <1>6, <3>1
    <3> HIDE DEF at
    <3>3. s[at + i - 1] = Xor(data[i], k)
      BY <1>4, <3>2 DEF q
    <3>4. s[at - 4 + q] = k
      BY <1>4, <3>1, <3>2
    <3>5. k \in Byte /\ data[i] \in Byte
      BY <1>0, <3>1 DEF Key, len
    <3>6. Xor(Xor(data[i], k), k) = data[i]
      BY <3>5, XorTwice
    <3> QED BY <3>3, <3>4, <3>6 DEF q
  <2> HIDE DEF at
  <2>2. read = data
    <3>1. read = [i \in 1 .. len |-> data[i]]
      BY <1>5, <2>1
    <3> HIDE DEF read
    <3> QED BY <1>0, <3>1 DEF len
  <2>3. s[p + 1] >= 128
    BY <1>1, <1>4
  <2>4. FrameAt(s, p) = [first |-> s[p], masked |-> s[p + 1] >= 128, data |-> read]
    BY DEF FrameAt, at
  <2> HIDE DEF read
  <2>5. (s[p + 1] >= 128) = TRUE
    BY <2>3
  <2> QED BY <1>4, <2>2, <2>4, <2>5 DEF View
<1> QED BY <1>7, <1>8, <1>9, <1>n DEF f, lf

-----------------------------------------------------------------------------
(* The server reads the stream *)

\* The frames of the messages follow each other in the stream and fill it:
\* each was masked with some key, the k-th begins after at[k - 1] bytes.
Written(s, msgs, at, keys) ==
  /\ at[0] = 0 /\ at[Len(msgs)] = Len(s)
  /\ \A k \in 1 .. Len(msgs) :
       /\ keys[k] \in Key
       /\ StandsAt(s, at[k - 1], FrameOf(msgs[k], keys[k]))
       /\ at[k] = at[k - 1] + Len(FrameOf(msgs[k], keys[k]))

FrameStream(s, msgs) == \E at, keys : Written(s, msgs, at, keys)

\* The recursive function in FramesOf, as far as it is needed from position
\* lo on.
FramesFrom(s, lo, g) ==
  g = [p \in lo .. Len(s) + 1 |->
         IF p = Len(s) + 1 THEN << >>
         ELSE IF WholeAt(s, p) THEN <<FrameAt(s, p)>> \o g[NextAt(s, p)]
         ELSE <<NoFrame>>]

\* A whole frame is not empty and ends inside the stream.
LEMMA NextIsAhead ==
  ASSUME NEW s \in Seq(Byte), NEW p \in 1 .. Len(s), WholeAt(s, p)
  PROVE  NextAt(s, p) \in p + 1 .. Len(s) + 1
<1> DEFINE ls == Len(s)  form == LengthForm(s[p + 1])  len == AnnouncedLength(s, p)
<1>0. ls \in Nat
  OBVIOUS
<1>1. p + 5 <= ls /\ p + 6 + form <= ls + 1 /\ form \in {0, 2, 8} /\ form \in Nat
  <2>1. form \in {0, 2, 8}
    BY DEF LengthForm
  <2> HIDE DEF form
  <2>2. p + 5 <= ls /\ p + 2 + form + 4 <= ls + 1
    BY DEF WholeAt, PayloadAt, form
  <2> QED BY <1>0, <2>1, <2>2
<1>2. s[p + 1] \in Nat
  <2>1. p + 1 \in 1 .. ls
    BY <1>0, <1>1
  <2> QED BY <2>1, BytesOf
<1>3. len \in Nat
  <2>1. len = IF form = 0 THEN s[p + 1] % 128 ELSE Number(SubSeq(s, p + 2, p + 1 + form))
    BY DEF AnnouncedLength
  <2>2. s[p + 1] % 128 \in Nat
    BY <1>2
  <2>3. Number(SubSeq(s, p + 2, p + 1 + form)) \in Nat
    <3> DEFINE a == p + 2
    <3>0. p \in Nat
      OBVIOUS
    <3> HIDE DEF form, ls
    <3>1. a \in Nat \ {0} /\ a + form <= ls + 1 /\ a + form - 1 = p + 1 + form
      BY <1>0, <1>1, <3>0
    <3>2. a = p + 2
      OBVIOUS
    <3> HIDE DEF a, form
    <3>3. SubSeq(s, a, a + form - 1) \in Seq(Byte)
      BY <1>1, <3>1, Slice DEF ls
    <3>4. SubSeq(s, p + 2, p + 1 + form) \in Seq(Byte)
      BY <3>1, <3>2, <3>3
    <3> QED BY <3>4, NumberNat
  <2> QED BY <2>1, <2>2, <2>3
<1> HIDE DEF form, len, ls
<1>4. NextAt(s, p) = p + 6 + form + len
  BY <1>0, <1>1, <1>3 DEF NextAt, PayloadAt, form, len
<1>5. p + 6 + form + len <= ls + 1
  <2>1. p + 2 + form + 4 = p + 6 + form
    BY <1>1
  <2>2. len <= ls + 1 - (p + 6 + form)
    BY <2>1 DEF WholeAt, PayloadAt, form, len, ls
  <2> QED BY <1>0, <1>1, <1>3, <2>2
<1>6. p + 6 + form + len \in p + 1 .. ls + 1
  BY <1>0, <1>1, <1>3, <1>5
<1> QED BY <1>4, <1>6 DEF ls

LEMMA FramesFromExists ==
  ASSUME NEW s \in Seq(Byte)
  PROVE  \E g : FramesFrom(s, 1, g)
<1> DEFINE end == Len(s) + 1
           S == {m \in Nat : m <= Len(s) => \E g : FramesFrom(s, end - m, g)}
<1>0. Len(s) \in Nat /\ end \in Nat /\ end = Len(s) + 1
  OBVIOUS
<1>1. 0 \in S
  <2> DEFINE g == [p \in end .. end |-> << >>]
  <2>1. FramesFrom(s, end, g)
    <3>1. \A p \in end .. end : p = end
      BY <1>0
    <3> QED BY <1>0, <3>1 DEF FramesFrom
  <2>2. end - 0 = end
    BY <1>0
  <2> QED BY <2>1, <2>2
<1>2. ASSUME NEW m \in Nat, m \in S PROVE m + 1 \in S
  <2> SUFFICES ASSUME m + 1 <= Len(s) PROVE \E g : FramesFrom(s, end - (m + 1), g)
    OBVIOUS
  <2> DEFINE lo == end - (m + 1)
  <2>0. lo \in 1 .. Len(s) /\ end - m = lo + 1 /\ lo # end /\ lo \in Nat
    BY <1>0
  <2>1. PICK g : FramesFrom(s, lo + 1, g)
    BY <1>0, <1>2, <2>0
  <2> HIDE DEF lo
  <2> DEFINE body(f, p) == IF p = end THEN << >>
                           ELSE IF WholeAt(s, p) THEN <<FrameAt(s, p)>> \o f[NextAt(s, p)]
                           ELSE <<NoFrame>>
             new == body(g, lo)
             h == [p \in lo .. end |-> IF p = lo THEN new ELSE g[p]]
  <2>2. \A p \in lo + 1 .. end : g[p] = body(g, p)
    BY <1>0, <2>1 DEF FramesFrom
  <2> HIDE DEF new, end
  <2>3. /\ h[lo] = new
        /\ \A p \in lo + 1 .. end : p \in lo .. end /\ p # lo /\ h[p] = g[p]
    BY <1>0, <2>0
  <2>4. ASSUME NEW p \in lo .. end PROVE h[p] = body(h, p)
    <3>1. body(h, p) = body(g, p)
      <4>1. CASE p = end
        BY <4>1
      <4>2. CASE p # end /\ WholeAt(s, p)
        <5>1. p \in 1 .. Len(s)
          BY <1>0, <2>0, <4>2
        <5>2. NextAt(s, p) \in p + 1 .. Len(s) + 1
          BY <4>2, <5>1, NextIsAhead
        <5>3. NextAt(s, p) \in lo + 1 .. end
          <6>1. \A q \in p + 1 .. Len(s) + 1 : q \in lo + 1 .. end
            BY <1>0, <2>0, <5>1
          <6> QED BY <5>2, <6>1
        <5>4. h[NextAt(s, p)] = g[NextAt(s, p)]
          BY <2>3, <5>3
        <5> HIDE DEF h
        <5> QED BY <4>2, <5>4
      <4>3. CASE p # end /\ ~ WholeAt(s, p)
        BY <4>3
      <4> QED BY <4>1, <4>2, <4>3
    <3>2. CASE p = lo
      BY <2>3, <3>1, <3>2 DEF new
    <3>3. CASE p # lo
      <4>1. p \in lo + 1 .. end
        BY <1>0, <2>0, <3>3
      <4> HIDE DEF body, h
      <4> QED BY <2>2, <2>3, <3>1, <4>1
    <3> QED BY <3>2, <3>3
  <2>5. h = [p \in lo .. end |-> body(h, p)]
    <3> HIDE DEF body
    <3>1. h = [p \in lo .. end |-> h[p]]
      OBVIOUS
    <3> HIDE DEF h
    <3> QED BY <2>4, <3>1
  <2>6. FramesFrom(s, lo, h)
    BY <1>0, <2>5 DEF FramesFrom
  <2> HIDE DEF h
  <2> QED BY <2>6 DEF lo
<1> HIDE DEF S
<1>3. Nat \subseteq S
  BY <1>1, <1>2, InductionOverSet
<1>4. \E g : FramesFrom(s, end - Len(s), g)
  BY <1>0, <1>3 DEF S
<1>5. end - Len(s) = 1
  BY <1>0
<1> QED BY <1>4, <1>5

LEMMA FramesValue ==
  ASSUME NEW s \in Seq(Byte)
  PROVE  \E g : FramesFrom(s, 1, g) /\ FramesOf(s) = g[1]
<1> DEFINE c == CHOOSE g : FramesFrom(s, 1, g)
<1>1. FramesFrom(s, 1, c)
  BY FramesFromExists
<1>2. c = CHOOSE g : g = [p \in 1 .. Len(s) + 1 |->
         IF p = Len(s) + 1 THEN << >>
         ELSE IF WholeAt(s, p) THEN <<FrameAt(s, p)>> \o g[NextAt(s, p)]
         ELSE <<NoFrame>>]
  BY DEF FramesFrom
<1>3. FramesOf(s) = c[1]
  BY <1>2 DEF FramesOf
<1> QED BY <1>1, <1>3

LEMMA PutInFront ==
  ASSUME NEW W, NEW w \in W, NEW m \in Nat, NEW t \in [1 .. m -> W],
         NEW u \in [1 .. m + 1 -> W], u[1] = w, \A i \in 1 .. m : u[1 + i] = t[i]
  PROVE  <<w>> \o t = u
<1> DEFINE h == <<w>>
<1>1. t \in Seq(W) /\ Len(t) = m /\ u \in Seq(W) /\ Len(u) = m + 1
  BY FunctionIsSeq
<1>2. h \in Seq(W) /\ Len(h) = 1 /\ h[1] = w
  OBVIOUS
<1> HIDE DEF h
<1>3. /\ h \o t \in Seq(W) /\ Len(h \o t) = 1 + m
      /\ \A j \in 1 .. Len(h) : (h \o t)[j] = h[j]
      /\ \A j \in 1 .. Len(t) : (h \o t)[Len(h) + j] = t[j]
  <2>1. h \in Seq(W) /\ t \in Seq(W)
    BY <1>1, <1>2
  <2>2. /\ h \o t \in Seq(W) /\ Len(h \o t) = Len(h) + Len(t)
        /\ \A j \in 1 .. Len(h) : (h \o t)[j] = h[j]
        /\ \A j \in 1 .. Len(t) : (h \o t)[Len(h) + j] = t[j]
    BY <2>1, Joined
  <2> QED BY <1>1, <1>2, <2>2
<1>4. ASSUME NEW j \in 1 .. m + 1 PROVE (h \o t)[j] = u[j]
  <2>1. CASE j = 1
    BY <1>2, <1>3, <2>1
  <2>2. CASE j # 1
    <3>1. j - 1 \in 1 .. m /\ 1 + (j - 1) = j
      BY <2>2
    <3>2. (h \o t)[1 + (j - 1)] = t[j - 1]
      BY <1>1, <1>2, <1>3, <3>1
    <3> QED BY <3>1, <3>2
  <2> QED BY <2>1, <2>2
<1>5. Len(h \o t) = Len(u)
  BY <1>1, <1>3
<1>6. h \o t = u
  BY <1>1, <1>3, <1>4, <1>5, SeqEqual
<1> QED BY <1>6 DEF h

\* The server reads the messages, all of them and nothing else.
LEMMA StreamIsRead ==
  ASSUME NEW s \in Seq(Byte), NEW T, NEW msgs \in Seq(T), FrameStream(s, msgs),
         \A k \in 1 .. Len(msgs) : Sendable(msgs[k])
  PROVE  FramesOf(s) = [k \in 1 .. Len(msgs) |-> View(msgs[k])]
<1> DEFINE n == Len(msgs)  ls == Len(s)
           tail(k) == [i \in 1 .. n - k |-> View(msgs[k + i])]
<1>0. n \in Nat /\ ls \in Nat
  OBVIOUS
<1>1. PICK at, keys : Written(s, msgs, at, keys)
  BY DEF FrameStream
<1>2. PICK g : FramesFrom(s, 1, g) /\ FramesOf(s) = g[1]
  BY FramesValue
<1> DEFINE good(m) == g[at[n - m] + 1] = tail(n - m)
           S == {m \in Nat : m <= n => good(m)}
<1>3. 0 \in S
  <2>1. at[n] = ls
    BY <1>1 DEF Written
  <2>2. g[ls + 1] = << >>
    BY <1>0, <1>2 DEF FramesFrom
  <2>3. n - 0 = n /\ n - n = 0
    BY <1>0
  <2>4. tail(n) = << >>
    BY <2>3
  <2> HIDE DEF tail
  <2>5. good(0)
    BY <2>1, <2>2, <2>3, <2>4
  <2> HIDE DEF good
  <2> QED BY <2>5
<1>4. ASSUME NEW m \in Nat, m \in S PROVE m + 1 \in S
  <2>0. (m + 1 <= n => good(m + 1)) => m + 1 \in S
    <3> HIDE DEF good
    <3> QED OBVIOUS
  <2> SUFFICES ASSUME m + 1 <= n PROVE good(m + 1)
    <3> HIDE DEF good
    <3> QED BY <2>0
  <2> DEFINE k == n - m  a == at[k - 1]  p == a + 1  f == FrameOf(msgs[k], keys[k])
  <2>1. k \in 1 .. n /\ k \in Nat /\ n - (m + 1) = k - 1 /\ n - (k - 1) = m + 1 /\ n - k = m
    BY <1>0
  <2> HIDE DEF k
  <2>2. /\ keys[k] \in Key /\ StandsAt(s, a, f) /\ at[k] = a + Len(f)
    BY <1>1, <2>1 DEF Written
  <2>3. Sendable(msgs[k])
    BY <2>1
  <2>4. /\ WholeAt(s, p) /\ NextAt(s, p) = a + Len(f) + 1
        /\ FrameAt(s, p) = View(msgs[k]) /\ Len(f) \in Nat \ {0}
    BY <2>2, <2>3, FrameIsRead
  <2>5. a \in Nat /\ a + Len(f) <= ls
    BY <2>2 DEF StandsAt
  <2> HIDE DEF a, f
  <2>6. p \in 1 .. ls + 1 /\ p # ls + 1 /\ a + Len(f) + 1 = at[k] + 1
    BY <1>0, <2>2, <2>4, <2>5
  <2>7. g[p] = <<View(msgs[k])>> \o g[at[k] + 1]
    <3>1. g[p] = <<FrameAt(s, p)>> \o g[NextAt(s, p)]
      BY <1>2, <2>4, <2>6 DEF FramesFrom
    <3> QED BY <2>4, <2>6, <3>1
  <2>8. g[at[k] + 1] = tail(k)
    <3>1. good(m)
      <4> HIDE DEF good
      <4> QED BY <1>0, <1>4
    <3> HIDE DEF tail
    <3> QED BY <3>1 DEF k
  <2>9. <<View(msgs[k])>> \o tail(k) = tail(k - 1)
    <3> DEFINE W == {View(msgs[i]) : i \in 1 .. n}  t == tail(k)  u == tail(k - 1)
    <3>1. t = [i \in 1 .. m |-> View(msgs[k + i])] /\ u = [i \in 1 .. m + 1 |-> View(msgs[(k - 1) + i])]
      BY <2>1
    <3>2. (\A i \in 1 .. m : k + i \in 1 .. n) /\ (\A i \in 1 .. m + 1 : (k - 1) + i \in 1 .. n)
      BY <1>0, <2>1
    <3>3. \A i \in 1 .. m : (k - 1) + (1 + i) = k + i /\ 1 + i \in 1 .. m + 1
      BY <2>1
    <3>4. 1 \in 1 .. m + 1 /\ (k - 1) + 1 = k
      BY <2>1
    <3> HIDE DEF t, u, n
    <3>5. t \in [1 .. m -> W] /\ u \in [1 .. m + 1 -> W] /\ View(msgs[k]) \in W
      BY <2>1, <3>1, <3>2
    <3>6. u[1] = View(msgs[k]) /\ \A i \in 1 .. m : u[1 + i] = t[i]
      BY <3>1, <3>3, <3>4
    <3> HIDE DEF W
    <3> DEFINE w == View(msgs[k])
    <3>7. w \in W /\ u[1] = w
      BY <3>5, <3>6
    <3> HIDE DEF w
    <3>8. <<w>> \o t = u
      BY <2>1, <3>5, <3>6, <3>7, PutInFront
    <3> QED BY <3>8 DEF t, u, w
  <2>10. n - (m + 1) = k - 1
    BY <2>1
  <2> HIDE DEF tail
  <2> QED BY <2>7, <2>8, <2>9, <2>10 DEF a
<1> HIDE DEF S
<1>5. Nat \subseteq S
  BY <1>3, <1>4, InductionOverSet
<1>6. g[at[0] + 1] = tail(0)
  <2>1. g[at[n - n] + 1] = tail(n - n)
    BY <1>0, <1>5 DEF S
  <2>2. n - n = 0
    BY <1>0
  <2> QED BY <2>1, <2>2
<1>7. at[0] + 1 = 1
  BY <1>1 DEF Written
<1>8. tail(0) = [k \in 1 .. n |-> View(msgs[k])]
  BY <1>0
<1> QED BY <1>2, <1>6, <1>7, <1>8

\* One more frame at the end of the stream.
LEMMA FrameAppended ==
  ASSUME NEW s \in Seq(Byte), NEW T, NEW msgs \in Seq(T), FrameStream(s, msgs),
         \A k \in 1 .. Len(msgs) : Sendable(msgs[k]),
         NEW msg \in T, Sendable(msg), NEW key \in Key
  PROVE  FrameStream(s \o FrameOf(msg, key), Append(msgs, msg))
<1> DEFINE n == Len(msgs)  ls == Len(s)  f == FrameOf(msg, key)  lf == Len(f)
           t == s \o f  more == Append(msgs, msg)
<1>1. PICK at, keys : Written(s, msgs, at, keys)
  BY DEF FrameStream
<1>2. f \in Seq(Byte) /\ lf \in Nat
  <2>1. f \in Seq(Byte)
    BY FrameShape
  <2> HIDE DEF f
  <2> QED BY <2>1
<1>3. /\ t \in Seq(Byte) /\ Len(t) = ls + lf /\ ls \in Nat
      /\ \A j \in 1 .. ls : t[j] = s[j]
      /\ \A j \in 1 .. lf : t[ls + j] = f[j]
  <2> HIDE DEF f
  <2>1. /\ t \in Seq(Byte) /\ Len(t) = Len(s) + Len(f)
        /\ \A j \in 1 .. Len(s) : t[j] = s[j]
        /\ \A j \in 1 .. Len(f) : t[Len(s) + j] = f[j]
    BY <1>2, Joined
  <2> QED BY <2>1
<1>4. /\ n \in Nat /\ Len(more) = n + 1 /\ more[n + 1] = msg
      /\ \A k \in 1 .. n : more[k] = msgs[k]
  OBVIOUS
<1>5. /\ at[0] = 0 /\ at[n] = ls
      /\ \A k \in 1 .. n :
           /\ keys[k] \in Key
           /\ StandsAt(s, at[k - 1], FrameOf(msgs[k], keys[k]))
           /\ at[k] = at[k - 1] + Len(FrameOf(msgs[k], keys[k]))
  BY <1>1 DEF Written
<1> DEFINE on == [k \in 0 .. n + 1 |-> IF k = n + 1 THEN ls + lf ELSE at[k]]
           ks == [k \in 1 .. n + 1 |-> IF k = n + 1 THEN key ELSE keys[k]]
<1> HIDE DEF n, ls, f, lf, t, more
<1>6. (\A k \in 0 .. n : on[k] = at[k]) /\ on[n + 1] = ls + lf
  BY <1>4
<1>7. (\A k \in 1 .. n : ks[k] = keys[k]) /\ ks[n + 1] = key
  BY <1>4
<1> HIDE DEF on, ks
<1>8. on[0] = 0 /\ on[n + 1] = Len(t)
  BY <1>3, <1>4, <1>5, <1>6
<1>9. ASSUME NEW k \in 1 .. n + 1
      PROVE  /\ ks[k] \in Key
             /\ StandsAt(t, on[k - 1], FrameOf(more[k], ks[k]))
             /\ on[k] = on[k - 1] + Len(FrameOf(more[k], ks[k]))
  <2>1. CASE k = n + 1
    <3>1. k - 1 = n /\ n \in 0 .. n /\ on[n] = ls
      BY <1>4, <1>5, <1>6, <2>1
    <3>2. more[k] = msg /\ ks[k] = key /\ FrameOf(more[k], ks[k]) = f
      BY <1>4, <1>7, <2>1 DEF f
    <3>3. StandsAt(t, ls, f)
      BY <1>2, <1>3 DEF StandsAt, lf
    <3> QED BY <1>6, <2>1, <3>1, <3>2, <3>3 DEF lf
  <2>2. CASE k # n + 1
    <3>1. k \in 1 .. n /\ k \in 0 .. n /\ k - 1 \in 0 .. n
      BY <1>4, <2>2
    <3> DEFINE g == FrameOf(msgs[k], keys[k])  a == at[k - 1]
    <3>2. keys[k] \in Key /\ StandsAt(s, a, g) /\ at[k] = a + Len(g)
      BY <1>5, <3>1
    <3>3. more[k] = msgs[k] /\ ks[k] = keys[k] /\ on[k] = at[k] /\ on[k - 1] = a
      BY <1>4, <1>6, <1>7, <3>1
    <3>4. FrameOf(more[k], ks[k]) = g
      BY <3>3
    <3> HIDE DEF a, g
    <3>5. a \in Nat /\ a + Len(g) <= ls /\ \A j \in 1 .. Len(g) : s[a + j] = g[j]
      BY <3>2 DEF StandsAt, ls
    <3>6. ASSUME NEW j \in 1 .. Len(g) PROVE t[a + j] = g[j]
      <4>1. a + j \in 1 .. ls
        BY <1>3, <3>5
      <4> QED BY <1>3, <3>5, <4>1
    <3>7. Len(g) \in Nat
      <4>1. Sendable(msgs[k])
        BY <3>1 DEF n
      <4>2. g \in Seq(Byte)
        BY <3>2, <4>1, FrameShape DEF g
      <4> QED BY <4>2
    <3>8. a + Len(g) <= Len(t)
      <4>1. ls + lf >= ls
        BY <1>2, <1>3
      <4>2. ls \in Nat /\ ls + lf \in Nat /\ Len(t) = ls + lf
        BY <1>2, <1>3
      <4>3. a \in Nat /\ a + Len(g) <= ls
        BY <3>5
      <4> QED BY <3>7, <4>1, <4>2, <4>3
    <3> QED BY <3>2, <3>3, <3>4, <3>5, <3>6, <3>8 DEF StandsAt
  <2> QED BY <2>1, <2>2
<1>10. Written(t, more, on, ks)
  BY <1>4, <1>8, <1>9 DEF Written
<1> QED BY <1>10 DEF FrameStream, t, f, more

-----------------------------------------------------------------------------
(* The room of the model's ring *)

\* What the ring holds of one frame at most, and MaxMessages times.
IsRoom(room) ==
  /\ room \in Nat /\ room >= 139 /\ room <= MaxCapacity
  /\ \A msg \in Messages : Len(msg.data) + 14 <= room
  /\ MaxMessages * room <= MaxCapacity

Room == CHOOSE room : IsRoom(room)

LEMMA ThereIsRoom == IsRoom(Room) /\ MaxMessages \in Nat /\ MaxCapacity \in Nat
                     /\ MaxCapacity <= 1073741824
<1>1. \E room : IsRoom(room)
  <2>1. MaxCapacity \in Nat
    BY RingAssumption
  <2>2. \A room \in 139 .. MaxCapacity : room \in Nat /\ room >= 139 /\ room <= MaxCapacity
    BY <2>1
  <2>3. PICK room \in 139 .. MaxCapacity :
          /\ \A msg \in Messages : Len(msg.data) + 14 <= room
          /\ MaxMessages * room <= MaxCapacity
    BY RoomAssumption, Zenon
  <2> QED BY <2>2, <2>3, Zenon DEF IsRoom
<1>2. IsRoom(Room)
  BY <1>1 DEF Room
<1>3. MaxCapacity <= 1073741824
  BY FrameWriterAssumption, Powers
<1> QED BY <1>2, <1>3, RoomAssumption, RingAssumption

LEMMA OneMoreRoom ==
  ASSUME NEW n \in Nat, NEW m \in Nat, NEW r \in Nat, n < m
  PROVE  n * r \in Nat /\ m * r \in Nat /\ (n + 1) * r = n * r + r /\ n * r + r <= m * r
<1>1. n * r \in Nat /\ m * r \in Nat /\ (n + 1) * r = n * r + r
  OBVIOUS
<1>2. m = (n + 1) + (m - (n + 1)) /\ m - (n + 1) \in Nat
  OBVIOUS
<1>3. m * r = (n + 1) * r + (m - (n + 1)) * r /\ (m - (n + 1)) * r \in Nat
  BY <1>2
<1> QED BY <1>1, <1>3

LEMMA RoomForOneMore ==
  ASSUME NEW n \in Nat, NEW m \in Nat, NEW r \in Nat, n < m,
         NEW cap \in Nat, m * r <= cap,
         NEW size \in Nat, size <= n * r, NEW x \in Nat, x <= r
  PROVE  n + 1 <= m /\ size + x <= (n + 1) * r /\ size + x <= cap
<1> DEFINE some == n * r  all == m * r  more == (n + 1) * r
<1>1. some \in Nat /\ all \in Nat /\ more = some + r /\ some + r <= all
  BY OneMoreRoom
<1>2. size <= some /\ all <= cap
  OBVIOUS
<1> HIDE DEF some, all, more
<1>3. size + x <= more /\ size + x <= cap
  BY <1>1, <1>2
<1> QED BY <1>3 DEF more

Record == [type : Type \ {"Fragment"}, final : {TRUE}, data : Seq(Byte)]

Fits(msg) == msg \in Record /\ Len(msg.data) + 14 <= Room

LEMMA WhatFits ==
  ASSUME NEW msg, Fits(msg), NEW key \in Key
  PROVE  /\ Sendable(msg)
         /\ FrameOf(msg, key) \in Seq(Byte)
         /\ Len(FrameOf(msg, key)) \in Nat /\ Len(FrameOf(msg, key)) <= Room
<1> DEFINE data == msg.data  len == Len(data)  form == FormOf(len)  f == FrameOf(msg, key)
<1>1. msg.type \in Type \ {"Fragment"} /\ data \in Seq(Byte) /\ len + 14 <= Room
  BY DEF Fits, Record
<1>2. len \in Nat
  BY <1>1
<1>3. Room \in Nat /\ Room <= 1073741824
  BY ThereIsRoom DEF IsRoom
<1> HIDE DEF len
<1>4. len <= MaxLength
  BY <1>1, <1>2, <1>3, SMT DEF MaxLength
<1>5. Sendable(msg)
  BY <1>1, <1>4 DEF Sendable, len
<1>6. f \in Seq(Byte) /\ Len(f) = 6 + form + len
  BY <1>5, FrameShape DEF len
<1>7. form \in Nat /\ form <= 8
  BY <1>2 DEF FormOf
<1> HIDE DEF form, f
<1>8. Len(f) \in Nat /\ Len(f) <= Room
  BY <1>1, <1>2, <1>3, <1>6, <1>7
<1> QED BY <1>5, <1>6, <1>8 DEF f

LEMMA MessageFits ==
  ASSUME NEW msg \in Messages, msg.type # "Fragment"
  PROVE  Fits(msg)
<1>1. msg \in Record
  BY FrameWriterAssumption DEF Record
<1>2. Len(msg.data) + 14 <= Room
  BY ThereIsRoom DEF IsRoom
<1> QED BY <1>1, <1>2 DEF Fits

\* The frame of a close, whose reason is cut to fit a control frame.
LEMMA CloseFrame ==
  ASSUME NEW c \in Closes
  PROVE  LET msg == MakeCloseFrame(c.code, c.reason)
             kept == AtMost(Len(c.reason), 123)
         IN  /\ Fits(msg) /\ msg.type = "Close"
             /\ c.reason \in Seq(Byte) /\ kept \in Nat /\ kept <= 123
             /\ kept <= Len(c.reason)
             /\ Len(msg.data) = 2 + kept
             /\ \A i \in 1 .. kept : msg.data[2 + i] = c.reason[i]
<1> DEFINE msg == MakeCloseFrame(c.code, c.reason)  reason == c.reason
           kept == AtMost(Len(reason), 123)  code == BigEndian(c.code, 2)
           cut == SubSeq(reason, 1, kept)
<1>1. c.code \in UInt16 /\ reason \in Seq(Byte)
  BY FrameWriterAssumption
<1>2. c.code \in Nat /\ c.code <= 65535
  BY <1>1, SMT DEF UInt16
<1>3. code \in Seq(Byte) /\ Len(code) = 2
  BY <1>2, BigEndianTwo
<1>4. kept \in Nat /\ kept <= 123 /\ kept <= Len(reason)
  <2>1. Len(reason) \in Nat
    BY <1>1
  <2> QED BY <2>1 DEF AtMost
<1>5. cut \in Seq(Byte) /\ Len(cut) = kept /\ \A i \in 1 .. kept : cut[i] = reason[i]
  <2> HIDE DEF kept, reason
  <2> QED BY <1>1, <1>4
<1> HIDE DEF kept, code
<1>6. /\ code \o cut \in Seq(Byte) /\ Len(code \o cut) = 2 + kept
      /\ \A i \in 1 .. kept : (code \o cut)[2 + i] = reason[i]
  <2> HIDE DEF cut
  <2>1. /\ code \o cut \in Seq(Byte) /\ Len(code \o cut) = Len(code) + Len(cut)
        /\ \A j \in 1 .. Len(cut) : (code \o cut)[Len(code) + j] = cut[j]
    <3>1. code \in Seq(Byte) /\ cut \in Seq(Byte)
      BY <1>3, <1>5
    <3> QED BY <3>1, Joined
  <2> QED BY <1>3, <1>5, <2>1
<1>7. msg = [type |-> "Close", final |-> TRUE, data |-> code \o cut]
  BY DEF MakeCloseFrame, code, kept
<1> HIDE DEF msg, cut
<1>8. msg.type = "Close" /\ msg.data = code \o cut /\ msg \in Record
  BY <1>6, <1>7 DEF Record, Type
<1>9. Len(msg.data) + 14 <= Room
  BY <1>4, <1>6, <1>8, ThereIsRoom DEF IsRoom
<1> QED BY <1>1, <1>4, <1>6, <1>8, <1>9 DEF Fits, msg, kept

-----------------------------------------------------------------------------
(* The inductive invariant *)

\* What has been sent and what is buffered are the frames of the accepted
\* messages, and the ring has room for those that may follow.
WInv ==
  /\ RingOK(buf) /\ wire \in Seq(Byte) /\ Contents(buf) \in Seq(Byte)
  /\ accepted \in Seq(Record)
  /\ \A k \in 1 .. Len(accepted) : Fits(accepted[k])
  /\ Len(accepted) <= MaxMessages /\ buf.size <= Len(accepted) * Room
  /\ FrameStream(wire \o Contents(buf), accepted)

\* The last refusal was that of one message the application gave.
RefusedInv ==
  \/ refused = << >>
  \/ \E msg \in Messages : refused = <<msg>>
  \/ \E c \in Closes : refused = <<MakeCloseFrame(c.code, c.reason)>>

LEMMA EmptyStream == FrameStream(<< >>, << >>)
<1> DEFINE at == [k \in {0} |-> 0]
<1>1. Written(<< >>, << >>, at, at)
  <2>1. at[0] = 0 /\ Len(<< >>) = 0 /\ 1 .. 0 = {}
    OBVIOUS
  <2> QED BY <2>1 DEF Written
<1> QED BY <1>1 DEF FrameStream

LEMMA StartsRight == Init => WInv /\ RefusedInv
<1> SUFFICES ASSUME Init PROVE WInv /\ RefusedInv
  OBVIOUS
<1>1. buf = NewRing(0) /\ wire = << >> /\ accepted = << >> /\ refused = << >>
  BY DEF Init
<1>2. RingOK(buf) /\ Contents(buf) = << >>
  BY <1>1, NewRingOK
<1>3. buf.size = 0
  BY <1>1 DEF NewRing
<1>4. Room \in Nat /\ MaxMessages \in Nat
  BY ThereIsRoom DEF IsRoom
<1>5. wire \o Contents(buf) = << >>
  BY <1>1, <1>2
<1>6. FrameStream(wire \o Contents(buf), accepted)
  BY <1>1, <1>5, EmptyStream
<1>7. accepted \in Seq(Record) /\ Len(accepted) = 0 /\ wire \in Seq(Byte) /\ Contents(buf) \in Seq(Byte)
  <2>1. (\A S : << >> \in Seq(S)) /\ Len(<< >>) = 0
    OBVIOUS
  <2> QED BY <1>1, <1>2, <2>1, Zenon
<1>8. Len(accepted) <= MaxMessages /\ buf.size <= Len(accepted) * Room
      /\ \A k \in 1 .. Len(accepted) : Fits(accepted[k])
  BY <1>3, <1>4, <1>7
<1> QED BY <1>1, <1>2, <1>6, <1>7, <1>8 DEF WInv, RefusedInv

\* A message is written behind those that are in the ring.
LEMMA WriteKeeps ==
  ASSUME WInv, Len(accepted) < MaxMessages, NEW msg, Fits(msg), NEW key \in Keys,
         buf' = WriteFrame(buf, msg, key), accepted' = Append(accepted, msg),
         UNCHANGED wire
  PROVE  WInv'
<1> DEFINE f == FrameOf(msg, key)  n == Len(accepted)  old == Contents(buf)
<1>1. key \in Key
  BY FrameWriterAssumption DEF Key
<1>2. /\ RingOK(buf) /\ wire \in Seq(Byte) /\ old \in Seq(Byte)
      /\ accepted \in Seq(Record) /\ n \in Nat
      /\ \A k \in 1 .. n : Fits(accepted[k])
      /\ n <= MaxMessages /\ buf.size <= n * Room
      /\ FrameStream(wire \o old, accepted)
  BY DEF WInv
<1>3. Sendable(msg) /\ f \in Seq(Byte) /\ Len(f) \in Nat /\ Len(f) <= Room
  BY <1>1, WhatFits
<1>4. Room \in Nat /\ MaxMessages \in Nat /\ MaxCapacity \in Nat
      /\ MaxMessages * Room <= MaxCapacity
  BY ThereIsRoom DEF IsRoom
<1>6. buf.size \in Nat
  BY <1>2, RingNumbers
<1>7. /\ n + 1 <= MaxMessages /\ buf.size + Len(f) <= (n + 1) * Room
      /\ buf.size + Len(f) <= MaxCapacity
  <2> DEFINE lf == Len(f)
  <2>1. lf \in Nat /\ lf <= Room /\ n < MaxMessages
    BY <1>3
  <2> HIDE DEF n, lf
  <2>2. n + 1 <= MaxMessages /\ buf.size + lf <= (n + 1) * Room /\ buf.size + lf <= MaxCapacity
    BY <1>2, <1>4, <1>6, <2>1, RoomForOneMore
  <2> QED BY <2>2 DEF lf
<1>8. RingOK(buf') /\ Contents(buf') = old \o f
  BY <1>1, <1>2, <1>3, <1>7, FrameIsWritten DEF f
<1> HIDE DEF f
<1>9. old \o f \in Seq(Byte) /\ Len(old \o f) = Len(old) + Len(f)
  <2> HIDE DEF old
  <2>1. old \in Seq(Byte) /\ f \in Seq(Byte)
    BY <1>2, <1>3
  <2> QED BY <2>1, Joined
<1>10. buf'.size = Len(old) + Len(f) /\ Len(old) = buf.size
  <2>1. Len(Contents(buf')) = buf'.size
    BY <1>8, ContentsType
  <2>2. Len(Contents(buf)) = buf.size
    BY <1>2, ContentsType
  <2> HIDE DEF old
  <2> QED BY <1>8, <1>9, <2>1, <2>2 DEF old
<1>11. /\ accepted' \in Seq(Record) /\ Len(accepted') = n + 1
       /\ \A k \in 1 .. Len(accepted') : Fits(accepted'[k])
  <2>1. msg \in Record
    BY DEF Fits
  <2>2. /\ accepted' \in Seq(Record) /\ Len(accepted') = n + 1 /\ accepted'[n + 1] = msg
        /\ \A k \in 1 .. n : accepted'[k] = accepted[k]
    BY <1>2, <2>1
  <2>3. ASSUME NEW k \in 1 .. n + 1 PROVE Fits(accepted'[k])
    <3>1. k = n + 1 \/ k \in 1 .. n
      BY <1>2
    <3> QED BY <1>2, <2>2, <3>1
  <2> QED BY <2>2, <2>3
<1>12. buf'.size <= (n + 1) * Room /\ n + 1 <= MaxMessages
  BY <1>7, <1>10
<1>13. FrameStream((wire \o old) \o f, accepted')
  <2>1. wire \o old \in Seq(Byte)
    <3> HIDE DEF old
    <3> QED BY <1>2
  <2>2. ASSUME NEW k \in 1 .. n PROVE Sendable(accepted[k])
    <3>1. Fits(accepted[k])
      BY <1>2
    <3> QED BY <1>1, <3>1, WhatFits
  <2>3. msg \in Record
    BY DEF Fits
  <2> HIDE DEF old
  <2> QED BY <1>1, <1>2, <1>3, <2>1, <2>2, <2>3, FrameAppended DEF f
<1>14. (wire \o old) \o f = wire \o (old \o f)
  <2> HIDE DEF old
  <2>1. wire \in Seq(Byte) /\ old \in Seq(Byte) /\ f \in Seq(Byte)
    BY <1>2, <1>3
  <2>2. \A x, y, z \in Seq(Byte) : (x \o y) \o z = x \o (y \o z)
    BY Regrouped
  <2> QED BY <2>1, <2>2, Zenon
<1> HIDE DEF n, old
<1> QED BY <1>2, <1>8, <1>9, <1>11, <1>12, <1>13, <1>14 DEF WInv

\* The transport takes bytes from the front of the ring.
LEMMA FlushKeeps ==
  ASSUME WInv, Flush
  PROVE  WInv'
<1> DEFINE span == PeekFirst(buf, buf.size, 0)  old == Contents(buf)  size == buf.size
<1>1. /\ RingOK(buf) /\ wire \in Seq(Byte) /\ old \in Seq(Byte)
      /\ FrameStream(wire \o old, accepted)
  BY DEF WInv
<1>2. size \in Nat /\ Len(old) = size /\ 0 \in 0 .. size
      /\ size \in 0 .. size - 0
      /\ \A i \in 1 .. size : old[i] = buf.data[Wrap(buf, buf.start + i - 1)]
  <2>1. size \in Nat
    BY <1>1, RingNumbers
  <2>2. Len(old) = size /\ \A i \in 1 .. size : old[i] = buf.data[Wrap(buf, buf.start + i - 1)]
    BY <1>1, ContentsType
  <2> QED BY <2>1, <2>2
<1>3. /\ span.len \in 0 .. size /\ span.at \in Nat
      /\ \A j \in 0 .. size - 1 :
           Wrap(buf, buf.start + (0 + j))
             = IF j < span.len THEN span.at + j ELSE j - span.len
  BY <1>1, <1>2, PeekSpans
<1>4. PICK n \in 1 .. span.len :
        /\ wire' = wire \o Bytes(buf, [span EXCEPT !.len = n])
        /\ buf' = Skip(buf, n) /\ UNCHANGED accepted
  BY DEF Flush
<1>5. n \in Nat /\ n <= size /\ n \in 0 .. size /\ n <= span.len
  BY <1>2, <1>3, <1>4
<1>6. Bytes(buf, [span EXCEPT !.len = n]) = [i \in 1 .. n |-> buf.data[span.at + i - 1]]
  <2>1. [span EXCEPT !.len = n].len = n /\ [span EXCEPT !.len = n].at = span.at
    BY DEF PeekFirst
  <2> HIDE DEF span
  <2> QED BY <2>1 DEF Bytes
<1> DEFINE front == SubSeq(old, 1, n)  rest == SubSeq(old, n + 1, size)
<1>7. buf.start \in Nat
  BY <1>1, RingNumbers
<1> HIDE DEF span, old, size
<1>8. /\ front \in Seq(Byte) /\ Len(front) = n /\ rest \in Seq(Byte)
      /\ Len(rest) = size - n
      /\ \A i \in 1 .. n : front[i] = old[i]
  BY <1>1, <1>2, <1>5
<1>9. front \o rest = old
  <2>1. front \o rest = SubSeq(old, 1, size)
    BY <1>1, <1>2, <1>5, PrefixGrows
  <2>2. SubSeq(old, 1, size) = old
    BY <1>1, <1>2
  <2> QED BY <2>1, <2>2
<1>10. Bytes(buf, [span EXCEPT !.len = n]) = front
  <2>1. front = [i \in 1 .. n |-> old[i]]
    BY <1>1, <1>2, <1>5
  <2>2. ASSUME NEW i \in 1 .. n PROVE buf.data[span.at + i - 1] = old[i]
    <3>1. i - 1 \in 0 .. size - 1 /\ i \in 1 .. size /\ i - 1 < span.len
      BY <1>2, <1>3, <1>5
    <3>2. Wrap(buf, buf.start + (0 + (i - 1))) = span.at + (i - 1)
      BY <1>3, <3>1
    <3>3. buf.start + (0 + (i - 1)) = buf.start + i - 1 /\ span.at + (i - 1) = span.at + i - 1
      BY <1>3, <1>7
    <3> QED BY <1>2, <3>1, <3>2, <3>3
  <2> HIDE DEF front
  <2> QED BY <1>6, <2>1, <2>2
<1>11. RingOK(buf') /\ Contents(buf') = rest
  BY <1>1, <1>4, <1>5, SkipDrops DEF old, size
<1>12. buf'.size = size - n
  BY <1>8, <1>11, ContentsType
<1> HIDE DEF front, rest
<1>13. wire' \in Seq(Byte) /\ wire' \o rest = wire \o old
  <2>1. wire' = wire \o front
    BY <1>4, <1>10
  <2>2. (wire \o front) \o rest = wire \o (front \o rest)
    <3>1. \A x, y, z \in Seq(Byte) : (x \o y) \o z = x \o (y \o z)
      BY Regrouped
    <3> QED BY <1>1, <1>8, <3>1, Zenon
  <2>3. wire \o front \in Seq(Byte)
    BY <1>1, <1>8
  <2> QED BY <1>9, <2>1, <2>2, <2>3
<1>14. accepted' = accepted /\ Len(accepted) \in Nat /\ accepted \in Seq(Record)
       /\ Len(accepted) <= MaxMessages /\ size <= Len(accepted) * Room
       /\ \A k \in 1 .. Len(accepted) : Fits(accepted[k])
  BY <1>4 DEF WInv, size
<1>15. buf'.size <= Len(accepted) * Room
  <2>1. Room \in Nat
    BY ThereIsRoom DEF IsRoom
  <2> DEFINE most == Len(accepted) * Room
  <2>2. most \in Nat
    BY <1>14, <2>1
  <2>3. size <= most
    BY <1>14
  <2> HIDE DEF most
  <2>4. size - n <= most
    BY <1>2, <1>5, <2>2, <2>3
  <2> QED BY <1>12, <2>4 DEF most
<1> QED BY <1>1, <1>8, <1>11, <1>13, <1>14, <1>15 DEF WInv

LEMMA WriteKeepsAll ==
  ASSUME WInv, Len(accepted) < MaxMessages, NEW msg, msg.type # "Fragment" => Fits(msg),
         NEW key \in Keys, WriteMessage(msg, key)
  PROVE  WInv' /\ (refused' = << >> \/ refused' = <<msg>>)
<1>1. CASE Validate(msg) = "ok" /\ msg.type # "Fragment"
  <2>1. buf' = WriteFrame(buf, msg, key) /\ accepted' = Append(accepted, msg)
        /\ refused' = << >> /\ UNCHANGED wire
    BY <1>1 DEF WriteMessage
  <2> QED BY <1>1, <2>1, WriteKeeps
<1>2. CASE ~ (Validate(msg) = "ok" /\ msg.type # "Fragment")
  <2>1. refused' = <<msg>> /\ UNCHANGED <<buf, wire, accepted>>
    BY <1>2 DEF WriteMessage
  <2> QED BY <2>1 DEF WInv
<1> QED BY <1>1, <1>2

LEMMA StepKeeps ==
  ASSUME WInv, RefusedInv, [Next]_vars
  PROVE  WInv' /\ RefusedInv'
<1>1. ASSUME NEW msg \in Messages, NEW key \in Keys, Len(accepted) < MaxMessages,
             WriteMessage(msg, key)
      PROVE  WInv' /\ RefusedInv'
  <2>1. msg.type # "Fragment" => Fits(msg)
    BY MessageFits
  <2> QED BY <1>1, <2>1, WriteKeepsAll DEF RefusedInv
<1>2. ASSUME NEW c \in Closes, NEW key \in Keys, Len(accepted) < MaxMessages,
             WriteMessage(MakeCloseFrame(c.code, c.reason), key)
      PROVE  WInv' /\ RefusedInv'
  <2> DEFINE msg == MakeCloseFrame(c.code, c.reason)
  <2>1. Fits(msg)
    BY CloseFrame
  <2> HIDE DEF msg
  <2>2. WInv' /\ (refused' = << >> \/ refused' = <<msg>>)
    BY <1>2, <2>1, WriteKeepsAll DEF msg
  <2> QED BY <2>2 DEF RefusedInv, msg
<1>3. CASE Flush
  <2>1. refused' = << >>
    BY <1>3 DEF Flush
  <2> QED BY <1>3, <2>1, FlushKeeps DEF RefusedInv
<1>4. CASE UNCHANGED vars
  BY <1>4 DEF vars, WInv, RefusedInv
<1> QED BY <1>1, <1>2, <1>3, <1>4 DEF Next, Send, SendClose

LEMMA Invariant == Spec => [](WInv /\ RefusedInv)
<1>1. Init => WInv /\ RefusedInv
  BY StartsRight
<1>2. (WInv /\ RefusedInv) /\ [Next]_vars => (WInv /\ RefusedInv)'
  BY StepKeeps
<1> QED BY <1>1, <1>2, PTL DEF Spec

-----------------------------------------------------------------------------
(* The theorems *)

\* m_wbuf stays one ring whatever is written to it and drained from it, and
\* what _writeMessage has accepted or refused are messages.
THEOREM TypeCorrect == Spec => []TypeOK
<1>1. ASSUME WInv, RefusedInv PROVE TypeOK
  <2> DEFINE Whole == [type : Type, final : {TRUE}, data : Seq(Byte)]
  <2>1. ASSUME NEW msg \in Whole PROVE <<msg>> \in Seq(Whole) /\ Len(<<msg>>) <= 1
    <3> HIDE DEF Whole
    <3> QED OBVIOUS
  <2>2. \A msg \in Messages : msg \in Whole
    BY FrameWriterAssumption
  <2>3. ASSUME NEW c \in Closes PROVE MakeCloseFrame(c.code, c.reason) \in Whole
    BY CloseFrame DEF Fits, Record
  <2>4. << >> \in Seq(Whole) /\ Len(<< >>) <= 1
    <3> HIDE DEF Whole
    <3> QED OBVIOUS
  <2> HIDE DEF Whole
  <2>5. refused \in Seq(Whole) /\ Len(refused) <= 1
    BY <1>1, <2>1, <2>2, <2>3, <2>4 DEF RefusedInv
  <2> QED BY <1>1, <2>5 DEF TypeOK, WInv, Record, Whole
<1>2. WInv /\ RefusedInv => TypeOK
  BY <1>1
<1> QED BY <1>2, Invariant, PTL

\* A server that follows the standard reads every accepted message back, each
\* one whole masked frame of its type and payload, in order and nothing else:
\* for every key, scratch array, capacity, cut of flush and payload.
THEOREM MessagesReadBack == Spec => []ServerReadsMessages
<1>1. ASSUME WInv PROVE ServerReadsMessages
  <2> DEFINE s == wire \o Contents(buf)
             code(k) == CASE accepted[k].type = "Text"   -> 1
                          [] accepted[k].type = "Binary" -> 2
                          [] accepted[k].type = "Close"  -> 8
                          [] accepted[k].type = "Ping"   -> 9
                          [] accepted[k].type = "Pong"   -> 10
  <2>1. wire \in Seq(Byte) /\ Contents(buf) \in Seq(Byte) /\ FrameStream(s, accepted)
        /\ accepted \in Seq(Record)
    BY <1>1 DEF WInv
  <2>2. s \in Seq(Byte)
    BY <2>1
  <2>3. ASSUME NEW k \in 1 .. Len(accepted)
        PROVE  /\ Sendable(accepted[k]) /\ OpcodeOf[accepted[k].type] = code(k)
    <3>1. Fits(accepted[k])
      BY <1>1 DEF WInv
    <3>2. accepted[k].type \in Type \ {"Fragment"}
      BY <3>1 DEF Fits, Record
    <3>3. accepted[k].data \in Seq(Byte) /\ Len(accepted[k].data) + 14 <= Room
      BY <3>1 DEF Fits, Record
    <3> DEFINE len == Len(accepted[k].data)
    <3>4. len \in Nat /\ len + 14 <= Room
      BY <3>3
    <3> HIDE DEF len
    <3>5. len <= MaxLength
      BY <3>4, ThereIsRoom, SMT DEF MaxLength, IsRoom
    <3> QED BY <3>2, <3>3, <3>5, OpcodeByte DEF Sendable, len
  <2> HIDE DEF s
  <2>4. FramesOf(s) = [k \in 1 .. Len(accepted) |-> View(accepted[k])]
    BY <2>1, <2>2, <2>3, StreamIsRead
  <2>5. \A k \in 1 .. Len(accepted) :
          View(accepted[k]) = [first |-> 128 + code(k), masked |-> TRUE,
                               data |-> accepted[k].data]
    BY <2>3 DEF View
  <2> HIDE DEF code
  <2>6. FramesOf(s) = [k \in 1 .. Len(accepted) |->
                         [first |-> 128 + code(k), masked |-> TRUE,
                          data |-> accepted[k].data]]
    BY <2>4, <2>5
  <2> QED BY <2>6 DEF ServerReadsMessages, s, code
<1>2. WInv /\ RefusedInv => ServerReadsMessages
  BY <1>1
<1> QED BY <1>2, Invariant, PTL

\* A length field on its own, behind the first byte of a frame.
LEMMA FieldReadBack ==
  ASSUME NEW len \in Nat, len <= MaxLength, NEW f, f = LengthField(len)
  PROVE  AnnouncedLength(<<129>> \o [f EXCEPT ![1] = 128 + f[1]], 1) = len
<1> DEFINE masked == [f EXCEPT ![1] = 128 + f[1]]  h == <<129>>  s == h \o masked
           n == Len(f)
<1>1. IsField(f, len)
  BY FieldShape
<1>2. f \in Seq(Byte) /\ n \in Nat \ {0} /\ f[1] \in Byte /\ f[1] < 128
  <2>1. f \in Seq(Byte) /\ n = 1 + FormOf(len) /\ f[1] \in Byte /\ f[1] < 128
    BY <1>1 DEF IsField
  <2> HIDE DEF n
  <2>2. FormOf(len) \in Nat
    BY DEF FormOf
  <2> QED BY <2>1, <2>2
<1>3. 128 + f[1] \in Byte
  BY <1>2, MaskBit
<1>4. masked \in Seq(Byte) /\ Len(masked) = n /\ masked[1] = 128 + f[1]
      /\ \A j \in 2 .. n : masked[j] = f[j]
  <2>1. f \in [1 .. n -> Byte] /\ 1 \in 1 .. n
    BY <1>2
  <2>2. masked \in [1 .. n -> Byte]
    BY <1>3, <2>1
  <2>3. masked \in Seq(Byte) /\ Len(masked) = n
    <3> HIDE DEF masked, n
    <3> QED BY <1>2, <2>2, FunctionIsSeq
  <2> QED BY <2>1, <2>3
<1>5. h \in Seq(Byte) /\ Len(h) = 1
  BY ByteAssumption
<1> HIDE DEF masked, h, n
<1>6. /\ s \in Seq(Byte) /\ Len(s) = 1 + n
      /\ \A j \in 1 .. n : s[1 + j] = masked[j]
  <2>1. h \in Seq(Byte) /\ masked \in Seq(Byte)
    BY <1>4, <1>5
  <2>2. /\ s \in Seq(Byte) /\ Len(s) = Len(h) + Len(masked)
        /\ \A j \in 1 .. Len(masked) : s[Len(h) + j] = masked[j]
    BY <2>1, Joined
  <2> QED BY <1>4, <1>5, <2>2
<1> HIDE DEF s
<1>7. /\ 1 + Len(f) <= Len(s) /\ s[1 + 1] = 128 + f[1]
      /\ \A j \in 2 .. Len(f) : s[1 + j] = f[j]
  <2>1. 1 \in 1 .. n /\ \A j \in 2 .. n : j \in 1 .. n
    BY <1>2
  <2>2. 1 + n <= Len(s)
    BY <1>2, <1>6
  <2> QED BY <1>4, <1>6, <2>1, <2>2 DEF n
<1>8. f \in Seq(Byte) /\ 1 \in Nat \ {0}
  BY <1>2
<1>9. AnnouncedLength(s, 1) = len
  BY <1>1, <1>6, <1>7, <1>8, FieldIsRead
<1> QED BY <1>9 DEF s, h, masked

\* Every length below 2^31 is announced in its shortest form and read back,
\* whichever of the three forms that is.
THEOREM LengthsRead == Spec => []LengthsReadBack
<1>1. ASSUME WInv, NEW k \in 1 .. Len(accepted), NEW more \in Lengths
      PROVE  /\ Len(accepted[k].data) + more \in Nat
             /\ Len(accepted[k].data) + more <= MaxLength
  <2> DEFINE len == Len(accepted[k].data)
  <2>1. Fits(accepted[k])
    BY <1>1 DEF WInv
  <2>2. len \in Nat /\ len + 14 <= Room
    BY <2>1 DEF Fits, Record
  <2> HIDE DEF len
  <2>3. Room \in Nat /\ Room <= 1073741824
    BY ThereIsRoom DEF IsRoom
  <2>4. more \in Nat /\ more <= 1073741824
    BY FrameWriterAssumption, Powers
  <2>5. len + more \in Nat /\ len + more <= MaxLength
    BY <2>2, <2>3, <2>4, SMT DEF MaxLength
  <2> QED BY <2>5 DEF len
<1>2. WInv /\ RefusedInv => LengthsReadBack
  BY <1>1, FieldReadBack DEF LengthsReadBack
<1> QED BY <1>2, Invariant, PTL

-----------------------------------------------------------------------------
(* Texts *)

LEMMA ByteIsOctets == Byte = Octets
BY ByteAssumption DEF Octets

\* isValidUtf8 accepts a text exactly when it is well-formed: whatever its
\* length, and over every set of bytes.
THEOREM DecoderExact ==
  ASSUME Sample \subseteq Byte
  PROVE  TextSpec => []AcceptsExactlyUtf8
<1>1. TextInit => text \in Seq(Byte)
  BY DEF TextInit
<1>2. text \in Seq(Byte) /\ [TextNext]_text => (text \in Seq(Byte))'
  <2>1. ASSUME text \in Seq(Byte), NEW b \in Sample, text' = Append(text, b)
        PROVE  text' \in Seq(Byte)
    <3>1. b \in Byte
      OBVIOUS
    <3> QED BY <2>1, <3>1
  <2>2. ASSUME Restart PROVE text' \in Seq(Byte)
    BY <2>2 DEF Restart, TextInit
  <2> QED BY <2>1, <2>2 DEF TextNext, Extend
<1>3. text \in Seq(Byte) => AcceptsExactlyUtf8
  BY DecoderIsExact, ByteIsOctets, Zenon DEF AcceptsExactlyUtf8
<1> QED BY <1>1, <1>2, <1>3, PTL DEF TextSpec

-----------------------------------------------------------------------------
(* Closes that are refused *)

\* A close is refused by Message::validate and by nothing else.
RefusedForCause ==
  \A k \in 1 .. Len(refused) :
    refused[k].type = "Close" => Validate(refused[k]) # "ok"

LEMMA RefusalsHaveCauses == Spec => []RefusedForCause
<1>1. refused = << >> => RefusedForCause
  <2>1. Len(<< >>) = 0 /\ 1 .. 0 = {}
    OBVIOUS
  <2> QED BY <2>1 DEF RefusedForCause
<1>2. Init => RefusedForCause
  BY <1>1 DEF Init
<1>3. ASSUME RefusedForCause, [Next]_vars PROVE RefusedForCause'
  <2>1. ASSUME NEW msg, NEW key, WriteMessage(msg, key) PROVE RefusedForCause'
    <3>1. CASE Validate(msg) = "ok" /\ msg.type # "Fragment"
      <4>1. refused' = << >>
        BY <2>1, <3>1 DEF WriteMessage
      <4>2. Len(<< >>) = 0 /\ 1 .. 0 = {}
        OBVIOUS
      <4> QED BY <4>1, <4>2 DEF RefusedForCause
    <3>2. CASE ~ (Validate(msg) = "ok" /\ msg.type # "Fragment")
      <4>1. refused' = <<msg>>
        BY <2>1, <3>2 DEF WriteMessage
      <4>2. Len(refused') = 1 /\ refused'[1] = msg
        BY <4>1
      <4>3. msg.type = "Close" => Validate(msg) # "ok"
        BY <3>2
      <4>4. ASSUME NEW k \in 1 .. Len(refused') PROVE refused'[k] = msg
        <5>1. k = 1
          BY <4>2
        <5> QED BY <4>2, <5>1
      <4> QED BY <4>3, <4>4 DEF RefusedForCause
    <3> QED BY <3>1, <3>2
  <2>2. CASE Flush
    <3>1. refused' = << >>
      BY <2>2 DEF Flush
    <3>2. Len(<< >>) = 0 /\ 1 .. 0 = {}
      OBVIOUS
    <3> QED BY <3>1, <3>2 DEF RefusedForCause
  <2>3. CASE UNCHANGED vars
    BY <1>3, <2>3 DEF vars, RefusedForCause
  <2> QED BY <1>3, <2>1, <2>2, <2>3 DEF Next, Send, SendClose
<1>4. RefusedForCause /\ [Next]_vars => RefusedForCause'
  BY <1>3
<1> QED BY <1>2, <1>4, PTL DEF Spec

SoundCode(msg) == CloseCode(msg) \in VALID_CLOSE_CODES \cup 3000 .. 4999

AsciiReason(msg) == \A i \in DOMAIN CloseReason(msg) : ~ (CloseReason(msg)[i] >= 128)

\* What makeCloseFrame builds is refused only for its code or for its reason's
\* bytes, never for the length of the reason.
LEMMA CutReasonsPass ==
  ASSUME NEW c \in Closes,
         NEW msg, msg = MakeCloseFrame(c.code, c.reason),
         SoundCode(msg), AsciiReason(msg)
  PROVE  Validate(msg) = "ok"
<1> DEFINE kept == AtMost(Len(c.reason), 123)  reason == CloseReason(msg)
<1>1. /\ Fits(msg) /\ msg.type = "Close" /\ kept \in Nat /\ kept <= 123
      /\ Len(msg.data) = 2 + kept
  <2> DEFINE m == MakeCloseFrame(c.code, c.reason)
  <2>1. /\ Fits(m) /\ m.type = "Close" /\ kept \in Nat /\ kept <= 123
        /\ Len(m.data) = 2 + kept
    BY CloseFrame
  <2> HIDE DEF m, kept
  <2>2. msg = m
    BY DEF m
  <2> QED BY <2>1, <2>2
<1>2. msg.data \in Seq(Byte)
  BY <1>1 DEF Fits, Record
<1> HIDE DEF kept
<1>3. reason \in Seq(Byte)
  <2> DEFINE d == msg.data
  <2>1. d \in Seq(Byte) /\ 3 \in Nat \ {0} /\ 3 + kept <= Len(d) + 1
        /\ 3 + kept - 1 = Len(d)
    BY <1>1, <1>2
  <2> HIDE DEF d
  <2>2. SubSeq(d, 3, 3 + kept - 1) \in Seq(Byte)
    BY <1>1, <2>1, Slice
  <2>3. SubSeq(d, 3, Len(d)) \in Seq(Byte)
    BY <2>1, <2>2
  <2>4. reason = SubSeq(d, 3, Len(d))
    BY Zenon DEF CloseReason, d
  <2> QED BY <2>3, <2>4
<1>4. IsValidUtf8(reason)
  <2>1. \A i \in 1 .. Len(reason) : ~ (reason[i] >= 128)
    <3>1. \A i \in DOMAIN reason : ~ (reason[i] >= 128)
      BY Zenon DEF AsciiReason
    <3> HIDE DEF reason
    <3>2. DOMAIN reason = 1 .. Len(reason)
      BY <1>3
    <3> QED BY <3>1, <3>2, Zenon
  <2> HIDE DEF reason
  <2>2. ASSUME NEW i \in 1 .. Len(reason) PROVE reason[i] < 128
    <3>1. reason[i] \in Nat
      BY <1>3, BytesOf
    <3> QED BY <2>1, <3>1
  <2> QED BY <1>3, <2>2, AsciiIsText, ByteIsOctets
<1>5. Len(msg.data) \in Nat /\ ~ (Len(msg.data) > 125) /\ Len(msg.data) # 1
  BY <1>1
<1>7. Validate(msg) =
        CASE msg.type = "Text" /\ ~ IsValidUtf8(msg.data) -> "Invalid UTF-8"
          [] IsControl(msg) /\ Len(msg.data) > 125 -> "Control too large"
          [] msg.type = "Close" /\ Len(msg.data) = 1 -> "out of bounds"
          [] /\ msg.type = "Close" /\ Len(msg.data) >= 2
             /\ ~ IsValidUtf8(reason) -> "Invalid UTF-8"
          [] /\ msg.type = "Close" /\ Len(msg.data) >= 2
             /\ IsValidUtf8(reason)
             /\ ~ SoundCode(msg)
               -> "Invalid close code"
          [] OTHER -> "ok"
  BY ZenonT(60) DEF Validate, SoundCode
<1> HIDE DEF reason
<1>8. msg.type # "Text"
  BY <1>1
<1> QED BY <1>1, <1>4, <1>5, <1>7, <1>8

\* When the application's closes all go through makeCloseFrame, a long ASCII
\* reason is cut and sent: what is refused is the code, or a reason that holds
\* bytes of longer characters.
THEOREM LongReasons ==
  ASSUME \A msg \in Messages : msg.type # "Close"
  PROVE  Spec => []LongReasonsAccepted
<1>1. ASSUME RefusedInv, RefusedForCause PROVE LongReasonsAccepted
  <2>1. ASSUME NEW k \in 1 .. Len(refused), refused[k].type = "Close"
        PROVE  ~ SoundCode(refused[k]) \/ ~ AsciiReason(refused[k])
    <3> SUFFICES ASSUME SoundCode(refused[k]), AsciiReason(refused[k]) PROVE FALSE
      OBVIOUS
    <3>1. \A m : refused = <<m>> => refused[k] = m
      OBVIOUS
    <3>2. refused # << >>
      BY <2>1
    <3>3. ~ \E msg \in Messages : refused = <<msg>>
      BY <2>1, <3>1
    <3>4. PICK c \in Closes : refused = <<MakeCloseFrame(c.code, c.reason)>>
      BY <1>1, <3>2, <3>3 DEF RefusedInv
    <3> DEFINE msg == refused[k]
    <3>5. msg = MakeCloseFrame(c.code, c.reason)
      BY <3>1, <3>4
    <3>6. Validate(msg) = "ok"
      <4>1. SoundCode(msg) /\ AsciiReason(msg)
        OBVIOUS
      <4> HIDE DEF msg
      <4> QED BY <3>5, <4>1, CutReasonsPass
    <3> QED BY <1>1, <2>1, <3>6 DEF RefusedForCause
  <2>2. ASSUME NEW msg, ~ AsciiReason(msg)
        PROVE  \E i \in DOMAIN CloseReason(msg) : CloseReason(msg)[i] >= 128
    BY <2>2, Zenon DEF AsciiReason
  <2>3. ASSUME NEW k \in 1 .. Len(refused), refused[k].type = "Close"
        PROVE  \/ ~ SoundCode(refused[k])
               \/ \E i \in DOMAIN CloseReason(refused[k]) :
                    CloseReason(refused[k])[i] >= 128
    <3> DEFINE msg == refused[k]
    <3>1. ~ SoundCode(msg) \/ ~ AsciiReason(msg)
      BY <2>1, <2>3
    <3> HIDE DEF msg
    <3>2. \/ ~ SoundCode(msg)
          \/ \E i \in DOMAIN CloseReason(msg) : CloseReason(msg)[i] >= 128
      BY <2>2, <3>1
    <3> QED BY <3>2 DEF msg
  <2> QED BY <2>3, ZenonT(60) DEF LongReasonsAccepted, SoundCode
<1>2. WInv /\ RefusedInv /\ RefusedForCause => LongReasonsAccepted
  BY <1>1
<1> QED BY <1>2, Invariant, RefusalsHaveCauses, PTL

=============================================================================
