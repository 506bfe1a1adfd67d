-------------------------------- MODULE Sha1 --------------------------------
(***************************************************************************)
(* The SHA-1 that nonceToAcceptKey computes: an incremental hash with an   *)
(* unrolled compression function that keeps sixteen words of the message   *)
(* schedule, and beside it the definition of FIPS 180-4.                   *)
(*                                                                         *)
(* A 32-bit word is its two halves of 16 bits, the upper one first, since  *)
(* TLC's integers are signed.                                              *)
(***************************************************************************)
EXTENDS Integers, Sequences

BLOCK_INTS  == 16
BLOCK_BYTES == BLOCK_INTS * 4

Zero == <<0, 0>>

\* uint32_t addition, exclusive or, and, or, complement.
Plus(x, y) ==
  LET low == x[2] + y[2]
  IN  <<(x[1] + y[1] + (low \div 2^16)) % 2^16, low % 2^16>>

Plus5(v, w, x, y, z) ==
  LET low == v[2] + w[2] + x[2] + y[2] + z[2]
  IN  <<(v[1] + w[1] + x[1] + y[1] + z[1] + (low \div 2^16)) % 2^16, low % 2^16>>

\* The conjunction of two halves, four bits at a time; the rest follows from
\* x + y = (x | y) + (x & y) and x | y = (x ^ y) + (x & y).
Bit(n, k) == (n \div 2^k) % 2

NibbleAnd ==
  [p \in (0 .. 15) \X (0 .. 15) |->
     LET both(k) == 2^k * Bit(p[1], k) * Bit(p[2], k)
     IN  both(0) + both(1) + both(2) + both(3)]

HalfAnd(a, b) ==
  LET part(k) == 16^k * NibbleAnd[<<(a \div 16^k) % 16, (b \div 16^k) % 16>>]
  IN  part(0) + part(1) + part(2) + part(3)

HalfXor(a, b) == a + b - 2 * HalfAnd(a, b)

AndW(x, y) == <<HalfAnd(x[1], y[1]), HalfAnd(x[2], y[2])>>
XorW(x, y) == <<HalfXor(x[1], y[1]), HalfXor(x[2], y[2])>>
OrW(x, y)  == XorW(XorW(x, y), AndW(x, y))
NotW(x)    == <<65535 - x[1], 65535 - x[2]>>

\* Rotation to the left; by 30 it exchanges the halves first.
RolLow(x, bits) ==
  <<((x[1] * 2^bits) % 2^16) + (x[2] \div 2^(16 - bits)),
    ((x[2] * 2^bits) % 2^16) + (x[1] \div 2^(16 - bits))>>

Rol(x, bits) ==
  IF bits < 16 THEN RolLow(x, bits) ELSE RolLow(<<x[2], x[1]>>, bits - 16)

InitialDigest ==
  << <<26437, 8961>>, <<61389, 43913>>, <<39098, 56574>>, <<4146, 21622>>,
     <<50130, 57840>> >>

-----------------------------------------------------------------------------
(* The compression function *)

\* The word that replaces the one sixteen places back.
Blk(block, i) ==
  Rol(XorW(XorW(block[(i + 13) % 16], block[(i + 8) % 16]),
           XorW(block[(i + 2) % 16], block[i])), 1)

\* R0 .. R4: what a round mixes in, and its constant.
Mix(t, w, x, y) ==
  CASE t < 20         -> XorW(AndW(w, XorW(x, y)), y)
    [] t \in 40 .. 59 -> OrW(AndW(OrW(w, x), y), AndW(w, x))
    [] OTHER          -> XorW(w, XorW(x, y))

RoundConstant(t) ==
  CASE t < 20         -> <<23170, 31129>> [] t \in 20 .. 39 -> <<28377, 60321>>
    [] t \in 40 .. 59 -> <<36635, 48348>> [] OTHER          -> <<51810, 49622>>

\* The t-th of the eighty calls that transform spells out: the registers are
\* not moved, each call names them one place further around.
Round(s, t) ==
  LET reg(j) == (j - t) % 5
      word   == IF t < 16 THEN s.block[t] ELSE Blk(s.block, t % 16)
      z      == Plus5(s.reg[reg(4)],
                      Mix(t, s.reg[reg(1)], s.reg[reg(2)], s.reg[reg(3)]),
                      word, RoundConstant(t), Rol(s.reg[reg(0)], 5))
  IN  [block |-> [s.block EXCEPT ![t % 16] = word],
       reg   |-> [s.reg EXCEPT ![reg(4)] = z, ![reg(1)] = Rol(@, 30)]]

\* The calls in transform.
ROUNDS == 80

Rounds(digest, block) ==
  LET after[t \in 0 .. ROUNDS] ==
        IF t = 0 THEN [block |-> block, reg |-> [j \in 0 .. 4 |-> digest[j + 1]]]
        ELSE Round(after[t - 1], t - 1)
  IN  after

Transform(digest, block) ==
  LET last == Rounds(digest, block)[ROUNDS].reg
  IN  [j \in 1 .. 5 |-> Plus(digest[j], last[j - 1])]

-----------------------------------------------------------------------------
(* The object: its digest, its partial block, and its count of blocks *)

New == [digest |-> InitialDigest, buffer |-> << >>, transforms |-> 0]

BufferToBlock(buffer) ==
  [i \in 0 .. BLOCK_INTS - 1 |->
     <<buffer[4 * i + 1] * 256 + buffer[4 * i + 2],
       buffer[4 * i + 3] * 256 + buffer[4 * i + 4]>>]

Compressed(sha, block) ==
  [sha EXCEPT !.digest = Transform(@, block), !.transforms = @ + 1]

\* The k-th block of a text.
BlockOf(s, k) == SubSeq(s, BLOCK_BYTES * (k - 1) + 1, BLOCK_BYTES * k)

\* update: the buffer is filled and emptied block by block; what is left of
\* the text after the last whole block stays in it.
Absorbed(sha, all) ==
  LET upTo[k \in 0 .. Len(all) \div BLOCK_BYTES] ==
        IF k = 0 THEN sha
        ELSE Compressed(upTo[k - 1], BufferToBlock(BlockOf(all, k)))
  IN  upTo

Update(sha, s) ==
  LET all    == sha.buffer \o s
      blocks == Len(all) \div BLOCK_BYTES
  IN  [Absorbed(sha, all)[blocks] EXCEPT !.buffer = SubSeq(all, BLOCK_BYTES * blocks + 1, Len(all))]

\* (mutant) The marker and the length are taken to fit one block.
TwoBlocks_Never(origSize) == FALSE

\* Whether the 0x80 leaves no room for the eight bytes of the length.
TwoBlocks(origSize) == origSize > BLOCK_BYTES - 8

\* The last two words of the block hold the number of bits.  (Below 2^28
\* bytes, TLC's integers suffice.)
WithLength(block, bits) ==
  [block EXCEPT ![BLOCK_INTS - 1] = <<bits \div 2^16, bits % 2^16>>,
                ![BLOCK_INTS - 2] = Zero]

\* final, up to the splitting of the five words into bytes.
Final(sha) ==
  LET bits     == (sha.transforms * BLOCK_BYTES + Len(sha.buffer)) * 8
      origSize == Len(sha.buffer) + 1
      padded   == sha.buffer \o <<128>> \o [i \in 1 .. BLOCK_BYTES - origSize |-> 0]
      block    == BufferToBlock(padded)
      cleared  == [i \in 0 .. BLOCK_INTS - 1 |->
                     IF i < BLOCK_INTS - 2 THEN Zero ELSE block[i]]
      two      == TwoBlocks(origSize)
  IN  Compressed(IF two THEN Compressed(sha, block) ELSE sha,
                 WithLength(IF two THEN cleared ELSE block, bits)).digest

-----------------------------------------------------------------------------
(* FIPS 180-4, sections 4.1.1, 5.1.1 and 6.1.2 *)

\* The message, a one bit, the fewest zeroes that fill a block, the length.
FipsPadded(msg) ==
  LET zeroes == CHOOSE k \in 0 .. 63 : (Len(msg) + 1 + k + 8) % 64 = 0
      bits   == 8 * Len(msg)
  IN  msg \o <<128>> \o [i \in 1 .. zeroes + 4 |-> 0]
          \o [i \in 1 .. 4 |-> (bits \div 256^(4 - i)) % 256]

FipsF(t, x, y, z) ==
  CASE t < 20         -> XorW(AndW(x, y), AndW(NotW(x), z))
    [] t \in 40 .. 59 -> XorW(XorW(AndW(x, y), AndW(x, z)), AndW(y, z))
    [] OTHER          -> XorW(XorW(x, y), z)

FipsK(t) ==
  CASE t < 20         -> <<23170, 31129>> [] t \in 20 .. 39 -> <<28377, 60321>>
    [] t \in 40 .. 59 -> <<36635, 48348>> [] OTHER          -> <<51810, 49622>>

\* W_t, from the words before it.
FipsWord(t, block, w) ==
  IF t < 16 THEN block[t]
  ELSE Rol(XorW(XorW(w[t - 2], w[t - 7]), XorW(w[t - 13], w[t - 15])), 1)

\* Step 3, the message schedule w growing with the rounds.
FipsRound(s, t, block) ==
  LET word == FipsWord(t, block, s.w)
  IN  [w |-> Append(s.w, word),
       r |-> <<Plus5(Rol(s.r[1], 5), FipsF(t, s.r[2], s.r[3], s.r[4]), s.r[5], FipsK(t), word),
               s.r[1], Rol(s.r[2], 30), s.r[3], s.r[4]>>]

FipsRounds(hash, block) ==
  LET after[t \in 0 .. ROUNDS] ==
        IF t = 0 THEN [w |-> << >>, r |-> hash] ELSE FipsRound(after[t - 1], t - 1, block)
  IN  after

FipsCompress(hash, bytes) ==
  LET last == FipsRounds(hash, BufferToBlock(bytes))[ROUNDS].r
  IN  [j \in 1 .. 5 |-> Plus(hash[j], last[j])]

FipsBlocks(padded) ==
  LET after[k \in 0 .. Len(padded) \div 64] ==
        IF k = 0 THEN InitialDigest
        ELSE FipsCompress(after[k - 1], BlockOf(padded, k))
  IN  after

FipsSha1(msg) ==
  LET padded == FipsPadded(msg) IN FipsBlocks(padded)[Len(padded) \div 64]

\* The example of FIPS 180: the hash of "abc".
ASSUME KnownHash ==
  FipsSha1(<<97, 98, 99>>) =
    << <<43417, 15926>>, <<18182, 33130>>, <<47678, 9585>>, <<30800, 49772>>,
       <<40144, 55453>> >>
=============================================================================
