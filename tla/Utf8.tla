-------------------------------- MODULE Utf8 --------------------------------
(***************************************************************************)
(* isValidUtf8: the decoder the library runs over the text it receives and *)
(* sends, and beside it the definition of well-formed UTF-8 (the table of  *)
(* well-formed byte sequences of the Unicode standard).                    *)
(***************************************************************************)
EXTENDS Integers, Sequences

\* (mutant) Lead bytes F8..FF pass for the start of four bytes.
SequenceLength_FiveByteLead(lead) ==
  CASE lead < 128      -> 1
    [] lead \div 32 = 6  -> 2
    [] lead \div 16 = 14 -> 3
    [] lead \div 16 = 15 -> 4
    [] OTHER           -> 0

\* The length a lead byte announces; 0 for a byte that cannot lead.
SequenceLength(lead) ==
  CASE lead < 128      -> 1
    [] lead \div 32 = 6  -> 2
    [] lead \div 16 = 14 -> 3
    [] lead \div 8 = 30  -> 4
    [] OTHER           -> 0

IsTrail(oc) == oc \div 64 = 2

\* The masks and shifts of get_sequence_1 .. get_sequence_4, at position i.
CodePoint(s, i, length) ==
  CASE length = 1 -> s[i]
    [] length = 2 -> ((s[i] * 2^6) % 2^11) + (s[i + 1] % 2^6)
    [] length = 3 -> ((s[i] * 2^12) % 2^16) + ((s[i + 1] * 2^6) % 2^12)
                     + (s[i + 2] % 2^6)
    [] length = 4 -> ((s[i] * 2^18) % 2^21) + ((s[i + 1] * 2^12) % 2^18)
                     + ((s[i + 2] * 2^6) % 2^12) + (s[i + 3] % 2^6)

IsCodePointValid(cp) == cp <= 1114111 /\ ~ (cp >= 55296 /\ cp <= 57343)

IsOverlongSequence(cp, length) ==
  \/ cp < 128 /\ length # 1
  \/ cp >= 128 /\ cp < 2048 /\ length # 2
  \/ cp >= 2048 /\ cp < 65536 /\ length # 3

\* How far validate_next advances from position i: 0 when it reports one of
\* its errors (nobody looks at which).
ValidateNext(s, i) ==
  LET length == SequenceLength(s[i])
  IN  IF /\ length # 0
         /\ i + length - 1 <= Len(s)
         /\ \A j \in i + 1 .. i + length - 1 : IsTrail(s[j])
         /\ IsCodePointValid(CodePoint(s, i, length))
         /\ ~ IsOverlongSequence(CodePoint(s, i, length), length)
      THEN length ELSE 0

\* The position of the first byte that does not decode, or Len(s) + 1.
FindInvalid(s) ==
  LET from[i \in 1 .. Len(s) + 1] ==
        IF i > Len(s) \/ ValidateNext(s, i) = 0 THEN i
        ELSE from[i + ValidateNext(s, i)]
  IN  from[1]

IsValidUtf8(s) == FindInvalid(s) = Len(s) + 1

-----------------------------------------------------------------------------
\* The rows of the Unicode table: bounds of the first, second, ... byte.
WellFormedRows ==
  { << <<0, 127>> >>,
    << <<194, 223>>, <<128, 191>> >>,
    << <<224, 224>>, <<160, 191>>, <<128, 191>> >>,
    << <<225, 236>>, <<128, 191>>, <<128, 191>> >>,
    << <<237, 237>>, <<128, 159>>, <<128, 191>> >>,
    << <<238, 239>>, <<128, 191>>, <<128, 191>> >>,
    << <<240, 240>>, <<144, 191>>, <<128, 191>>, <<128, 191>> >>,
    << <<241, 243>>, <<128, 191>>, <<128, 191>>, <<128, 191>> >>,
    << <<244, 244>>, <<128, 143>>, <<128, 191>>, <<128, 191>> >> }

WellFormedChar(s) ==
  \E row \in WellFormedRows :
    Len(row) = Len(s) /\ \A i \in 1 .. Len(s) : row[i][1] <= s[i] /\ s[i] <= row[i][2]

\* Well-formed text can be cut into well-formed characters.
WellFormedText(s) ==
  \E ends \in SUBSET (1 .. Len(s)) :
    /\ s # << >> => Len(s) \in ends
    /\ \A e \in ends :
         \E b \in 1 .. e :
           /\ b = 1 \/ b - 1 \in ends
           /\ (b .. e) \cap ends = {e}
           /\ WellFormedChar(SubSeq(s, b, e))

=============================================================================
