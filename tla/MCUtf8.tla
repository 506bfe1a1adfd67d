------------------------------- MODULE MCUtf8 -------------------------------
(***************************************************************************)
(* Checks the decoder on every text of up to MaxLen bytes over the bytes   *)
(* where one of its comparisons changes its answer.                        *)
(***************************************************************************)
EXTENDS Utf8

CONSTANTS Sample, MaxLen

VARIABLE text

TextInit == text = << >>

Extend == \E b \in Sample : Len(text) < MaxLen /\ text' = Append(text, b)

Restart == text # << >> /\ text' = << >>

TextNext == Extend \/ Restart

TextSpec == TextInit /\ [][TextNext]_text

\* isValidUtf8 accepts exactly the well-formed texts: no overlong form, no
\* surrogate, nothing above U+10FFFF, no truncated character, and nothing
\* well-formed is refused.
AcceptsExactlyUtf8 == IsValidUtf8(text) <=> WellFormedText(text)

=============================================================================
