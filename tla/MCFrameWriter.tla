---------------------------- MODULE MCFrameWriter ----------------------------
EXTENDS FrameWriter

Times(byte, n) == [i \in 1 .. n |-> byte]

Msg(type, data) == [type |-> type, final |-> TRUE, data |-> data]

\* Payloads around the scratch array's sixteen bytes, one in the second form of
\* length, and three messages that are refused.
MCMessages ==
  { Msg("Text", <<195, 169, 65>>),
    Msg("Binary", << >>),
    Msg("Binary", Times(129, 16)),
    Msg("Ping", Times(255, 13) \o <<1, 2, 4, 8>>),
    Msg("Pong", [i \in 1 .. 32 |-> 7 * i]),
    Msg("Binary", Times(90, 126)),
    Msg("Text", <<195>>),
    Msg("Ping", Times(90, 126)),
    Msg("Fragment", <<65>>) }

\* No reason, one that is cut, one that is cut inside a character, and a code
\* that no endpoint may send.
MCCloses ==
  { [code |-> 1000, reason |-> << >>],
    [code |-> 1001, reason |-> Times(97, 124)],
    [code |-> 1002, reason |-> Times(97, 122) \o <<195, 169>>],
    [code |-> 1005, reason |-> <<97>>] }

MCKeys == { <<0, 0, 0, 0>>, <<1, 200, 128, 255>> }

MCByte == 0 .. 255
==============================================================================
