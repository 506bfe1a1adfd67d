---------------------------- MODULE MCFrameReader ----------------------------
EXTENDS FrameReader

Plain(fin, opcode, data) ==
  [fin |-> fin, rsv |-> 0, opcode |-> opcode, masked |-> FALSE,
   form |-> 7, data |-> data]

\* C3 A9 is one character of two bytes: split over two fragments it is valid
\* only when joined in order.
Head1 == Plain(FALSE, 1, <<195>>)
Tail1 == Plain(TRUE, 0, <<169>>)

DataFrames ==
  { Head1, Tail1,
    [Tail1 EXCEPT !.form = 16],
    Plain(FALSE, 0, << >>),
    Plain(FALSE, 2, <<195>>),
    [Plain(TRUE, 1, <<65>>) EXCEPT !.form = 64] }

ControlFrames ==
  { Plain(TRUE, 9, << >>),
    Plain(TRUE, 10, <<255>>),
    Plain(TRUE, 8, << >>),
    Plain(TRUE, 8, <<3, 232>>),
    Plain(TRUE, 8, <<3, 237>>),
    Plain(TRUE, 8, <<3, 232, 195>>) }

OffendingFrames ==
  { [Plain(TRUE, 2, <<1>>) EXCEPT !.masked = TRUE],
    [Plain(TRUE, 2, << >>) EXCEPT !.masked = TRUE, !.form = 16],
    [Plain(TRUE, 1, << >>) EXCEPT !.rsv = 4],
    Plain(TRUE, 3, << >>),
    Plain(FALSE, 9, << >>),
    Plain(TRUE, 8, <<3>>),
    [Plain(TRUE, 9, << >>) EXCEPT !.form = 16] }

MCFrame == DataFrames \cup ControlFrames \cup OffendingFrames
==============================================================================
