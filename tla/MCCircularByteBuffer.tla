------------------------ MODULE MCCircularByteBuffer ------------------------
EXTENDS CircularByteBuffer

\* Two byte values tell order and staleness apart; chunks of up to three
\* bytes split over both windows of a ring of four.
MCChunk == {<< >>, <<0>>, <<1>>, <<0, 1>>, <<1, 0, 1>>}
==============================================================================
