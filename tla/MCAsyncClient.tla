--------------------------- MODULE MCAsyncClient ---------------------------
EXTENDS AsyncClient

AnyMessage == {"Data", "Ping", "Pong", "Close", "Bad"}

\* One task that uses all of the client.
Solo ==
  [app |-> {"write", "send", "flush", "tryFlush", "recv",
            "close", "closeNoAck", "closeSync"}]

\* The use the documentation allows: one task sends, the other receives.
Duplex ==
  [sender |-> {"send", "tryFlush"}, receiver |-> {"recv"}]
SendAndRecv == [sender |-> {"send"}, receiver |-> {"recv"}]
============================================================================
