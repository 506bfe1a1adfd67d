----------------------------- MODULE Connection -----------------------------
(***************************************************************************)
(* What the sending half of a client promises the server.  Frames are      *)
(* accepted one at a time; their bytes go out in that order, none twice    *)
(* and none skipped, with any pauses; once a Close has been accepted no    *)
(* data frame follows it; and once the client has disconnected nothing is  *)
(* accepted or transmitted any more.  Buffers, calls and the receiving     *)
(* half are hidden here.                                                   *)
(***************************************************************************)
EXTENDS Integers, Sequences

CONSTANT FrameSize    \* bytes of a frame (all alike here)

VARIABLES
  open,       \* the connection is up
  accepted,   \* the frames accepted so far, in order: their types
  wire        \* the bytes transmitted: each is its position in the stream
              \* of all bytes of the accepted frames

vars == <<open, accepted, wire>>

Closing == \E k \in 1 .. Len(accepted) : accepted[k] = "Close"

Init ==
  /\ open = TRUE
  /\ accepted = << >>
  /\ wire = << >>

Accept ==
  /\ open
  /\ \E type \in {"Data", "Ping", "Pong", "Close"} :
       /\ type \in {"Data", "Ping"} => ~ Closing
       /\ accepted' = Append(accepted, type)
  /\ UNCHANGED <<open, wire>>

Transmit ==
  /\ open
  /\ \E n \in 1 .. FrameSize * Len(accepted) - Len(wire) :
       wire' = wire \o [i \in 1 .. n |-> Len(wire) + i]
  /\ UNCHANGED <<open, accepted>>

Disconnect ==
  /\ open' = FALSE
  /\ UNCHANGED <<accepted, wire>>

Next == Accept \/ Transmit \/ Disconnect

Spec == Init /\ [][Next]_vars

=============================================================================
