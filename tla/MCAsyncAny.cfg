\* A sender and a receiver.  (Pongs, which recv drops, and errors, which it
\* treats as a Close, are in MCAsyncSolo.)  A crashed program stops.
SPECIFICATION Spec
CONSTANTS
  Task = {"sender", "receiver"}
  Uses <- Duplex
  Arriving = {"Data", "Ping", "Close"}
  FrameSize = 2
  MaxWrites = 1
  MaxIncoming = 2
INVARIANT
  SafeWhileQuiet
PROPERTY
  ReceiverNotStarved
CHECK_DEADLOCK FALSE
