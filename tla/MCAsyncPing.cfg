\* One task in send, one in recv, and a server that sends a Ping.
SPECIFICATION Spec
CONSTANTS
  Task = {"sender", "receiver"}
  Uses <- SendAndRecv
  Arriving = {"Ping"}
  FrameSize = 2
  MaxWrites = 1
  MaxIncoming = 1
INVARIANT
  SentOnce
