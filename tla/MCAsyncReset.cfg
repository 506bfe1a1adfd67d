\* One task in send, one in recv, and a server that closes the connection.
SPECIFICATION Spec
CONSTANTS
  Task = {"sender", "receiver"}
  Uses <- SendAndRecv
  Arriving = {"Close"}
  FrameSize = 2
  MaxWrites = 1
  MaxIncoming = 1
INVARIANT
  NoUseAfterReset
