\* One task, every function.
SPECIFICATION Spec
CONSTANTS
  Task = {"app"}
  Uses <- Solo
  Arriving <- AnyMessage
  FrameSize = 2
  MaxWrites = 2
  MaxIncoming = 2
INVARIANTS
  TypeOK
  StreamIntact
  OkMeansSent
PROPERTIES
  AsyncImplementsClient
  CloseReturns
