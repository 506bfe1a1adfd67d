SPECIFICATION Spec
CONSTANTS
  FrameSize = 2
  MaxWrites = 2
  MaxIncoming = 3
INVARIANTS
  TypeOK
  PongsAnswerPings
  OrderlyEndIsFlushed
  CloseDisconnects
PROPERTIES
  CloseReturns
  ClientImplementsConnection
