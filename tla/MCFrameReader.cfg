SPECIFICATION Spec
CONSTANTS
  Frame <- MCFrame
  MaxFrames = 3
INVARIANTS
  TypeOK
  FragmentsWellFormed
  NoBytesStranded
  CloseCodeReadable
PROPERTIES
  ReaderImplementsStream
  ReaderDelivers
CHECK_DEADLOCK FALSE
