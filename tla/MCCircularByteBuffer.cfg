SPECIFICATION Spec
CONSTANTS
  Byte = {0, 1}
  Uninit = Uninit
  DefaultCap = 2
  MaxCapacity = 6
  MaxDoublings = 3
  Chunk <- MCChunk
  InitialCaps = {0, 3}
  Extras = {0, 1, 3}
  MaxRead = 5
INVARIANTS
  TypeOK
  PeekCorrect
  ViewSkipsBytes
  WindowIsFree
  ReserveOpensWindow
  SecondWindowSuffices
PROPERTY
  RingImplementsQueue
