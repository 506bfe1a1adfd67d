SPECIFICATION Spec
CONSTANTS
  Byte <- MCByte
  Uninit = Uninit
  DefaultCap = 4
  MaxCapacity = 512
  MaxDoublings = 9
  Messages <- MCMessages
  Closes <- MCCloses
  Keys <- MCKeys
  ScratchSize = 16
  MaxMessages = 2
  Takes = {5}
  Lengths = {0, 125, 126, 255, 256, 65535, 65536, 65537, 16777216}
INVARIANTS
  TypeOK
  ServerReadsMessages
  LengthsReadBack
  LongReasonsAccepted
CHECK_DEADLOCK FALSE
