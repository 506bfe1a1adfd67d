\* What the documentation of recv says about its errors.
SPECIFICATION Spec
CONSTANTS
  FrameSize = 2
  MaxWrites = 1
  MaxIncoming = 1
INVARIANT
  RecvErrorDisconnects
