SPECIFICATION Spec
CONSTANTS
  Byte <- Names
  Uninit = Uninit
  DefaultCap = 2
  MaxCapacity = 40
  MaxDoublings = 6
  Window = 4
  MaxBuffer = 32
  SizeMod = 128
  SocketAddresses <- MCSocketAddresses
  IpAddresses <- MCIpAddresses
  LeadingNumber <- MCLeadingNumber
  HostAddresses <- MCHostAddresses
  Lower <- MCLower
  AcceptKey <- MCAcceptKey
  Urls <- MCUrls
  GivenOptions <- MCGivenOptions
  Keys <- MCKeys
  Answers <- MCAnswers
  Announced <- MCAnnounced
  RightAccept <- MCRightAccept
  Documented <- MCDocumented
INVARIANTS
  OverflowMeansFull
CHECK_DEADLOCK FALSE
