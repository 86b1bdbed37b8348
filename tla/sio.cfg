SPECIFICATION FairSpec
CONSTANTS
  BUF_SIZE = 3
  Chars = {"a", "CR", "LF"}
  CR = "CR"
  LF = "LF"
  Strings <- MCStrings
  Buffers <- MCBuffers
  Paced = TRUE
INVARIANTS
  TypeOK
  TransmitterAgrees
  PointersAgree
PROPERTIES
  Refines
  OldestIsSent
