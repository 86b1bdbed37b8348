SPECIFICATION Spec
CONSTANTS
  BUF_SIZE = 3
  Chars = {"a", "CR", "LF"}
  CR = "CR"
  LF = "LF"
  Strings <- MCStrings
  Buffers <- MCBuffers
  Paced = FALSE
INVARIANTS
  InputStaysInBuffer
CHECK_DEADLOCK FALSE
