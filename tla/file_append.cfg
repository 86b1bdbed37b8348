SPECIFICATION Spec
CONSTANTS
  N_ENTRIES = 4
  N_BYTES = 4
  DATA_BLOCK_SIZE = 4
  N_SIZES = 16
  Blank = 2
  Names <- MCNames
  Texts <- MCTexts
  Extensions <- MCExtensions
  Paced = FALSE
INVARIANTS
  AppendStaysInBlock
CHECK_DEADLOCK FALSE
