SPECIFICATION MCSpec
CONSTANTS
  N_ENTRIES = 10
  N_BYTES = 16
  DATA_BLOCK_SIZE = 8
  N_SIZES = 128
  Blank = 12
  Names <- MCNames
  Texts <- MCTexts
  Extensions <- MCExtensions
  Paced = FALSE
  Lines <- MCLines
  READ_SIZE = 3
  Codes <- MCCodes
  MaxLines = 3
  WORD = 16
  N_BYTE = 4
  PARAGRAPH = 4
  SECTOR_SIZE = 4
  TRACKS = 2
  RETRIES = 3
  START_OFFSET = 12
  LOADER <- MCLoader
  TABLES <- MCTables
  TARGET_ADDRESS = 16
  MEMORY_END = 56
  BSS = 4
  N_INFO = 12
  FREE_WORDS = 9
  Arguments <- MCArguments
  Drives <- MCDrives
  System <- MCSystem
VIEW MachineView
INVARIANTS
  ShellTypeOK
  ProgramsAreLoaded
  StoresInPlace
PROPERTIES
  InputRefines
  LineIsRun
  ReadsBack
  BootEnds
