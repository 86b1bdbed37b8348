SPECIFICATION MCSpec
CONSTANTS
  C_BUFSIZE = 3
  Keys = {"d", "m"}
  Undefined = {}
  WORD_BITS = 20
  X_SIZE = 3
  Y_SIZE = 3
  Texts <- MCTexts
  Corners <- MCCorners
  Places <- MCPlaces
  Labels <- MCLabels
  Blocks <- MCBlocks
  Contexts <- MCContexts
  CONTEXT_Y = 0
  Formats <- MCFormats
  Solid = "7"
  ClearsAtHome = TRUE
VIEW TerminalView
INVARIANTS
  TypeOK
  CursorInRegion
  NumbersAreRight
PROPERTIES
  Refines
  ScreenRefines
