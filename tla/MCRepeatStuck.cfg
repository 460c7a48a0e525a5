CONSTANTS
  REPEAT_ON = 2
  REPEAT_AUTO = 4
  NumRows = 1
  NumCols = 2
  DEBOUNCE = 1
  BufferSize = 1
  Values <- MCValues
  OtherActions <- MCOther
  Printing <- MCPrinting
  MessageSize = 1
  Keymap <- SolRepeatKeymap
SPECIFICATION Spec
INVARIANT ReleasedRepeatIsOff
