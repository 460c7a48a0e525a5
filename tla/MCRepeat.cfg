CONSTANTS
  REPEAT_ON = 3
  REPEAT_AUTO = 5
  NumRows = 5
  NumCols = 1
  DEBOUNCE = 2
  BufferSize = 1
  Values <- MCValues
  OtherActions <- MCOther
  Printing <- MCPrinting
  MessageSize = 1
  Keymap <- RepeatKeymap
SPECIFICATION Spec
INVARIANTS TypeOK NoStuckRepeat RepeatTimerFits
PROPERTIES ContactsSettle ComesToRest GoesOnRepeating
