CONSTANTS
  REPEAT_ON = 1
  REPEAT_AUTO = 2
  NumRows = 2
  NumCols = 3
  DEBOUNCE = 1
  BufferSize = 1
  Values <- MCValues
  OtherActions <- MCOther
  Printing <- MCPrinting
  MessageSize = 1
  Keymap <- TypingKeymap
SPECIFICATION Spec
INVARIANTS NoStuckModifier ModifierWhileHeld
PROPERTY KeepsPromise
