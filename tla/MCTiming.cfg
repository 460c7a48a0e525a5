CONSTANTS
  REPEAT_ON = 2
  REPEAT_AUTO = 4
  NumRows = 3
  NumCols = 1
  DEBOUNCE = 3
  BufferSize = 2
  Values <- MCValues
  OtherActions <- MCOther
  Printing <- MCOther
  MessageSize = 1
  Keymap <- PlainKeymap
SPECIFICATION TimedSpec
INVARIANT NoLateEvent
PROPERTIES EventsSpaced RepeatsSpaced AutorepeatDelayed NoCodeLost
