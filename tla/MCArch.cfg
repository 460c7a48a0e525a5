CONSTANTS
  LastDevice = 12
  Driver <- DeviceTable
  DataPolarity = 0
  StrobePolarity = "POSITIVE"
  MaxCols = 2
  Codes = {27, 65}
  RowsRead = {0, 1, 9}
  Outputs <- MCOutputs
SPECIFICATION Spec
INVARIANTS ArchTypeOK LevelsAsAsked StrobeIdles RowIsRead
PROPERTIES NoGlitch KeepsStrobe
