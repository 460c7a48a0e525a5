CONSTANTS
  LastDevice = 4
  Driver <- MCDriver
  VirtualDevices <- MCVirtual
  Assignments <- MCAssignments
SPECIFICATION Spec
INVARIANTS TypeOK ListsPartition LinesFollow
PROPERTY KeepsOutputs
