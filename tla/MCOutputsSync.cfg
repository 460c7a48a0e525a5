CONSTANTS
  LastDevice = 4
  Driver <- MCDriver
  VirtualDevices <- MCVirtual
  Assignments <- SolAssignments
SPECIFICATION Spec
INVARIANT SyncedToOwners
