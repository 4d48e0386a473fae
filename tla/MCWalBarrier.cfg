SPECIFICATION Spec
CONSTANTS
  Shapes <- MCShapes
  MaxSeq = 2
  MaxAttempts = 2
  MaxFaults = 3
  GroupMod = 3
  BarrierFaults = TRUE
INVARIANT AckedOnDevice
CHECK_DEADLOCK FALSE
