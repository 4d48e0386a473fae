SPECIFICATION FairSpec
CONSTANTS
  Shapes <- MCShapes
  MaxSeq = 3
  MaxAttempts = 3
  MaxFaults = 3
  GroupMod = 3
  BarrierFaults = FALSE
INVARIANTS
  NoFalseCorruption
  AckedOnDevice
  NotAppliedGone
  NumbersContinue
  FenceHolds
PROPERTIES
  Implements
  RecoveryCompletes
CHECK_DEADLOCK FALSE
