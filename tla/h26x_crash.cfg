SPECIFICATION Spec
CONSTANTS
  Trials <- Overtaking
  SeqMod = 8
  MaxLosses = 0
  MaxDuplicates = 0
  GcInterval = 1
  DroppedCap = 1
  NoFrame = NoFrame
INVARIANTS NeverCrashes
CHECK_DEADLOCK FALSE
