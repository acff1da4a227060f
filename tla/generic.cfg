SPECIFICATION Spec
CONSTANTS
  Trials <- Wrapping
  SeqMod = 9
  MaxLosses = 1
  MaxDuplicates = 1
INVARIANTS WholeFrames CompleteIsDelivered HeldIsIncomplete
CHECK_DEADLOCK FALSE
