SPECIFICATION Spec
CONSTANTS
  Trials <- Usual
  SeqMod = 8
  MaxLosses = 1
  MaxDuplicates = 1
  GcInterval = 1
  DroppedCap = 1
  NoFrame = NoFrame
INVARIANTS TypeOK WholeNalUnits DeliveredOnce CompleteIsDelivered HeldIsIncomplete CrashOnlyInterleaved
PROPERTIES InterNeedsReferences
CHECK_DEADLOCK FALSE
