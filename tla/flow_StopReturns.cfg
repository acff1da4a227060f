SPECIFICATION FairSpec
CONSTANTS
  Slots = 2
  MaxPackets = 1
  Callers = {c1}
  Pullers = {}
  NoThread = NoThread
PROPERTY StopReturns
