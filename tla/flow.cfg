SPECIFICATION FairSpec
CONSTANTS
  Slots = 2
  MaxPackets = 3
  Callers = {c1, c2}
  Pullers = {u1}
  NoThread = NoThread
INVARIANTS TypeOK StopQuiesces NothingLost DeliveryInOrder
PROPERTIES PipeSpec StopCompletes AwakeProcessorDrains
