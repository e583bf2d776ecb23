SPECIFICATION Spec
CONSTANTS
  Tag = {t1, t2}
  NoMessage = NoMessage
  NoLevel = NoLevel
  Size = {1, 3}
  Level = {0, 2, 4}
  FragmentBytes = 2
  HighWater = 3
  LowWater = 1
  MaxMessageBytes = 3
  AcceptBudget = 5
  MaxQueueMessages = 2
  MaxQueueBytes = 5
  SharedMax = 6
  MaxAccepted = 4
SYMMETRY TagSymmetry
INVARIANTS
  Accounting
  NoLostWakeup
  WireWellFormed
PROPERTIES
  PipeSpec
