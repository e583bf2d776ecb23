SPECIFICATION Spec
CONSTANTS
  MaxParallel = 2
  MaxPerMessage = 3
  MaxFiles = 4
  MaxSends = 1
  MaxRetries = 1
INVARIANTS NoAttachmentLost
CHECK_DEADLOCK FALSE
