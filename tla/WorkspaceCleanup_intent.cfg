CONSTANTS
  u1 = u1
  u2 = u2
  User <- Two
  Depth = 2
  MaxRequests = 2
  MaxJobs = 2
  MaxSaves = 2
  MaxFaults = 1
SPECIFICATION Spec
SYMMETRY Same
PROPERTY IntentConverges
CHECK_DEADLOCK FALSE
