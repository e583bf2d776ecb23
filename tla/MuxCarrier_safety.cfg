SPECIFICATION Spec
CONSTANTS
  Stream = {s1, s2}
  NoStream = NoStream
  Subuser = TRUE
  IdReuse = FALSE
  MaxStreams = 2
  MaxPending = 2
  Capacity = 2
  MaxOpens = 2
  MaxHostOut = 1
SYMMETRY StreamSymmetry
CONSTRAINT WithinBounds
INVARIANTS
  NoOrphanAtHost
  NoSilentDrop
  OnlyGrantedReachHost
  Bookkeeping
CHECK_DEADLOCK FALSE
