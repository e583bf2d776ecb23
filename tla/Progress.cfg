SPECIFICATION Spec
CONSTANTS
  Tag = {t1}
  NoMessage = NoMessage
  NoLevel = NoLevel
  Size = {1, 3}
  Level = {0, 2, 4}
  FragmentBytes = 2
  HighWater = 3
  LowWater = 1
  MaxMessageBytes = 3
  AcceptBudget = 5
  MaxQueueMessages = 2
  MaxQueueBytes = 5
  SharedMax = 5
  MaxAccepted = 2
  Stream = {s1}
  NoStream = NoStream
  Subuser = TRUE
  IdReuse = FALSE
  MaxStreams = 2
  MaxPending = 1
  Capacity = 1
  MaxOpens = 1
  MaxHostOut = 0
  PingInterval = 2
  PongTimeout = 2
  WriteStall = 3
  Lateness = 1
  Off = Off
  NoProbe = NoProbe
  Foreign = Foreign
  MaxProbes = 3
  MaxEffects = 3
  MaxSpawns = 3
  MaxFaults = 1
  MaxDrift = 1
  Tx = {t1, t2}
  MaxFailed = 2
  MaxTries = 3
  MaxExpiries = 1
  MaxCrashes = 1
  Plugin = {p, q, official, path}
  Official = {official}
  HostPath = {path}
  Bridge = TRUE
  MaxLinkFaults = 2
  Limit = 1
  Kept = 2
  MaxMessages = 2
  MaxLosses = 1
  MaxRebuilds = 1
  MaxId = 9
INVARIANTS
  SilenceIsTimed
  PurgeIsSafe
PROPERTIES
  EveryMessageEnds
  CarrierEnds
  ServedInTheEnd
  LockIsFreed
  RebuildIsNoticed
CHECK_DEADLOCK FALSE
