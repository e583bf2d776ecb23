SPECIFICATION ChatSpec
CONSTANTS
  Users = {a, b}
  Admin = a
  Nobody = Nobody
  MaxMedia = 2
  MaxPuts = 2
  MaxMessages = 2
  MaxKills = 1
  MaxUnbound = 2
  MaxActive = 1
  KeptMessages = 1
  PruneEvery = 1
  MaxQueue = 1
  DrainMax = 1
  MaxParallel = 2
  MaxPerMessage = 3
  MaxFiles = 4
  MaxPosts = 1
  MaxRetries = 1
  Client = {1, 2}
  HighWater = 3
  MaxPending = 4
  Frame = {1, 3}
  MaxFrames = 6
  Limit = 2
  MaxShown = 3
  MaxIds = 4
  MaxMisses = 1
  MaxRebuilds = 1
  MaxId = 9
INVARIANTS
  MediaWhole
  ChatLimits
  InboxIsWhole
PROPERTY
  MediaStay
CHECK_DEADLOCK FALSE
