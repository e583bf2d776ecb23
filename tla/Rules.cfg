SPECIFICATION Spec
CONSTANTS
  Session = {a, b}
  Model = {m1, m2}
  Preset = {p1}
  Request = {r1, r2}
  None = None
  Unknown = Unknown
  NoLimit = NoLimit
  MaxSaves = 1
  MaxDefaults = 1
  MaxFollows = 1
  Listable = {s1, s2}
  Folder = {f1, f2}
  Order <- InOrder
  Home <- InFolders
  Caller = {1}
  Ttl = TRUE
  Workers = 1
  MaxAttempts = 2
  MaxChanges = 2
  Owner = "owner"
  SubUser = {"ann"}
  Path = {"plugin", "shell", "terminal"}
  Blocked = {"terminal"}
  Terminal = {"terminal"}
  Plugin = {"plugin"}
  Tables <- SomeTables
  Missing = Missing
  Broken = Broken
  Socket = {1}
  MaxEdits = 2
  MaxManifests = 1
  MaxGrants = 1
  Account = {admin, user}
  Admin = {admin}
  Ip = {a, b}
  Attempt = {m1, m2}
  MaxFailed = 2
  NameFactor = 1
  IpMaxFailed = 5
  IpWindow = 2
  IpLock = 1
  Steps <- Waits
  NameLock = 1
  SuccessMax = 1
  Minute = 2
  MaxTime = 3
  MaxRuns = 5
  NoOne = NoOne
  Tab = {a, b}
  TokenLimit = 2
  TimeLimit = 3
  Passing = {500}
  Touch = 500
  Cap = 1000
  Gap = 500
  Hour = 1000
  MaxHours = 1500
  MaxTokens = 1
  MaxLosses = 1
  MaxForgotten = 1
  User = {a, b}
  Depth = 2
  MaxRequests = 3
  MaxJobs = 2
  MaxEditions = 1
  MaxFaults = 1
  s1 = s1
  s2 = s2
  f1 = f1
  f2 = f2
INVARIANTS
  InventoryWhole
  TodaysRules
  LoginsLimited
  UsageIsTrue
PROPERTIES
  PromptsUnderTodaysLists
  WorkspacesHold
CHECK_DEADLOCK FALSE
SYMMETRY Alike
