SPECIFICATION Spec
CONSTANTS
  Proc = {p1, p2, p3}
  Program = {bin, lib}
  Kept = {env, data}
  MaxFaults = 1
  MaxCrashes = 1
  CrashInGate = FALSE
  NoOne = NoOne
  MaxVersion = 2
  Targets = {"fixed", "docker"}
  MaxStarts = 3
  MaxLosses = 1
  Key = {"jwt", "db"}
  Setup = "setup"
  Attempt = {1, 2}
  Injected = {1}
  Edited = {2}
  Fresh = {4}
  Absent = 8
  Blank = 9
  MaxEdits = 1
  MaxSetupCrashes = 1
  MaxEffects = 3
  MaxSpawns = 3
  MaxGatewayFaults = 2
  MaxDrift = 1
  Plugin = {p, q, official, path}
  Official = {official}
  HostPath = {path}
  Bridge = TRUE
  MaxLinkFaults = 3
INVARIANTS
  UpdatesWhole
  SetupSafe
  NoStray
  PluginsOfItsHost
PROPERTY
  SavesSeeWhatTheyUndo
CHECK_DEADLOCK FALSE
