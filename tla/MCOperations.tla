---------------------------- MODULE MCOperations ----------------------------
(***************************************************************************)
(* Instances of the modules about running the gateway: the exchange of the *)
(* deployment, the update engine, the first setup, the supervision of the  *)
(* process, its link with the plugin, and two administrators who save      *)
(* permissions.  They share no state and are checked side by side: a       *)
(* behaviour is one of the module that `part' names, and x1 .. x20 stand   *)
(* for its variables.                                                      *)
(***************************************************************************)
EXTENDS Naturals, Sequences, FiniteSets, TLC, SuiteState

CONSTANTS
  Proc, Program, Kept, MaxFaults, MaxCrashes, CrashInGate, NoOne,
  MaxVersion, Targets, MaxStarts, MaxLosses, Key, Setup, Attempt, Injected,
  Edited, Fresh, Absent, Blank, MaxEdits, MaxSetupCrashes, MaxEffects,
  MaxSpawns, MaxGatewayFaults, MaxDrift, Plugin, Official, HostPath,
  Bridge, MaxLinkFaults

Swap == INSTANCE DeploymentSwap WITH
  file <- x1, dirs <- x2, at <- x3, tries <- x4, rest <- x5, got <- x6,
  won <- x7, told <- x8, before <- x9, inPlace <- x10, faults <- x11,
  crashes <- x12
Engine == INSTANCE UpdateEngine WITH
  target <- x1, service <- x2, released <- x3, installed <- x4, art <- x5,
  override <- x6, auto <- x7, set <- x8, mem <- x9, cooling <- x10,
  check <- x11, manual <- x12, dl <- x13, inst <- x14, retry <- x15,
  recovering <- x16, up <- x17, starts <- x18, losses <- x19,
  accounted <- x20
Setting == INSTANCE FirstSetup WITH
  docker <- x1, host <- x2, file <- x3, keyFile <- x4, plugin <- x5,
  gateway <- x6, admins <- x7, req <- x8, draft <- x9, dataKeys <- x10,
  hardened <- x11, edits <- x12, crashes <- x13,
  MaxCrashes <- MaxSetupCrashes
Supervisor == INSTANCE GatewaySupervisor WITH
  current <- x1, pid <- x2, of <- x3, disposed <- x4, at <- x5, child <- x6,
  adopted <- x7, retry <- x8, drift <- x9, drifts <- x10, stopped <- x11,
  gate <- x12, parent <- x13, config <- x14, foreign <- x15, faults <- x16,
  MaxFaults <- MaxGatewayFaults
Link == INSTANCE PluginLink WITH
  pid <- x1, secret <- x2, loaded <- x3, mounted <- x4, gate <- x5,
  posts <- x6, polls <- x7, check <- x8, faults <- x9,
  MaxFaults <- MaxLinkFaults
Saves == INSTANCE SessionAccess WITH
  grants <- x1, closed <- x2, policy <- x3, seeded <- x4, ready <- x5,
  access <- x6, epoch <- x7, order <- x8, newest <- x9, req <- x10,
  save <- x11, known <- x12, log <- x13, sent <- x14,
  Session <- {"session"}, Request <- {"request"},
  Admin <- {"first", "second"}, Migrated <- FALSE, Ordered <- TRUE

ASSUME SwapFits == Swap!SwapAssumption
ASSUME EngineFits == Engine!EngineAssumption
ASSUME SetupFits == Setting!SetupAssumption
ASSUME SupervisorFits == Supervisor!SupervisorAssumption

------------------------------------------------------------------------------
Init ==
  \/ part = "swap" /\ Swap!Init /\ x13 = 0 /\ x14 = 0 /\ x15 = 0 /\ x16 = 0
       /\ x17 = 0 /\ x18 = 0 /\ x19 = 0 /\ x20 = 0
  \/ part = "engine" /\ Engine!Init
  \/ part = "setup" /\ Setting!Init /\ x14 = 0 /\ x15 = 0 /\ x16 = 0
       /\ x17 = 0 /\ x18 = 0 /\ x19 = 0 /\ x20 = 0
  \/ part = "supervisor" /\ Supervisor!Init /\ x17 = 0 /\ x18 = 0 /\ x19 = 0
       /\ x20 = 0
  \/ part = "link" /\ Link!Init /\ x10 = 0 /\ x11 = 0 /\ x12 = 0 /\ x13 = 0
       /\ x14 = 0 /\ x15 = 0 /\ x16 = 0 /\ x17 = 0 /\ x18 = 0 /\ x19 = 0
       /\ x20 = 0
  \/ part = "saves" /\ Saves!Init /\ x15 = 0 /\ x16 = 0 /\ x17 = 0 /\ x18 = 0
       /\ x19 = 0 /\ x20 = 0

SwapSteps == part = "swap" /\ Swap!Next /\ UNCHANGED <<part, x13, x14, x15,
        x16, x17, x18, x19, x20>>
EngineSteps == part = "engine" /\ Engine!Next /\ UNCHANGED part
SettingSteps == part = "setup" /\ Setting!Next /\ UNCHANGED <<part, x14, x15,
        x16, x17, x18, x19, x20>>
SupervisorSteps == part = "supervisor" /\ Supervisor!Next /\ UNCHANGED <<part,
        x17, x18, x19, x20>>
LinkSteps == part = "link" /\ Link!Next /\ UNCHANGED <<part, x10, x11, x12,
        x13, x14, x15, x16, x17, x18, x19, x20>>
SavesSteps == part = "saves" /\ Saves!Next /\ UNCHANGED <<part, x15, x16, x17,
        x18, x19, x20>>

Next ==
  \/ SwapSteps
  \/ EngineSteps
  \/ SettingSteps
  \/ SupervisorSteps
  \/ LinkSteps
  \/ SavesSteps

Spec == Init /\ [][Next]_suiteVars

------------------------------------------------------------------------------
(* One live process exchanges the deployment, nothing of the user's is     *)
(* removed, and an update that is over left one whole program or has       *)
(* reported that it did not; none is accounted for twice, and the restart  *)
(* on record is the one that the program on disk waits for (update.ts).    *)
UpdatesWhole ==
  /\ part = "swap" => Swap!OneInstaller /\ Swap!UserDataKept /\ Swap!OutcomeWhole
  /\ part = "engine" => Engine!AccountedOnce /\ Engine!RecordMatchesDisk

(* Requests that hash together make one main user, and a file of secrets   *)
(* replaced by the gateway changes no key that data was written with, nor  *)
(* does it keep the plugin from launching it again (plugin.ts, config.ts). *)
SetupSafe ==
  part = "setup" => Setting!OneAdministrator /\ Setting!KeysStay /\ Setting!HardeningIsNoDrift

(* However launches, retries, exits, reloads and restarts interleave, no   *)
(* gateway process is left that nobody holds (plugin.ts).                  *)
NoStray == part = "supervisor" => Supervisor!NoStray

(* The gateway lets in the plugins of its own host only, whatever restarts *)
(* of either and lost posts (plugin.ts, gateway.ts).                       *)
PluginsOfItsHost == part = "link" => Link!PluginsOfItsHost

(* A save that lost a race is refused, and takes nothing back that it has  *)
(* not seen (admin.ts, db.ts).                                             *)
SavesSeeWhatTheyUndo == [][part = "saves" => Saves!UndoesWhatItSaw]_suiteVars
==============================================================================
