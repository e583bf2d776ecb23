---------------------------- MODULE UpdateEngine ----------------------------
(***************************************************************************)
(* The update engine of a gateway: the release is looked up, its package   *)
(* downloaded and verified, installed when the platform is idle or the     *)
(* main user asks, and the service restarted.  A check, a download, an     *)
(* installation and a retried restart are under way at once; the process   *)
(* may be killed at any of their awaits and is started again from what it  *)
(* had persisted.                                                          *)
(*                                                                         *)
(* Versions are numbers.  Time is left out: a 24-hour check and an idle    *)
(* hour may come whenever the code waits for them, and the restart that    *)
(* was accepted ends this process before the cool-down has passed.         *)
(* The exchange of the directory itself is DeploymentSwap's.               *)
(***************************************************************************)
EXTENDS Integers

CONSTANTS
  MaxVersion,     \* bound: versions 0 .. MaxVersion are released
  Targets,        \* ways of installation among "fixed", "npm", "docker"
  MaxStarts,      \* bound: starts of the process
  MaxLosses       \* bound: packages removed or altered by hand

EngineAssumption ==
  /\ MaxVersion \in Nat /\ Targets \subseteq {"fixed", "npm", "docker"}
  /\ MaxStarts \in Nat /\ MaxLosses \in Nat

None == -1
Version == 0 .. MaxVersion
Maybe == Version \cup {None}

VARIABLES
  target, service,  \* resolveNpmInstallTarget(); a restart command is configured
  released,         \* the latest release
  installed,        \* the program on disk
  art,              \* per version, the package in stateDir
  override,         \* the Compose override file is there
  auto,             \* auto_update_enabled
  set,              \* platform_settings
  mem,              \* fields of the engine that outlive a handler
  cooling,          \* lastApplyAt is less than the cool-down ago
  check, manual, dl, inst, retry, recovering,   \* handlers under way
  up, starts, losses,
  accounted         \* ghost: update_applied audits per version

outside == <<target, service, released, losses>>
files == <<installed, art, override>>
under == <<check, manual, dl, inst, retry, recovering>>
process == <<up, starts>>
vars == <<outside, files, auto, set, mem, cooling, under, process, accounted>>

Nothing == [at |-> "none"]
Docker == target = "docker"

(* What is persisted about the package at hand, and what is remembered.    *)
Package(v, confirm, integ) == [pending |-> v, confirm |-> confirm, integ |-> integ]
NoPackage == Package(None, FALSE, None)

With(r, p) == [r EXCEPT !.pending = p.pending, !.confirm = p.confirm, !.integ = p.integ]
PackageOf(r) == Package(r.pending, r.confirm, r.integ)
Phase(ph) == mem' = [mem EXCEPT !.phase = ph]

------------------------------------------------------------------------------
(* The constructor: what was persisted is taken up again.                  *)
Boot ==
  /\ ~up /\ starts < MaxStarts
  /\ up' = TRUE /\ starts' = starts + 1
  /\ LET restart == IF ~Docker /\ set.restart = installed THEN None ELSE set.restart
         kept == IF set.pending # None /\ art[set.pending] # "none"
                   THEN PackageOf(set) ELSE NoPackage
     IN  /\ set' = [With(set, kept) EXCEPT !.restart = restart]
         /\ mem' = With([version |-> installed, latest |-> set.latest, restart |-> restart,
                         phase |-> IF restart # None THEN "error"
                                   ELSE IF kept.pending # None THEN "ready" ELSE "idle",
                         pending |-> None, confirm |-> FALSE, integ |-> None], kept)
         /\ recovering' = (Docker /\ restart # None)
  /\ UNCHANGED <<outside, files, auto, cooling, check, manual, dl, inst, retry, accounted>>

(* The process ends: what was under way is gone with it.                   *)
Ends ==
  /\ up' = FALSE
  /\ check' = Nothing /\ manual' = None /\ dl' = Nothing /\ inst' = Nothing
  /\ retry' = FALSE /\ recovering' = FALSE /\ cooling' = FALSE
  /\ UNCHANGED <<outside, art, override, auto, mem, starts>>

(* Killed: an installation may have just taken effect, as when Compose     *)
(* replaces the container that asked for it.                               *)
Crash ==
  /\ up /\ starts < MaxStarts
  /\ installed' \in {installed} \cup (IF inst.at \in {"install", "up"} THEN {inst.what} ELSE {})
  /\ Ends /\ UNCHANGED <<set, accounted>>

------------------------------------------------------------------------------
(* setAutoUpdateEnabled(); the check it may start is Check(TRUE).          *)
SetAuto(on) ==
  /\ up /\ auto' = on
  /\ LET p == IF mem.pending # None /\ mem.phase = "ready"
                THEN Package(mem.pending, ~on, mem.integ) ELSE PackageOf(mem)
     IN  /\ mem' = With(mem, p)
         /\ set' = [set EXCEPT !.confirm = IF p = PackageOf(mem) THEN @ ELSE p.confirm]
  /\ UNCHANGED <<outside, files, cooling, under, process, accounted>>

(* checkNow(), joined while one is under way: by the tick, the switch (may *)
(* download) or the main user (may not).                                   *)
Check(mayDownload) ==
  /\ up /\ check = Nothing /\ dl = Nothing
  /\ mayDownload => auto /\ mem.restart = None
  /\ check' = [at |-> "release", may |-> mayDownload]
  /\ UNCHANGED <<outside, files, auto, set, mem, cooling, manual, dl, inst, retry,
                 recovering, process, accounted>>

(* checkNowInternal() has the release, or has failed.                      *)
CheckRelease ==
  /\ check.at = "release"
  /\ \/ check' = Nothing /\ UNCHANGED <<set, mem>>
     \/ LET known == [mem EXCEPT !.latest = released]
            over == released <= mem.version /\ mem.pending = mem.version
        IN  /\ mem' = IF over THEN [With(known, NoPackage) EXCEPT !.phase = "idle"] ELSE known
            /\ set' = [(IF over THEN With(set, NoPackage) ELSE set) EXCEPT !.latest = released]
            /\ check' = IF \/ released <= mem.version
                           \/ mem.pending = released /\ mem.phase = "ready"
                           \/ ~check.may \/ Docker \/ ~auto
                          THEN Nothing ELSE [at |-> "package", v |-> released]
  /\ UNCHANGED <<outside, files, auto, cooling, manual, dl, inst, retry, recovering,
                 process, accounted>>

(* startDownload() with the metadata read just before.                     *)
MayDownload == dl = Nothing /\ mem.restart = None

StartDownload(v, byHand) ==
  IF MayDownload
    THEN /\ dl' = [at |-> "download", v |-> v, byHand |-> byHand, lost |-> FALSE,
                   before |-> PackageOf(mem), ready |-> mem.phase = "ready"]
         /\ Phase("downloading")
    ELSE UNCHANGED <<dl, mem>>

CheckPackage ==
  /\ check.at = "package"
  /\ \/ check' = Nothing /\ UNCHANGED <<dl, mem>>
     \/ /\ StartDownload(check.v, FALSE)
        /\ check' = IF MayDownload THEN [at |-> "download"] ELSE Nothing
  /\ UNCHANGED <<outside, files, auto, set, cooling, manual, inst, retry, recovering,
                 process, accounted>>

(* The bytes are there and their sha512 is the registry's.                 *)
Downloaded ==
  /\ dl.at = "download" /\ ~dl.lost
  /\ art' = [art EXCEPT ![dl.v] = "verified"]
  /\ LET p == Package(dl.v, dl.byHand \/ ~auto, dl.v)
     IN  mem' = [With(mem, p) EXCEPT !.phase = "ready"] /\ set' = With(set, p)
  /\ dl' = Nothing /\ check' = IF check.at = "download" THEN Nothing ELSE check
  /\ UNCHANGED <<outside, installed, override, auto, cooling, manual, inst, retry,
                 recovering, process, accounted>>

(* The download failed or is not what the registry says: the package of    *)
(* before is put back.                                                     *)
DownloadFails ==
  /\ dl.at = "download"
  /\ mem' = IF dl.before.pending # None /\ art[dl.before.pending] # "none"
              THEN [With(mem, dl.before) EXCEPT !.phase = IF dl.ready THEN "ready" ELSE "error"]
              ELSE [mem EXCEPT !.phase = "error"]
  /\ dl' = Nothing /\ check' = IF check.at = "download" THEN Nothing ELSE check
  /\ UNCHANGED <<outside, files, auto, set, cooling, manual, inst, retry, recovering,
                 process, accounted>>

------------------------------------------------------------------------------
(* performInstallInternal(). Slip: the package is not read again.          *)
IntactUnread(v) == art[v] # "none"
Intact(v) == art[v] = "verified" /\ mem.integ = v

Begin(m) ==
  /\ IF Docker
       THEN /\ inst' = [at |-> "pull", what |-> mem.latest]
            /\ override' = TRUE /\ mem' = [m EXCEPT !.phase = "installing"]
       ELSE /\ UNCHANGED override
            /\ IF m.pending = None \/ art[m.pending] = "none"
                 THEN UNCHANGED inst /\ mem' = m
               ELSE IF ~Intact(m.pending)
                 THEN UNCHANGED inst /\ mem' = [m EXCEPT !.phase = "error"]
                 ELSE inst' = [at |-> "target", v |-> m.pending] /\ mem' = m
  /\ UNCHANGED <<outside, installed, art, auto, set, cooling, check, manual, dl, retry,
                 recovering, process, accounted>>

(* Slip: nothing looks for an installation that waits for its restart.     *)
MayInstallAgain == up /\ inst = Nothing /\ ~cooling
MayInstall == up /\ inst = Nothing /\ ~cooling /\ mem.restart = None

TickInstalls ==
  /\ MayInstall /\ auto
  /\ \/ mem.pending # None /\ mem.phase = "ready" /\ ~mem.confirm
     \/ Docker /\ mem.latest > mem.version
  /\ Begin(mem)

ApplyInstalls ==
  /\ MayInstall /\ dl = Nothing
  /\ \/ mem.pending # None /\ mem.phase = "ready" /\ Begin([mem EXCEPT !.phase = "installing"])
     \/ Docker /\ mem.latest > mem.version /\ Begin(mem)

(* applyNow() without a package: the first click downloads.                *)
ApplyDownloads ==
  /\ MayInstall /\ dl = Nothing /\ manual = None /\ ~Docker /\ ~auto
  /\ ~(mem.pending # None /\ mem.phase = "ready") /\ mem.latest > mem.version
  /\ manual' = mem.latest
  /\ UNCHANGED <<outside, files, auto, set, mem, cooling, check, dl, inst, retry,
                 recovering, process, accounted>>

ApplyMetadata ==
  /\ manual # None
  /\ manual' = None
  /\ \/ StartDownload(manual, TRUE)
     \/ UNCHANGED <<dl, mem>>
  /\ UNCHANGED <<outside, files, auto, set, cooling, check, inst, retry, recovering,
                 process, accounted>>

(* The package installed is the one at hand when the target is known; with *)
(* a fixed directory nothing was awaited in between. Slip: something was.  *)
AtHandNow(v) == mem.pending
AtHand(v) == IF target = "npm" THEN mem.pending ELSE v

Target ==
  /\ inst.at = "target"
  /\ \/ inst' = Nothing /\ Phase("error")
     \/ /\ inst' = [at |-> "install", v |-> inst.v,
                    what |-> AtHand(inst.v)]
        /\ Phase("installing")
  /\ UNCHANGED <<outside, files, auto, set, cooling, check, manual, dl, retry, recovering,
                 process, accounted>>

InstallFails ==
  /\ inst.at = "install"
  /\ installed' \in {installed} \cup (IF target = "npm" /\ inst.what # None THEN {inst.what} ELSE {})
  /\ inst' = Nothing /\ Phase("ready")
  /\ UNCHANGED <<outside, art, override, auto, set, cooling, check, manual, dl, retry,
                 recovering, process, accounted>>

Account(v) == accounted' = [accounted EXCEPT ![v] = @ + 1]

(* The new program is in place: it is accounted for, every package of      *)
(* stateDir removed, and the restart due is on record.                     *)
Installed ==
  /\ inst.at = "install" /\ inst.what # None /\ art[inst.what] # "none"
  /\ installed' = inst.what
  /\ Account(inst.v)
  /\ art' = [v \in Version |-> "none"]
  /\ dl' = IF dl = Nothing THEN dl ELSE [dl EXCEPT !.lost = TRUE]
  /\ set' = [With(set, NoPackage) EXCEPT !.latest = inst.v, !.restart = inst.v]
  /\ mem' = [With(mem, NoPackage) EXCEPT !.latest = inst.v, !.restart = inst.v,
               !.phase = IF service THEN "restarting" ELSE "error"]
  /\ cooling' = TRUE
  /\ inst' = IF service THEN [at |-> "restart"] ELSE Nothing
  /\ UNCHANGED <<outside, override, auto, check, manual, retry, recovering, process>>

(* The restart is accepted and ends this process, or it is refused.        *)
Restarts ==
  /\ inst.at = "restart" \/ retry
  /\ \/ set' = [set EXCEPT !.restart = None]
        /\ Ends /\ UNCHANGED <<installed, accounted>>
     \/ /\ Phase("error") /\ inst' = Nothing /\ retry' = FALSE
        /\ UNCHANGED <<outside, files, auto, set, cooling, check, manual, dl, recovering,
                       process, accounted>>

(* applyNow() again: the cool-down does not hold up the restart.           *)
ApplyRestarts ==
  /\ up /\ dl = Nothing /\ inst = Nothing /\ mem.restart # None /\ ~Docker /\ service
  /\ retry' = TRUE /\ Phase("restarting")
  /\ UNCHANGED <<outside, files, auto, set, cooling, check, manual, dl, inst, recovering,
                 process, accounted>>

CoolDown ==
  /\ up /\ cooling /\ cooling' = FALSE
  /\ UNCHANGED <<outside, files, auto, set, mem, under, process, accounted>>

------------------------------------------------------------------------------
(* performDockerInstall() and recoverDockerInstall(). Any command fails:   *)
(* the record of the restart goes, and the override file with it, unless   *)
(* it cannot be removed.                                                   *)

GiveUpDocker ==
  /\ set' = [set EXCEPT !.restart = None]
  /\ mem' = [mem EXCEPT !.restart = None, !.phase = "error"]

DockerFails ==
  /\ inst.at \in {"pull", "up", "verify"}
  /\ inst' = Nothing /\ GiveUpDocker /\ override' \in {override, FALSE}
  /\ UNCHANGED <<outside, installed, art, auto, cooling, check, manual, dl, retry,
                 recovering, process, accounted>>

Pull ==
  /\ inst.at = "pull"
  /\ inst' = [inst EXCEPT !.at = "up"]
  /\ set' = [set EXCEPT !.restart = inst.what, !.latest = inst.what]
  /\ mem' = [mem EXCEPT !.restart = inst.what, !.phase = "restarting"]
  /\ UNCHANGED <<outside, files, auto, cooling, check, manual, dl, retry, recovering,
                 process, accounted>>

(* The container is replaced, and this process not killed yet.             *)
Up ==
  /\ inst.at = "up"
  /\ inst' = [inst EXCEPT !.at = "verify"] /\ installed' = inst.what
  /\ UNCHANGED <<outside, art, override, auto, set, mem, cooling, check, manual, dl, retry,
                 recovering, process, accounted>>

Verify ==
  /\ inst.at = "verify" /\ installed = inst.what
  /\ Account(inst.what)
  /\ set' = [set EXCEPT !.latest = inst.what, !.applied = inst.what]
  /\ mem' = [mem EXCEPT !.version = inst.what, !.latest = inst.what, !.restart = None,
               !.phase = "idle"]
  /\ inst' = Nothing /\ cooling' = TRUE /\ override' \in {override, FALSE}
  /\ UNCHANGED <<outside, installed, art, auto, check, manual, dl, retry, recovering, process>>

(* Slip: a recovery does not ask whether the update was accounted for.     *)
AccountAlways(v) == Account(v)
AccountOnce(v) == IF set.applied = v THEN UNCHANGED accounted ELSE Account(v)

Recover ==
  /\ recovering /\ recovering' = FALSE
  /\ \/ /\ GiveUpDocker
        /\ UNCHANGED <<cooling, override, accounted>>
     \/ /\ override /\ installed = mem.restart
        /\ AccountOnce(mem.restart)
        /\ set' = [set EXCEPT !.applied = mem.restart, !.latest = mem.restart, !.restart = None]
        /\ mem' = [mem EXCEPT !.version = mem.restart, !.latest = mem.restart,
                     !.restart = None, !.phase = "idle"]
        /\ cooling' = TRUE /\ override' \in {override, FALSE}
  /\ UNCHANGED <<outside, installed, art, auto, check, manual, dl, inst, retry, process>>

------------------------------------------------------------------------------
(* A newer release; a package removed or altered in stateDir.              *)
Publish ==
  /\ released < MaxVersion /\ released' = released + 1
  /\ UNCHANGED <<target, service, losses, files, auto, set, mem, cooling, under, process, accounted>>

Lose ==
  /\ losses < MaxLosses /\ losses' = losses + 1 /\ inst = Nothing
  /\ \E v \in Version, how \in {"none", "altered"} :
       art[v] = "verified" /\ art' = [art EXCEPT ![v] = how]
  /\ UNCHANGED <<target, service, released, installed, override, auto, set, mem, cooling, under,
                 process, accounted>>

Init ==
  /\ target \in Targets /\ service \in BOOLEAN
  /\ released = 0 /\ installed = 0 /\ losses = 0
  /\ art = [v \in Version |-> "none"] /\ override = FALSE /\ auto \in BOOLEAN
  /\ set = [pending |-> None, confirm |-> FALSE, integ |-> None, latest |-> None,
            restart |-> None, applied |-> None]
  /\ mem = [version |-> 0, latest |-> None, restart |-> None, phase |-> "idle",
            pending |-> None, confirm |-> FALSE, integ |-> None]
  /\ cooling = FALSE /\ check = Nothing /\ manual = None /\ dl = Nothing /\ inst = Nothing
  /\ retry = FALSE /\ recovering = FALSE /\ up = TRUE /\ starts = 1
  /\ accounted = [v \in Version |-> 0]

Next ==
  \/ Boot \/ Crash \/ Publish \/ Lose \/ CoolDown
  \/ \E b \in BOOLEAN : SetAuto(b) \/ Check(b)
  \/ CheckRelease \/ CheckPackage \/ Downloaded \/ DownloadFails
  \/ TickInstalls \/ ApplyInstalls \/ ApplyDownloads \/ ApplyMetadata \/ ApplyRestarts
  \/ Target \/ InstallFails \/ Installed \/ Restarts
  \/ DockerFails \/ Pull \/ Up \/ Verify \/ Recover

Spec == Init /\ [][Next]_vars

------------------------------------------------------------------------------
(* However often a restart is refused, retried, recovered or cut off by a  *)
(* crash, no update is applied and accounted for twice.                    *)
AccountedOnce == \A v \in Version : accounted[v] <= 1

(* The restart on record is the one the program on disk waits for.         *)
RecordMatchesDisk ==
  mem.restart # None /\ ~Docker => installed = mem.restart

(* Once it is switched off the engine waits for the main user to confirm   *)
(* the package at hand, whoever downloaded it.                             *)
SwitchHolds == up /\ ~auto /\ mem.pending # None /\ mem.phase = "ready" => mem.confirm

(* Nothing is ever installed from a package that is not the one verified.  *)
VerifiedOnly ==
  [][inst'.at = "install" => art[inst'.what] = "verified"]_vars

==============================================================================
