--------------------------- MODULE EmergencyPurge ---------------------------
(***************************************************************************)
(* The emergency cleanup: a request to the gateway proves the main user's  *)
(* password, launches a helper out of a temporary directory, waits for its *)
(* receipt and answers; the end of the answer is the helper's signal to    *)
(* stop the host and to delete.  Gateway and helper only share files: the  *)
(* plan, the receipt and the signal.  Every wait has a limit, the gateway  *)
(* may crash, and what the gateway knows of a launch may be uncertain.     *)
(*                                                                         *)
(* One transaction per request, all from one address: the lock of the      *)
(* password is kept for each address, and what is counted here is counted  *)
(* there for each.  A handler is one step from one await to the next.      *)
(***************************************************************************)
EXTENDS Naturals, FiniteSets

CONSTANTS
  Tx,            \* requests and their transactions
  MaxFailed,     \* PURGE_PASSWORD_MAX_FAILED
  MaxTries,      \* accepted attempts in ten minutes
  MaxExpiries,   \* bound: times a lock of the password runs out
  MaxCrashes     \* bound: crashes of the gateway

PurgeAssumption == MaxFailed \in Nat \ {0}

VARIABLES
  service,       \* is the host a systemd unit, or a process known by its pid
  req,           \* [Tx -> phase of the request]
  busy,          \* purgeInProgress
  launched, unknown, \* SUBSET Tx: helperLaunched, launchOutcomeUnknown
  watch,         \* [Tx -> "off", "on", "late"]: monitorPurgeReceipt
  fails, locked, \* the attempts recorded for the password
  tries,         \* purgeRate
  planned,       \* SUBSET Tx: the temporary directory is there
  receipt,       \* [Tx -> "none", "begun", "ready", "failed", "partial", "ok"]
  signal,        \* SUBSET Tx: start.signal is written
  helper,        \* [Tx -> phase of the helper]
  born,          \* SUBSET Tx: those of the gateway process that runs now
  gateway, host, \* do they run
  told,          \* SUBSET Tx: answered 202, to the last byte
  guesses, expiries, crashes

request == <<req, busy, launched, unknown, watch, tries, born, told>>
password == <<fails, locked, guesses, expiries>>
files == <<planned, receipt, signal>>
processes == <<helper, gateway, host, crashes, service>>
vars == <<request, password, files, processes>>

Final == {"failed", "partial", "ok"}
Goto(t, phase) == req' = [req EXCEPT ![t] = phase]
Writes(t, text) == receipt' = [receipt EXCEPT ![t] = text]
Helper(t, phase) == helper' = [helper EXCEPT ![t] = phase]

------------------------------------------------------------------------------
(* The gateway.                                                            *)

(* Slip: only the rate is looked at before the password is awaited.        *)
AcceptsAnyway == tries < MaxTries

(* One at a time, and only so often; the password is awaited.              *)
Accepts == ~busy /\ tries < MaxTries

Request(t) ==
  /\ gateway /\ req[t] = "idle" /\ Accepts
  /\ busy' = TRUE /\ Goto(t, "proving") /\ born' = born \cup {t}
  /\ UNCHANGED <<launched, unknown, watch, tries, told, password, files, processes>>

(* verifyAdminPassword(): the lock is read before the comparison.          *)
LockedOut(t) ==
  /\ gateway /\ req[t] = "proving" /\ locked /\ fails >= MaxFailed
  /\ busy' = FALSE /\ Goto(t, "idle")
  /\ UNCHANGED <<launched, unknown, watch, tries, born, told, password, files, processes>>

Compares(t) ==
  /\ gateway /\ req[t] = "proving" /\ ~(locked /\ fails >= MaxFailed)
  /\ Goto(t, "comparing") /\ guesses' = guesses + 1
  /\ UNCHANGED <<busy, launched, unknown, watch, tries, born, told, fails, locked, expiries, files, processes>>

WrongPassword(t) ==
  /\ gateway /\ req[t] = "comparing"
  /\ fails' = fails + 1
  /\ locked' = (locked \/ fails + 1 >= MaxFailed)
  /\ busy' = FALSE /\ Goto(t, "idle")
  /\ UNCHANGED <<launched, unknown, watch, tries, born, told, guesses, expiries, files, processes>>

LockExpires ==
  /\ locked /\ expiries < MaxExpiries
  /\ locked' = FALSE /\ expiries' = expiries + 1
  /\ UNCHANGED <<request, fails, guesses, files, processes>>

(* The password is right: what was recorded against it is forgotten.       *)
Proved(t) ==
  /\ gateway /\ req[t] = "comparing"
  /\ fails' = 0 /\ locked' = FALSE /\ guesses' = 0

(* The attempt counts and the directory of the plan is made. There may be  *)
(* no way to stop the host, then nothing is left behind.                   *)
RightPassword(t) ==
  /\ Proved(t)
  /\ \/ /\ busy' = FALSE /\ Goto(t, "idle")
        /\ UNCHANGED <<tries, planned>>
     \/ /\ tries' = tries + 1 /\ planned' = planned \cup {t}
        /\ Goto(t, "launching")
        /\ UNCHANGED busy
  /\ UNCHANGED <<launched, unknown, watch, born, told, expiries, receipt, signal, processes>>

(* Slip: the catch frees the lock, whatever became of the launch.          *)
FailedFree(t) ==
  /\ Goto(t, "failed") /\ busy' = FALSE
  /\ planned' = IF t \in launched \cup unknown' THEN planned ELSE planned \ {t}
  /\ watch' = IF t \in unknown' THEN [watch EXCEPT ![t] = "on"] ELSE watch

(* Slip: a launch with an unknown end is not watched.                      *)
FailedUnwatched(t) ==
  /\ Goto(t, "failed")
  /\ busy' = (t \in launched \cup unknown')
  /\ planned' = IF t \in launched \cup unknown' THEN planned ELSE planned \ {t}
  /\ UNCHANGED watch

(* The handler's catch: the lock and the directory go only when no helper  *)
(* can be there; when one may, its receipt is watched.                     *)
Failed(t) ==
  /\ Goto(t, "failed")
  /\ busy' = (t \in launched \cup unknown')
  /\ planned' = IF t \in launched \cup unknown' THEN planned ELSE planned \ {t}
  /\ watch' = IF t \in unknown' THEN [watch EXCEPT ![t] = "on"] ELSE watch

(* A child is there at once, a unit when systemd-run says so.              *)
LaunchConfirmed(t) ==
  /\ gateway /\ req[t] = "launching"
  /\ helper' = IF helper[t] = "none" THEN [helper EXCEPT ![t] = "starting"] ELSE helper
  /\ launched' = IF service THEN launched ELSE launched \cup {t}
  /\ unknown' = unknown \cup {t}
  /\ Goto(t, "awaiting")
  /\ UNCHANGED <<busy, watch, tries, born, told, password, files, gateway, host, crashes, service>>

(* No child, or systemd-run ended with an error: there is no helper.       *)
LaunchRefused(t) ==
  /\ gateway /\ req[t] = "launching" /\ helper[t] = "none"
  /\ unknown' = unknown /\ Failed(t)
  /\ UNCHANGED <<launched, tries, born, told, password, receipt, signal, processes>>

(* systemd-run says nothing for 30 seconds: the unit may have been queued. *)
LaunchTimesOut(t) ==
  /\ gateway /\ req[t] = "launching" /\ service
  /\ unknown' = unknown \cup {t} /\ Failed(t)
  /\ helper' \in {helper, [helper EXCEPT ![t] = IF @ = "none" THEN "starting" ELSE @]}
  /\ UNCHANGED <<launched, tries, born, told, password, receipt, signal, gateway, host, crashes, service>>

(* The unit is started while systemd-run is still waited for.              *)
UnitStarts(t) ==
  /\ req[t] = "launching" /\ service /\ helper[t] = "none"
  /\ Helper(t, "starting")
  /\ UNCHANGED <<request, password, files, gateway, host, crashes, service>>

(* The receipt says ready: watch it and answer 202. The audit may throw.   *)
SeesReady(t) ==
  /\ gateway /\ req[t] = "awaiting" /\ receipt[t] = "ready"
  /\ launched' = launched \cup {t} /\ unknown' = unknown \ {t}
  /\ watch' = [watch EXCEPT ![t] = "on"]
  /\ \/ Goto(t, "answering") \/ Goto(t, "failed")
  /\ UNCHANGED <<busy, tries, born, told, password, files, processes>>

(* The receipt says finished, or nothing for ten seconds.                  *)
SeesNoHelper(t) ==
  /\ gateway /\ req[t] = "awaiting" /\ receipt[t] # "ready"
  /\ unknown' = unknown /\ Failed(t)
  /\ UNCHANGED <<launched, tries, born, told, password, receipt, signal, processes>>

ReadyComesLate(t) ==
  /\ gateway /\ req[t] = "awaiting" /\ receipt[t] = "ready"
  /\ unknown' = unknown /\ Failed(t)
  /\ UNCHANGED <<launched, tries, born, told, password, receipt, signal, processes>>

(* Slip: the signal goes out with the answer, not after it.                *)
SignalsEarly(t) == signal' = signal \cup {t} /\ told' \in {told, told \cup {t}}

(* The answer is out: the signal. The write may fail.                      *)
Signals(t) == told' = told \cup {t} /\ signal' \in {signal, signal \cup {t}}

AnswerFinishes(t) ==
  /\ gateway /\ req[t] = "answering"
  /\ Goto(t, "over") /\ Signals(t)
  /\ UNCHANGED <<busy, launched, unknown, watch, tries, born, password, planned, receipt, processes>>

ClientLeaves(t) ==
  /\ gateway /\ req[t] = "answering"
  /\ Goto(t, "over")
  /\ UNCHANGED <<busy, launched, unknown, watch, tries, born, told, password, files, processes>>

(* monitorPurgeReceipt(): a finished receipt frees the lock; after ten     *)
(* minutes without one the lock stays. A helper that lives reports sooner. *)
MonitorSees(t) ==
  /\ gateway /\ watch[t] = "on" /\ receipt[t] \in Final
  /\ watch' = [watch EXCEPT ![t] = "off"] /\ busy' = FALSE
  /\ UNCHANGED <<req, launched, unknown, tries, born, told, password, files, processes>>

MonitorGivesUp(t) ==
  /\ gateway /\ watch[t] = "on" /\ receipt[t] \notin Final /\ helper[t] \in {"none", "over"}
  /\ watch' = [watch EXCEPT ![t] = "late"]
  /\ UNCHANGED <<req, busy, launched, unknown, tries, born, told, password, files, processes>>

(* What the process knew is gone; the host's plugin starts another one.    *)
GatewayDies ==
  /\ gateway' = FALSE /\ busy' = FALSE /\ tries' = 0 /\ born' = {}
  /\ req' = [t \in Tx |-> IF req[t] = "idle" THEN "idle" ELSE "over"]
  /\ watch' = [t \in Tx |-> "off"]
  /\ UNCHANGED <<launched, unknown, told>>

GatewayCrashes ==
  /\ gateway /\ crashes < MaxCrashes
  /\ GatewayDies /\ crashes' = crashes + 1
  /\ UNCHANGED <<password, files, helper, host, service>>

(* The directory cannot be made: mkdtempSync() throws outside the try of   *)
(* the handler, nothing takes its rejected promise, and Node ends the      *)
(* process.                                                                *)
NoDirectory(t) ==
  /\ Proved(t) /\ crashes < MaxCrashes
  /\ GatewayDies /\ crashes' = crashes + 1
  /\ UNCHANGED <<expiries, files, helper, host, service>>

GatewayReturns ==
  /\ ~gateway /\ host
  /\ gateway' = TRUE
  /\ UNCHANGED <<request, password, files, helper, host, crashes, service>>

(* The watchdog on the parent process.                                     *)
ParentGone ==
  /\ gateway /\ ~host
  /\ GatewayDies
  /\ UNCHANGED <<password, files, helper, host, crashes, service>>

------------------------------------------------------------------------------
(* The helper.                                                             *)

(* finally: the directory goes with the helper.                            *)
Ends(t, text) ==
  /\ Helper(t, "over") /\ Writes(t, text)
  /\ planned' = planned \ {t}
  /\ UNCHANGED <<request, password, signal, gateway, host, crashes, service>>

(* The plan is read and a first receipt written; without a directory there *)
(* is nothing to read and nowhere to write to.                             *)
HelperBegins(t) ==
  /\ helper[t] = "starting"
  /\ IF t \in planned THEN Helper(t, "begun") /\ Writes(t, "begun")
                      ELSE Helper(t, "over") /\ UNCHANGED receipt
  /\ UNCHANGED <<request, password, planned, signal, gateway, host, crashes, service>>

(* validatePlan() and validateStopTarget(): the latter finds only a host   *)
(* that runs.                                                              *)
StopTargetMatches == host

HelperReady(t) ==
  /\ helper[t] = "begun" /\ StopTargetMatches
  /\ Helper(t, "ready") /\ Writes(t, "ready")
  /\ UNCHANGED <<request, password, planned, signal, gateway, host, crashes, service>>

HelperRefuses(t) == helper[t] = "begun" /\ Ends(t, "failed")

HelperSignalled(t) ==
  /\ helper[t] = "ready" /\ t \in signal
  /\ Helper(t, "stopping")
  /\ UNCHANGED <<request, password, files, gateway, host, crashes, service>>

(* 30 seconds without a signal.                                            *)
HelperUnsignalled(t) == helper[t] = "ready" /\ t \notin signal /\ Ends(t, "failed")

(* stopPlan(): the unit with everything in it, or the host's process and   *)
(* the gateway's.                                                          *)
HostStops(t) ==
  /\ helper[t] = "stopping" /\ StopTargetMatches
  /\ host' = FALSE
  /\ \/ service /\ gateway /\ GatewayDies /\ UNCHANGED crashes
     \/ (service => ~gateway) /\ UNCHANGED <<request, gateway, crashes>>
  /\ UNCHANGED <<password, files, helper, service>>

StopFails(t) == helper[t] = "stopping" /\ Ends(t, "failed")

GatewayStopped(t) ==
  /\ helper[t] = "stopping" /\ ~host /\ gateway
  /\ GatewayDies
  /\ UNCHANGED <<password, files, helper, host, crashes, service>>

Stopped(t) ==
  /\ helper[t] = "stopping" /\ ~host /\ ~gateway
  /\ Helper(t, "deleting")
  /\ UNCHANGED <<request, password, files, gateway, host, crashes, service>>

(* Each path is removed as well as it can be; one that stays is an error,  *)
(* and so is a unit that cannot be disabled.                               *)
PathsRemoved == {"ok", "partial"}
UnitRemoved == IF service THEN {"ok", "partial"} ELSE {"ok"}

Deletes(t) ==
  /\ helper[t] = "deleting"
  /\ \E paths \in PathsRemoved, unit \in UnitRemoved :
       Ends(t, IF paths = "ok" /\ unit = "ok" THEN "ok" ELSE "partial")

------------------------------------------------------------------------------
Init ==
  /\ service \in BOOLEAN /\ req = [t \in Tx |-> "idle"] /\ busy = FALSE
  /\ launched = {} /\ unknown = {} /\ watch = [t \in Tx |-> "off"]
  /\ fails = 0 /\ locked = FALSE /\ tries = 0 /\ planned = {}
  /\ receipt = [t \in Tx |-> "none"] /\ signal = {} /\ helper = [t \in Tx |-> "none"]
  /\ born = {} /\ gateway = TRUE /\ host = TRUE /\ told = {}
  /\ guesses = 0 /\ expiries = 0 /\ crashes = 0

HelperSteps(t) ==
  \/ HelperBegins(t) \/ HelperReady(t) \/ HelperRefuses(t) \/ HelperSignalled(t)
  \/ HelperUnsignalled(t) \/ HostStops(t) \/ StopFails(t) \/ GatewayStopped(t)
  \/ Stopped(t) \/ Deletes(t)

HandlerSteps(t) ==
  \/ LockedOut(t) \/ Compares(t) \/ WrongPassword(t) \/ RightPassword(t)
  \/ LaunchConfirmed(t) \/ LaunchRefused(t) \/ LaunchTimesOut(t)
  \/ SeesReady(t) \/ SeesNoHelper(t) \/ ReadyComesLate(t)
  \/ AnswerFinishes(t) \/ ClientLeaves(t)

Next ==
  \/ \E t \in Tx : \/ Request(t) \/ HandlerSteps(t) \/ NoDirectory(t) \/ UnitStarts(t) \/ HelperSteps(t)
                   \/ MonitorSees(t) \/ MonitorGivesUp(t)
  \/ LockExpires \/ GatewayCrashes \/ GatewayReturns \/ ParentGone

(* Handlers, helper and monitor run on: every wait of theirs has a limit.  *)
Spec ==
  /\ Init /\ [][Next]_vars
  /\ \A t \in Tx : WF_vars(HandlerSteps(t)) /\ WF_vars(HelperSteps(t)) /\ WF_vars(MonitorSees(t))

------------------------------------------------------------------------------
(* Nothing is stopped or deleted unless the main user has been told, to    *)
(* the end of the answer, that it will be: neither a launch that timed out *)
(* nor a failed request nor a late receipt does (admin.ts:639).            *)
DeletesOnlyIfTold ==
  \A t \in Tx : helper[t] \in {"stopping", "deleting"} \/ receipt[t] \in {"partial", "ok"} => t \in told

(* A helper that is there or may still come keeps the lock of the gateway  *)
(* that launched it, whatever that gateway saw of the launch: no two of    *)
(* one gateway work at the same time (admin.ts:655).                       *)
LockCoversHelper ==
  \A t \in born : helper[t] \notin {"none", "over"} => busy /\ \A u \in born \ {t} : helper[u] \in {"none", "over"}

(* The password is compared at most MaxFailed times in a row, and once     *)
(* more for each lock that has run out and each crash that loses a result: *)
(* requests do not pass the lock side by side (auth.ts:293).               *)
GuessesAreCounted == guesses <= MaxFailed + expiries + crashes

(* Once every helper of a gateway has reported its end and no request is   *)
(* under way, its lock is freed; a launch that may still bring one and     *)
(* never does keeps it (admin.ts:448).                                     *)
Reported(t) == req[t] = "idle" \/ receipt[t] \in Final \/ (req[t] = "failed" /\ t \notin launched \cup unknown)

AllReported == gateway /\ \A t \in born : Reported(t)
Freed == ~busy \/ ~gateway
LockIsFreed == AllReported ~> Freed
=============================================================================
