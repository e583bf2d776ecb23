-------------------------- MODULE GatewaySupervisor --------------------------
(***************************************************************************)
(* How the plugin keeps the gateway process running (startGateway): one    *)
(* effect per loading of the plugin launches it, adopts one that its dsh   *)
(* process owns already, waits for an older one to leave the port, retries *)
(* and stops.  A reload of the plugin disposes of an effect whose awaits   *)
(* go on in the same process; a restart of dsh ends the process, and its   *)
(* gateway only when it was told to, or by its own watchdog.               *)
(*                                                                         *)
(* A handler is cut at its awaits; delays are left out.                    *)
(***************************************************************************)
EXTENDS Integers, FiniteSets

CONSTANTS
  MaxEffects,    \* bound: loadings of the plugin
  MaxSpawns,     \* bound: gateway processes
  MaxFaults,     \* bound: exits, failed calls, changes of the environment
  MaxDrift       \* GATEWAY_CONFIG_DRIFT_MAX_RETRIES

(* The plugin is loaded at least once.                                     *)
SupervisorAssumption == MaxEffects \in Nat \ {0} /\ MaxSpawns \in Nat

Effect == 1 .. MaxEffects
Gateway == 1 .. MaxSpawns
None == 0

VARIABLES
  current,       \* the effect loaded last
  pid,           \* the dsh process that runs
  of,            \* per effect, its dsh process
  disposed,      \* per effect
  at,            \* per effect, the await launch() is in
  child,         \* per effect, the gateway it holds
  adopted,       \* per effect, the gateway it reuses
  retry, drift,  \* per effect, its timers
  drifts,        \* per effect, driftRetries
  stopped,       \* per effect: it reported that it will not try again
  gate,          \* per gateway: new, starting, up, stopping, gone
  parent,        \* per gateway, DSH_GATEWAY_PARENT_PID
  config,        \* the deployment file: same, drifted, unreadable
  foreign,       \* a program of somebody else's holds the port
  faults

launching == <<at, child, adopted, retry, drift, drifts, stopped>>
loading == <<current, pid, of, disposed>>
gates == <<gate, parent>>
outside == <<config, foreign, faults>>
vars == <<launching, loading, gates, outside>>

Live(g) == g # None /\ gate[g] \in {"starting", "up", "stopping"}
Holding == {g \in Gateway : gate[g] \in {"up", "stopping"}}
PortFree == Holding = {} /\ ~foreign
Runs(e) == e <= current /\ of[e] = pid       \* the process of the effect is there
Active(e) == Runs(e) /\ ~disposed[e]

Fault == faults < MaxFaults /\ faults' = faults + 1
Goes(e, step) == at' = [at EXCEPT ![e] = step]
Set(f, e, v) == [f EXCEPT ![e] = v]

------------------------------------------------------------------------------
(* scheduleRetry(), and the end of launch() that goes with it.             *)
RetryLater(e) == retry' = Set(retry, e, TRUE) /\ Goes(e, "idle")

(* launch() from a timer                                                   *)
Begin(e) == IF at[e] = "idle" /\ ~Live(child[e]) THEN Goes(e, "healthz") ELSE UNCHANGED at

Timer(e) ==
  /\ Active(e)
  /\ \/ retry[e] /\ retry' = Set(retry, e, FALSE) /\ UNCHANGED drift
     \/ drift[e] /\ drift' = Set(drift, e, FALSE) /\ UNCHANGED retry
  /\ Begin(e)
  /\ UNCHANGED <<child, adopted, drifts, stopped, loading, gates, outside>>

(* Every await of launch() returns at once in an effect disposed of.       *)
Abandon(e) ==
  /\ Runs(e) /\ disposed[e] /\ at[e] # "idle"
  /\ Goes(e, "idle")
  /\ UNCHANGED <<child, adopted, retry, drift, drifts, stopped, loading, gates, outside>>

(* A gateway that is stopping may still answer.                            *)
Healthz(e) ==
  /\ Active(e) /\ at[e] = "healthz"
  /\ \/ Holding # {} /\ Goes(e, "owner")
     \/ (\A g \in Gateway : gate[g] # "up") /\ Goes(e, "port")
  /\ UNCHANGED <<child, adopted, retry, drift, drifts, stopped, loading, gates, outside>>

Owner(e) ==
  /\ Active(e) /\ at[e] = "owner"
  /\ IF \E g \in Holding : parent[g] = pid THEN Goes(e, "cookie") ELSE Goes(e, "port")
  /\ UNCHANGED <<child, adopted, retry, drift, drifts, stopped, loading, gates, outside>>

(* refreshCookie(): the gateway of this process is reused, or tried again. *)
Cookie(e) ==
  /\ Active(e) /\ at[e] = "cookie"
  /\ \/ /\ \E g \in Holding : parent[g] = pid /\ adopted' = Set(adopted, e, g)
        /\ Goes(e, "idle") /\ UNCHANGED <<retry, outside>>
     \/ /\ IF Holding = {} THEN UNCHANGED faults ELSE Fault
        /\ RetryLater(e) /\ UNCHANGED <<adopted, config, foreign>>
  /\ UNCHANGED <<child, drift, drifts, stopped, loading, gates>>

(* waitForGatewayPortFree()                                                *)
Port(e) ==
  /\ Active(e) /\ at[e] = "port"
  /\ \/ PortFree /\ Goes(e, "exchange") /\ UNCHANGED retry
     \/ ~PortFree /\ RetryLater(e)
  /\ UNCHANGED <<child, adopted, drift, drifts, stopped, loading, gates, outside>>

(* handleConfigDrift()                                                     *)
Drifted(e) ==
  /\ drifts' = Set(drifts, e, drifts[e] + 1)
  /\ IF drifts[e] + 1 > MaxDrift
       THEN stopped' = Set(stopped, e, TRUE) /\ UNCHANGED drift
       ELSE drift' = Set(drift, e, TRUE) /\ UNCHANGED stopped

Spawn(e) ==
  \E g \in Gateway :
    /\ gate[g] = "new"
    /\ (\A h \in 1 .. g - 1 : gate[h] # "new")
    /\ gate' = Set(gate, g, "starting") /\ parent' = Set(parent, g, pid)
    /\ child' = Set(child, e, g)
    /\ drifts' = Set(drifts, e, 0)

(* The cookie is exchanged, the deployment file read, the child spawned.   *)
Exchange(e) ==
  /\ Active(e) /\ at[e] = "exchange"
  /\ \/ /\ Fault /\ RetryLater(e)
        /\ UNCHANGED <<child, drift, drifts, stopped, gates, config, foreign>>
     \/ /\ config = "drifted" /\ Drifted(e) /\ Goes(e, "idle")
        /\ UNCHANGED <<child, retry, gates, outside>>
     \/ /\ config = "unreadable" /\ stopped' = Set(stopped, e, TRUE) /\ Goes(e, "idle")
        /\ UNCHANGED <<child, retry, drift, drifts, gates, outside>>
     \/ /\ config = "same" /\ Spawn(e) /\ Goes(e, "idle")
        /\ UNCHANGED <<retry, drift, stopped, outside>>
  /\ UNCHANGED <<adopted, loading>>

------------------------------------------------------------------------------
(* The exit handler of the effect that holds it. Slip: only an exit that   *)
(* is not permanent gives the child up.                                    *)
NoticedLate(g, permanent) ==
  /\ child' = [e \in Effect |-> IF child[e] = g /\ ~permanent THEN None ELSE child[e]]
  /\ retry' = [e \in Effect |-> retry[e] \/ (child[e] = g /\ Active(e) /\ permanent)]
  /\ stopped' = stopped

Noticed(g, permanent) ==
  /\ child' = [e \in Effect |-> IF child[e] = g /\ Runs(e) THEN None ELSE child[e]]
  /\ retry' = [e \in Effect |-> retry[e] \/ (child[e] = g /\ Active(e) /\ ~permanent)]
  /\ stopped' = [e \in Effect |-> stopped[e] \/ (child[e] = g /\ Active(e) /\ permanent)]

Exit(g, permanent) ==
  /\ gate' = Set(gate, g, "gone") /\ Noticed(g, permanent)
  /\ UNCHANGED <<at, adopted, drift, drifts, parent, loading>>

(* It binds the port, or finds it taken: EXIT_PORT_BUSY is permanent.      *)
Listen(g) ==
  /\ gate[g] = "starting"
  /\ \/ PortFree /\ gate' = Set(gate, g, "up") /\ UNCHANGED <<launching, loading, parent>>
     \/ ~PortFree /\ Exit(g, TRUE)
  /\ UNCHANGED outside

Fails(g) ==
  /\ gate[g] \in {"starting", "up"} /\ Fault
  /\ \E permanent \in BOOLEAN : Exit(g, permanent)
  /\ UNCHANGED <<config, foreign>>

(* It was told to stop and is killed after three seconds; its watchdog     *)
(* finds its dsh process gone.                                             *)
Stop(g) ==
  /\ \/ gate[g] = "stopping"
     \/ gate[g] \in {"starting", "up"} /\ parent[g] # pid
  /\ Exit(g, FALSE) /\ UNCHANGED outside

------------------------------------------------------------------------------
(* The disposal of an effect. Slip: it forgets the child.                  *)
DisposeKeepsChild(e) == disposed' = Set(disposed, e, TRUE) /\ UNCHANGED gate
Dispose(e) ==
  /\ disposed' = Set(disposed, e, TRUE)
  /\ gate' = IF Live(child[e]) THEN Set(gate, child[e], "stopping") ELSE gate

Load(e, inProcess) ==
  /\ current' = e /\ pid' = inProcess /\ of' = Set(of, e, inProcess)
  /\ at' = Set(at, e, "healthz")
  /\ retry' = Set(retry, e - 1, FALSE) /\ drift' = Set(drift, e - 1, FALSE)
  /\ UNCHANGED <<child, adopted, drifts, stopped, parent, outside>>

Reload ==
  /\ current < MaxEffects
  /\ Dispose(current) /\ Load(current + 1, pid)

(* dsh ends, in order or killed, and a new one loads the plugin.           *)
RestartDsh ==
  /\ current < MaxEffects
  /\ \/ Dispose(current)
     \/ UNCHANGED <<disposed, gate>>
  /\ Load(current + 1, pid + 1)

(* The deployment file is edited; another program takes or leaves the port.*)
Edit ==
  /\ Fault /\ config' \in {"same", "drifted", "unreadable"} \ {config}
  /\ UNCHANGED <<launching, loading, gates, foreign>>

Intrude ==
  /\ Fault /\ Holding = {} /\ ~foreign /\ foreign' = TRUE
  /\ UNCHANGED <<launching, loading, gates, config>>

Leave ==
  /\ foreign /\ foreign' = FALSE
  /\ UNCHANGED <<launching, loading, gates, config, faults>>

Init ==
  /\ current = 1 /\ pid = 1 /\ faults = 0
  /\ of = [e \in Effect |-> IF e = 1 THEN 1 ELSE 0]
  /\ disposed = [e \in Effect |-> FALSE] /\ retry = disposed /\ drift = disposed /\ stopped = disposed
  /\ at = [e \in Effect |-> IF e = 1 THEN "healthz" ELSE "idle"]
  /\ child = [e \in Effect |-> None] /\ adopted = child /\ drifts = [e \in Effect |-> 0]
  /\ gate = [g \in Gateway |-> "new"] /\ parent = [g \in Gateway |-> 0]
  /\ config = "same" /\ foreign \in BOOLEAN

Step(e) == Timer(e) \/ Healthz(e) \/ Owner(e) \/ Cookie(e) \/ Port(e) \/ Exchange(e)

Next ==
  \/ \E e \in Effect : Step(e) \/ Abandon(e)
  \/ \E g \in Gateway : Listen(g) \/ Fails(g) \/ Stop(g)
  \/ Reload \/ RestartDsh \/ Edit \/ Intrude \/ Leave

Spec == Init /\ [][Next]_vars

(* Timers fire, awaits return, a process told to stop is gone in the end,  *)
(* and whoever else holds the port leaves it.                              *)
FairSpec ==
  /\ Spec
  /\ \A e \in Effect : WF_vars(Step(e))
  /\ \A g \in Gateway : WF_vars(Listen(g)) /\ WF_vars(Stop(g))
  /\ WF_vars(Leave)

------------------------------------------------------------------------------
(* However launches, retries, exits, reloads and restarts interleave, no   *)
(* gateway is left that nobody holds: each is the child of an effect in    *)
(* force, or is on its way out.                                            *)
NoStray ==
  \A g \in Gateway : gate[g] \in {"starting", "up"} =>
    \/ parent[g] # pid
    \/ Active(current) /\ child[current] = g

(* Once faults are over an effect in force does not forget to try: in the  *)
(* end a gateway of its own runs, it reuses one of its own process, or it  *)
(* has reported that it gave up.  (Bound: or no process is left to spawn.) *)
Served ==
  \/ Live(child[current]) \/ stopped[current]
  \/ adopted[current] # None /\ parent[adopted[current]] = pid
  \/ \A g \in Gateway : gate[g] # "new"
ServedInTheEnd == <>[]Served

(* A gateway that an effect reuses instead of launching its own is not one *)
(* about to leave: nobody watches it, so nothing would replace it.         *)
AdoptedStays ==
  adopted[current] # None => gate[adopted[current]] # "gone"

==============================================================================
