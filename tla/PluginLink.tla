----------------------------- MODULE PluginLink -----------------------------
(***************************************************************************)
(* What the plugin, in the host's process, hands to the gateway process    *)
(* over the loopback: the list of plugins whose routes may be forwarded,   *)
(* published every half a minute, and the cookie the host asks of the      *)
(* gateway, probed and renewed.  Requests are lost, hosts are restarted    *)
(* while an old gateway still holds the port, plugins come and go.         *)
(*                                                                         *)
(* How the gateway is launched is GatewaySupervisor's; here it comes and   *)
(* goes.                                                                   *)
(***************************************************************************)
EXTENDS Naturals, FiniteSets

CONSTANTS
  Plugin,        \* namespaces, streams and paths, the host's own among them
  Official,      \* namespaces and streams of the host, paths of the gateway
  HostPath,      \* the other paths of the host
  Bridge,        \* does the host derive cookies: authenticatedCookie()
  MaxFaults      \* bound: restarts, changes, losses

VARIABLES
  pid,           \* the host's process
  secret,        \* what the host's cookies are made from
  loaded,        \* SUBSET Plugin
  mounted,       \* those this process of the host has ever had loaded
  gate,          \* the gateway: [up, parent, cookie, knows, manifest]
  posts,         \* requests under way: manifests [kind, from, value] and cookies
  polls,         \* is there a timer that probes
  check,         \* refreshInFlight: "idle", "probing", "syncing"
  faults

vars == <<pid, secret, loaded, mounted, gate, posts, polls, check, faults>>

Own == Official \cup HostPath  \* there with every process of the host
NoCookie == 0
NoGate == [up |-> FALSE, parent |-> 0, cookie |-> NoCookie, knows |-> FALSE, manifest |-> {}]
Fault == faults < MaxFaults /\ faults' = faults + 1

------------------------------------------------------------------------------
(* The list of plugins.                                                    *)

(* collectDynamicPluginManifest(): what is mounted now. Of the host's own, *)
(* namespaces and streams are left out, and the paths of this plugin; a    *)
(* path of the host's is listed like that of a plugin.                     *)
Collected == loaded \ Official

Manifests(p) == {m \in posts : m.kind = "manifest" /\ m.from = p}

(* startPluginManifestSync(): a request lives three seconds, the next      *)
(* comes after thirty.                                                     *)
Publish ==
  /\ Manifests(pid) = {}
  /\ posts' = posts \cup {[kind |-> "manifest", from |-> pid, value |-> Collected]}
  /\ UNCHANGED <<pid, secret, loaded, mounted, gate, polls, check, faults>>

(* Slip: anybody with the secret may set the list.                         *)
TakesAnyManifest(m) == [gate EXCEPT !.knows = TRUE, !.manifest = m.value \ Official]

(* /gateway/internal/plugin-manifest: not from another host's process, and *)
(* what it may not hold is left out once more.                             *)
TakesManifest(m) ==
  IF m.from = gate.parent THEN [gate EXCEPT !.knows = TRUE, !.manifest = m.value \ Official] ELSE gate

ManifestArrives ==
  \E m \in posts :
    /\ m.kind = "manifest" /\ posts' = posts \ {m}
    /\ gate' = IF gate.up THEN TakesManifest(m) ELSE gate
    /\ UNCHANGED <<pid, secret, loaded, mounted, polls, check, faults>>

------------------------------------------------------------------------------
(* The cookie.                                                             *)

(* deriveDshBrowserCookie(): of a host on the loopback; may be called      *)
(* again and again.                                                        *)
Derived == secret

(* exchangeDshBrowserCookie(): derived, or had for the token of the launch;*)
(* without one of the right name the gateway is not launched.              *)
Exchanged == Derived

(* startCookiePolling(): only where a cookie can be derived again.         *)
StartsPolling == polls' = Bridge

Launched ==
  /\ ~gate.up
  /\ gate' = [up |-> TRUE, parent |-> pid, cookie |-> Exchanged, knows |-> FALSE, manifest |-> {}]
  /\ StartsPolling
  /\ UNCHANGED <<pid, secret, loaded, mounted, posts, check, faults>>

(* An effect that finds the gateway of its own process: refreshCookie().   *)
Reuses ==
  /\ gate.up /\ gate.parent = pid /\ ~polls /\ Bridge /\ check = "idle"
  /\ gate' = [gate EXCEPT !.cookie = Derived]
  /\ StartsPolling
  /\ UNCHANGED <<pid, secret, loaded, mounted, posts, check, faults>>

(* One probe at a time, every fifteen seconds.                             *)
Probe ==
  /\ polls /\ check = "idle" /\ check' = "probing"
  /\ UNCHANGED <<pid, secret, loaded, mounted, gate, posts, polls, faults>>

(* /gateway/internal/upstream-auth/health: the host is asked with it.      *)
Healthy == gate.up /\ gate.cookie = secret

(* probeGatewayBrowserCookie() says so, or the cookie is renewed.          *)
Probed ==
  /\ check = "probing"
  /\ IF Healthy THEN check' = "idle" /\ UNCHANGED posts
     ELSE /\ check' = "syncing"
          /\ posts' = posts \cup {[kind |-> "cookie", from |-> pid, value |-> {Derived}]}
  /\ UNCHANGED <<pid, secret, loaded, mounted, gate, polls, faults>>

ProbeFails ==
  /\ check = "probing" /\ Fault
  /\ check' \in {"idle", "syncing"}
  /\ posts' = IF check' = "syncing" THEN posts \cup {[kind |-> "cookie", from |-> pid, value |-> {Derived}]} ELSE posts
  /\ UNCHANGED <<pid, secret, loaded, mounted, gate, polls>>

(* Slip: the promise of a check is not let go.                             *)
SyncedOnce(m) == UNCHANGED check

(* syncGatewayBrowserCookie() resolves: the next check may begin.          *)
Synced(m) == IF m.from = pid THEN check' = "idle" ELSE UNCHANGED check

(* /gateway/internal/upstream-auth: the secret is asked for, not the owner.*)
CookieArrives ==
  \E m \in posts :
    /\ m.kind = "cookie" /\ posts' = posts \ {m}
    /\ gate' = IF gate.up THEN [gate EXCEPT !.cookie = CHOOSE c \in m.value : TRUE] ELSE gate
    /\ Synced(m)
    /\ UNCHANGED <<pid, secret, loaded, mounted, polls, faults>>

------------------------------------------------------------------------------
(* A request is lost, or its answer is.                                    *)
Lost ==
  /\ Fault
  /\ \E m \in posts :
       /\ posts' = posts \ {m}
       /\ IF m.kind = "cookie" THEN Synced(m) ELSE UNCHANGED check
  /\ UNCHANGED <<pid, secret, loaded, mounted, gate, polls>>

(* The gateway exits, of itself or by its watchdog; the effect notices.    *)
GatewayGoes ==
  /\ gate.up /\ (gate.parent = pid => faults < MaxFaults)
  /\ faults' = IF gate.parent = pid THEN faults + 1 ELSE faults
  /\ gate' = NoGate /\ polls' = FALSE
  /\ UNCHANGED <<pid, secret, loaded, mounted, posts, check>>

(* The plugin's effect is disposed of and loaded again: its timer stops.   *)
Reload == Fault /\ polls' = FALSE /\ UNCHANGED <<pid, secret, loaded, mounted, gate, posts, check>>

(* What a host that ends has sent may still arrive.                        *)
HostRestarts ==
  /\ Fault /\ pid' = pid + 1 /\ secret' = secret + 1
  /\ polls' = FALSE /\ check' = "idle"
  /\ loaded' \in {Plugin, Own} /\ mounted' = loaded'
  /\ UNCHANGED <<gate, posts>>

Rotates == Fault /\ secret' = secret + 1 /\ UNCHANGED <<pid, loaded, mounted, gate, posts, polls, check>>

Mounts ==
  /\ Fault
  /\ \E p \in Plugin \ Own : loaded' = IF p \in loaded THEN loaded \ {p} ELSE loaded \cup {p}
  /\ mounted' = mounted \cup loaded'
  /\ UNCHANGED <<pid, secret, gate, posts, polls, check>>

Init ==
  /\ pid = 1 /\ secret = 1 /\ loaded \in {Plugin, Own} /\ mounted = loaded /\ gate = NoGate
  /\ posts = {} /\ polls = FALSE /\ check = "idle" /\ faults = 0

Plugs == Publish \/ ManifestArrives
Cookies == Launched \/ Reuses \/ Probe \/ Probed \/ CookieArrives
Ends == GatewayGoes
Faulty == ProbeFails \/ Lost \/ Reload \/ HostRestarts \/ Rotates \/ Mounts

Next == Plugs \/ Cookies \/ Ends \/ Faulty

(* Intervals go on, requests come to an end, a gateway is launched, and    *)
(* one whose host is gone leaves.                                          *)
OldGatewayGoes == gate.parent # pid /\ GatewayGoes
Fairness ==
  /\ WF_vars(Publish) /\ WF_vars(ManifestArrives)
  /\ WF_vars(Launched) /\ WF_vars(Reuses) /\ WF_vars(Probe) /\ WF_vars(Probed) /\ WF_vars(CookieArrives)
  /\ WF_vars(OldGatewayGoes)

Spec == Init /\ [][Next]_vars /\ Fairness

------------------------------------------------------------------------------
(* The gateway of the host that runs forwards to nothing as a plugin's     *)
(* that this host never mounted, nor to the host's own namespaces: what an *)
(* older host sent before it ended does not count (gateway.ts:1501).       *)
PluginsOfItsHost == gate.up /\ gate.parent = pid => gate.manifest \subseteq mounted \ Official

(* Whatever is lost, restarted or mounted on the way, in the end the       *)
(* gateway of the host that runs has its list of plugins, and, where the   *)
(* host can derive it, a cookie the host takes (plugin.ts:798).            *)
Linked ==
  gate.up /\ gate.parent = pid /\ gate.manifest = loaded \ Official /\ (Bridge => gate.cookie = secret)
LinkConverges == <>[]Linked
=============================================================================
