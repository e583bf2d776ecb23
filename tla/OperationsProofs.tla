--------------------------- MODULE OperationsProofs ---------------------------
(***************************************************************************)
(* Theorems about the modules of the suite MCOperations, for every value   *)
(* of their constants.  They share no state, so each invariant is of the   *)
(* form "if this behaviour is of that part, then ...", and a step of       *)
(* another part leaves it true.                                            *)
(***************************************************************************)
EXTENDS MCOperations, FiniteSetTheorems, TLAPS

(* The part is chosen once.                                                *)
LEMMA PartStays == [Next]_suiteVars => part' = part
<1> USE DEF Next, suiteVars, SwapSteps, EngineSteps, SettingSteps, SupervisorSteps, LinkSteps, SavesSteps
<1>1. QED OBVIOUS

------------------------------------------------------------------------------
(* PluginLink.                                                             *)

pid == x1
loaded == x3
mounted == x4
gate == x5
posts == x6

LinkVars == <<x1, x2, x3, x4, x5, x6, x7, x8, x9>>

(* A list that counts was sent by the host that runs, about what it has    *)
(* mounted; nothing comes from a host that is not there yet.               *)
NoneAhead == pid \in Nat /\ \A m \in posts : m.from \in Nat /\ m.from <= pid
Gated == DOMAIN gate = DOMAIN Link!NoGate /\ gate.parent \in Nat /\ gate.parent <= pid
PostsMounted == \A m \in posts : m.kind = "manifest" /\ m.from = pid => m.value \subseteq mounted
LinkInv ==
  /\ NoneAhead /\ Gated /\ PostsMounted
  /\ loaded \subseteq mounted
  /\ Link!PluginsOfItsHost

LEMMA LinkInit ==
  ASSUME Link!Init PROVE LinkInv
  BY DEF Link!Init, LinkInv, NoneAhead, Gated, PostsMounted, Link!NoGate, Link!PluginsOfItsHost, pid, loaded,
     mounted, gate, posts

(* What moves requests and nothing else.                                   *)
LEMMA PostsFewer ==
  ASSUME LinkInv, UNCHANGED <<pid, loaded, mounted, gate>>, NEW m,
         posts' \subseteq posts \cup {m}, m \notin posts => m.from = pid /\ (m.kind = "manifest" => m.value \subseteq mounted)
  PROVE  LinkInv'
<1> USE DEF LinkInv
<1>1. NoneAhead' /\ PostsMounted'
  BY DEF NoneAhead, PostsMounted
<1>2. Gated' /\ Link!PluginsOfItsHost'
  BY DEF Gated, Link!PluginsOfItsHost, gate, pid, mounted
<1>3. QED BY <1>1, <1>2

LEMMA LinkRests ==
  ASSUME LinkInv, UNCHANGED <<pid, loaded, mounted, gate, posts>> PROVE LinkInv'
  BY DEF LinkInv, NoneAhead, Gated, PostsMounted, Link!PluginsOfItsHost, pid, loaded, mounted, gate, posts

LEMMA PublishKeeps ==
  ASSUME LinkInv, Link!Publish PROVE LinkInv'
<1>1. PICK m : m = [kind |-> "manifest", from |-> pid, value |-> Link!Collected]
  OBVIOUS
<1>2. m.from = pid /\ m.value = Link!Collected /\ m.value \subseteq mounted
  BY <1>1 DEF Link!Collected, LinkInv, loaded
<1>3. posts' = posts \cup {m} /\ UNCHANGED <<pid, loaded, mounted, gate>>
  BY <1>1 DEF Link!Publish, posts, pid, loaded, mounted, gate
<1>4. QED BY <1>2, <1>3, PostsFewer

(* A list sent by an older host does not count.                            *)
LEMMA ManifestArrivesKeeps ==
  ASSUME LinkInv, Link!ManifestArrives PROVE LinkInv'
<1>1. PICK m \in posts : m.kind = "manifest" /\ posts' = posts \ {m}
                         /\ gate' = (IF gate.up THEN Link!TakesManifest(m) ELSE gate)
                         /\ UNCHANGED <<pid, loaded, mounted>>
  BY DEF Link!ManifestArrives, posts, pid, loaded, mounted, gate
<1>2. NoneAhead' /\ PostsMounted' /\ loaded' \subseteq mounted'
  BY <1>1 DEF LinkInv, NoneAhead, PostsMounted
<1>3. \/ gate' = gate
      \/ m.from = gate.parent /\ gate' = [gate EXCEPT !.knows = TRUE, !.manifest = m.value \ Official]
  BY <1>1 DEF Link!TakesManifest, gate
<1>4. CASE gate' = gate
  BY <1>1, <1>2, <1>4 DEF LinkInv, Gated, Link!PluginsOfItsHost, gate, pid, mounted
<1>5. CASE m.from = gate.parent /\ gate' = [gate EXCEPT !.knows = TRUE, !.manifest = m.value \ Official]
  <2>1. /\ DOMAIN gate' = DOMAIN gate /\ gate'.parent = gate.parent /\ gate'.up = gate.up
        /\ gate'.manifest = m.value \ Official
    BY <1>5 DEF LinkInv, Gated, Link!NoGate
  <2>2. gate.parent = pid => m.value \subseteq mounted
    BY <1>1, <1>5 DEF LinkInv, PostsMounted
  <2>3. Gated' /\ Link!PluginsOfItsHost'
    BY <1>1, <2>1, <2>2 DEF LinkInv, Gated, Link!PluginsOfItsHost, gate, pid, mounted
  <2>4. QED BY <1>2, <2>3 DEF LinkInv
<1>6. QED BY <1>3, <1>4, <1>5

LEMMA CookieKeeps ==
  ASSUME LinkInv, UNCHANGED <<pid, loaded, mounted>>, posts' \subseteq posts,
         NEW c, gate' = [gate EXCEPT !.cookie = c]
  PROVE  LinkInv'
<1>1. NoneAhead' /\ PostsMounted' /\ loaded' \subseteq mounted'
  BY DEF LinkInv, NoneAhead, PostsMounted
<1>2. /\ DOMAIN gate' = DOMAIN gate /\ gate'.parent = gate.parent /\ gate'.up = gate.up
      /\ gate'.manifest = gate.manifest
  BY DEF LinkInv, Gated, Link!NoGate
<1>3. Gated' /\ Link!PluginsOfItsHost'
  BY <1>2 DEF LinkInv, Gated, Link!PluginsOfItsHost, gate, pid, mounted
<1>4. QED BY <1>1, <1>3 DEF LinkInv

LEMMA CookiesKeep ==
  ASSUME LinkInv, Link!Cookies PROVE LinkInv'
<1>1. CASE Link!Launched
  <2>1. gate' = [up |-> TRUE, parent |-> pid, cookie |-> Link!Exchanged, knows |-> FALSE, manifest |-> {}]
        /\ UNCHANGED <<pid, loaded, mounted, posts>>
    BY <1>1 DEF Link!Launched, gate, pid, loaded, mounted, posts
  <2>2. Gated' /\ Link!PluginsOfItsHost'
    BY <2>1 DEF LinkInv, Gated, NoneAhead, Link!NoGate, Link!PluginsOfItsHost, gate
  <2>3. QED BY <2>1, <2>2 DEF LinkInv, NoneAhead, PostsMounted
<1>2. CASE Link!Reuses
  <2>1. /\ gate' = [gate EXCEPT !.cookie = Link!Derived] /\ posts' \subseteq posts
        /\ UNCHANGED <<pid, loaded, mounted>>
    BY <1>2 DEF Link!Reuses, gate, pid, loaded, mounted, posts
  <2>2. QED BY <2>1, CookieKeeps
<1>3. CASE Link!Probe
  BY <1>3, LinkRests DEF Link!Probe, gate, pid, loaded, mounted, posts
<1>4. CASE Link!Probed
  <2>1. PICK m : m = [kind |-> "cookie", from |-> pid, value |-> {Link!Derived}]
    OBVIOUS
  <2>2. m.from = pid /\ m.kind # "manifest"
    BY <2>1
  <2>3. posts' \subseteq posts \cup {m} /\ UNCHANGED <<pid, loaded, mounted, gate>>
    BY <1>4, <2>1 DEF Link!Probed, gate, pid, loaded, mounted, posts
  <2>4. QED BY <2>2, <2>3, PostsFewer
<1>5. CASE Link!CookieArrives
  <2>1. PICK m \in posts : /\ posts' = posts \ {m} /\ UNCHANGED <<pid, loaded, mounted>>
                           /\ gate' = IF gate.up THEN [gate EXCEPT !.cookie = CHOOSE c \in m.value : TRUE] ELSE gate
    BY <1>5 DEF Link!CookieArrives, gate, pid, loaded, mounted, posts
  <2>2. CASE gate' = gate
    BY <2>1, <2>2, PostsFewer
  <2>3. CASE gate' # gate
    BY <2>1, <2>3, CookieKeeps
  <2>4. QED BY <2>2, <2>3
<1>6. QED BY <1>1, <1>2, <1>3, <1>4, <1>5 DEF Link!Cookies

LEMMA EndsKeep ==
  ASSUME LinkInv, Link!GatewayGoes PROVE LinkInv'
<1>1. gate' = Link!NoGate /\ UNCHANGED <<pid, loaded, mounted, posts>>
  BY DEF Link!GatewayGoes, gate, pid, loaded, mounted, posts
<1>2. Gated' /\ Link!PluginsOfItsHost'
  BY <1>1 DEF LinkInv, Gated, NoneAhead, Link!NoGate, Link!PluginsOfItsHost, gate
<1>3. QED BY <1>1, <1>2 DEF LinkInv, NoneAhead, PostsMounted

LEMMA FaultyKeep ==
  ASSUME LinkInv, Link!Faulty PROVE LinkInv'
<1>1. CASE Link!ProbeFails
  <2>1. PICK m : m = [kind |-> "cookie", from |-> pid, value |-> {Link!Derived}]
    OBVIOUS
  <2>2. m.from = pid /\ m.kind # "manifest"
    BY <2>1
  <2>3. posts' \subseteq posts \cup {m} /\ UNCHANGED <<pid, loaded, mounted, gate>>
    BY <1>1, <2>1 DEF Link!ProbeFails, gate, pid, loaded, mounted, posts
  <2>4. QED BY <2>2, <2>3, PostsFewer
<1>2. CASE Link!Lost
  <2>1. PICK m \in posts : posts' = posts \ {m} /\ UNCHANGED <<pid, loaded, mounted, gate>>
    BY <1>2 DEF Link!Lost, gate, pid, loaded, mounted, posts
  <2>2. QED BY <2>1, PostsFewer
<1>3. CASE Link!Reload \/ Link!Rotates
  BY <1>3, LinkRests DEF Link!Reload, Link!Rotates, gate, pid, loaded, mounted, posts
<1>4. CASE Link!HostRestarts
  <2>1. pid' = pid + 1 /\ loaded' \subseteq mounted' /\ UNCHANGED <<gate, posts>>
    BY <1>4 DEF Link!HostRestarts, gate, pid, loaded, mounted, posts
  <2>2. NoneAhead' /\ PostsMounted' /\ Gated' /\ gate'.parent # pid'
    BY <2>1 DEF LinkInv, NoneAhead, PostsMounted, Gated
  <2>3. Link!PluginsOfItsHost'
    BY <2>2 DEF Link!PluginsOfItsHost, gate, pid
  <2>4. QED BY <2>1, <2>2, <2>3 DEF LinkInv
<1>5. CASE Link!Mounts
  <2>1. loaded' \subseteq mounted' /\ mounted \subseteq mounted' /\ UNCHANGED <<pid, gate, posts>>
    BY <1>5 DEF Link!Mounts, gate, pid, loaded, mounted, posts
  <2>2. Link!PluginsOfItsHost'
    BY <2>1 DEF LinkInv, Link!PluginsOfItsHost, gate, pid, mounted
  <2>3. QED BY <2>1, <2>2 DEF LinkInv, NoneAhead, PostsMounted, Gated
<1>6. QED BY <1>1, <1>2, <1>3, <1>4, <1>5 DEF Link!Faulty

(* The gateway of the host that runs forwards as a plugin's only what this *)
(* host has mounted, and none of the host's own namespaces: what an older  *)
(* host sent before it ended does not count (gateway.ts:1501).             *)
THEOREM OnlyItsHostsPlugins == Spec => []PluginsOfItsHost
<1> DEFINE Inv == part = "link" => LinkInv
<1>1. Init => Inv
  BY LinkInit DEF Init
<1>2. Inv /\ [Next]_suiteVars => Inv'
  <2>1. SUFFICES ASSUME LinkInv, [Next]_suiteVars, part = "link" PROVE LinkInv'
    BY PartStays
  <2>2. [Link!Next]_LinkVars
    BY <2>1 DEF Next, suiteVars, LinkVars, SwapSteps, EngineSteps, SettingSteps, SupervisorSteps, LinkSteps, SavesSteps
  <2>3. CASE UNCHANGED LinkVars
    BY <2>1, <2>3, LinkRests DEF LinkVars, gate, pid, loaded, mounted, posts
  <2>4. CASE Link!Next
    BY <2>1, <2>4, PublishKeeps, ManifestArrivesKeeps, CookiesKeep, EndsKeep, FaultyKeep
       DEF Link!Next, Link!Plugs, Link!Ends
  <2>5. QED BY <2>2, <2>3, <2>4
<1>3. Inv => PluginsOfItsHost
  BY DEF PluginsOfItsHost, LinkInv
<1> HIDE DEF Inv
<1>4. QED BY <1>1, <1>2, <1>3, PTL DEF Spec

------------------------------------------------------------------------------
(* GatewaySupervisor.                                                      *)

current == x1
dsh == x2       \* the dsh process that runs
of == x3
disposed == x4
at == x5
child == x6
running == x12  \* per gateway
parent == x13

SupervisorVars == <<x1, x2, x3, x4, x5, x6, x7, x8, x9, x10, x11, x12, x13, x14, x15, x16>>

Effects == 1 .. MaxEffects
Gateways == 1 .. MaxSpawns
States == {"new", "starting", "up", "stopping", "gone"}
Awaits == {"idle", "healthz", "owner", "cookie", "port", "exchange"}

LoadsTyped ==
  /\ current \in Effects /\ dsh \in Nat /\ of \in [Effects -> Nat] /\ disposed \in [Effects -> BOOLEAN]
  /\ at \in [Effects -> Awaits] /\ child \in [Effects -> Gateways \cup {0}]
GatesTyped == running \in [Gateways -> States] /\ parent \in [Gateways -> Nat]

(* The effect loaded last is the only one in force.                        *)
OneInForce ==
  /\ of[current] = dsh /\ ~disposed[current]
  /\ \A e \in Effects : e < current => of[e] < dsh \/ (of[e] = dsh /\ disposed[e])
  /\ \A e \in Effects : e > current => child[e] = 0 /\ ~disposed[e]

(* What is held was launched, for a process there has been; and a launch   *)
(* goes on only while nothing is held that lives.                          *)
HeldLaunched == \A e \in Effects : child[e] # 0 => running[child[e]] # "new"
NoParentAhead == \A g \in Gateways : parent[g] <= dsh
LaunchesOne == at[current] # "idle" => ~Supervisor!Live(child[current])

SupervisorInv ==
  /\ LoadsTyped /\ GatesTyped
  /\ OneInForce /\ HeldLaunched /\ NoParentAhead /\ LaunchesOne
  /\ Supervisor!NoStray

LEMMA SupervisorConstants ==
  /\ MaxEffects \in Nat \ {0} /\ MaxSpawns \in Nat
  /\ Supervisor!Effect = Effects /\ Supervisor!Gateway = Gateways /\ Supervisor!None = 0
  BY SupervisorFits DEF Supervisor!SupervisorAssumption, Supervisor!Effect, Supervisor!Gateway, Supervisor!None,
     Effects, Gateways

LEMMA InForce ==
  ASSUME LoadsTyped, OneInForce, NEW e \in Effects, Supervisor!Active(e)
  PROVE  e = current
  BY DEF LoadsTyped, OneInForce, Supervisor!Active, Supervisor!Runs, current, dsh, of, disposed, Effects

LEMMA CurrentActive ==
  ASSUME LoadsTyped, OneInForce PROVE Supervisor!Active(current)
  BY DEF LoadsTyped, OneInForce, Supervisor!Active, Supervisor!Runs, current, dsh, of, disposed, Effects

LEMMA SupervisorInit ==
  ASSUME Supervisor!Init PROVE SupervisorInv
<1> USE SupervisorConstants
<1>1. /\ current = 1 /\ dsh = 1
      /\ of = [e \in Effects |-> IF e = 1 THEN 1 ELSE 0]
      /\ disposed = [e \in Effects |-> FALSE]
      /\ at = [e \in Effects |-> IF e = 1 THEN "healthz" ELSE "idle"]
      /\ child = [e \in Effects |-> 0]
      /\ running = [g \in Gateways |-> "new"] /\ parent = [g \in Gateways |-> 0]
  BY DEF Supervisor!Init, current, dsh, of, disposed, at, child, running, parent
<1>2. 1 \in Effects
  BY DEF Effects
<1>3. LoadsTyped /\ GatesTyped
  BY <1>1, <1>2 DEF LoadsTyped, GatesTyped, Awaits, States
<1>4. OneInForce /\ HeldLaunched /\ NoParentAhead
  BY <1>1, <1>2 DEF OneInForce, HeldLaunched, NoParentAhead, Effects
<1>5. LaunchesOne /\ Supervisor!NoStray
  BY <1>1, <1>2 DEF LaunchesOne, Supervisor!Live, Supervisor!NoStray, running
<1>6. QED BY <1>3, <1>4, <1>5 DEF SupervisorInv

(* A step that launches nothing and lets nothing go.                       *)
LEMMA OnlyAwaits ==
  ASSUME SupervisorInv, UNCHANGED <<current, dsh, of, disposed, child, running, parent>>,
         at' \in [Effects -> Awaits],
         at'[current] # "idle" => at[current] # "idle" \/ ~Supervisor!Live(child[current])
  PROVE  SupervisorInv'
<1> USE DEF SupervisorInv
<1>1. LoadsTyped' /\ GatesTyped' /\ HeldLaunched' /\ NoParentAhead'
  BY DEF LoadsTyped, GatesTyped, HeldLaunched, NoParentAhead
<1>2. OneInForce'
  BY DEF OneInForce
<1>3. LaunchesOne'
  BY DEF LaunchesOne, Supervisor!Live, running
<1>4. Supervisor!NoStray'
  BY DEF Supervisor!NoStray, Supervisor!Active, Supervisor!Runs, current, dsh, of, disposed, child, running, parent
<1>5. QED BY <1>1, <1>2, <1>3, <1>4

(* What launch() does until it reads the deployment file.                  *)
LEMMA AwaitsKeep ==
  ASSUME SupervisorInv, NEW e \in Effects,
         \/ Supervisor!Timer(e) \/ Supervisor!Abandon(e) \/ Supervisor!Healthz(e)
         \/ Supervisor!Owner(e) \/ Supervisor!Cookie(e) \/ Supervisor!Port(e)
  PROVE  SupervisorInv'
<1> USE DEF Supervisor!Goes, Supervisor!RetryLater, Supervisor!Begin
<1>1. UNCHANGED <<current, dsh, of, disposed, child, running, parent>>
  BY DEF Supervisor!Timer, Supervisor!Abandon, Supervisor!Healthz, Supervisor!Owner, Supervisor!Cookie,
     Supervisor!Port, Supervisor!loading, Supervisor!gates,
     current, dsh, of, disposed, child, running, parent
<1>2. \/ at' = at
      \/ \E s \in Awaits : /\ at' = [at EXCEPT ![e] = s]
                           /\ s # "idle" => /\ Supervisor!Active(e)
                                            /\ at[e] # "idle" \/ ~Supervisor!Live(child[e])
  BY DEF Supervisor!Timer, Supervisor!Abandon, Supervisor!Healthz, Supervisor!Owner, Supervisor!Cookie,
     Supervisor!Port, Awaits, at, child
<1>3. at' \in [Effects -> Awaits] /\ current \in Effects
  BY <1>2 DEF SupervisorInv, LoadsTyped
<1>4. at'[current] # "idle" => at[current] # "idle" \/ ~Supervisor!Live(child[current])
  <2>1. Supervisor!Active(e) => e = current
    BY InForce DEF SupervisorInv
  <2>2. QED BY <1>2, <1>3, <2>1 DEF SupervisorInv, LoadsTyped
<1>5. QED BY <1>1, <1>3, <1>4, OnlyAwaits

(* A gateway is launched by the effect in force, which holds none.         *)
LEMMA SpawnKeeps ==
  ASSUME SupervisorInv, NEW e \in Effects, Supervisor!Active(e), at[e] # "idle",
         NEW g \in Gateways, running[g] = "new",
         UNCHANGED <<current, dsh, of, disposed>>,
         at' = [at EXCEPT ![e] = "idle"], child' = [child EXCEPT ![e] = g],
         running' = [running EXCEPT ![g] = "starting"], parent' = [parent EXCEPT ![g] = dsh]
  PROVE  SupervisorInv'
<1> USE DEF SupervisorInv
<1>1. e = current
  BY InForce
<1>2. LoadsTyped' /\ GatesTyped' /\ g # 0
  BY SupervisorConstants DEF LoadsTyped, GatesTyped, Awaits, States, Gateways
<1>3. OneInForce'
  BY <1>1 DEF OneInForce, LoadsTyped, Effects
<1>4. HeldLaunched'
  <2>1. ASSUME NEW f \in Effects, child'[f] # 0 PROVE running'[child'[f]] # "new"
    <3>1. CASE f = e
      BY <3>1 DEF LoadsTyped, GatesTyped
    <3>2. CASE f # e
      <4>1. child'[f] = child[f] /\ child[f] \in Gateways /\ running[child[f]] # "new"
        BY <2>1, <3>2 DEF LoadsTyped, HeldLaunched
      <4>2. QED BY <4>1 DEF GatesTyped
    <3>3. QED BY <3>1, <3>2
  <2>2. QED BY <2>1 DEF HeldLaunched
<1>5. NoParentAhead'
  BY DEF NoParentAhead, GatesTyped, LoadsTyped
<1>6. LaunchesOne'
  BY <1>1 DEF LaunchesOne, LoadsTyped
<1>7. Supervisor!NoStray'
  <2>1. Supervisor!Active(current)'
    BY <1>2, <1>3, CurrentActive DEF LoadsTyped, OneInForce, Supervisor!Active, Supervisor!Runs, current, dsh, of,
       disposed, Effects
  <2>2. ASSUME NEW h \in Gateways, running'[h] \in {"starting", "up"}
        PROVE  parent'[h] # dsh' \/ child'[current] = h
    <3>1. CASE h = g
      BY <1>1, <3>1 DEF LoadsTyped
    <3>2. CASE h # g
      <4>1. running[h] \in {"starting", "up"} /\ parent'[h] = parent[h]
        BY <2>2, <3>2 DEF GatesTyped
      <4>2. parent[h] # dsh \/ child[current] = h
        BY <4>1, SupervisorConstants DEF Supervisor!NoStray, running, parent, dsh, child, current
      <4>3. child[current] # h
        <5>1. child[current] = h => Supervisor!Live(child[current])
          BY <4>1, SupervisorConstants DEF Supervisor!Live, running, Gateways
        <5>2. QED BY <1>1, <5>1 DEF LaunchesOne
      <4>4. QED BY <4>1, <4>2, <4>3
    <3>3. QED BY <3>1, <3>2
  <2>3. QED BY <2>1, <2>2, SupervisorConstants DEF Supervisor!NoStray, running, parent, dsh, child, current
<1>8. QED BY <1>2, <1>3, <1>4, <1>5, <1>6, <1>7

LEMMA ExchangeKeeps ==
  ASSUME SupervisorInv, NEW e \in Effects, Supervisor!Exchange(e) PROVE SupervisorInv'
<1>1. UNCHANGED <<current, dsh, of, disposed>> /\ Supervisor!Active(e) /\ at[e] # "idle"
      /\ at' = [at EXCEPT ![e] = "idle"]
  BY DEF Supervisor!Exchange, Supervisor!RetryLater, Supervisor!Goes, Supervisor!loading, current, dsh, of,
     disposed, at
<1>2. \/ UNCHANGED <<child, running, parent>>
      \/ \E g \in Gateways : /\ running[g] = "new" /\ child' = [child EXCEPT ![e] = g]
                             /\ running' = [running EXCEPT ![g] = "starting"]
                             /\ parent' = [parent EXCEPT ![g] = dsh]
  BY SupervisorConstants DEF Supervisor!Exchange, Supervisor!Spawn, Supervisor!Set, Supervisor!gates, child, running,
     parent, dsh
<1>3. CASE UNCHANGED <<child, running, parent>>
  <2>1. at' \in [Effects -> Awaits] /\ (at'[current] # "idle" => at[current] # "idle")
    BY <1>1 DEF SupervisorInv, LoadsTyped, Awaits
  <2>2. QED BY <1>1, <1>3, <2>1, OnlyAwaits
<1>4. CASE ~UNCHANGED <<child, running, parent>>
  BY <1>1, <1>2, <1>4, SpawnKeeps
<1>5. QED BY <1>3, <1>4

(* A gateway exits, and who holds it notices.                              *)
LEMMA ExitKeeps ==
  ASSUME SupervisorInv, NEW g \in Gateways, NEW permanent, Supervisor!Exit(g, permanent)
  PROVE  SupervisorInv'
<1> USE DEF SupervisorInv
<1>1. /\ UNCHANGED <<current, dsh, of, disposed, at, parent>>
      /\ running' = [running EXCEPT ![g] = "gone"]
      /\ child' = [e \in Effects |-> IF child[e] = g /\ Supervisor!Runs(e) THEN 0 ELSE child[e]]
  BY SupervisorConstants DEF Supervisor!Exit, Supervisor!Noticed, Supervisor!Set, Supervisor!loading, current, dsh, of,
     disposed, at, parent, running, child
<1>2. LoadsTyped' /\ GatesTyped' /\ g # 0
  BY <1>1 DEF LoadsTyped, GatesTyped, States, Gateways
<1>3. ASSUME NEW e \in Effects
      PROVE  /\ child'[e] \in {0, child[e]}
             /\ child[e] # g => child'[e] = child[e]
  BY <1>1
<1>4. ASSUME NEW h \in Gateways
      PROVE  running'[h] = IF h = g THEN "gone" ELSE running[h]
  BY <1>1 DEF GatesTyped
<1>5. OneInForce' /\ NoParentAhead'
  BY <1>1, <1>3 DEF OneInForce, NoParentAhead
<1>6. HeldLaunched'
  <2>1. ASSUME NEW e \in Effects, child'[e] # 0 PROVE running'[child'[e]] # "new"
    BY <1>3, <1>4, <2>1 DEF HeldLaunched, LoadsTyped
  <2>2. QED BY <2>1 DEF HeldLaunched
<1>7. LaunchesOne'
  <2>1. SUFFICES ASSUME at[current] # "idle", Supervisor!Live(child[current])' PROVE FALSE
    BY <1>1 DEF LaunchesOne
  <2>2. current \in Effects /\ child'[current] # 0 /\ child'[current] = child[current] /\ child[current] \in Gateways
    BY <1>1, <1>2, <1>3, <2>1, SupervisorConstants DEF Supervisor!Live, LoadsTyped, Gateways
  <2>3. running'[child[current]] \in {"starting", "up", "stopping"}
    BY <1>1, <2>1, <2>2 DEF Supervisor!Live, running
  <2>4. running[child[current]] = running'[child[current]]
    BY <1>4, <2>2, <2>3
  <2>5. Supervisor!Live(child[current])
    BY <2>2, <2>3, <2>4, SupervisorConstants DEF Supervisor!Live, running
  <2>6. QED BY <2>1, <2>5 DEF LaunchesOne
<1>8. Supervisor!NoStray'
  <2>1. Supervisor!Active(current)'
    BY <1>1, CurrentActive DEF Supervisor!Active, Supervisor!Runs, current, dsh, of, disposed
  <2>2. ASSUME NEW h \in Gateways, running'[h] \in {"starting", "up"}
        PROVE  parent'[h] # dsh' \/ child'[current] = h
    <3>1. h # g /\ running[h] \in {"starting", "up"}
      BY <1>4, <2>2
    <3>2. parent[h] # dsh \/ child[current] = h
      BY <3>1, SupervisorConstants DEF Supervisor!NoStray, running, parent, dsh, child, current
    <3>3. QED BY <1>1, <1>3, <3>1, <3>2 DEF LoadsTyped
  <2>3. QED BY <1>1, <2>1, <2>2, SupervisorConstants DEF Supervisor!NoStray, running, parent, dsh, child, current
<1>9. QED BY <1>2, <1>5, <1>6, <1>7, <1>8

LEMMA ListenKeeps ==
  ASSUME SupervisorInv, NEW g \in Gateways, running[g] = "starting",
         UNCHANGED <<current, dsh, of, disposed, at, child, parent>>,
         running' = [running EXCEPT ![g] = "up"]
  PROVE  SupervisorInv'
<1> USE DEF SupervisorInv
<1>1. LoadsTyped' /\ GatesTyped' /\ OneInForce' /\ NoParentAhead'
  BY DEF LoadsTyped, GatesTyped, OneInForce, NoParentAhead, States
<1>2. ASSUME NEW h \in Gateways
      PROVE  running'[h] = IF h = g THEN "up" ELSE running[h]
  BY DEF GatesTyped
<1>3. HeldLaunched'
  BY <1>2 DEF HeldLaunched, LoadsTyped
<1>4. LaunchesOne'
  BY <1>2, SupervisorConstants DEF LaunchesOne, LoadsTyped, Supervisor!Live, running
<1>5. Supervisor!NoStray'
  BY <1>2, SupervisorConstants DEF Supervisor!NoStray, Supervisor!Active, Supervisor!Runs, current, dsh, of, disposed,
     child, running, parent
<1>6. QED BY <1>1, <1>3, <1>4, <1>5

LEMMA GatesKeep ==
  ASSUME SupervisorInv, NEW g \in Gateways, Supervisor!Listen(g) \/ Supervisor!Fails(g) \/ Supervisor!Stop(g)
  PROVE  SupervisorInv'
<1>1. (\E permanent \in BOOLEAN : Supervisor!Exit(g, permanent))
      \/ /\ running[g] = "starting" /\ running' = [running EXCEPT ![g] = "up"]
         /\ UNCHANGED <<current, dsh, of, disposed, at, child, parent>>
  BY DEF Supervisor!Listen, Supervisor!Fails, Supervisor!Stop, Supervisor!Set, Supervisor!launching,
     Supervisor!loading, running, current, dsh, of, disposed, at, child, parent
<1>2. QED BY <1>1, ExitKeeps, ListenKeeps

(* The next effect, in the same process, after the disposal, or in another.*)
LEMMA LoadKeeps ==
  ASSUME SupervisorInv, NEW process \in Nat, current < MaxEffects,
         current' = current + 1, dsh' = process, of' = [of EXCEPT ![current'] = process],
         at' = [at EXCEPT ![current'] = "healthz"], UNCHANGED <<child, parent>>,
         \/ /\ process = dsh /\ disposed' = [disposed EXCEPT ![current] = TRUE]
            /\ running' = IF Supervisor!Live(child[current])
                            THEN [running EXCEPT ![child[current]] = "stopping"] ELSE running
         \/ /\ process = dsh + 1
            /\ \/ UNCHANGED <<disposed, running>>
               \/ /\ disposed' = [disposed EXCEPT ![current] = TRUE]
                  /\ running' = IF Supervisor!Live(child[current])
                                  THEN [running EXCEPT ![child[current]] = "stopping"] ELSE running
  PROVE  SupervisorInv'
<1> USE DEF SupervisorInv
<1>1. PICK new \in Effects : new = current + 1
  BY SupervisorConstants DEF LoadsTyped, Effects
<1>2. current \in Effects /\ current < new /\ new = current'
  BY <1>1 DEF LoadsTyped, Effects
<1>3. ASSUME NEW h \in Gateways
      PROVE  running'[h] = running[h] \/ (running'[h] = "stopping" /\ running[h] # "new")
  BY SupervisorConstants DEF Supervisor!Live, GatesTyped, LoadsTyped, States, running, Gateways
<1>4. LoadsTyped' /\ GatesTyped'
  <2>1. current' \in Effects /\ dsh' \in Nat /\ of' \in [Effects -> Nat] /\ child' \in [Effects -> Gateways \cup {0}]
    BY <1>1, <1>2 DEF LoadsTyped
  <2>2. at' \in [Effects -> Awaits] /\ disposed' \in [Effects -> BOOLEAN]
    BY <1>1, <1>2 DEF LoadsTyped, Awaits
  <2>3. running' \in [Gateways -> States]
    <3>1. Supervisor!Live(child[current]) => child[current] \in Gateways
      BY <1>2, SupervisorConstants DEF Supervisor!Live, LoadsTyped
    <3>2. running' = running \/ \E g \in Gateways : running' = [running EXCEPT ![g] = "stopping"]
      BY <3>1
    <3>3. QED BY <3>2 DEF GatesTyped, States
  <2>4. QED BY <2>1, <2>2, <2>3 DEF LoadsTyped, GatesTyped
<1>5. /\ of'[new] = dsh' /\ \A e \in Effects \ {new} : of'[e] = of[e]
      /\ \A e \in Effects : e # current => disposed'[e] = disposed[e]
      /\ dsh' = dsh => disposed'[current]
      /\ dsh' \in {dsh, dsh + 1} /\ dsh \in Nat
  BY <1>1, <1>2 DEF LoadsTyped
<1>6. OneInForce'
  <2>1. ~disposed'[new] /\ child[new] = 0
    BY <1>1, <1>2, <1>5 DEF OneInForce
  <2>2. ASSUME NEW e \in Effects, e < new PROVE of'[e] < dsh' \/ (of'[e] = dsh' /\ disposed'[e])
    <3>1. CASE e = current
      BY <1>2, <1>5, <3>1 DEF OneInForce
    <3>2. CASE e # current
      <4>1. e < current /\ of'[e] = of[e] /\ of[e] \in Nat /\ disposed'[e] = disposed[e]
        BY <1>1, <1>2, <1>5, <2>2, <3>2 DEF LoadsTyped, Effects
      <4>2. of[e] < dsh \/ (of[e] = dsh /\ disposed[e])
        BY <4>1 DEF OneInForce
      <4>3. QED BY <1>5, <4>1, <4>2
    <3>3. QED BY <3>1, <3>2
  <2>3. ASSUME NEW e \in Effects, e > new PROVE child'[e] = 0 /\ ~disposed'[e]
    <3>1. e > current
      BY <1>2, <2>3 DEF Effects
    <3>2. QED BY <1>5, <1>2, <3>1 DEF OneInForce, Effects
  <2>4. QED BY <1>2, <1>5, <2>1, <2>2, <2>3 DEF OneInForce
<1>7. HeldLaunched' /\ NoParentAhead'
  <2>1. HeldLaunched'
    BY <1>3 DEF HeldLaunched, LoadsTyped
  <2>2. NoParentAhead'
    BY <1>5 DEF NoParentAhead, GatesTyped
  <2>3. QED BY <2>1, <2>2
<1>8. LaunchesOne'
  <2>1. child'[current'] = 0
    BY <1>1, <1>2 DEF OneInForce
  <2>2. QED BY <2>1, SupervisorConstants DEF LaunchesOne, Supervisor!Live
<1>9. Supervisor!NoStray'
  <2>1. SUFFICES ASSUME NEW h \in Gateways, running'[h] \in {"starting", "up"}, parent'[h] = dsh' PROVE FALSE
    BY SupervisorConstants DEF Supervisor!NoStray, running, parent, dsh
  <2>2. running[h] = running'[h] /\ parent[h] = dsh'
    BY <1>3, <2>1
  <2>3. dsh' = dsh
    BY <1>5, <2>2 DEF NoParentAhead, GatesTyped
  <2>4. child[current] = h
    BY <2>1, <2>2, <2>3, SupervisorConstants DEF Supervisor!NoStray, running, parent, dsh, child, current
  <2>5. Supervisor!Live(child[current])
    BY <2>1, <2>2, <2>4, SupervisorConstants DEF Supervisor!Live, running, Gateways
  <2>6. running' = [running EXCEPT ![h] = "stopping"]
    BY <1>5, <2>3, <2>4, <2>5
  <2>7. QED BY <2>1, <2>6 DEF GatesTyped
<1>10. QED BY <1>4, <1>6, <1>7, <1>8, <1>9

LEMMA LoadingKeeps ==
  ASSUME SupervisorInv, Supervisor!Reload \/ Supervisor!RestartDsh PROVE SupervisorInv'
<1>1. PICK process \in Nat :
        /\ current < MaxEffects
        /\ current' = current + 1 /\ dsh' = process /\ of' = [of EXCEPT ![current'] = process]
        /\ at' = [at EXCEPT ![current'] = "healthz"] /\ UNCHANGED <<child, parent>>
        /\ \/ /\ process = dsh /\ disposed' = [disposed EXCEPT ![current] = TRUE]
              /\ running' = IF Supervisor!Live(child[current])
                              THEN [running EXCEPT ![child[current]] = "stopping"] ELSE running
           \/ /\ process = dsh + 1
              /\ \/ UNCHANGED <<disposed, running>>
                 \/ /\ disposed' = [disposed EXCEPT ![current] = TRUE]
                    /\ running' = IF Supervisor!Live(child[current])
                                    THEN [running EXCEPT ![child[current]] = "stopping"] ELSE running
  <2>1. dsh \in Nat /\ dsh + 1 \in Nat
    BY DEF SupervisorInv, LoadsTyped
  <2>2. QED
    BY <2>1 DEF Supervisor!Reload, Supervisor!RestartDsh, Supervisor!Load, Supervisor!Dispose, Supervisor!Set,
       current, dsh, of, disposed, at, child, running, parent
<1>2. QED BY <1>1, LoadKeeps

LEMMA SupervisorStep ==
  ASSUME SupervisorInv, [Supervisor!Next]_SupervisorVars PROVE SupervisorInv'
<1>1. CASE UNCHANGED <<current, dsh, of, disposed, at, child, running, parent>>
  <2>1. at' \in [Effects -> Awaits] /\ (at'[current] # "idle" => at[current] # "idle")
    BY <1>1 DEF SupervisorInv, LoadsTyped
  <2>2. QED BY <1>1, <2>1, OnlyAwaits
<1>2. CASE UNCHANGED SupervisorVars
  BY <1>1, <1>2 DEF SupervisorVars, current, dsh, of, disposed, at, child, running, parent
<1>3. CASE Supervisor!Edit \/ Supervisor!Intrude \/ Supervisor!Leave
  BY <1>1, <1>3 DEF Supervisor!Edit, Supervisor!Intrude, Supervisor!Leave, Supervisor!launching, Supervisor!loading,
     Supervisor!gates, current, dsh, of, disposed, at, child, running, parent
<1>4. ASSUME NEW e \in Effects, Supervisor!Step(e) \/ Supervisor!Abandon(e) PROVE SupervisorInv'
  BY <1>4, AwaitsKeep, ExchangeKeeps DEF Supervisor!Step
<1>5. CASE Supervisor!Next
  BY <1>3, <1>4, <1>5, GatesKeep, LoadingKeeps, SupervisorConstants DEF Supervisor!Next
<1>6. QED BY <1>2, <1>5

(* However launches, retries, exits, reloads and restarts interleave, a    *)
(* gateway that is not on its way out is the child of the effect in force  *)
(* or belongs to a process that is gone (plugin.ts).                       *)
THEOREM NothingStray == Spec => []NoStray
<1> DEFINE Inv == part = "supervisor" => SupervisorInv
<1>1. Init => Inv
  BY SupervisorInit DEF Init
<1>2. Inv /\ [Next]_suiteVars => Inv'
  <2>1. SUFFICES ASSUME SupervisorInv, [Next]_suiteVars, part = "supervisor" PROVE SupervisorInv'
    BY PartStays
  <2>2. [Supervisor!Next]_SupervisorVars
    BY <2>1 DEF Next, suiteVars, SupervisorVars, SwapSteps, EngineSteps, SettingSteps, SupervisorSteps, LinkSteps,
       SavesSteps
  <2>3. QED BY <2>1, <2>2, SupervisorStep
<1>3. Inv => NoStray
  BY DEF NoStray, SupervisorInv
<1> HIDE DEF Inv
<1>4. QED BY <1>1, <1>2, <1>3, PTL DEF Spec

------------------------------------------------------------------------------
(* FirstSetup.                                                             *)

docker == x1
host == x2
deployment == x3  \* the file
plugin == x5
gateway == x6
admins == x7
req == x8
draft == x9
dataKeys == x10
hardened == x11

SettingVars == <<x1, x2, x3, x4, x5, x6, x7, x8, x9, x10, x11, x12, x13>>

Names == Key \cup {Setup}
Stages == {"idle", "hashing", "hardening", "replacing", "deleting"}
HasValue(v) == v # Absent /\ v # Blank

SetupTyped ==
  /\ docker \in BOOLEAN /\ hardened \in BOOLEAN /\ gateway.up \in BOOLEAN
  /\ DOMAIN plugin = {"env", "seen", "cfg"} /\ DOMAIN gateway = {"up", "cfg"}
  /\ DOMAIN deployment = Names /\ HasValue(deployment[Setup])
  /\ req \in [Attempt -> Stages]
  /\ dataKeys = [k \in Key |-> dataKeys[k]]

(* What the host gives prevails in the environment of the plugin.  In a    *)
(* container that is what its configuration is made of.                    *)
PluginOfHost ==
  /\ HasValue(plugin.env[Setup])
  /\ \A n \in Names : HasValue(host[n]) => plugin.env[n] = host[n]
  /\ docker => \A k \in Key : plugin.cfg[k] = IF HasValue(plugin.env[k]) THEN plugin.env[k] ELSE plugin.env[Setup]

(* A gateway that runs has a value for every key: in a container the one   *)
(* of the plugin's environment, if that has one.                           *)
KeysOfGateway ==
  gateway.up => \A k \in Key : /\ HasValue(gateway.cfg[k])
                               /\ docker /\ HasValue(plugin.env[k]) => gateway.cfg[k] = plugin.env[k]

(* Whose request is past the creation freezes the keys the data is written *)
(* with.                                                                   *)
Creating(a) == req[a] \in {"hardening", "replacing", "deleting"}
FreezesItsKeys ==
  \A a \in Attempt :
    /\ req[a] # "idle" => gateway.up
    /\ Creating(a) => admins # {} /\ \A k \in Key : dataKeys[k] = gateway.cfg[k]
    /\ req[a] = "replacing" => /\ DOMAIN draft = Names /\ HasValue(draft[Setup])
                               /\ \A k \in Key : draft[k] = dataKeys[k]
OneAtMost == admins = {} \/ \E a \in Attempt : admins = {a}

(* From then on the file and whatever prevails over it say the same.       *)
KeysFrozen ==
  hardened =>
    /\ admins # {}
    /\ \A k \in Key : /\ deployment[k] = dataKeys[k] /\ HasValue(dataKeys[k])
                      /\ docker /\ HasValue(plugin.env[k]) => plugin.env[k] = dataKeys[k]

SetupInv ==
  SetupTyped /\ PluginOfHost /\ KeysOfGateway /\ FreezesItsKeys /\ OneAtMost /\ KeysFrozen

LEMMA SetupConstants ==
  /\ Setup \notin Key /\ \A s \in Fresh : HasValue(s)
  /\ Setting!Name = Names
  /\ \A v : Setting!Given(v) <=> HasValue(v)
  BY SetupFits DEF Setting!SetupAssumption, Setting!Name, Setting!Given, Names, HasValue

LEMMA PluginOfIs ==
  ASSUME NEW f, HasValue(f[Setup]), NEW q, q = Setting!PluginOf(f)
  PROVE  /\ DOMAIN q = {"env", "seen", "cfg"}
         /\ \A n \in Names : q.env[n] = IF HasValue(host[n]) THEN host[n] ELSE IF HasValue(f[n]) THEN f[n] ELSE host[n]
         /\ docker => \A k \in Key : q.cfg[k] = IF HasValue(q.env[k]) THEN q.env[k] ELSE q.env[Setup]
         /\ ~docker => \A k \in Key : HasValue(f[k]) => q.cfg[k] = f[k]
<1> DEFINE env == Setting!Imported(host, f)
           next == Setting!DeploymentEnv(env, f, {})
<1>1. q.env = env /\ q.cfg = Setting!Config(next) /\ DOMAIN q = {"env", "seen", "cfg"}
  BY DEF Setting!PluginOf, host
<1>2. env = [n \in Names |-> IF HasValue(host[n]) THEN host[n] ELSE IF HasValue(f[n]) THEN f[n] ELSE host[n]]
  BY SetupConstants DEF Setting!Imported
<1>3. /\ docker => next = env
      /\ ~docker => \A n \in Names : HasValue(f[n]) => next[n] = f[n]
  BY SetupConstants DEF Setting!DeploymentEnv, docker, HasValue
<1> HIDE DEF env, next
<1>4. \A k \in Key : q.cfg[k] = IF HasValue(next[k]) THEN next[k] ELSE next[Setup]
  BY <1>1, SetupConstants DEF Setting!Config, Names
<1>5. QED BY <1>1, <1>2, <1>3, <1>4 DEF Names

(* The keys of a gateway launched now.                                     *)
LEMMA ChildKeys ==
  ASSUME PluginOfHost, HasValue(deployment[Setup]), NEW cfg,
         cfg = Setting!Config(Setting!ChildEnv(Setting!LaunchEnv, deployment))
  PROVE  \A k \in Key :
           /\ HasValue(cfg[k])
           /\ docker /\ HasValue(plugin.env[k]) => cfg[k] = plugin.env[k]
           /\ (~docker \/ ~HasValue(plugin.env[k])) /\ HasValue(deployment[k]) => cfg[k] = deployment[k]
<1> DEFINE launch == Setting!LaunchEnv
           inherited == Setting!ChildEnv(launch, deployment)
<1>1. docker => launch = plugin.env
  BY DEF Setting!LaunchEnv, Setting!DeploymentEnv, docker, plugin
<1>2. /\ docker => \A n \in Names : inherited[n] = IF HasValue(launch[n]) THEN launch[n]
                                                  ELSE IF HasValue(deployment[n]) THEN deployment[n] ELSE launch[n]
      /\ ~docker => \A n \in Names : HasValue(deployment[n]) => inherited[n] = deployment[n]
  BY SetupConstants DEF Setting!ChildEnv, Setting!Imported, docker, HasValue
<1> HIDE DEF launch
<1>3. cfg = Setting!Config(inherited)
  BY DEF launch
<1> HIDE DEF inherited
<1>4. \A k \in Key : cfg[k] = IF HasValue(inherited[k]) THEN inherited[k] ELSE inherited[Setup]
  BY <1>3, SetupConstants DEF Setting!Config, Names
<1>5. HasValue(inherited[Setup])
  BY <1>1, <1>2 DEF PluginOfHost, Names
<1>6. QED BY <1>1, <1>2, <1>4, <1>5 DEF Names

LEMMA SetupInit ==
  ASSUME Setting!Init PROVE SetupInv
<1> USE SetupConstants
<1>1. HasValue(deployment[Setup]) /\ DOMAIN deployment = Names
  BY DEF Setting!Init, deployment
<1>2. PICK q : q = Setting!PluginOf(deployment)
  OBVIOUS
<1>3. plugin = q
  BY <1>2 DEF Setting!Init, plugin, deployment
<1>4. PluginOfHost /\ DOMAIN plugin = {"env", "seen", "cfg"}
  BY <1>1, <1>2, <1>3, PluginOfIs DEF PluginOfHost, Names
<1>5. /\ docker \in BOOLEAN /\ hardened = FALSE /\ gateway = [up |-> FALSE, cfg |-> plugin.cfg]
      /\ req = [a \in Attempt |-> "idle"] /\ admins = {} /\ dataKeys = [k \in Key |-> plugin.cfg[k]]
  BY DEF Setting!Init, Setting!InForce, docker, hardened, gateway, plugin, req, admins, dataKeys
<1>6. SetupTyped
  <2>1. req \in [Attempt -> Stages]
    BY <1>5 DEF Stages
  <2>2. dataKeys = [k \in Key |-> dataKeys[k]]
    BY <1>5
  <2>3. QED BY <1>1, <1>4, <1>5, <2>1, <2>2 DEF SetupTyped
<1>7. KeysOfGateway /\ FreezesItsKeys /\ OneAtMost /\ KeysFrozen
  BY <1>5 DEF KeysOfGateway, FreezesItsKeys, Creating, OneAtMost, KeysFrozen
<1>8. QED BY <1>4, <1>6, <1>7 DEF SetupInv

LEMMA SettingRests ==
  ASSUME SetupInv, UNCHANGED <<docker, host, deployment, plugin, gateway, admins, req, draft, dataKeys, hardened>>
  PROVE  SetupInv'
  BY DEF SetupInv, SetupTyped, PluginOfHost, KeysOfGateway, FreezesItsKeys, Creating, OneAtMost, KeysFrozen

(* The plugin starts, with a gateway that is gone and its requests.        *)
LEMMA PluginStartsKeeps ==
  ASSUME SetupInv, Setting!PluginStarts PROVE SetupInv'
<1> USE DEF SetupInv
<1>1. PICK q : q = Setting!PluginOf(deployment)
  OBVIOUS
<1>2. /\ plugin' = q /\ gateway' = [gateway EXCEPT !.up = FALSE] /\ req' = [a \in Attempt |-> "idle"]
      /\ UNCHANGED <<docker, host, deployment, admins, draft, dataKeys, hardened>>
  BY <1>1 DEF Setting!PluginStarts, plugin, gateway, req, docker, host, deployment, admins, draft, dataKeys, hardened
<1>3. /\ DOMAIN q = {"env", "seen", "cfg"}
      /\ \A n \in Names : q.env[n] = IF HasValue(host[n]) THEN host[n]
                                     ELSE IF HasValue(deployment[n]) THEN deployment[n] ELSE host[n]
      /\ docker => \A k \in Key : q.cfg[k] = IF HasValue(q.env[k]) THEN q.env[k] ELSE q.env[Setup]
  BY <1>1, PluginOfIs DEF SetupTyped
<1>4. PluginOfHost'
  BY <1>2, <1>3 DEF PluginOfHost, SetupTyped, Names
<1>5. /\ DOMAIN gateway' = {"up", "cfg"} /\ gateway'.up = FALSE
      /\ req' \in [Attempt -> Stages] /\ \A a \in Attempt : req'[a] = "idle"
  BY <1>2 DEF SetupTyped, Stages
<1>6. SetupTyped'
  BY <1>2, <1>3, <1>5 DEF SetupTyped
<1>7. KeysOfGateway' /\ FreezesItsKeys' /\ OneAtMost'
  BY <1>2, <1>5 DEF KeysOfGateway, FreezesItsKeys, Creating, OneAtMost
<1>8. KeysFrozen'
  <2>1. SUFFICES ASSUME hardened, NEW k \in Key, docker, HasValue(q.env[k]) PROVE q.env[k] = dataKeys[k]
    BY <1>2 DEF KeysFrozen
  <2>2. deployment[k] = dataKeys[k] /\ HasValue(dataKeys[k])
        /\ (HasValue(plugin.env[k]) => plugin.env[k] = dataKeys[k])
    BY <2>1 DEF KeysFrozen
  <2>3. HasValue(host[k]) => plugin.env[k] = host[k]
    BY DEF PluginOfHost, Names
  <2>4. QED BY <1>3, <2>2, <2>3 DEF Names
<1>9. QED BY <1>4, <1>6, <1>7, <1>8

LEMMA LaunchesKeeps ==
  ASSUME SetupInv, Setting!Launches PROVE SetupInv'
<1> USE DEF SetupInv
<1>1. PICK cfg : cfg = Setting!Config(Setting!ChildEnv(Setting!LaunchEnv, deployment))
  OBVIOUS
<1>2. PICK seen : plugin' = [plugin EXCEPT !.seen = seen]
  BY DEF Setting!Launches, plugin
<1>3. /\ gateway.up = FALSE /\ gateway' = [up |-> TRUE, cfg |-> cfg]
      /\ UNCHANGED <<docker, host, deployment, admins, req, draft, dataKeys, hardened>>
  BY <1>1 DEF Setting!Launches, SetupTyped, gateway, docker, host, deployment, admins, req, draft, dataKeys, hardened
<1>4. DOMAIN plugin' = DOMAIN plugin /\ plugin'.env = plugin.env /\ plugin'.cfg = plugin.cfg
  BY <1>2 DEF SetupTyped
<1>5. \A k \in Key : HasValue(cfg[k]) /\ (docker /\ HasValue(plugin.env[k]) => cfg[k] = plugin.env[k])
  BY <1>1, ChildKeys DEF SetupTyped
<1>6. SetupTyped' /\ PluginOfHost'
  BY <1>3, <1>4 DEF SetupTyped, PluginOfHost
<1>7. KeysOfGateway'
  BY <1>3, <1>4, <1>5 DEF KeysOfGateway
<1>8. FreezesItsKeys'
  BY <1>3 DEF FreezesItsKeys, Creating
<1>9. OneAtMost' /\ KeysFrozen'
  BY <1>3, <1>4 DEF OneAtMost, KeysFrozen
<1>10. QED BY <1>6, <1>7, <1>8, <1>9

LEMMA GatewayDiesKeeps ==
  ASSUME SetupInv, Setting!GatewayDies PROVE SetupInv'
<1> USE DEF SetupInv
<1>1. /\ gateway' = [gateway EXCEPT !.up = FALSE] /\ req' = [a \in Attempt |-> "idle"]
      /\ UNCHANGED <<docker, host, deployment, plugin, admins, draft, dataKeys, hardened>>
  BY DEF Setting!GatewayDies, plugin, gateway, req, docker, host, deployment, admins, draft, dataKeys, hardened
<1>2. /\ DOMAIN gateway' = {"up", "cfg"} /\ gateway'.up = FALSE
      /\ req' \in [Attempt -> Stages] /\ \A a \in Attempt : req'[a] = "idle"
  BY <1>1 DEF SetupTyped, Stages
<1>3. SetupTyped' /\ PluginOfHost' /\ KeysFrozen'
  BY <1>1, <1>2 DEF SetupTyped, PluginOfHost, KeysFrozen
<1>4. KeysOfGateway' /\ FreezesItsKeys' /\ OneAtMost'
  BY <1>1, <1>2 DEF KeysOfGateway, FreezesItsKeys, Creating, OneAtMost
<1>5. QED BY <1>3, <1>4

(* Nobody is there yet, so nothing is frozen.                              *)
LEMMA EditsKeeps ==
  ASSUME SetupInv, Setting!Edits PROVE SetupInv'
<1> USE DEF SetupInv
<1>1. PICK n \in Names, v \in Edited \cup {Blank} :
        /\ n = Setup => HasValue(v)
        /\ deployment' = [deployment EXCEPT ![n] = v]
        /\ UNCHANGED <<docker, host, plugin, gateway, admins, req, draft, dataKeys, hardened>>
        /\ admins = {}
  BY SetupConstants DEF Setting!Edits, plugin, gateway, req, docker, host, deployment, admins, draft, dataKeys, hardened
<1>2. DOMAIN deployment' = Names /\ HasValue(deployment'[Setup])
  BY <1>1 DEF SetupTyped, Names
<1>3. SetupTyped' /\ PluginOfHost' /\ KeysOfGateway' /\ OneAtMost'
  BY <1>1, <1>2 DEF SetupTyped, PluginOfHost, KeysOfGateway, OneAtMost
<1>4. FreezesItsKeys' /\ KeysFrozen'
  BY <1>1 DEF FreezesItsKeys, Creating, KeysFrozen
<1>5. QED BY <1>3, <1>4

(* A step of one request that leaves the rest as it is.                    *)
LEMMA RequestSteps ==
  ASSUME SetupInv, NEW a \in Attempt, NEW s \in {"idle", "hashing"}, s # "idle" => gateway.up,
         req' = [req EXCEPT ![a] = s],
         UNCHANGED <<docker, host, deployment, plugin, gateway, admins, draft, dataKeys, hardened>>
  PROVE  SetupInv'
<1> USE DEF SetupInv
<1>1. SetupTyped' /\ PluginOfHost' /\ KeysOfGateway' /\ OneAtMost' /\ KeysFrozen'
  BY DEF SetupTyped, Stages, PluginOfHost, KeysOfGateway, OneAtMost, KeysFrozen
<1>2. ASSUME NEW b \in Attempt PROVE req'[b] = IF b = a THEN s ELSE req[b]
  BY DEF SetupTyped
<1>3. FreezesItsKeys'
  BY <1>2 DEF FreezesItsKeys, Creating
<1>4. QED BY <1>1, <1>3

(* It looks and inserts at once: there was nobody, so no other request is  *)
(* past this.                                                              *)
LEMMA CreatesKeeps ==
  ASSUME SetupInv, NEW a \in Attempt, Setting!Creates(a) PROVE SetupInv'
<1> USE DEF SetupInv
<1>1. /\ admins = {} /\ admins' = {a} /\ req[a] = "hashing" /\ req' = [req EXCEPT ![a] = "hardening"]
      /\ dataKeys' = [k \in Key |-> gateway.cfg[k]]
      /\ UNCHANGED <<docker, host, deployment, plugin, gateway, draft, hardened>>
  BY DEF Setting!Creates, Setting!MayCreate, Setting!InForce, plugin, gateway, req, docker, host, deployment, admins,
     draft, dataKeys, hardened
<1>2. SetupTyped' /\ PluginOfHost' /\ KeysOfGateway' /\ KeysFrozen'
  <2>1. req' \in [Attempt -> Stages] /\ dataKeys' = [k \in Key |-> dataKeys'[k]]
    BY <1>1 DEF SetupTyped, Stages
  <2>2. ~hardened
    BY <1>1 DEF KeysFrozen
  <2>3. QED BY <1>1, <2>1, <2>2 DEF SetupTyped, PluginOfHost, KeysOfGateway, KeysFrozen
<1>3. OneAtMost'
  BY <1>1 DEF OneAtMost
<1>4. FreezesItsKeys'
  <2>1. gateway.up
    BY <1>1 DEF FreezesItsKeys
  <2>2. ASSUME NEW b \in Attempt PROVE req'[b] = IF b = a THEN "hardening" ELSE req[b]
    BY <1>1 DEF SetupTyped
  <2>3. ASSUME NEW b \in Attempt PROVE ~Creating(b)
    BY <1>1 DEF FreezesItsKeys
  <2>4. QED BY <1>1, <2>1, <2>2, <2>3 DEF FreezesItsKeys, Creating
<1>5. QED BY <1>2, <1>3, <1>4

(* What is drafted is what the gateway uses.                               *)
LEMMA DraftsKeeps ==
  ASSUME SetupInv, NEW a \in Attempt, Setting!Drafts(a) PROVE SetupInv'
<1> USE DEF SetupInv
<1>1. PICK s \in Fresh : draft' = Setting!Frozen(deployment, gateway.cfg, s)
  BY DEF Setting!Drafts, draft, deployment, gateway
<1>2. /\ req[a] = "hardening" /\ req' = [req EXCEPT ![a] = "replacing"]
      /\ UNCHANGED <<docker, host, deployment, plugin, gateway, admins, dataKeys, hardened>>
  BY DEF Setting!Drafts, plugin, gateway, req, docker, host, deployment, admins, dataKeys, hardened
<1>3. DOMAIN draft' = Names /\ HasValue(draft'[Setup]) /\ \A k \in Key : draft'[k] = gateway.cfg[k]
  BY <1>1, SetupConstants DEF Setting!Frozen, Names
<1>4. SetupTyped' /\ PluginOfHost' /\ KeysOfGateway' /\ OneAtMost' /\ KeysFrozen'
  BY <1>2 DEF SetupTyped, Stages, PluginOfHost, KeysOfGateway, OneAtMost, KeysFrozen
<1>5. FreezesItsKeys'
  <2>1. ASSUME NEW b \in Attempt PROVE req'[b] = IF b = a THEN "replacing" ELSE req[b]
    BY <1>2 DEF SetupTyped
  <2>2. gateway.up /\ admins # {} /\ \A k \in Key : dataKeys[k] = gateway.cfg[k]
    BY <1>2 DEF FreezesItsKeys, Creating
  <2>3. QED BY <1>2, <1>3, <2>1, <2>2 DEF FreezesItsKeys, Creating
<1>6. QED BY <1>4, <1>5

LEMMA ReplacesKeeps ==
  ASSUME SetupInv, NEW a \in Attempt, Setting!Replaces(a) PROVE SetupInv'
<1> USE DEF SetupInv
<1>1. /\ req[a] = "replacing" /\ req' = [req EXCEPT ![a] = "deleting"]
      /\ deployment' = draft /\ hardened' = TRUE
      /\ UNCHANGED <<docker, host, plugin, gateway, admins, draft, dataKeys>>
  BY DEF Setting!Replaces, plugin, gateway, req, docker, host, deployment, admins, draft, dataKeys, hardened
<1>2. /\ gateway.up /\ admins # {} /\ DOMAIN draft = Names /\ HasValue(draft[Setup])
      /\ \A k \in Key : dataKeys[k] = gateway.cfg[k] /\ draft[k] = dataKeys[k]
  BY <1>1 DEF FreezesItsKeys, Creating
<1>3. SetupTyped' /\ PluginOfHost' /\ KeysOfGateway' /\ OneAtMost'
  BY <1>1, <1>2 DEF SetupTyped, Stages, PluginOfHost, KeysOfGateway, OneAtMost
<1>4. KeysFrozen'
  BY <1>1, <1>2 DEF KeysFrozen, KeysOfGateway
<1>5. FreezesItsKeys'
  <2>1. ASSUME NEW b \in Attempt PROVE req'[b] = IF b = a THEN "deleting" ELSE req[b]
    BY <1>1 DEF SetupTyped
  <2>2. QED BY <1>1, <1>2, <2>1 DEF FreezesItsKeys, Creating
<1>6. QED BY <1>3, <1>4, <1>5

LEMMA SetupStep ==
  ASSUME SetupInv, [Setting!Next]_SettingVars PROVE SetupInv'
<1>1. CASE UNCHANGED SettingVars
  BY <1>1, SettingRests
     DEF SettingVars, docker, host, deployment, plugin, gateway, admins, req, draft, dataKeys, hardened
<1>2. ASSUME NEW a \in Attempt,
             \/ Setting!Submits(a) \/ Setting!Conflicts(a) \/ Setting!Refused(a) \/ Setting!DropsKeyFile(a)
      PROVE  SetupInv'
  <2>1. PICK s \in {"idle", "hashing"} : req' = [req EXCEPT ![a] = s] /\ (s # "idle" => gateway.up)
    BY <1>2 DEF Setting!Submits, Setting!Conflicts, Setting!Refused, Setting!DropsKeyFile, req, gateway
  <2>2. UNCHANGED <<docker, host, deployment, plugin, gateway, admins, draft, dataKeys, hardened>>
    BY <1>2 DEF Setting!Submits, Setting!Conflicts, Setting!Refused, Setting!DropsKeyFile,
       docker, host, deployment, plugin, gateway, admins, draft, dataKeys, hardened
  <2>3. QED BY <2>1, <2>2, RequestSteps
<1>3. CASE Setting!Next
  BY <1>2, <1>3, PluginStartsKeeps, LaunchesKeeps, GatewayDiesKeeps, EditsKeeps, CreatesKeeps, DraftsKeeps,
     ReplacesKeeps DEF Setting!Next
<1>4. QED BY <1>1, <1>3

(* Requests that hash together make one main user; once the file has been  *)
(* replaced, whoever starts finds the keys the data was written with; and  *)
(* the plugin launches the gateway again (db.ts:996, config.ts:518,        *)
(* plugin.ts:425).                                                         *)
THEOREM SetupIsSafe == Spec => []SetupSafe
<1> DEFINE Inv == part = "setup" => SetupInv
<1>1. Init => Inv
  BY SetupInit DEF Init
<1>2. Inv /\ [Next]_suiteVars => Inv'
  <2>1. SUFFICES ASSUME SetupInv, [Next]_suiteVars, part = "setup" PROVE SetupInv'
    BY PartStays
  <2>2. [Setting!Next]_SettingVars
    BY <2>1 DEF Next, suiteVars, SettingVars, SwapSteps, EngineSteps, SettingSteps, SupervisorSteps, LinkSteps, SavesSteps
  <2>3. QED BY <2>1, <2>2, SetupStep
<1>3. Inv => SetupSafe
  <2>1. SUFFICES ASSUME SetupInv
                 PROVE  Setting!OneAdministrator /\ Setting!KeysStay /\ Setting!HardeningIsNoDrift
    BY DEF SetupSafe
  <2>2. Setting!OneAdministrator
    <3>1. Setting!Cardinality(admins) = Cardinality(admins)
      BY Zenon DEF Setting!Cardinality, Cardinality
    <3>2. Cardinality(admins) <= 1
      BY <2>1, FS_EmptySet, FS_Singleton DEF SetupInv, OneAtMost
    <3>3. QED BY <3>1, <3>2 DEF Setting!OneAdministrator, admins
  <2>3. Setting!KeysStay
    <3>1. SUFFICES ASSUME hardened
                   PROVE  /\ Setting!InForce(Setting!PluginOf(deployment).cfg) = dataKeys
                          /\ Setting!InForce(Setting!Config(Setting!ChildEnv(Setting!LaunchEnv, deployment))) = dataKeys
      BY DEF Setting!KeysStay, hardened, deployment, dataKeys
    <3>2. PICK q : q = Setting!PluginOf(deployment)
      OBVIOUS
    <3>3. PICK cfg : cfg = Setting!Config(Setting!ChildEnv(Setting!LaunchEnv, deployment))
      OBVIOUS
    <3>4. ASSUME NEW k \in Key PROVE q.cfg[k] = dataKeys[k] /\ cfg[k] = dataKeys[k]
      <4>1. /\ deployment[k] = dataKeys[k] /\ HasValue(dataKeys[k])
            /\ docker /\ HasValue(plugin.env[k]) => plugin.env[k] = dataKeys[k]
        BY <2>1, <3>1 DEF SetupInv, KeysFrozen
      <4>2. HasValue(host[k]) => plugin.env[k] = host[k]
        BY <2>1 DEF SetupInv, PluginOfHost, Names
      <4>3. HasValue(deployment[Setup]) /\ docker \in BOOLEAN
        BY <2>1 DEF SetupInv, SetupTyped
      <4>4. q.cfg[k] = dataKeys[k]
        BY <3>2, <4>1, <4>2, <4>3, PluginOfIs DEF Names
      <4>5. cfg[k] = dataKeys[k]
        BY <2>1, <3>3, <4>1, <4>3, ChildKeys DEF SetupInv
      <4>6. QED BY <4>4, <4>5
    <3>5. dataKeys = [k \in Key |-> dataKeys[k]]
      BY <2>1 DEF SetupInv, SetupTyped
    <3>6. Setting!InForce(q.cfg) = dataKeys /\ Setting!InForce(cfg) = dataKeys
      BY <3>4, <3>5 DEF Setting!InForce
    <3>7. QED BY <3>2, <3>3, <3>6
  <2>4. Setting!HardeningIsNoDrift
    <3>1. SUFFICES ASSUME hardened, Setting!InForce(plugin.cfg) = dataKeys, NEW k \in Key
                   PROVE  plugin.cfg[k] = Setting!Config(Setting!LaunchEnv)[k]
      BY DEF Setting!HardeningIsNoDrift, Setting!Drift, hardened, plugin, dataKeys
    <3>2. PICK launch : launch = Setting!LaunchEnv
      OBVIOUS
    <3>3. /\ docker => launch = plugin.env
          /\ ~docker /\ HasValue(deployment[k]) => launch[k] = deployment[k]
      BY <3>2, SetupConstants
         DEF Setting!LaunchEnv, Setting!DeploymentEnv, docker, plugin, deployment, HasValue, Names
    <3>4. Setting!Config(launch)[k] = IF HasValue(launch[k]) THEN launch[k] ELSE launch[Setup]
      BY SetupConstants DEF Setting!Config, Names
    <3>5. plugin.cfg[k] = dataKeys[k] /\ deployment[k] = dataKeys[k] /\ HasValue(dataKeys[k])
      BY <2>1, <3>1 DEF Setting!InForce, SetupInv, KeysFrozen
    <3>6. QED BY <2>1, <3>2, <3>3, <3>4, <3>5 DEF SetupInv, PluginOfHost, SetupTyped
  <2>5. QED BY <2>2, <2>3, <2>4
<1> HIDE DEF Inv
<1>4. QED BY <1>1, <1>2, <1>3, PTL DEF Spec

------------------------------------------------------------------------------
(* Saves.                                                                  *)

grants == x1
closed == x2
save == x11
Administrators == {"first", "second"}

SavesVars == <<x1, x2, x3, x4, x5, x6, x7, x8, x9, x10, x11, x12, x13, x14>>

(* Requests take no grant back and switch nothing on.                      *)
LEMMA RequestsTakeNothing ==
  ASSUME NEW r \in {"request"}, Saves!RequestStep(r)
  PROVE  grants \subseteq grants' /\ closed' = closed /\ save' = save
BY DEF Saves!RequestStep, Saves!StartCreate, Saves!StartUse, Saves!StartList, Saves!ListAnswered,
       Saves!HostCreates, Saves!CreateAnswered, Saves!CreateConfined, Saves!Attach, Saves!ConfiningFails,
       Saves!BodyArrives, Saves!Woken, Saves!WaitTimesOut, Saves!PromptConfined, Saves!dbVars, Saves!memVars,
       grants, closed, save

(* A commit is refused if the permissions it replaces are not those its    *)
(* baseline was taken of.                                                  *)
LEMMA CommitTakes ==
  ASSUME DOMAIN save = Administrators, NEW a \in Administrators, NEW d, Saves!Commit(a, d),
         save[a].phase \in {"idle", "probing"}
  PROVE  /\ save'[a] # save[a] /\ DOMAIN save' = DOMAIN save
         /\ \A s \in grants \ grants' : d.submitted /\ s \in d.grants
         /\ \A s \in closed \ closed' : s \in d.closed
<1>1. /\ DOMAIN save' = DOMAIN save
      /\ \E targets, phase : /\ phase \in {"over", "enforcing"}
                             /\ \/ save' = [save EXCEPT ![a] = [Saves!NoSave EXCEPT !.phase = "over"]]
                                \/ save' = [save EXCEPT ![a] = [Saves!NoSave EXCEPT !.phase = phase, !.targets = targets]]
  BY DEF Saves!Commit, save
<1>2. save'[a].phase \in {"over", "enforcing"}
  BY <1>1 DEF Saves!NoSave
<1>3. /\ \A s \in grants \ grants' : d.submitted /\ s \in d.grants
      /\ \A s \in closed \ closed' : s \in d.closed
  BY DEF Saves!Commit, Saves!AsExpected, Saves!dbVars, grants, closed
<1>4. QED BY <1>1, <1>2, <1>3

LEMMA SavesTake ==
  ASSUME DOMAIN save = Administrators, NEW a \in Administrators,
         Saves!SaveOthers(a) \/ Saves!SaveProbing(a) \/ Saves!SaveProbed(a) \/ Saves!SaveEnforced(a)
  PROVE  DOMAIN save' = DOMAIN save /\ Saves!UndoesWhatItSaw
<1>1. CASE Saves!SaveOthers(a)
  <2>1. PICK newClosed \in SUBSET {"session"}, newPolicy \in Saves!Policy :
          /\ save[a].phase = "idle"
          /\ Saves!Commit(a, Saves!Draft(FALSE, FALSE, grants, newClosed, newPolicy))
    BY <1>1 DEF Saves!SaveOthers, save, grants
  <2>2. PICK d : d = Saves!Draft(FALSE, FALSE, grants, newClosed, newPolicy)
    OBVIOUS
  <2>3. d.submitted = FALSE
    BY <2>2 DEF Saves!Draft
  <2>4. /\ save'[a] # save[a] /\ DOMAIN save' = DOMAIN save
        /\ \A s \in grants \ grants' : d.submitted
    BY <2>1, <2>2, CommitTakes
  <2>5. QED BY <2>1, <2>3, <2>4 DEF Saves!UndoesWhatItSaw, Administrators, save, grants
<1>2. CASE Saves!SaveProbing(a)
  BY <1>2 DEF Saves!SaveProbing, Saves!dbVars, Saves!UndoesWhatItSaw, save
<1>3. CASE Saves!SaveProbed(a)
  <2>1. save[a].phase = "probing" /\ Saves!Commit(a, save[a])
    BY <1>3 DEF Saves!SaveProbed, save
  <2>2. /\ save'[a] # save[a] /\ DOMAIN save' = DOMAIN save
        /\ \A s \in grants \ grants' : s \in save[a].grants
        /\ \A s \in closed \ closed' : s \in save[a].closed
    BY <2>1, CommitTakes
  <2>3. QED BY <2>2 DEF Saves!UndoesWhatItSaw, Administrators, save, grants, closed
<1>4. CASE Saves!SaveEnforced(a)
  <2>1. PICK failed \in SUBSET save[a].targets :
          /\ save[a].phase = "enforcing" /\ grants' = grants \ failed /\ closed' = closed
          /\ save' = [save EXCEPT ![a] = [Saves!NoSave EXCEPT !.phase = "over"]]
    BY <1>4 DEF Saves!SaveEnforced, save, grants, closed
  <2>2. save'[a] # save[a] /\ DOMAIN save' = DOMAIN save
    BY <2>1 DEF Saves!NoSave
  <2>3. QED BY <2>1, <2>2 DEF Saves!UndoesWhatItSaw, Administrators, save, grants, closed
<1>5. QED BY <1>1, <1>2, <1>3, <1>4

LEMMA SavesStep ==
  ASSUME DOMAIN save = Administrators, Saves!Next
  PROVE  DOMAIN save' = Administrators /\ Saves!UndoesWhatItSaw
<1>1. CASE \E r \in {"request"} : Saves!RequestStep(r)
  BY <1>1, RequestsTakeNothing DEF Saves!UndoesWhatItSaw, grants, closed
<1>2. CASE \E a \in Administrators :
             Saves!SaveOthers(a) \/ Saves!SaveProbing(a) \/ Saves!SaveProbed(a) \/ Saves!SaveEnforced(a)
  BY <1>2, SavesTake
<1>3. CASE \E s \in {"session"} : \E i \in DOMAIN x14[s] : Saves!Lands(s, i)
  BY <1>3 DEF Saves!Lands, Saves!dbVars, Saves!UndoesWhatItSaw, save
<1>4. CASE Saves!Baseline
  BY <1>4 DEF Saves!Baseline, Saves!UndoesWhatItSaw, save
<1>5. QED BY <1>1, <1>2, <1>3, <1>4 DEF Saves!Next, Administrators

(* A save takes back no session that was granted while it waited for the   *)
(* host, and switches none on again that was switched off meanwhile: its   *)
(* baselines are compared in the transaction that replaces what they were  *)
(* taken of (admin.ts, db.ts).                                             *)
THEOREM SavesSeeBeforeTheyUndo == Spec => SavesSeeWhatTheyUndo
<1> DEFINE Inv == part = "saves" => DOMAIN save = Administrators
<1>1. Init => Inv
  BY DEF Init, Saves!Init, save, Administrators
<1>2. Inv /\ [Next]_suiteVars => Inv' /\ [part = "saves" => Saves!UndoesWhatItSaw]_suiteVars
  <2>1. SUFFICES ASSUME Inv, [Next]_suiteVars, part = "saves"
                 PROVE  DOMAIN save' = Administrators /\ [Saves!UndoesWhatItSaw]_suiteVars
    BY PartStays
  <2>2. CASE Saves!Next
    BY <2>1, <2>2, SavesStep
  <2>3. CASE UNCHANGED suiteVars
    BY <2>1, <2>3 DEF suiteVars, save
  <2>4. QED
    BY <2>1, <2>2, <2>3 DEF Next, SwapSteps, EngineSteps, SettingSteps, SupervisorSteps, LinkSteps, SavesSteps
<1> HIDE DEF Inv
<1>3. QED BY <1>1, <1>2, PTL DEF Spec, SavesSeeWhatTheyUndo

------------------------------------------------------------------------------
(* UpdateEngine.  Two of its findings say what it takes: with npm the      *)
(* package installed need not be the one begun with, so npm is left out.   *)

target == x1
released == x3
installed == x4
art == x5
set == x8
mem == x9
check == x11
manual == x12
dl == x13
inst == x14
retry == x15
recovering == x16
up == x17
accounted == x20

(* Every update that was accounted for is at most, or older than, v.       *)
Version == Engine!Version
Maybe == Engine!Maybe
Behind(v) == \A u \in Version : accounted[u] # 0 => u <= v
Ahead(v) == \A u \in Version : accounted[u] # 0 => u < v

EngineTyped ==
  /\ target # "npm"
  /\ released \in Version /\ installed \in Version
  /\ accounted \in [Version -> {0, 1}]
  /\ DOMAIN set = {"pending", "confirm", "integ", "latest", "restart", "applied"}
  /\ set.pending \in Maybe /\ set.latest \in Maybe /\ set.restart \in Maybe
  /\ DOMAIN mem = {"version", "latest", "restart", "phase", "pending", "confirm", "integ"}
  /\ mem.version \in Version /\ mem.latest \in Maybe /\ mem.restart \in Maybe
  /\ mem.pending \in Maybe

(* Nothing is under way in a process that has ended.                       *)
EndsAll == ~up => check = Engine!Nothing /\ manual = Engine!None /\ dl = Engine!Nothing /\ inst = Engine!Nothing

(* The program on disk is not older than what was accounted for, nor is    *)
(* the one that runs, unless a restart is due.                             *)
NoneNewer ==
  /\ Behind(installed)
  /\ Engine!Docker \/ mem.restart = Engine!None => Behind(mem.version)

(* A package at hand or persisted is newer than all of it; so is what a    *)
(* check or the main user's click has found, and what is downloaded and    *)
(* what it would put back, until an installation takes it away.            *)
PackagesNewer ==
  /\ set.pending # Engine!None => ~Engine!Docker /\ Ahead(set.pending)
  /\ mem.pending # Engine!None => ~Engine!Docker /\ Ahead(mem.pending)
FoundNewer ==
  /\ check.at = "package" => ~Engine!Docker /\ check.v \in Version /\ check.v > mem.version
  /\ manual # Engine!None => ~Engine!Docker /\ manual \in Version /\ manual > mem.version
DownloadsNewer ==
  dl.at = "download" =>
    /\ ~Engine!Docker
    /\ DOMAIN dl = {"at", "v", "byHand", "lost", "before", "ready"}
    /\ DOMAIN dl.before = {"pending", "confirm", "integ"}
    /\ dl.v \in Version /\ dl.before.pending \in Maybe
    /\ dl.lost => \A v \in Version : art[v] = "none"
    /\ ~dl.lost => Ahead(dl.v) /\ (dl.before.pending # Engine!None => Ahead(dl.before.pending))

(* So is what is being installed, and it is what was begun with.           *)
InstallsNewer ==
  /\ inst = Engine!Nothing \/ inst.at \in {"target", "install", "restart", "pull", "up", "verify"}
  /\ inst.at \in {"target", "install"} =>
       ~Engine!Docker /\ mem.restart = Engine!None /\ inst.v \in Version /\ Ahead(inst.v)
  /\ inst.at = "install" => inst.what = inst.v
  /\ inst.at \in {"pull", "up", "verify"} =>
       /\ Engine!Docker /\ ~recovering /\ DOMAIN inst = {"at", "what"}
       /\ inst.what \in Version /\ Ahead(inst.what)
  /\ inst.at \in {"up", "verify"} => set.restart = inst.what
  /\ inst.at = "restart" \/ retry => ~Engine!Docker

(* The restart on record is remembered, and is the one the disk waits for; *)
(* with Docker an update is on record until it is accounted for.           *)
RestartsDue ==
  /\ recovering => Engine!Docker /\ mem.restart # Engine!None /\ mem.restart = set.restart
  /\ ~Engine!Docker => /\ up => set.restart = mem.restart
                       /\ set.restart # Engine!None => installed = set.restart
                       /\ mem.restart # Engine!None => installed = mem.restart
  /\ Engine!Docker /\ set.restart # Engine!None /\ set.restart # set.applied =>
       accounted[set.restart] = 0

EngineInv ==
  /\ EngineTyped /\ EndsAll /\ NoneNewer /\ PackagesNewer /\ FoundNewer
  /\ DownloadsNewer /\ InstallsNewer /\ RestartsDue

LEMMA EngineConstants ==
  /\ MaxVersion \in Nat /\ Version = 0 .. MaxVersion /\ Maybe = Version \cup {-1}
  /\ Engine!None = -1 /\ Engine!Nothing = [at |-> "none"]
  /\ Engine!Version = Version /\ Engine!Maybe = Maybe
  BY EngineFits DEF Engine!EngineAssumption, Version, Maybe, Engine!Version, Engine!Maybe, Engine!None, Engine!Nothing

LEMMA EngineInit ==
  ASSUME Engine!Init, "npm" \notin Targets PROVE EngineInv
<1> USE EngineConstants DEF Engine!Init, target, released, installed, art, set, mem, check, manual, dl, inst, retry,
    recovering, up, accounted
<1>1. EngineTyped /\ EndsAll
  BY DEF EngineTyped, EndsAll
<1>2. NoneNewer /\ PackagesNewer /\ FoundNewer
  BY DEF NoneNewer, PackagesNewer, FoundNewer, Behind
<1>3. DownloadsNewer /\ InstallsNewer /\ RestartsDue
  BY DEF DownloadsNewer, InstallsNewer, RestartsDue
<1>4. QED BY <1>1, <1>2, <1>3 DEF EngineInv

LEMMA EngineRests ==
  ASSUME EngineInv, UNCHANGED <<target, installed, art, set, mem, check, manual, dl, inst, retry, recovering, up, accounted>>,
         released' \in Version
  PROVE  EngineInv'
<1>1. Engine!Docker' = Engine!Docker
  BY DEF Engine!Docker, target
<1>2. (EngineTyped /\ EndsAll /\ NoneNewer)'
  BY <1>1 DEF EngineInv, EngineTyped, EndsAll, NoneNewer, Behind
<1>3. (PackagesNewer /\ FoundNewer /\ DownloadsNewer)'
  BY <1>1 DEF EngineInv, PackagesNewer, FoundNewer, DownloadsNewer, Ahead
<1>4. (InstallsNewer /\ RestartsDue)'
  BY <1>1 DEF EngineInv, InstallsNewer, RestartsDue, Ahead
<1>5. QED BY <1>2, <1>3, <1>4 DEF EngineInv

LEMMA AccountIs ==
  ASSUME accounted \in [Version -> {0, 1}], NEW v \in Version, accounted[v] = 0, Engine!Account(v)
  PROVE  /\ accounted' \in [Version -> {0, 1}]
         /\ \A u \in Version : accounted'[u] # 0 <=> accounted[u] # 0 \/ u = v
  BY DEF Engine!Account, accounted

(* One lemma per handler; each looks at the parts of the invariant in turn.*)
LEMMA BootEngine ==
  ASSUME EngineInv, Engine!Boot PROVE EngineInv'
<1> USE EngineConstants
<1>1. Engine!Docker' = Engine!Docker
  BY DEF Engine!Docker, Engine!Boot, Engine!outside, target
<1> USE DEF Engine!Boot, Engine!outside, Engine!files, target, released, installed, art, set, mem, check, manual,
    dl, inst, retry, recovering, up, accounted, Engine!With, Engine!PackageOf, Engine!NoPackage, Engine!Package
<1>2. (EngineTyped /\ EndsAll)'
  BY <1>1 DEF EngineInv, EngineTyped, EndsAll
<1>3. NoneNewer'
  BY <1>1 DEF EngineInv, EngineTyped, NoneNewer, Behind
<1>4. (PackagesNewer)'
  BY <1>1 DEF EngineInv, EngineTyped, PackagesNewer, Ahead
<1>5. FoundNewer'
  BY <1>1 DEF EngineInv, EngineTyped, EndsAll, FoundNewer
<1>6. DownloadsNewer'
  BY <1>1 DEF EngineInv, EngineTyped, EndsAll, DownloadsNewer
<1>7. InstallsNewer'
  BY <1>1 DEF EngineInv, EngineTyped, EndsAll, InstallsNewer
<1>8. RestartsDue'
  BY <1>1 DEF EngineInv, EngineTyped, RestartsDue
<1>9. QED BY <1>2, <1>3, <1>4, <1>5, <1>6, <1>7, <1>8 DEF EngineInv

LEMMA CrashEngine ==
  ASSUME EngineInv, Engine!Crash PROVE EngineInv'
<1> USE EngineConstants DEF Engine!Crash, Engine!Ends, Engine!outside, Engine!files, Engine!under, Engine!process,
    target, released, installed, art, set, mem, check, manual, dl, inst, retry, recovering, up, accounted
<1>1. Engine!Docker' = Engine!Docker
  BY DEF Engine!Docker
<1>2. EngineTyped' /\ EndsAll'
  BY DEF EngineInv, EngineTyped, EndsAll, FoundNewer, DownloadsNewer, InstallsNewer
<1>3. NoneNewer'
  BY <1>1 DEF EngineInv, EngineTyped, NoneNewer, Behind, Ahead, InstallsNewer
<1>4. PackagesNewer'
  BY <1>1 DEF EngineInv, EngineTyped, PackagesNewer, Ahead, DownloadsNewer, InstallsNewer
<1>5. FoundNewer'
  BY <1>1 DEF EngineInv, EngineTyped, EndsAll, FoundNewer
<1>6. DownloadsNewer'
  BY <1>1 DEF EngineInv, EngineTyped, EndsAll, DownloadsNewer, FoundNewer, NoneNewer, PackagesNewer, Ahead, Behind
<1>7. InstallsNewer'
  BY <1>1 DEF EngineInv, EngineTyped, EndsAll, InstallsNewer, PackagesNewer, NoneNewer, Ahead, Behind, RestartsDue
<1>8. RestartsDue'
  BY <1>1 DEF EngineInv, EngineTyped, EndsAll, InstallsNewer, RestartsDue
<1>9. QED BY <1>2, <1>3, <1>4, <1>5, <1>6, <1>7, <1>8 DEF EngineInv

LEMMA RestartsEngine ==
  ASSUME EngineInv, Engine!Restarts PROVE EngineInv'
<1> USE EngineConstants DEF Engine!Restarts, Engine!Ends, Engine!Phase, Engine!outside, Engine!files, Engine!under,
    Engine!process, target, released, installed, art, set, mem, check, manual, dl, inst, retry, recovering, up,
    accounted
<1>1. Engine!Docker' = Engine!Docker
  BY DEF Engine!Docker
<1>2. EngineTyped' /\ EndsAll'
  BY DEF EngineInv, EngineTyped, EndsAll, FoundNewer, DownloadsNewer, InstallsNewer
<1>3. NoneNewer'
  BY <1>1 DEF EngineInv, EngineTyped, NoneNewer, Behind, Ahead, InstallsNewer
<1>4. PackagesNewer'
  BY <1>1 DEF EngineInv, EngineTyped, PackagesNewer, Ahead, DownloadsNewer, InstallsNewer
<1>5. FoundNewer'
  BY <1>1 DEF EngineInv, EngineTyped, EndsAll, FoundNewer
<1>6. DownloadsNewer'
  BY <1>1 DEF EngineInv, EngineTyped, EndsAll, DownloadsNewer, FoundNewer, NoneNewer, PackagesNewer, Ahead, Behind
<1>7. InstallsNewer'
  BY <1>1 DEF EngineInv, EngineTyped, EndsAll, InstallsNewer, PackagesNewer, NoneNewer, Ahead, Behind, RestartsDue
<1>8. RestartsDue'
  BY <1>1 DEF EngineInv, EngineTyped, EndsAll, InstallsNewer, RestartsDue
<1>9. QED BY <1>2, <1>3, <1>4, <1>5, <1>6, <1>7, <1>8 DEF EngineInv

LEMMA SetAutoEngine ==
  ASSUME EngineInv, NEW b \in BOOLEAN, Engine!SetAuto(b) PROVE EngineInv'
<1> USE EngineConstants DEF Engine!SetAuto, Engine!With, Engine!PackageOf, Engine!Package, Engine!outside,
    Engine!files, Engine!under, Engine!process, target, released, installed, art, set, mem, check, manual, dl, inst,
    retry, recovering, up, accounted
<1>1. Engine!Docker' = Engine!Docker
  BY DEF Engine!Docker
<1>2. EngineTyped' /\ EndsAll'
  BY DEF EngineInv, EngineTyped, EndsAll, FoundNewer, DownloadsNewer, InstallsNewer
<1>3. NoneNewer'
  BY <1>1 DEF EngineInv, EngineTyped, NoneNewer, Behind, Ahead, InstallsNewer
<1>4. PackagesNewer'
  BY <1>1 DEF EngineInv, EngineTyped, PackagesNewer, Ahead, DownloadsNewer, InstallsNewer
<1>5. FoundNewer'
  BY <1>1 DEF EngineInv, EngineTyped, EndsAll, FoundNewer
<1>6. DownloadsNewer'
  BY <1>1 DEF EngineInv, EngineTyped, EndsAll, DownloadsNewer, FoundNewer, NoneNewer, PackagesNewer, Ahead, Behind
<1>7. InstallsNewer'
  BY <1>1 DEF EngineInv, EngineTyped, EndsAll, InstallsNewer, PackagesNewer, NoneNewer, Ahead, Behind, RestartsDue
<1>8. RestartsDue'
  BY <1>1 DEF EngineInv, EngineTyped, EndsAll, InstallsNewer, RestartsDue
<1>9. QED BY <1>2, <1>3, <1>4, <1>5, <1>6, <1>7, <1>8 DEF EngineInv

LEMMA CheckEngine ==
  ASSUME EngineInv, NEW b \in BOOLEAN, Engine!Check(b) PROVE EngineInv'
<1> USE EngineConstants DEF Engine!Check, Engine!outside, Engine!files, Engine!under, Engine!process, target,
    released, installed, art, set, mem, check, manual, dl, inst, retry, recovering, up, accounted
<1>1. Engine!Docker' = Engine!Docker
  BY DEF Engine!Docker
<1>2. EngineTyped' /\ EndsAll'
  BY DEF EngineInv, EngineTyped, EndsAll, FoundNewer, DownloadsNewer, InstallsNewer
<1>3. NoneNewer'
  BY <1>1 DEF EngineInv, EngineTyped, NoneNewer, Behind, Ahead, InstallsNewer
<1>4. PackagesNewer'
  BY <1>1 DEF EngineInv, EngineTyped, PackagesNewer, Ahead, DownloadsNewer, InstallsNewer
<1>5. FoundNewer'
  BY <1>1 DEF EngineInv, EngineTyped, EndsAll, FoundNewer
<1>6. DownloadsNewer'
  BY <1>1 DEF EngineInv, EngineTyped, EndsAll, DownloadsNewer, FoundNewer, NoneNewer, PackagesNewer, Ahead, Behind
<1>7. InstallsNewer'
  BY <1>1 DEF EngineInv, EngineTyped, EndsAll, InstallsNewer, PackagesNewer, NoneNewer, Ahead, Behind, RestartsDue
<1>8. RestartsDue'
  BY <1>1 DEF EngineInv, EngineTyped, EndsAll, InstallsNewer, RestartsDue
<1>9. QED BY <1>2, <1>3, <1>4, <1>5, <1>6, <1>7, <1>8 DEF EngineInv

LEMMA CheckPackageEngine ==
  ASSUME EngineInv, Engine!CheckPackage PROVE EngineInv'
<1> USE EngineConstants DEF Engine!CheckPackage, Engine!StartDownload, Engine!MayDownload, Engine!Phase,
    Engine!PackageOf, Engine!Package, Engine!outside, Engine!files, Engine!under, Engine!process, target, released,
    installed, art, set, mem, check, manual, dl, inst, retry, recovering, up, accounted
<1>1. Engine!Docker' = Engine!Docker
  BY DEF Engine!Docker
<1>2. EngineTyped' /\ EndsAll'
  BY DEF EngineInv, EngineTyped, EndsAll, FoundNewer, DownloadsNewer, InstallsNewer
<1>3. NoneNewer'
  BY <1>1 DEF EngineInv, EngineTyped, NoneNewer, Behind, Ahead, InstallsNewer
<1>4. PackagesNewer'
  BY <1>1 DEF EngineInv, EngineTyped, PackagesNewer, Ahead, DownloadsNewer, InstallsNewer
<1>5. FoundNewer'
  BY <1>1 DEF EngineInv, EngineTyped, EndsAll, FoundNewer
<1>6. DownloadsNewer'
  BY <1>1 DEF EngineInv, EngineTyped, EndsAll, DownloadsNewer, FoundNewer, NoneNewer, PackagesNewer, Ahead, Behind
<1>7. InstallsNewer'
  BY <1>1 DEF EngineInv, EngineTyped, EndsAll, InstallsNewer, PackagesNewer, NoneNewer, Ahead, Behind, RestartsDue
<1>8. RestartsDue'
  BY <1>1 DEF EngineInv, EngineTyped, EndsAll, InstallsNewer, RestartsDue
<1>9. QED BY <1>2, <1>3, <1>4, <1>5, <1>6, <1>7, <1>8 DEF EngineInv

LEMMA ApplyDownloadsEngine ==
  ASSUME EngineInv, Engine!ApplyDownloads PROVE EngineInv'
<1> USE EngineConstants DEF Engine!ApplyDownloads, Engine!MayInstall, Engine!outside, Engine!files, Engine!under,
    Engine!process, target, released, installed, art, set, mem, check, manual, dl, inst, retry, recovering, up,
    accounted
<1>1. Engine!Docker' = Engine!Docker
  BY DEF Engine!Docker
<1>2. EngineTyped' /\ EndsAll'
  BY DEF EngineInv, EngineTyped, EndsAll, FoundNewer, DownloadsNewer, InstallsNewer
<1>3. NoneNewer'
  BY <1>1 DEF EngineInv, EngineTyped, NoneNewer, Behind, Ahead, InstallsNewer
<1>4. PackagesNewer'
  BY <1>1 DEF EngineInv, EngineTyped, PackagesNewer, Ahead, DownloadsNewer, InstallsNewer
<1>5. FoundNewer'
  BY <1>1 DEF EngineInv, EngineTyped, EndsAll, FoundNewer
<1>6. DownloadsNewer'
  BY <1>1 DEF EngineInv, EngineTyped, EndsAll, DownloadsNewer, FoundNewer, NoneNewer, PackagesNewer, Ahead, Behind
<1>7. InstallsNewer'
  BY <1>1 DEF EngineInv, EngineTyped, EndsAll, InstallsNewer, PackagesNewer, NoneNewer, Ahead, Behind, RestartsDue
<1>8. RestartsDue'
  BY <1>1 DEF EngineInv, EngineTyped, EndsAll, InstallsNewer, RestartsDue
<1>9. QED BY <1>2, <1>3, <1>4, <1>5, <1>6, <1>7, <1>8 DEF EngineInv

LEMMA ApplyMetadataEngine ==
  ASSUME EngineInv, Engine!ApplyMetadata PROVE EngineInv'
<1> USE EngineConstants DEF Engine!ApplyMetadata, Engine!StartDownload, Engine!MayDownload, Engine!Phase,
    Engine!PackageOf, Engine!Package, Engine!outside, Engine!files, Engine!under, Engine!process, target, released,
    installed, art, set, mem, check, manual, dl, inst, retry, recovering, up, accounted
<1>1. Engine!Docker' = Engine!Docker
  BY DEF Engine!Docker
<1>2. EngineTyped' /\ EndsAll'
  BY DEF EngineInv, EngineTyped, EndsAll, FoundNewer, DownloadsNewer, InstallsNewer
<1>3. NoneNewer'
  BY <1>1 DEF EngineInv, EngineTyped, NoneNewer, Behind, Ahead, InstallsNewer
<1>4. PackagesNewer'
  BY <1>1 DEF EngineInv, EngineTyped, PackagesNewer, Ahead, DownloadsNewer, InstallsNewer
<1>5. FoundNewer'
  BY <1>1 DEF EngineInv, EngineTyped, EndsAll, FoundNewer
<1>6. DownloadsNewer'
  BY <1>1 DEF EngineInv, EngineTyped, EndsAll, DownloadsNewer, FoundNewer, NoneNewer, PackagesNewer, Ahead, Behind
<1>7. InstallsNewer'
  BY <1>1 DEF EngineInv, EngineTyped, EndsAll, InstallsNewer, PackagesNewer, NoneNewer, Ahead, Behind, RestartsDue
<1>8. RestartsDue'
  BY <1>1 DEF EngineInv, EngineTyped, EndsAll, InstallsNewer, RestartsDue
<1>9. QED BY <1>2, <1>3, <1>4, <1>5, <1>6, <1>7, <1>8 DEF EngineInv

LEMMA ApplyRestartsEngine ==
  ASSUME EngineInv, Engine!ApplyRestarts PROVE EngineInv'
<1> USE EngineConstants DEF Engine!ApplyRestarts, Engine!Phase, Engine!outside, Engine!files, Engine!under,
    Engine!process, target, released, installed, art, set, mem, check, manual, dl, inst, retry, recovering, up,
    accounted
<1>1. Engine!Docker' = Engine!Docker
  BY DEF Engine!Docker
<1>2. EngineTyped' /\ EndsAll'
  BY DEF EngineInv, EngineTyped, EndsAll, FoundNewer, DownloadsNewer, InstallsNewer
<1>3. NoneNewer'
  BY <1>1 DEF EngineInv, EngineTyped, NoneNewer, Behind, Ahead, InstallsNewer
<1>4. PackagesNewer'
  BY <1>1 DEF EngineInv, EngineTyped, PackagesNewer, Ahead, DownloadsNewer, InstallsNewer
<1>5. FoundNewer'
  BY <1>1 DEF EngineInv, EngineTyped, EndsAll, FoundNewer
<1>6. DownloadsNewer'
  BY <1>1 DEF EngineInv, EngineTyped, EndsAll, DownloadsNewer, FoundNewer, NoneNewer, PackagesNewer, Ahead, Behind
<1>7. InstallsNewer'
  BY <1>1 DEF EngineInv, EngineTyped, EndsAll, InstallsNewer, PackagesNewer, NoneNewer, Ahead, Behind, RestartsDue
<1>8. RestartsDue'
  BY <1>1 DEF EngineInv, EngineTyped, EndsAll, InstallsNewer, RestartsDue
<1>9. QED BY <1>2, <1>3, <1>4, <1>5, <1>6, <1>7, <1>8 DEF EngineInv

LEMMA DownloadedEngine ==
  ASSUME EngineInv, Engine!Downloaded PROVE EngineInv'
<1> USE EngineConstants DEF Engine!Downloaded, Engine!With, Engine!Package, Engine!outside, Engine!files,
    Engine!under, Engine!process, target, released, installed, art, set, mem, check, manual, dl, inst, retry,
    recovering, up, accounted
<1>1. Engine!Docker' = Engine!Docker
  BY DEF Engine!Docker
<1>2. EngineTyped' /\ EndsAll'
  BY DEF EngineInv, EngineTyped, EndsAll, FoundNewer, DownloadsNewer, InstallsNewer
<1>3. NoneNewer'
  BY <1>1 DEF EngineInv, EngineTyped, NoneNewer, Behind, Ahead, InstallsNewer
<1>4. PackagesNewer'
  BY <1>1 DEF EngineInv, EngineTyped, PackagesNewer, Ahead, DownloadsNewer, InstallsNewer
<1>5. FoundNewer'
  BY <1>1 DEF EngineInv, EngineTyped, EndsAll, FoundNewer
<1>6. DownloadsNewer'
  BY <1>1 DEF EngineInv, EngineTyped, EndsAll, DownloadsNewer, FoundNewer, NoneNewer, PackagesNewer, Ahead, Behind
<1>7. InstallsNewer'
  BY <1>1 DEF EngineInv, EngineTyped, EndsAll, InstallsNewer, PackagesNewer, NoneNewer, Ahead, Behind, RestartsDue
<1>8. RestartsDue'
  BY <1>1 DEF EngineInv, EngineTyped, EndsAll, InstallsNewer, RestartsDue
<1>9. QED BY <1>2, <1>3, <1>4, <1>5, <1>6, <1>7, <1>8 DEF EngineInv

LEMMA DownloadFailsEngine ==
  ASSUME EngineInv, Engine!DownloadFails PROVE EngineInv'
<1> USE EngineConstants DEF Engine!DownloadFails, Engine!With, Engine!outside, Engine!files, Engine!under,
    Engine!process, target, released, installed, art, set, mem, check, manual, dl, inst, retry, recovering, up,
    accounted
<1>1. Engine!Docker' = Engine!Docker
  BY DEF Engine!Docker
<1>2. EngineTyped' /\ EndsAll'
  BY DEF EngineInv, EngineTyped, EndsAll, FoundNewer, DownloadsNewer, InstallsNewer
<1>3. NoneNewer'
  BY <1>1 DEF EngineInv, EngineTyped, NoneNewer, Behind, Ahead, InstallsNewer
<1>4. PackagesNewer'
  BY <1>1 DEF EngineInv, EngineTyped, PackagesNewer, Ahead, DownloadsNewer, InstallsNewer
<1>5. FoundNewer'
  BY <1>1 DEF EngineInv, EngineTyped, EndsAll, FoundNewer
<1>6. DownloadsNewer'
  BY <1>1 DEF EngineInv, EngineTyped, EndsAll, DownloadsNewer, FoundNewer, NoneNewer, PackagesNewer, Ahead, Behind
<1>7. InstallsNewer'
  BY <1>1 DEF EngineInv, EngineTyped, EndsAll, InstallsNewer, PackagesNewer, NoneNewer, Ahead, Behind, RestartsDue
<1>8. RestartsDue'
  BY <1>1 DEF EngineInv, EngineTyped, EndsAll, InstallsNewer, RestartsDue
<1>9. QED BY <1>2, <1>3, <1>4, <1>5, <1>6, <1>7, <1>8 DEF EngineInv

LEMMA TargetEngine ==
  ASSUME EngineInv, Engine!Target PROVE EngineInv'
<1> USE EngineConstants DEF Engine!Target, Engine!AtHand, Engine!Phase, Engine!outside, Engine!files, Engine!under,
    Engine!process, target, released, installed, art, set, mem, check, manual, dl, inst, retry, recovering, up,
    accounted
<1>1. Engine!Docker' = Engine!Docker
  BY DEF Engine!Docker
<1>2. EngineTyped' /\ EndsAll'
  BY DEF EngineInv, EngineTyped, EndsAll, FoundNewer, DownloadsNewer, InstallsNewer
<1>3. NoneNewer'
  BY <1>1 DEF EngineInv, EngineTyped, NoneNewer, Behind, Ahead, InstallsNewer
<1>4. PackagesNewer'
  BY <1>1 DEF EngineInv, EngineTyped, PackagesNewer, Ahead, DownloadsNewer, InstallsNewer
<1>5. FoundNewer'
  BY <1>1 DEF EngineInv, EngineTyped, EndsAll, FoundNewer
<1>6. DownloadsNewer'
  BY <1>1 DEF EngineInv, EngineTyped, EndsAll, DownloadsNewer, FoundNewer, NoneNewer, PackagesNewer, Ahead, Behind
<1>7. InstallsNewer'
  BY <1>1 DEF EngineInv, EngineTyped, EndsAll, InstallsNewer, PackagesNewer, NoneNewer, Ahead, Behind, RestartsDue
<1>8. RestartsDue'
  BY <1>1 DEF EngineInv, EngineTyped, EndsAll, InstallsNewer, RestartsDue
<1>9. QED BY <1>2, <1>3, <1>4, <1>5, <1>6, <1>7, <1>8 DEF EngineInv

LEMMA InstallFailsEngine ==
  ASSUME EngineInv, Engine!InstallFails PROVE EngineInv'
<1> USE EngineConstants DEF Engine!InstallFails, Engine!Phase, Engine!outside, Engine!files, Engine!under,
    Engine!process, target, released, installed, art, set, mem, check, manual, dl, inst, retry, recovering, up,
    accounted
<1>1. Engine!Docker' = Engine!Docker
  BY DEF Engine!Docker
<1>2. EngineTyped' /\ EndsAll'
  BY DEF EngineInv, EngineTyped, EndsAll, FoundNewer, DownloadsNewer, InstallsNewer
<1>3. NoneNewer'
  BY <1>1 DEF EngineInv, EngineTyped, NoneNewer, Behind, Ahead, InstallsNewer
<1>4. PackagesNewer'
  BY <1>1 DEF EngineInv, EngineTyped, PackagesNewer, Ahead, DownloadsNewer, InstallsNewer
<1>5. FoundNewer'
  BY <1>1 DEF EngineInv, EngineTyped, EndsAll, FoundNewer
<1>6. DownloadsNewer'
  BY <1>1 DEF EngineInv, EngineTyped, EndsAll, DownloadsNewer, FoundNewer, NoneNewer, PackagesNewer, Ahead, Behind
<1>7. InstallsNewer'
  BY <1>1 DEF EngineInv, EngineTyped, EndsAll, InstallsNewer, PackagesNewer, NoneNewer, Ahead, Behind, RestartsDue
<1>8. RestartsDue'
  BY <1>1 DEF EngineInv, EngineTyped, EndsAll, InstallsNewer, RestartsDue
<1>9. QED BY <1>2, <1>3, <1>4, <1>5, <1>6, <1>7, <1>8 DEF EngineInv

LEMMA DockerFailsEngine ==
  ASSUME EngineInv, Engine!DockerFails PROVE EngineInv'
<1> USE EngineConstants DEF Engine!DockerFails, Engine!GiveUpDocker, Engine!outside, Engine!files, Engine!under,
    Engine!process, target, released, installed, art, set, mem, check, manual, dl, inst, retry, recovering, up,
    accounted
<1>1. Engine!Docker' = Engine!Docker
  BY DEF Engine!Docker
<1>2. EngineTyped' /\ EndsAll'
  BY DEF EngineInv, EngineTyped, EndsAll, FoundNewer, DownloadsNewer, InstallsNewer
<1>3. NoneNewer'
  BY <1>1 DEF EngineInv, EngineTyped, NoneNewer, Behind, Ahead, InstallsNewer
<1>4. PackagesNewer'
  BY <1>1 DEF EngineInv, EngineTyped, PackagesNewer, Ahead, DownloadsNewer, InstallsNewer
<1>5. FoundNewer'
  BY <1>1 DEF EngineInv, EngineTyped, EndsAll, FoundNewer
<1>6. DownloadsNewer'
  BY <1>1 DEF EngineInv, EngineTyped, EndsAll, DownloadsNewer, FoundNewer, NoneNewer, PackagesNewer, Ahead, Behind
<1>7. InstallsNewer'
  BY <1>1 DEF EngineInv, EngineTyped, EndsAll, InstallsNewer, PackagesNewer, NoneNewer, Ahead, Behind, RestartsDue
<1>8. RestartsDue'
  BY <1>1 DEF EngineInv, EngineTyped, EndsAll, InstallsNewer, RestartsDue
<1>9. QED BY <1>2, <1>3, <1>4, <1>5, <1>6, <1>7, <1>8 DEF EngineInv

LEMMA UpEngine ==
  ASSUME EngineInv, Engine!Up PROVE EngineInv'
<1> USE EngineConstants DEF Engine!Up, Engine!outside, Engine!files, Engine!under, Engine!process, target, released,
    installed, art, set, mem, check, manual, dl, inst, retry, recovering, up, accounted
<1>1. Engine!Docker' = Engine!Docker
  BY DEF Engine!Docker
<1>2. EngineTyped' /\ EndsAll'
  BY DEF EngineInv, EngineTyped, EndsAll, FoundNewer, DownloadsNewer, InstallsNewer
<1>3. NoneNewer'
  BY <1>1 DEF EngineInv, EngineTyped, NoneNewer, Behind, Ahead, InstallsNewer
<1>4. PackagesNewer'
  BY <1>1 DEF EngineInv, EngineTyped, PackagesNewer, Ahead, DownloadsNewer, InstallsNewer
<1>5. FoundNewer'
  BY <1>1 DEF EngineInv, EngineTyped, EndsAll, FoundNewer
<1>6. DownloadsNewer'
  BY <1>1 DEF EngineInv, EngineTyped, EndsAll, DownloadsNewer, FoundNewer, NoneNewer, PackagesNewer, Ahead, Behind
<1>7. InstallsNewer'
  BY <1>1 DEF EngineInv, EngineTyped, EndsAll, InstallsNewer, PackagesNewer, NoneNewer, Ahead, Behind, RestartsDue
<1>8. RestartsDue'
  BY <1>1 DEF EngineInv, EngineTyped, EndsAll, InstallsNewer, RestartsDue
<1>9. QED BY <1>2, <1>3, <1>4, <1>5, <1>6, <1>7, <1>8 DEF EngineInv

LEMMA LoseEngine ==
  ASSUME EngineInv, Engine!Lose PROVE EngineInv'
<1> USE EngineConstants DEF Engine!Lose, Engine!outside, Engine!files, Engine!under, Engine!process, target,
    released, installed, art, set, mem, check, manual, dl, inst, retry, recovering, up, accounted
<1>1. Engine!Docker' = Engine!Docker
  BY DEF Engine!Docker
<1>2. EngineTyped' /\ EndsAll'
  BY DEF EngineInv, EngineTyped, EndsAll, FoundNewer, DownloadsNewer, InstallsNewer
<1>3. NoneNewer'
  BY <1>1 DEF EngineInv, EngineTyped, NoneNewer, Behind, Ahead, InstallsNewer
<1>4. PackagesNewer'
  BY <1>1 DEF EngineInv, EngineTyped, PackagesNewer, Ahead, DownloadsNewer, InstallsNewer
<1>5. FoundNewer'
  BY <1>1 DEF EngineInv, EngineTyped, EndsAll, FoundNewer
<1>6. DownloadsNewer'
  BY <1>1 DEF EngineInv, EngineTyped, EndsAll, DownloadsNewer, FoundNewer, NoneNewer, PackagesNewer, Ahead, Behind
<1>7. InstallsNewer'
  BY <1>1 DEF EngineInv, EngineTyped, EndsAll, InstallsNewer, PackagesNewer, NoneNewer, Ahead, Behind, RestartsDue
<1>8. RestartsDue'
  BY <1>1 DEF EngineInv, EngineTyped, EndsAll, InstallsNewer, RestartsDue
<1>9. QED BY <1>2, <1>3, <1>4, <1>5, <1>6, <1>7, <1>8 DEF EngineInv

(* The answer of the registry replaces what is known of the latest release *)
(* and may forget the package at hand.                                     *)
LEMMA CheckReleaseIs ==
  ASSUME EngineInv, Engine!CheckRelease
  PROVE  /\ UNCHANGED <<target, released, installed, art, manual, dl, inst, retry, recovering, up, accounted>>
         /\ DOMAIN mem' = DOMAIN mem /\ DOMAIN set' = DOMAIN set
         /\ mem'.version = mem.version /\ mem'.restart = mem.restart
         /\ mem'.latest \in {mem.latest, released} /\ mem'.pending \in {mem.pending, Engine!None}
         /\ set'.restart = set.restart /\ set'.applied = set.applied
         /\ set'.latest \in {set.latest, released} /\ set'.pending \in {set.pending, Engine!None}
         /\ \/ check' = Engine!Nothing
            \/ /\ check' = [at |-> "package", v |-> released]
               /\ released > mem.version /\ ~Engine!Docker
<1> USE DEF Engine!CheckRelease, Engine!outside, Engine!files, Engine!process, target, released, installed, art,
    set, mem, check, manual, dl, inst, retry, recovering, up, accounted
<1>1. UNCHANGED <<target, released, installed, art, manual, dl, inst, retry, recovering, up, accounted>>
  OBVIOUS
<1>2. CASE check' = Engine!Nothing /\ UNCHANGED <<set, mem>>
  BY <1>1, <1>2
<1>3. CASE ~(check' = Engine!Nothing /\ UNCHANGED <<set, mem>>)
  <2> DEFINE over == released <= mem.version /\ mem.pending = mem.version
             known == [mem EXCEPT !.latest = released]
             none == Engine!NoPackage
  <2>1. /\ mem' = IF over THEN [Engine!With(known, none) EXCEPT !.phase = "idle"] ELSE known
        /\ set' = [(IF over THEN Engine!With(set, none) ELSE set) EXCEPT !.latest = released]
        /\ check' = IF \/ released <= mem.version
                       \/ mem.pending = released /\ mem.phase = "ready"
                       \/ ~check.may \/ Engine!Docker \/ ~x7
                      THEN Engine!Nothing ELSE [at |-> "package", v |-> released]
    BY <1>3
  <2>2. /\ DOMAIN set = {"pending", "confirm", "integ", "latest", "restart", "applied"}
        /\ DOMAIN mem = {"version", "latest", "restart", "phase", "pending", "confirm", "integ"}
        /\ released \in Int /\ mem.version \in Int
    BY EngineConstants DEF EngineInv, EngineTyped
  <2>3. none.pending = Engine!None
    BY DEF Engine!NoPackage, Engine!Package
  <2>4. /\ DOMAIN mem' = DOMAIN mem /\ mem'.version = mem.version /\ mem'.restart = mem.restart
        /\ mem'.latest = released /\ mem'.pending \in {mem.pending, Engine!None}
    <3> HIDE DEF none
    <3>1. QED BY <2>1, <2>2, <2>3 DEF Engine!With
  <2>5. /\ DOMAIN set' = DOMAIN set /\ set'.restart = set.restart /\ set'.applied = set.applied
        /\ set'.latest = released /\ set'.pending \in {set.pending, Engine!None}
    <3> HIDE DEF none
    <3>1. QED BY <2>1, <2>2, <2>3 DEF Engine!With
  <2>6. \/ check' = Engine!Nothing
        \/ check' = [at |-> "package", v |-> released] /\ released > mem.version /\ ~Engine!Docker
    BY <2>1, <2>2
  <2>7. QED BY <1>1, <2>4, <2>5, <2>6
<1>4. QED BY <1>2, <1>3

LEMMA CheckReleaseEngine ==
  ASSUME EngineInv, Engine!CheckRelease PROVE EngineInv'
<1> USE EngineConstants, CheckReleaseIs
<1>1. Engine!Docker' = Engine!Docker
  BY DEF Engine!Docker, target
<1>2. EngineTyped'
  BY <1>1 DEF EngineInv, EngineTyped
<1>3. EndsAll'
  <2>1. check.at = "release"
    BY DEF Engine!CheckRelease, check
  <2>2. check # Engine!Nothing
    BY <2>1
  <2>3. QED BY <2>2 DEF EngineInv, EndsAll
<1>4. NoneNewer' /\ PackagesNewer'
  BY <1>1 DEF EngineInv, EngineTyped, NoneNewer, PackagesNewer, Behind, Ahead
<1>5. FoundNewer'
  BY <1>1 DEF EngineInv, EngineTyped, FoundNewer
<1>6. DownloadsNewer'
  BY <1>1 DEF EngineInv, DownloadsNewer, Ahead
<1>7. InstallsNewer' /\ RestartsDue'
  BY <1>1 DEF EngineInv, InstallsNewer, RestartsDue, Ahead
<1>8. QED BY <1>2, <1>3, <1>4, <1>5, <1>6, <1>7 DEF EngineInv

(* An installation begins with what is newer than all that is accounted    *)
(* for.                                                                    *)
LEMMA BeginKeeps ==
  ASSUME EngineInv, Engine!MayInstall, NEW m, Engine!Begin(m),
         DOMAIN m = DOMAIN mem, m.version = mem.version, m.latest = mem.latest, m.restart = mem.restart,
         m.pending = mem.pending, Engine!Docker => mem.latest > mem.version
  PROVE  EngineInv'
<1> USE EngineConstants DEF Engine!MayInstall, Engine!Begin, Engine!outside, Engine!process, target, released,
    installed, art, set, mem, check, manual, dl, inst, retry, recovering, up, accounted
<1>1. Engine!Docker' = Engine!Docker
  BY DEF Engine!Docker
<1>2. /\ DOMAIN mem' = DOMAIN mem /\ mem'.version = mem.version /\ mem'.latest = mem.latest
      /\ mem'.restart = mem.restart /\ mem'.pending = mem.pending
  BY DEF EngineInv, EngineTyped
<1>3. \/ inst' = inst
      \/ ~Engine!Docker /\ mem.pending # Engine!None /\ inst' = [at |-> "target", v |-> mem.pending]
      \/ Engine!Docker /\ inst' = [at |-> "pull", what |-> mem.latest]
  OBVIOUS
<1>4. UNCHANGED <<target, released, installed, art, set, check, manual, dl, retry, recovering, up, accounted>>
  OBVIOUS
<1>5. up /\ mem.restart = Engine!None /\ inst = Engine!Nothing
  OBVIOUS
<1>6. EngineTyped' /\ EndsAll'
  BY <1>1, <1>2, <1>4, <1>5 DEF EngineInv, EngineTyped, EndsAll
<1>7. NoneNewer' /\ PackagesNewer'
  BY <1>1, <1>2, <1>4 DEF EngineInv, EngineTyped, NoneNewer, PackagesNewer, Behind, Ahead
<1>8. FoundNewer' /\ DownloadsNewer'
  BY <1>1, <1>2, <1>4 DEF EngineInv, FoundNewer, DownloadsNewer, Ahead
<1>9. RestartsDue'
  BY <1>1, <1>2, <1>4 DEF EngineInv, RestartsDue
<1>10. InstallsNewer'
  <2>1. CASE inst' = inst
    BY <1>1, <1>2, <1>4, <2>1 DEF EngineInv, InstallsNewer, Ahead
  <2>2. CASE ~Engine!Docker /\ mem.pending # Engine!None /\ inst' = [at |-> "target", v |-> mem.pending]
    BY <1>1, <1>2, <1>4, <1>5, <2>2 DEF EngineInv, EngineTyped, InstallsNewer, PackagesNewer, Ahead
  <2>3. CASE Engine!Docker /\ inst' = [at |-> "pull", what |-> mem.latest]
    <3>1. ~recovering
      BY <1>5 DEF EngineInv, RestartsDue
    <3>2. mem.latest \in Version /\ Ahead(mem.latest)
      BY <2>3 DEF EngineInv, EngineTyped, NoneNewer, Behind, Ahead
    <3>3. QED
      BY <1>1, <1>2, <1>4, <1>5, <2>3, <3>1, <3>2 DEF EngineInv, InstallsNewer, Ahead
  <2>4. QED BY <1>3, <2>1, <2>2, <2>3
<1>11. QED BY <1>6, <1>7, <1>8, <1>9, <1>10 DEF EngineInv

LEMMA InstallsBegin ==
  ASSUME EngineInv, Engine!TickInstalls \/ Engine!ApplyInstalls PROVE EngineInv'
<1> USE EngineConstants
<1>1. Engine!Docker => mem.pending = Engine!None
  BY DEF EngineInv, PackagesNewer
<1>2. CASE Engine!TickInstalls
  <2>1. Engine!MayInstall /\ Engine!Begin(mem) /\ (Engine!Docker => mem.latest > mem.version)
    BY <1>1, <1>2 DEF Engine!TickInstalls, mem
  <2>2. QED BY <2>1, BeginKeeps
<1>3. CASE Engine!ApplyInstalls
  <2>1. Engine!MayInstall
    BY <1>3 DEF Engine!ApplyInstalls
  <2>2. CASE Engine!Docker /\ mem.latest > mem.version /\ Engine!Begin(mem)
    BY <2>1, <2>2, BeginKeeps
  <2>3. CASE mem.pending # Engine!None /\ Engine!Begin([mem EXCEPT !.phase = "installing"])
    <3> DEFINE m == [mem EXCEPT !.phase = "installing"]
    <3>1. /\ DOMAIN m = DOMAIN mem /\ m.version = mem.version /\ m.latest = mem.latest
          /\ m.restart = mem.restart /\ m.pending = mem.pending
      BY DEF EngineInv, EngineTyped
    <3>2. ~Engine!Docker /\ Engine!Begin(m)
      BY <1>1, <2>3
    <3> HIDE DEF m
    <3>3. QED BY <2>1, <3>1, <3>2, BeginKeeps
  <2>4. QED BY <1>3, <2>2, <2>3 DEF Engine!ApplyInstalls, mem
<1>4. QED BY <1>2, <1>3

(* The new program is on disk: what was at hand is gone, and a restart is  *)
(* due.                                                                    *)
LEMMA InstalledIs ==
  ASSUME EngineInv, Engine!Installed
  PROVE  /\ inst.at = "install" /\ inst.what = inst.v /\ installed' = inst.v /\ Engine!Account(inst.v)
         /\ UNCHANGED <<target, released, check, manual, retry, recovering, up>>
         /\ DOMAIN mem' = DOMAIN mem /\ DOMAIN set' = DOMAIN set
         /\ mem'.version = mem.version /\ mem'.latest = inst.v
         /\ mem'.restart = inst.v /\ mem'.pending = Engine!None
         /\ set'.latest = inst.v /\ set'.restart = inst.v /\ set'.pending = Engine!None
         /\ \A v \in Version : art'[v] = "none"
         /\ (dl' = dl /\ dl = Engine!Nothing) \/ dl' = [dl EXCEPT !.lost = TRUE]
         /\ inst' = [at |-> "restart"] \/ inst' = Engine!Nothing
<1> USE EngineConstants DEF Engine!Installed, Engine!outside, Engine!process, target, released, installed, art, set,
    mem, check, manual, dl, inst, retry, recovering, up, accounted
<1>1. inst.at = "install" /\ inst.what = inst.v /\ installed' = inst.v /\ Engine!Account(inst.v)
  BY DEF EngineInv, InstallsNewer
<1>2. UNCHANGED <<target, released, check, manual, retry, recovering, up>>
  OBVIOUS
<1>3. /\ DOMAIN set = {"pending", "confirm", "integ", "latest", "restart", "applied"}
      /\ DOMAIN mem = {"version", "latest", "restart", "phase", "pending", "confirm", "integ"}
  BY DEF EngineInv, EngineTyped
<1> DEFINE none == Engine!NoPackage
<1>4. none.pending = Engine!None
  BY DEF Engine!NoPackage, Engine!Package
<1>5. /\ set' = [Engine!With(set, none) EXCEPT !.latest = inst.v, !.restart = inst.v]
      /\ mem' = [Engine!With(mem, none) EXCEPT !.latest = inst.v, !.restart = inst.v,
                   !.phase = IF x2 THEN "restarting" ELSE "error"]
  OBVIOUS
<1>6. /\ DOMAIN mem' = DOMAIN mem /\ mem'.version = mem.version /\ mem'.latest = inst.v
      /\ mem'.restart = inst.v /\ mem'.pending = Engine!None
  <2> HIDE DEF none
  <2>1. QED BY <1>3, <1>4, <1>5 DEF Engine!With
<1>7. DOMAIN set' = DOMAIN set /\ set'.latest = inst.v /\ set'.restart = inst.v /\ set'.pending = Engine!None
  <2> HIDE DEF none
  <2>1. QED BY <1>3, <1>4, <1>5 DEF Engine!With
<1>8. \A v \in Version : art'[v] = "none"
  OBVIOUS
<1>9. (dl' = dl /\ dl = Engine!Nothing) \/ dl' = [dl EXCEPT !.lost = TRUE]
  OBVIOUS
<1>10. inst' = [at |-> "restart"] \/ inst' = Engine!Nothing
  OBVIOUS
<1>11. QED BY <1>1, <1>2, <1>6, <1>7, <1>8, <1>9, <1>10

LEMMA InstalledEngine ==
  ASSUME EngineInv, Engine!Installed PROVE EngineInv'
<1> USE EngineConstants, InstalledIs
<1>1. Engine!Docker' = Engine!Docker
  BY DEF Engine!Docker, target
<1>2. ~Engine!Docker /\ inst.v \in Version /\ Ahead(inst.v) /\ mem.restart = Engine!None
  BY DEF EngineInv, InstallsNewer
<1>3. accounted[inst.v] = 0 /\ accounted \in [Version -> {0, 1}]
  BY <1>2 DEF EngineInv, EngineTyped, Ahead
<1>4. /\ accounted' \in [Version -> {0, 1}]
      /\ \A u \in Version : accounted'[u] # 0 <=> accounted[u] # 0 \/ u = inst.v
  BY <1>2, <1>3, AccountIs
<1>5. EngineTyped' /\ EndsAll'
  BY <1>2, <1>4 DEF EngineInv, EngineTyped, EndsAll
<1>6. Behind(installed)'
  BY <1>2, <1>4 DEF Behind, Ahead
<1>7. NoneNewer' /\ PackagesNewer'
  BY <1>1, <1>2, <1>6 DEF NoneNewer, PackagesNewer
<1>8. FoundNewer'
  BY <1>1 DEF EngineInv, FoundNewer
<1>9. DownloadsNewer'
  <2>1. CASE dl' = Engine!Nothing
    BY <2>1 DEF DownloadsNewer
  <2>2. CASE dl.at = "download" /\ dl' = [dl EXCEPT !.lost = TRUE]
    BY <1>1, <2>2 DEF EngineInv, DownloadsNewer
  <2>3. CASE dl.at # "download" /\ dl' = [dl EXCEPT !.lost = TRUE]
    BY <2>3 DEF DownloadsNewer
  <2>4. QED BY <2>1, <2>2, <2>3
<1>10. InstallsNewer'
  BY <1>1, <1>2 DEF EngineInv, InstallsNewer
<1>11. RestartsDue'
  BY <1>1, <1>2 DEF EngineInv, RestartsDue
<1>12. QED BY <1>5, <1>7, <1>8, <1>9, <1>10, <1>11 DEF EngineInv

LEMMA PullEngine ==
  ASSUME EngineInv, Engine!Pull PROVE EngineInv'
<1> USE EngineConstants DEF Engine!Pull, Engine!outside, Engine!files, Engine!process, target, released, installed,
    art, set, mem, check, manual, dl, inst, retry, recovering, up, accounted
<1>1. Engine!Docker' = Engine!Docker /\ Engine!Docker
  BY DEF Engine!Docker, EngineInv, InstallsNewer
<1>2. inst.what \in Version /\ Ahead(inst.what) /\ ~recovering /\ DOMAIN inst = {"at", "what"}
  BY DEF EngineInv, InstallsNewer
<1>3. UNCHANGED <<target, released, installed, art, check, manual, dl, retry, recovering, up, accounted>>
  OBVIOUS
<1>4. inst'.at = "up" /\ inst'.what = inst.what /\ DOMAIN inst' = DOMAIN inst
  BY <1>2
<1>5. /\ DOMAIN set' = DOMAIN set /\ set'.restart = inst.what /\ set'.latest = inst.what
      /\ set'.applied = set.applied /\ set'.pending = set.pending
  BY DEF EngineInv, EngineTyped
<1>6. /\ DOMAIN mem' = DOMAIN mem /\ mem'.version = mem.version /\ mem'.restart = inst.what
      /\ mem'.latest = mem.latest /\ mem'.pending = mem.pending
  BY DEF EngineInv, EngineTyped
<1>7. EngineTyped' /\ EndsAll'
  BY <1>2, <1>3, <1>5, <1>6 DEF EngineInv, EngineTyped, EndsAll
<1>8. NoneNewer'
  BY <1>1, <1>3, <1>6 DEF EngineInv, NoneNewer, Behind
<1>9. PackagesNewer' /\ FoundNewer' /\ DownloadsNewer'
  BY <1>1, <1>3, <1>5, <1>6 DEF EngineInv, PackagesNewer, FoundNewer, DownloadsNewer
<1>10. InstallsNewer'
  BY <1>1, <1>2, <1>3, <1>4, <1>5 DEF EngineInv, InstallsNewer, Ahead
<1>11. RestartsDue'
  BY <1>1, <1>2, <1>3, <1>5, <1>6 DEF EngineInv, EngineTyped, RestartsDue, Ahead
<1>12. QED BY <1>7, <1>8, <1>9, <1>10, <1>11 DEF EngineInv

(* An update with Docker is over, now or when it is taken up again.        *)
LEMMA ContainerRuns ==
  ASSUME EngineInv, Engine!Docker, UNCHANGED <<target, released, installed, art, check, manual, dl, retry, up>>,
         inst' = Engine!Nothing, ~recovering',
         DOMAIN mem' = DOMAIN mem, mem'.version = installed, mem'.latest = installed,
         mem'.restart = Engine!None, mem'.pending = mem.pending,
         DOMAIN set' = DOMAIN set, set'.latest = installed, set'.applied = installed,
         set'.restart \in {installed, Engine!None}, set'.pending = set.pending,
         accounted' \in [Version -> {0, 1}],
         \A u \in Version : accounted'[u] # 0 => accounted[u] # 0 \/ u = installed
  PROVE  EngineInv'
<1> USE EngineConstants
<1>1. Engine!Docker' = Engine!Docker
  BY DEF Engine!Docker, target
<1>2. ~retry
  BY DEF EngineInv, InstallsNewer
<1>3. EngineTyped' /\ EndsAll'
  BY DEF EngineInv, EngineTyped, EndsAll
<1>4. NoneNewer'
  BY <1>1 DEF EngineInv, EngineTyped, NoneNewer, Behind
<1>5. PackagesNewer' /\ FoundNewer' /\ DownloadsNewer'
  BY <1>1 DEF EngineInv, PackagesNewer, FoundNewer, DownloadsNewer
<1>6. InstallsNewer'
  BY <1>1, <1>2 DEF InstallsNewer
<1>7. RestartsDue'
  BY <1>1 DEF RestartsDue
<1>8. QED BY <1>3, <1>4, <1>5, <1>6, <1>7 DEF EngineInv

LEMMA VerifyEngine ==
  ASSUME EngineInv, Engine!Verify PROVE EngineInv'
<1> USE EngineConstants DEF Engine!Verify, Engine!outside, Engine!process, target, released, installed, art, set,
    mem, check, manual, dl, inst, retry, recovering, up, accounted
<1>1. Engine!Docker /\ ~recovering /\ inst.what \in Version /\ Ahead(inst.what) /\ set.restart = inst.what
  BY DEF EngineInv, InstallsNewer
<1>2. UNCHANGED <<target, released, installed, art, check, manual, dl, retry, recovering, up>>
  OBVIOUS
<1>3. inst' = Engine!Nothing /\ installed = inst.what /\ Engine!Account(inst.what)
  OBVIOUS
<1>4. /\ accounted' \in [Version -> {0, 1}]
      /\ \A u \in Version : accounted'[u] # 0 <=> accounted[u] # 0 \/ u = inst.what
  <2>1. accounted \in [Version -> {0, 1}] /\ accounted[inst.what] = 0
    BY <1>1 DEF EngineInv, EngineTyped, Ahead
  <2> HIDE DEF accounted, inst
  <2>2. QED BY <1>1, <1>3, <2>1, AccountIs
<1>5. /\ DOMAIN mem' = DOMAIN mem /\ mem'.version = installed /\ mem'.latest = installed
      /\ mem'.restart = Engine!None /\ mem'.pending = mem.pending
  BY <1>3 DEF EngineInv, EngineTyped
<1>6. /\ DOMAIN set' = DOMAIN set /\ set'.latest = installed /\ set'.applied = installed
      /\ set'.restart = set.restart /\ set'.pending = set.pending
  BY <1>3 DEF EngineInv, EngineTyped
<1> HIDE DEF Engine!Verify, target, released, installed, art, set, mem, check, manual, dl, inst, retry, recovering, up, accounted
<1>7. QED BY <1>1, <1>2, <1>3, <1>4, <1>5, <1>6, ContainerRuns

LEMMA RecoverEngine ==
  ASSUME EngineInv, Engine!Recover PROVE EngineInv'
<1> USE EngineConstants DEF Engine!Recover, Engine!outside, target, released, installed, art, set, mem, check,
    manual, dl, inst, retry, recovering, up, accounted
<1>1. Engine!Docker /\ recovering /\ mem.restart # Engine!None /\ mem.restart = set.restart
  BY DEF EngineInv, RestartsDue
<1>2. UNCHANGED <<target, released, installed, art, check, manual, dl, inst, retry, up>> /\ ~recovering'
  BY DEF Engine!process
<1>3. inst = Engine!Nothing
  BY <1>1 DEF EngineInv, InstallsNewer
<1>4. CASE Engine!GiveUpDocker /\ UNCHANGED accounted
  <2> USE DEF Engine!GiveUpDocker
  <2>1. Engine!Docker' = Engine!Docker
    BY DEF Engine!Docker
  <2>2. /\ DOMAIN mem' = DOMAIN mem /\ mem'.version = mem.version /\ mem'.latest = mem.latest
        /\ mem'.restart = Engine!None /\ mem'.pending = mem.pending
    BY <1>4 DEF EngineInv, EngineTyped
  <2>3. DOMAIN set' = DOMAIN set /\ set'.restart = Engine!None /\ set'.pending = set.pending /\ set'.latest = set.latest
    BY <1>4 DEF EngineInv, EngineTyped
  <2> HIDE DEF Engine!Recover, Engine!GiveUpDocker
  <2>4. EngineTyped' /\ EndsAll'
    BY <1>2, <1>4, <2>2, <2>3 DEF EngineInv, EngineTyped, EndsAll
  <2>5. NoneNewer'
    BY <1>1, <1>2, <1>4, <2>1, <2>2 DEF EngineInv, NoneNewer, Behind
  <2>6. PackagesNewer' /\ FoundNewer' /\ DownloadsNewer'
    BY <1>1, <1>2, <2>1, <2>2, <2>3 DEF EngineInv, PackagesNewer, FoundNewer, DownloadsNewer
  <2>7. InstallsNewer' /\ RestartsDue'
    BY <1>1, <1>2, <1>3, <2>1, <2>2, <2>3 DEF EngineInv, InstallsNewer, RestartsDue
  <2>8. QED BY <2>4, <2>5, <2>6, <2>7 DEF EngineInv
<1>5. CASE ~(Engine!GiveUpDocker /\ UNCHANGED accounted)
  <2>1. /\ installed = mem.restart /\ Engine!AccountOnce(mem.restart)
        /\ set' = [set EXCEPT !.applied = mem.restart, !.latest = mem.restart, !.restart = Engine!None]
        /\ mem' = [mem EXCEPT !.version = mem.restart, !.latest = mem.restart,
                     !.restart = Engine!None, !.phase = "idle"]
    BY <1>5
  <2>2. /\ DOMAIN mem' = DOMAIN mem /\ mem'.version = installed /\ mem'.latest = installed
        /\ mem'.restart = Engine!None /\ mem'.pending = mem.pending
    BY <2>1 DEF EngineInv, EngineTyped
  <2>3. /\ DOMAIN set' = DOMAIN set /\ set'.latest = installed /\ set'.applied = installed
        /\ set'.restart = Engine!None /\ set'.pending = set.pending
    BY <2>1 DEF EngineInv, EngineTyped
  <2> HIDE DEF Engine!Recover, target, released, installed, art, set, mem, check, manual, dl, inst, retry, recovering, up, accounted
  <2>4. installed \in Version /\ accounted \in [Version -> {0, 1}]
    BY DEF EngineInv, EngineTyped
  <2>5. /\ accounted' \in [Version -> {0, 1}]
        /\ \A u \in Version : accounted'[u] # 0 => accounted[u] # 0 \/ u = installed
    <3>1. CASE set.applied = mem.restart
      BY <2>1, <2>4, <3>1 DEF Engine!AccountOnce, set, mem, accounted
    <3>2. CASE set.applied # mem.restart
      <4>1. accounted[installed] = 0
        BY <1>1, <2>1, <3>2 DEF EngineInv, RestartsDue
      <4>2. Engine!Account(installed)
        BY <2>1, <3>2 DEF Engine!AccountOnce, set, mem
      <4>3. QED BY <2>4, <4>1, <4>2, AccountIs
    <3>3. QED BY <3>1, <3>2
  <2>6. QED BY <1>1, <1>2, <1>3, <2>2, <2>3, <2>5, ContainerRuns
<1>6. QED BY <1>4, <1>5

LEMMA EngineStep ==
  ASSUME EngineInv, Engine!Next PROVE EngineInv'
<1>1. CASE Engine!Publish \/ Engine!CoolDown
  <2>1. UNCHANGED <<target, installed, art, set, mem, check, manual, dl, inst, retry, recovering, up, accounted>>
    BY <1>1 DEF Engine!Publish, Engine!CoolDown, Engine!outside, Engine!files, Engine!under, Engine!process,
       target, installed, art, set, mem, check, manual, dl, inst, retry, recovering, up, accounted
  <2>2. released' \in Version
    BY <1>1, EngineConstants
       DEF EngineInv, EngineTyped, Engine!Publish, Engine!CoolDown, Engine!outside, released
  <2>3. QED BY <2>1, <2>2, EngineRests
<1>2. CASE \E b \in BOOLEAN : Engine!SetAuto(b) \/ Engine!Check(b)
  BY <1>2, SetAutoEngine, CheckEngine
<1>3. CASE Engine!CheckRelease \/ Engine!CheckPackage \/ Engine!Downloaded \/ Engine!DownloadFails
  BY <1>3, CheckReleaseEngine, CheckPackageEngine, DownloadedEngine, DownloadFailsEngine
<1>4. CASE Engine!TickInstalls \/ Engine!ApplyInstalls \/ Engine!ApplyDownloads \/ Engine!ApplyMetadata
           \/ Engine!ApplyRestarts
  BY <1>4, InstallsBegin, ApplyDownloadsEngine, ApplyMetadataEngine, ApplyRestartsEngine
<1>5. CASE Engine!Target \/ Engine!InstallFails \/ Engine!Installed \/ Engine!Restarts
  BY <1>5, TargetEngine, InstallFailsEngine, InstalledEngine, RestartsEngine
<1>6. CASE Engine!DockerFails \/ Engine!Pull \/ Engine!Up \/ Engine!Verify \/ Engine!Recover
  BY <1>6, DockerFailsEngine, PullEngine, UpEngine, VerifyEngine, RecoverEngine
<1>7. QED
  BY <1>1, <1>2, <1>3, <1>4, <1>5, <1>6, BootEngine, CrashEngine, LoseEngine DEF Engine!Next

LEMMA EngineHolds ==
  ASSUME EngineInv PROVE Engine!AccountedOnce /\ Engine!RecordMatchesDisk
<1>1. Engine!AccountedOnce
  BY EngineConstants DEF EngineInv, EngineTyped, Engine!AccountedOnce, accounted
<1>2. Engine!RecordMatchesDisk
  BY DEF EngineInv, RestartsDue, Engine!RecordMatchesDisk, mem, installed
<1>3. QED BY <1>1, <1>2

------------------------------------------------------------------------------
(* DeploymentSwap.  A process killed between the gate and its lock leaves  *)
(* a gate that the next one judges, and the finding of this suite is what  *)
(* may follow: here none is killed with the gate in its hands.             *)

lockfile == x1
dirs == x2
stage == x3
rest == x5
got == x6
won == x7
told == x8
before == x9
inPlace == x10

(* The two names of a process's place: what it does, and with which file.  *)
doing == [p \in Proc |-> stage[p][1]]
upon == [p \in Proc |-> stage[p][2]]

LockFiles == [by : Proc, written : BOOLEAN, old : BOOLEAN]
Exchanges == {"stage", "away", "enter", "keep", "register", "commit", "aside",
              "back", "sweep", "out", "in", "clear", "return"}
Doings == Exchanges \cup {"open", "write", "judge", "rename", "mine", "unlink", "done", "dead"}
Files == {"", "gate", "lock"}

(* Who has the gate, and who the lock, from when it was written until it   *)
(* is removed.                                                             *)
HasGate(p) ==
  \/ upon[p] = "gate" /\ doing[p] \in {"write", "mine", "unlink"}
  \/ upon[p] = "lock" /\ doing[p] \in {"open", "write", "judge", "rename"}
HasLock(p) ==
  \/ upon[p] = "" /\ doing[p] \in Exchanges
  \/ upon[p] = "lock" /\ doing[p] \in {"mine", "unlink"}
  \/ got[p] /\ upon[p] = "gate" /\ doing[p] \in {"mine", "unlink"}
IsDead(p) == upon[p] = "" /\ doing[p] = "dead"

LocksTyped ==
  /\ stage \in [Proc -> Doings \X Files] /\ DOMAIN lockfile = {"gate", "lock"} /\ DOMAIN got = Proc
  /\ \A p \in Proc : /\ upon[p] \in {"", "gate", "lock"} /\ (upon[p] = "gate" => doing[p] # "rename")
                     /\ upon[p] # "" => doing[p] \notin Exchanges \cup {"done", "dead"}

(* The gate is there exactly while a live process holds it.                *)
GateHeld ==
  /\ \A p \in Proc : HasGate(p) =>
       /\ lockfile["gate"] # NoOne /\ lockfile["gate"].by = p
       /\ upon[p] = "lock" \/ doing[p] # "write" => lockfile["gate"].written
  /\ lockfile["gate"] # NoOne =>
       /\ lockfile["gate"].by \in Proc /\ HasGate(lockfile["gate"].by)
       /\ ~lockfile["gate"].old /\ lockfile["gate"] \in LockFiles

(* The lock is its holder's; one that is not written is being written, an  *)
(* old one is of a process that is dead, and only such a one is renamed.   *)
LockHeld ==
  /\ \A p \in Proc : upon[p] = "lock" /\ doing[p] \in {"open", "write", "judge", "rename"} => ~got[p]
  /\ \A p \in Proc : HasLock(p) =>
       got[p] /\ lockfile["lock"] # NoOne /\ lockfile["lock"].by = p /\ lockfile["lock"].written
  /\ lockfile["lock"] # NoOne =>
       /\ lockfile["lock"].by \in Proc /\ lockfile["lock"] \in LockFiles
       /\ lockfile["lock"].old => IsDead(lockfile["lock"].by)
       /\ ~lockfile["lock"].written =>
            upon[lockfile["lock"].by] = "lock" /\ doing[lockfile["lock"].by] = "write"
  /\ \A p \in Proc : upon[p] = "lock" /\ doing[p] = "write" =>
       lockfile["lock"] # NoOne /\ lockfile["lock"].by = p
  /\ \A p \in Proc : upon[p] = "lock" /\ doing[p] = "rename" =>
       lockfile["lock"] = NoOne \/ IsDead(lockfile["lock"].by)

LocksInv == LocksTyped /\ GateHeld /\ LockHeld

LEMMA SwapConstants ==
  /\ NoOne \notin Proc /\ Program \cap Kept = {}
  /\ NoOne \notin LockFiles
  BY SwapFits DEF Swap!SwapAssumption, LockFiles

(* The place of a process is what the two names say.                       *)
LEMMA PlaceIs ==
  ASSUME LocksTyped, NEW p \in Proc, NEW s, NEW f
  PROVE  Swap!At(p, s, f) <=> doing[p] = s /\ upon[p] = f
<1>1. stage[p] \in Doings \X Files
  BY DEF LocksTyped
<1>2. stage[p] = <<stage[p][1], stage[p][2]>>
  BY <1>1
<1>3. QED BY <1>2 DEF Swap!At, stage, doing, upon

LEMMA Goes ==
  ASSUME LocksTyped, NEW p \in Proc, NEW s \in Doings, NEW f \in Files, Swap!Go(p, s, f)
  PROVE  /\ doing' = [doing EXCEPT ![p] = s] /\ upon' = [upon EXCEPT ![p] = f]
         /\ stage' \in [Proc -> Doings \X Files]
<1>1. stage' = [stage EXCEPT ![p] = <<s, f>>] /\ stage \in [Proc -> Doings \X Files]
  BY DEF LocksTyped, Swap!Go, stage
<1>2. stage' \in [Proc -> Doings \X Files] /\ stage'[p] = <<s, f>> /\ \A q \in Proc : q # p => stage'[q] = stage[q]
  BY <1>1
<1>3. doing'[p] = s /\ upon'[p] = f
  <2>1. stage'[p][1] = s /\ stage'[p][2] = f
    BY <1>2
  <2>2. QED BY <2>1 DEF doing, upon
<1>4. \A q \in Proc : q # p => doing'[q] = doing[q] /\ upon'[q] = upon[q]
  BY <1>2 DEF doing, upon
<1>5. doing' = [q \in Proc |-> doing'[q]] /\ upon' = [q \in Proc |-> upon'[q]]
  BY DEF doing, upon
<1>6. [doing EXCEPT ![p] = s] = [q \in Proc |-> IF q = p THEN s ELSE doing[q]]
  BY DEF doing
<1>7. [upon EXCEPT ![p] = f] = [q \in Proc |-> IF q = p THEN f ELSE upon[q]]
  BY DEF upon
<1>8. QED BY <1>2, <1>3, <1>4, <1>5, <1>6, <1>7

(* Two that hold the gate, or the lock, are one.                           *)
LEMMA OneHolder ==
  ASSUME LocksInv, NEW p \in Proc, NEW q \in Proc
  PROVE  /\ HasGate(p) /\ HasGate(q) => p = q
         /\ HasLock(p) /\ HasLock(q) => p = q
  BY DEF LocksInv, GateHeld, LockHeld

LEMMA PlacesDomain == DOMAIN doing = Proc /\ DOMAIN upon = Proc
  BY DEF doing, upon

LEMMA Moves ==
  ASSUME NEW p \in Proc, NEW s, NEW f, doing' = [doing EXCEPT ![p] = s], upon' = [upon EXCEPT ![p] = f]
  PROVE  /\ doing'[p] = s /\ upon'[p] = f
         /\ \A q \in Proc : q # p => doing'[q] = doing[q] /\ upon'[q] = upon[q]
  BY PlacesDomain

(* The gate is taken, held, given up, or left alone.                       *)
LEMMA GateStep ==
  ASSUME LocksInv, NEW p \in Proc, \A q \in Proc : q # p => doing'[q] = doing[q] /\ upon'[q] = upon[q],
         \/ /\ lockfile["gate"] = NoOne /\ upon'[p] = "gate" /\ doing'[p] = "write"
            /\ lockfile'["gate"] = [by |-> p, written |-> FALSE, old |-> FALSE]
         \/ /\ HasGate(p) /\ HasGate(p)' /\ (upon'[p] = "lock" \/ doing'[p] # "write")
            /\ \/ lockfile["gate"].written /\ lockfile'["gate"] = lockfile["gate"]
               \/ lockfile'["gate"] = [lockfile["gate"] EXCEPT !.written = TRUE]
         \/ HasGate(p) /\ ~HasGate(p)' /\ lockfile'["gate"] = NoOne
         \/ ~HasGate(p) /\ ~HasGate(p)' /\ lockfile'["gate"] = lockfile["gate"]
  PROVE  GateHeld'
<1>1. GateHeld /\ NoOne \notin Proc
  BY SwapConstants DEF LocksInv
<1>2. \A q \in Proc : q # p => (HasGate(q)' <=> HasGate(q))
  BY DEF HasGate
<1>3. CASE /\ lockfile["gate"] = NoOne /\ upon'[p] = "gate" /\ doing'[p] = "write"
           /\ lockfile'["gate"] = [by |-> p, written |-> FALSE, old |-> FALSE]
  <2>1. \A q \in Proc : ~HasGate(q)
    BY <1>1, <1>3 DEF GateHeld
  <2>2. HasGate(p)'
    BY <1>3 DEF HasGate
  <2>3. \A q \in Proc : HasGate(q)' => q = p
    BY <1>2, <2>1
  <2>4. lockfile'["gate"] \in LockFiles
    BY <1>3 DEF LockFiles
  <2>5. lockfile'["gate"] # NoOne
    BY <2>4, SwapConstants
  <2>6. lockfile'["gate"].by = p /\ ~lockfile'["gate"].old
    BY <1>3
  <2>7. QED BY <1>3, <2>2, <2>3, <2>4, <2>5, <2>6 DEF GateHeld
<1>4. CASE /\ HasGate(p) /\ HasGate(p)' /\ (upon'[p] = "lock" \/ doing'[p] # "write")
           /\ \/ lockfile["gate"].written /\ lockfile'["gate"] = lockfile["gate"]
              \/ lockfile'["gate"] = [lockfile["gate"] EXCEPT !.written = TRUE]
  <2>1. /\ lockfile["gate"].by = p /\ ~lockfile["gate"].old /\ lockfile["gate"] # NoOne
        /\ lockfile["gate"] \in LockFiles
    BY <1>1, <1>4 DEF GateHeld
  <2>2. \A q \in Proc : HasGate(q)' => q = p
    BY <1>1, <1>2, <1>4, <2>1 DEF GateHeld
  <2>3. /\ lockfile'["gate"].by = p /\ ~lockfile'["gate"].old /\ lockfile'["gate"].written
        /\ lockfile'["gate"] \in LockFiles
    BY <1>4, <2>1 DEF LockFiles
  <2>4. lockfile'["gate"] # NoOne
    BY <2>3, SwapConstants
  <2>5. QED BY <1>4, <2>2, <2>3, <2>4 DEF GateHeld
<1>5. CASE HasGate(p) /\ ~HasGate(p)' /\ lockfile'["gate"] = NoOne
  <2>1. \A q \in Proc : ~HasGate(q)'
    BY <1>1, <1>2, <1>5 DEF GateHeld
  <2>2. QED BY <1>5, <2>1 DEF GateHeld
<1>6. CASE ~HasGate(p) /\ ~HasGate(p)' /\ lockfile'["gate"] = lockfile["gate"]
  <2>1. \A q \in Proc : HasGate(q)' => q # p /\ HasGate(q) /\ doing'[q] = doing[q] /\ upon'[q] = upon[q]
    BY <1>2, <1>6
  <2>2. lockfile["gate"] # NoOne => HasGate(lockfile["gate"].by)'
    BY <1>1, <1>2, <1>6 DEF GateHeld
  <2>3. QED BY <1>1, <1>6, <2>1, <2>2 DEF GateHeld
<1>7. QED BY <1>3, <1>4, <1>5, <1>6

Opens(p) == upon[p] = "lock" /\ doing[p] \in {"open", "write", "judge", "rename"}
Writes(p) == upon[p] = "lock" /\ doing[p] = "write"
Renames(p) == upon[p] = "lock" /\ doing[p] = "rename"

(* The lock is taken, written, freed, removed in place of a dead process,  *)
(* or left alone.                                                          *)
LEMMA LockStep ==
  ASSUME LocksInv, NEW p \in Proc,
         \A q \in Proc : q # p => doing'[q] = doing[q] /\ upon'[q] = upon[q] /\ got'[q] = got[q],
         ~IsDead(p), Opens(p)' => ~got'[p], HasLock(p)' => got'[p],
         \/ /\ lockfile["lock"] = NoOne /\ HasGate(p) /\ Writes(p)' /\ ~HasLock(p)' /\ ~Renames(p)'
            /\ lockfile'["lock"] = [by |-> p, written |-> FALSE, old |-> FALSE]
         \/ /\ Writes(p) /\ HasLock(p)' /\ ~Writes(p)' /\ ~Renames(p)'
            /\ lockfile'["lock"] = [lockfile["lock"] EXCEPT !.written = TRUE]
         \/ /\ HasLock(p) \/ Renames(p)
            /\ ~HasLock(p)' /\ ~Writes(p)' /\ ~Renames(p)' /\ lockfile'["lock"] = NoOne
         \/ /\ HasLock(p)' => HasLock(p)
            /\ ~Writes(p) /\ ~Writes(p)' /\ lockfile'["lock"] = lockfile["lock"]
            /\ Renames(p)' => lockfile["lock"] = NoOne \/ IsDead(lockfile["lock"].by)
  PROVE  LockHeld'
<1> USE SwapConstants
<1>1. GateHeld /\ LockHeld
  BY DEF LocksInv
<1>2. /\ \A q \in Proc : q # p => (HasLock(q)' <=> HasLock(q)) /\ (Opens(q)' <=> Opens(q))
      /\ \A q \in Proc : q # p => (Writes(q)' <=> Writes(q)) /\ (Renames(q)' <=> Renames(q))
      /\ \A q \in Proc : IsDead(q) => q # p /\ IsDead(q)'
  BY DEF HasLock, Writes, Renames, Opens, IsDead
<1>3. /\ \A q \in Proc : HasLock(q) => got[q] /\ lockfile["lock"] # NoOne /\ lockfile["lock"].by = q /\ lockfile["lock"].written
      /\ lockfile["lock"] # NoOne =>
           /\ lockfile["lock"].by \in Proc /\ lockfile["lock"] \in LockFiles
           /\ lockfile["lock"].old => IsDead(lockfile["lock"].by)
           /\ ~lockfile["lock"].written => Writes(lockfile["lock"].by)
      /\ \A q \in Proc : Writes(q) => lockfile["lock"] # NoOne /\ lockfile["lock"].by = q
      /\ \A q \in Proc : Renames(q) => lockfile["lock"] = NoOne \/ IsDead(lockfile["lock"].by)
  BY <1>1 DEF LockHeld, Writes, Renames
<1>4. \A q \in Proc : Opens(q)' => ~got'[q]
  BY <1>1, <1>2 DEF LockHeld, Opens
<1>5. \A q \in Proc : (Writes(q) => HasGate(q)) /\ (Renames(q) => HasGate(q))
  BY DEF Writes, Renames, HasGate
<1>6. \A q \in Proc : HasGate(q) /\ HasGate(p) => q = p
  BY OneHolder
<1>7. SUFFICES /\ \A q \in Proc : HasLock(q)' => got'[q] /\ lockfile'["lock"] # NoOne /\ lockfile'["lock"].by = q /\ lockfile'["lock"].written
               /\ lockfile'["lock"] # NoOne =>
                    /\ lockfile'["lock"].by \in Proc /\ lockfile'["lock"] \in LockFiles
                    /\ lockfile'["lock"].old => IsDead(lockfile["lock"].by)'
                    /\ ~lockfile'["lock"].written => Writes(lockfile["lock"].by)'
               /\ \A q \in Proc : Writes(q)' => lockfile'["lock"] # NoOne /\ lockfile'["lock"].by = q
               /\ \A q \in Proc : Renames(q)' => lockfile'["lock"] = NoOne \/ IsDead(lockfile["lock"].by)'
  BY <1>4 DEF LockHeld, Writes, Renames, Opens
<1>8. CASE /\ lockfile["lock"] = NoOne /\ HasGate(p) /\ Writes(p)' /\ ~HasLock(p)' /\ ~Renames(p)'
           /\ lockfile'["lock"] = [by |-> p, written |-> FALSE, old |-> FALSE]
  <2>1. lockfile'["lock"] \in LockFiles
    BY <1>8 DEF LockFiles
  <2>2. lockfile'["lock"].by = p /\ ~lockfile'["lock"].old /\ lockfile'["lock"] # NoOne
    <3>1. lockfile'["lock"] # NoOne
      BY <2>1
    <3>2. lockfile'["lock"].by = p /\ ~lockfile'["lock"].old
      BY <1>8
    <3>3. QED BY <3>1, <3>2
  <2>3. \A q \in Proc : ~HasLock(q)' /\ ~Renames(q)' /\ (Writes(q)' => q = p)
    BY <1>2, <1>3, <1>5, <1>6, <1>8
  <2>4. QED BY <1>8, <2>1, <2>2, <2>3
<1>9. CASE /\ Writes(p) /\ HasLock(p)' /\ ~Writes(p)' /\ ~Renames(p)'
           /\ lockfile'["lock"] = [lockfile["lock"] EXCEPT !.written = TRUE]
  <2>1. lockfile["lock"] # NoOne /\ lockfile["lock"].by = p /\ ~lockfile["lock"].old /\ lockfile["lock"] \in LockFiles
    BY <1>2, <1>3, <1>9
  <2>2. /\ lockfile'["lock"] \in LockFiles /\ lockfile'["lock"].by = p
        /\ lockfile'["lock"].written /\ ~lockfile'["lock"].old
    BY <1>9, <2>1 DEF LockFiles
  <2>3. \A q \in Proc : q # p => ~HasLock(q)' /\ ~Renames(q)' /\ ~Writes(q)'
    BY <1>2, <1>3, <1>5, <1>6, <1>9, <2>1
  <2>4. lockfile'["lock"] # NoOne
    BY <2>2
  <2>5. QED BY <1>9, <2>2, <2>3, <2>4
<1>10. CASE /\ HasLock(p) \/ Renames(p)
            /\ ~HasLock(p)' /\ ~Writes(p)' /\ ~Renames(p)' /\ lockfile'["lock"] = NoOne
  <2>1. \A q \in Proc : q # p => ~HasLock(q) /\ ~Writes(q)
    <3>1. CASE HasLock(p)
      BY <1>3, <3>1
    <3>2. CASE Renames(p)
      <4>1. \A q \in Proc : HasLock(q) => ~IsDead(q)
        BY DEF HasLock, IsDead, Exchanges
      <4>2. QED BY <1>3, <1>5, <1>6, <3>2, <4>1
    <3>3. QED BY <1>10, <3>1, <3>2
  <2>2. \A q \in Proc : ~HasLock(q)' /\ ~Writes(q)'
    BY <1>2, <1>10, <2>1
  <2>3. QED BY <1>10, <2>2
<1>11. CASE /\ HasLock(p)' => HasLock(p)
            /\ ~Writes(p) /\ ~Writes(p)' /\ lockfile'["lock"] = lockfile["lock"]
            /\ Renames(p)' => lockfile["lock"] = NoOne \/ IsDead(lockfile["lock"].by)
  <2>1. \A q \in Proc : HasLock(q)' => HasLock(q) /\ got'[q]
    BY <1>2, <1>3, <1>11
  <2>2. \A q \in Proc : Writes(q)' <=> Writes(q)
    BY <1>2, <1>11
  <2>3. QED BY <1>2, <1>3, <1>11, <2>1, <2>2
<1>12. QED BY <1>8, <1>9, <1>10, <1>11

LEMMA TypedStep ==
  ASSUME LocksInv, NEW p \in Proc, NEW s \in Doings, NEW f \in Files, Swap!Go(p, s, f),
         DOMAIN lockfile' = {"gate", "lock"}, DOMAIN got' = Proc, f = "gate" => s # "rename",
         f # "" => s \notin Exchanges \cup {"done", "dead"}
  PROVE  /\ LocksTyped' /\ doing'[p] = s /\ upon'[p] = f
         /\ \A q \in Proc : q # p => doing'[q] = doing[q] /\ upon'[q] = upon[q]
<1>1. LocksTyped
  BY DEF LocksInv
<1>2. /\ doing' = [doing EXCEPT ![p] = s] /\ upon' = [upon EXCEPT ![p] = f]
      /\ stage' \in [Proc -> Doings \X Files]
  BY <1>1, Goes
<1>3. /\ doing'[p] = s /\ upon'[p] = f
      /\ \A q \in Proc : q # p => doing'[q] = doing[q] /\ upon'[q] = upon[q]
  BY <1>2, Moves
<1>4. \A q \in Proc : /\ upon[q] \in {"", "gate", "lock"} /\ (upon[q] = "gate" => doing[q] # "rename")
                      /\ upon[q] # "" => doing[q] \notin Exchanges \cup {"done", "dead"}
  BY <1>1 DEF LocksTyped
<1>5. LocksTyped'
  BY ZenonT(60), <1>2, <1>3, <1>4 DEF LocksTyped, Files
<1>6. QED BY <1>3, <1>5

LEMMA OpenLocks ==
  ASSUME LocksInv, NEW p \in Proc, NEW f \in {"gate", "lock"}, Swap!Open(p, f) PROVE LocksInv'
<1>1. doing[p] = "open" /\ upon[p] = f /\ UNCHANGED got
  BY PlaceIs DEF LocksInv, Swap!Open, Swap!swapping, got
<1>2. DOMAIN lockfile = {"gate", "lock"} /\ DOMAIN got' = Proc
  BY <1>1 DEF LocksInv, LocksTyped
<1>3. CASE lockfile[f] = NoOne /\ lockfile' = [lockfile EXCEPT ![f] = [by |-> p, written |-> FALSE, old |-> FALSE]] /\ Swap!Go(p, "write", f)
  <2>1. /\ LocksTyped' /\ doing'[p] = "write" /\ upon'[p] = f
        /\ \A q \in Proc : q # p => doing'[q] = doing[q] /\ upon'[q] = upon[q]
    <3>1. DOMAIN lockfile' = {"gate", "lock"}
      BY <1>2, <1>3
    <3>2. "write" \in Doings /\ f \in Files /\ "write" \notin Exchanges \cup {"done", "dead"}
      BY DEF Doings, Files, Exchanges
    <3>3. QED BY <1>2, <1>3, <3>1, <3>2, TypedStep
  <2>2. /\ lockfile'[f] = [by |-> p, written |-> FALSE, old |-> FALSE]
        /\ f = "gate" => lockfile'["lock"] = lockfile["lock"]
        /\ f = "lock" => lockfile'["gate"] = lockfile["gate"]
    BY <1>2, <1>3
  <2>3. GateHeld'
    <3>1. CASE f = "gate"
      BY <1>3, <2>1, <2>2, <3>1, GateStep
    <3>2. CASE f = "lock"
      <4>1. HasGate(p) /\ HasGate(p)' /\ upon'[p] = "lock" /\ lockfile["gate"].written
        BY <1>1, <2>1, <3>2 DEF HasGate, LocksInv, GateHeld
      <4>2. QED BY <2>1, <2>2, <3>2, <4>1, GateStep
    <3>3. QED BY <3>1, <3>2
  <2>4. LockHeld'
    <3>1. /\ ~IsDead(p) /\ ~HasLock(p)' /\ ~Renames(p)' /\ ~Writes(p)
          /\ (f = "gate" => ~Opens(p)' /\ ~Writes(p)') /\ (f = "lock" => HasGate(p) /\ Writes(p)' /\ Opens(p))
      BY <1>1, <2>1 DEF IsDead, HasLock, Renames, Writes, Opens, HasGate, Exchanges
    <3>2. Opens(p) => ~got'[p]
      BY <1>1 DEF LocksInv, LockHeld, Opens
    <3>3. QED BY <1>1, <1>3, <2>1, <2>2, <3>1, <3>2, LockStep
  <2>5. QED BY <2>1, <2>3, <2>4 DEF LocksInv
<1>4. CASE lockfile[f] # NoOne /\ Swap!Go(p, "judge", f) /\ UNCHANGED lockfile
  <2>1. /\ LocksTyped' /\ doing'[p] = "judge" /\ upon'[p] = f
        /\ \A q \in Proc : q # p => doing'[q] = doing[q] /\ upon'[q] = upon[q]
    <3>1. DOMAIN lockfile' = {"gate", "lock"}
      BY <1>2, <1>4
    <3>2. "judge" \in Doings /\ f \in Files /\ "judge" \notin Exchanges \cup {"done", "dead"}
      BY DEF Doings, Files, Exchanges
    <3>3. QED BY <1>2, <1>4, <3>1, <3>2, TypedStep
  <2>2. GateHeld'
    <3>1. CASE f = "gate"
      <4>1. ~HasGate(p) /\ ~HasGate(p)'
        BY <1>1, <2>1, <3>1 DEF HasGate
      <4>2. QED BY <1>4, <2>1, <4>1, GateStep
    <3>2. CASE f = "lock"
      <4>1. HasGate(p) /\ HasGate(p)' /\ upon'[p] = "lock" /\ lockfile["gate"].written
        BY <1>1, <2>1, <3>2 DEF HasGate, LocksInv, GateHeld
      <4>2. QED BY <1>4, <2>1, <4>1, GateStep
    <3>3. QED BY <3>1, <3>2
  <2>3. LockHeld'
    <3>1. /\ ~IsDead(p) /\ ~HasLock(p)' /\ ~Renames(p)' /\ ~Writes(p) /\ ~Writes(p)'
          /\ (Opens(p)' => Opens(p))
      BY <1>1, <2>1 DEF IsDead, HasLock, Renames, Writes, Opens, Exchanges
    <3>2. Opens(p) => ~got'[p]
      BY <1>1 DEF LocksInv, LockHeld, Opens
    <3>3. QED BY <1>1, <1>4, <2>1, <3>1, <3>2, LockStep
  <2>4. QED BY <2>1, <2>2, <2>3 DEF LocksInv
<1>5. QED BY <1>3, <1>4 DEF Swap!Open, lockfile

LEMMA WriteLocks ==
  ASSUME LocksInv, NEW p \in Proc, NEW f \in {"gate", "lock"}, Swap!Write(p, f) PROVE LocksInv'
<1>1. doing[p] = "write" /\ upon[p] = f /\ got' = [got EXCEPT ![p] = f = "lock"]
  BY PlaceIs DEF LocksInv, Swap!Write, got
<1>2. DOMAIN lockfile = {"gate", "lock"} /\ DOMAIN got = Proc
  BY DEF LocksInv, LocksTyped
<1>3. lockfile[f] # NoOne /\ lockfile[f].by = p
  <2>1. CASE f = "gate"
    BY <1>1, <2>1 DEF LocksInv, GateHeld, HasGate
  <2>2. CASE f = "lock"
    BY <1>1, <2>2 DEF LocksInv, LockHeld
  <2>3. QED BY <2>1, <2>2
<1>4. /\ lockfile' = [lockfile EXCEPT ![f].written = TRUE]
      /\ IF f = "gate" THEN Swap!Go(p, "open", "lock") ELSE Swap!Go(p, "mine", "gate")
  BY <1>3 DEF Swap!Write, lockfile
<1>5. /\ lockfile'[f] = [lockfile[f] EXCEPT !.written = TRUE]
      /\ f = "gate" => lockfile'["lock"] = lockfile["lock"]
      /\ f = "lock" => lockfile'["gate"] = lockfile["gate"]
      /\ DOMAIN lockfile' = {"gate", "lock"}
  BY <1>2, <1>4
<1>6. /\ \A q \in Proc : q # p => got'[q] = got[q]
      /\ f = "gate" => ~got'[p]
      /\ f = "lock" => got'[p]
      /\ DOMAIN got' = Proc
  BY <1>1, <1>2
<1>7. CASE f = "gate"
  <2>1. /\ LocksTyped' /\ doing'[p] = "open" /\ upon'[p] = "lock"
        /\ \A q \in Proc : q # p => doing'[q] = doing[q] /\ upon'[q] = upon[q]
    BY <1>4, <1>5, <1>6, <1>7, TypedStep DEF Doings, Files, Exchanges
  <2>2. GateHeld'
    <3>1. HasGate(p) /\ HasGate(p)'
      BY <1>1, <1>7, <2>1 DEF HasGate
    <3>2. QED BY <1>5, <1>7, <2>1, <3>1, GateStep
  <2>3. LockHeld'
    <3>1. /\ ~IsDead(p) /\ ~HasLock(p)' /\ ~Renames(p)' /\ ~Writes(p) /\ ~Writes(p)'
      BY <1>1, <1>7, <2>1 DEF IsDead, HasLock, Renames, Writes, Exchanges
    <3>2. QED BY <1>5, <1>6, <1>7, <2>1, <3>1, LockStep
  <2>4. QED BY <2>1, <2>2, <2>3 DEF LocksInv
<1>8. CASE f = "lock"
  <2>1. /\ LocksTyped' /\ doing'[p] = "mine" /\ upon'[p] = "gate"
        /\ \A q \in Proc : q # p => doing'[q] = doing[q] /\ upon'[q] = upon[q]
    BY <1>4, <1>5, <1>6, <1>8, TypedStep DEF Doings, Files, Exchanges
  <2>2. GateHeld'
    <3>1. HasGate(p) /\ HasGate(p)' /\ lockfile["gate"].written
      BY <1>1, <1>8, <2>1 DEF HasGate, LocksInv, GateHeld
    <3>2. QED BY <1>5, <1>8, <2>1, <3>1, GateStep
  <2>3. LockHeld'
    <3>1. /\ ~IsDead(p) /\ HasLock(p)' /\ ~Renames(p)' /\ Writes(p) /\ ~Writes(p)' /\ ~Opens(p)'
      BY <1>1, <1>6, <1>8, <2>1 DEF IsDead, HasLock, Renames, Writes, Opens, Exchanges
    <3>2. QED BY <1>5, <1>6, <1>8, <2>1, <3>1, LockStep
  <2>4. QED BY <2>1, <2>2, <2>3 DEF LocksInv
<1>9. QED BY <1>7, <1>8

LEMMA DeadIs ==
  ASSUME LocksInv, NEW p \in Proc PROVE Swap!Dead(p) <=> IsDead(p)
  BY PlaceIs DEF Swap!Dead, IsDead, LocksInv

(* A step that leaves the files of the lock and who got it alone, of a     *)
(* process that keeps or gives up what it holds.                           *)
LEMMA FilesStay ==
  ASSUME LocksInv, NEW p \in Proc, UNCHANGED <<lockfile, got>>, ~IsDead(p),
         NEW s \in Doings, NEW f \in Files, Swap!Go(p, s, f), f = "gate" => s # "rename",
         f # "" => s \notin Exchanges \cup {"done", "dead"},
         HasGate(p)' <=> HasGate(p), HasGate(p) => ~(upon[p] = "gate" /\ doing[p] = "write"),
         HasGate(p)' => ~(f = "gate" /\ s = "write"),
         HasLock(p)' => HasLock(p), ~Writes(p), ~Writes(p)', Opens(p)' => Opens(p),
         Renames(p)' => lockfile["lock"] = NoOne \/ IsDead(lockfile["lock"].by)
  PROVE  LocksInv' /\ doing'[p] = s /\ upon'[p] = f
         /\ \A q \in Proc : q # p => doing'[q] = doing[q] /\ upon'[q] = upon[q]
<1>1. DOMAIN lockfile' = {"gate", "lock"} /\ DOMAIN got' = Proc
  BY DEF LocksInv, LocksTyped
<1>2. /\ LocksTyped' /\ doing'[p] = s /\ upon'[p] = f
      /\ \A q \in Proc : q # p => doing'[q] = doing[q] /\ upon'[q] = upon[q]
  BY ZenonT(60), <1>1, TypedStep
<1>3. GateHeld'
  <2>1. CASE HasGate(p)
    <3>1. lockfile["gate"].written /\ upon[p] \in {"gate", "lock"} /\ upon'[p] \in {"gate", "lock"}
      BY <2>1 DEF LocksInv, GateHeld, HasGate
    <3>2. upon'[p] = "lock" \/ doing'[p] # "write"
      BY <1>2, <2>1, <3>1
    <3>3. QED BY <1>2, <2>1, <3>1, <3>2, GateStep
  <2>2. CASE ~HasGate(p)
    BY <1>2, <2>2, GateStep
  <2>3. QED BY <2>1, <2>2
<1>4. LockHeld'
  <2>1. (Opens(p)' => ~got'[p]) /\ (HasLock(p)' => got'[p])
    BY DEF LocksInv, LockHeld, Opens
  <2>2. QED BY <1>2, <2>1, LockStep
<1>5. QED BY <1>2, <1>3, <1>4 DEF LocksInv

(* What is old, or not written, is of no live process but the one at work. *)
LEMMA StaleIs ==
  ASSUME LocksInv, NEW p \in Proc, doing[p] = "judge", NEW f \in {"gate", "lock"}, upon[p] = f, Swap!Stale(f)
  PROVE  f = "lock" /\ IsDead(lockfile["lock"].by)
<1>1. CASE f = "gate"
  <2>1. /\ lockfile["gate"] # NoOne /\ lockfile["gate"].by \in Proc /\ HasGate(lockfile["gate"].by)
        /\ ~lockfile["gate"].old
    BY <1>1 DEF LocksInv, GateHeld, Swap!Stale, lockfile
  <2>2. Swap!Dead(lockfile["gate"].by)
    BY <1>1, <2>1 DEF Swap!Stale, lockfile
  <2>3. IsDead(lockfile["gate"].by)
    BY <2>1, <2>2, DeadIs
  <2>4. QED BY <2>1, <2>3 DEF HasGate, IsDead
<1>2. CASE f = "lock"
  <2>1. lockfile["lock"] # NoOne /\ (lockfile["lock"].old \/ ~lockfile["lock"].written)
    BY <1>2 DEF Swap!Stale, lockfile
  <2>2. CASE lockfile["lock"].old
    BY <1>2, <2>1, <2>2 DEF LocksInv, LockHeld
  <2>3. CASE ~lockfile["lock"].written
    <3>1. lockfile["lock"].by \in Proc /\ upon[lockfile["lock"].by] = "lock" /\ doing[lockfile["lock"].by] = "write"
      BY <2>1, <2>3 DEF LocksInv, LockHeld
    <3>2. HasGate(p) /\ HasGate(lockfile["lock"].by)
      BY <1>2, <3>1 DEF HasGate
    <3>3. QED BY <3>1, <3>2, OneHolder
  <2>4. QED BY <2>1, <2>2, <2>3
<1>3. QED BY <1>1, <1>2

LEMMA JudgeLocks ==
  ASSUME LocksInv, NEW p \in Proc, NEW f \in {"gate", "lock"}, Swap!Judge(p, f) PROVE LocksInv'
<1>1. doing[p] = "judge" /\ upon[p] = f /\ UNCHANGED <<lockfile, got>>
  BY PlaceIs DEF LocksInv, Swap!Judge, Swap!locking, lockfile, got
<1>2. ~got[p] \/ f = "gate"
  BY <1>1 DEF LocksInv, LockHeld
<1>3. /\ ~IsDead(p) /\ ~Writes(p) /\ (f = "gate" => ~HasGate(p)) /\ (f = "lock" => HasGate(p) /\ Opens(p))
  BY <1>1 DEF IsDead, Writes, HasGate, Opens
<1>4. DOMAIN lockfile' = {"gate", "lock"} /\ DOMAIN got' = Proc
  BY <1>1 DEF LocksInv, LocksTyped
<1>5. CASE Swap!Stale(f) /\ Swap!Go(p, "rename", f)
  <2>1. f = "lock" /\ IsDead(lockfile["lock"].by)
    BY <1>1, <1>5, StaleIs
  <2>2. doing'[p] = "rename" /\ upon'[p] = "lock"
    BY <1>4, <1>5, <2>1, TypedStep DEF Doings, Files, Exchanges
  <2>3. HasGate(p)' /\ ~HasLock(p)' /\ ~Writes(p)' /\ Opens(p)'
    BY <2>2 DEF HasGate, HasLock, Writes, Opens
  <2>4. "rename" \in Doings /\ "lock" \in Files /\ "rename" \notin Exchanges \cup {"done", "dead"}
    BY DEF Doings, Files, Exchanges
  <2>5. HasGate(p) /\ Opens(p) /\ Swap!Go(p, "rename", "lock") /\ ~(upon[p] = "gate" /\ doing[p] = "write")
    BY <1>1, <1>3, <1>5, <2>1
  <2>6. QED BY <1>1, <1>3, <2>1, <2>3, <2>4, <2>5, FilesStay
<1>6. CASE f = "gate" /\ Swap!Go(p, "done", "")
  <2>1. "done" \in Doings /\ "" \in Files
    BY DEF Doings, Files
  <2>2. doing'[p] = "done" /\ upon'[p] = ""
    BY <1>4, <1>6, TypedStep DEF Doings, Files, Exchanges
  <2>3. ~HasGate(p)' /\ ~HasLock(p)' /\ ~Writes(p)' /\ ~Opens(p)' /\ ~Renames(p)'
    BY <2>2 DEF HasGate, HasLock, Writes, Opens, Renames, Exchanges
  <2>4. QED BY <1>1, <1>3, <1>6, <2>1, <2>3, FilesStay
<1>7. CASE f = "lock" /\ Swap!Go(p, "mine", "gate")
  <2>1. "mine" \in Doings /\ "gate" \in Files /\ "mine" \notin Exchanges \cup {"done", "dead"}
    BY DEF Doings, Files, Exchanges
  <2>2. doing'[p] = "mine" /\ upon'[p] = "gate"
    BY <1>4, <1>7, TypedStep DEF Doings, Files, Exchanges
  <2>3. HasGate(p)' /\ ~HasLock(p)' /\ ~Writes(p)' /\ ~Opens(p)' /\ ~Renames(p)'
    BY <1>1, <1>2, <1>7, <2>2 DEF HasGate, HasLock, Writes, Opens, Renames, Exchanges
  <2>4. HasGate(p) /\ ~(upon[p] = "gate" /\ doing[p] = "write")
    BY <1>1, <1>3, <1>7
  <2>5. QED BY <1>1, <1>3, <1>7, <2>1, <2>3, <2>4, FilesStay
<1>8. QED BY <1>5, <1>6, <1>7 DEF Swap!Judge, Swap!GiveUp

(* Only the lock of a dead process is renamed away.                        *)
LEMMA RenameLocks ==
  ASSUME LocksInv, NEW p \in Proc, NEW f \in {"gate", "lock"}, Swap!Rename(p, f) PROVE LocksInv'
<1>1. doing[p] = "rename" /\ upon[p] = f /\ UNCHANGED got
  BY PlaceIs DEF LocksInv, Swap!Rename, got
<1>2. f = "lock" /\ ~got[p]
  BY <1>1 DEF LocksInv, LocksTyped, LockHeld
<1>3. /\ ~IsDead(p) /\ ~Writes(p) /\ HasGate(p) /\ Opens(p) /\ Renames(p)
      /\ ~(upon[p] = "gate" /\ doing[p] = "write")
  BY <1>1, <1>2 DEF IsDead, Writes, HasGate, Opens, Renames
<1>4. DOMAIN lockfile = {"gate", "lock"} /\ DOMAIN got' = Proc
  BY <1>1 DEF LocksInv, LocksTyped
<1>5. CASE lockfile' = lockfile /\ Swap!Go(p, "mine", "gate")
  <2>1. "mine" \in Doings /\ "gate" \in Files /\ "mine" \notin Exchanges \cup {"done", "dead"}
    BY DEF Doings, Files, Exchanges
  <2>2. DOMAIN lockfile' = {"gate", "lock"}
    BY <1>4, <1>5
  <2>3. /\ LocksTyped' /\ doing'[p] = "mine" /\ upon'[p] = "gate"
        /\ \A q \in Proc : q # p => doing'[q] = doing[q] /\ upon'[q] = upon[q]
    BY <1>4, <1>5, <2>1, <2>2, TypedStep
  <2>4. HasGate(p)' /\ ~HasLock(p)' /\ ~Writes(p)' /\ ~Opens(p)' /\ ~Renames(p)'
    BY <1>1, <1>2, <2>3 DEF HasGate, HasLock, Writes, Opens, Renames, Exchanges
  <2>5. QED BY <1>1, <1>3, <1>5, <2>1, <2>4, FilesStay
<1>6. CASE lockfile' = [lockfile EXCEPT !["lock"] = NoOne] /\ Swap!Go(p, "open", "lock")
  <2>1. "open" \in Doings /\ "lock" \in Files /\ "open" \notin Exchanges \cup {"done", "dead"}
    BY DEF Doings, Files, Exchanges
  <2>2. DOMAIN lockfile' = {"gate", "lock"} /\ lockfile'["lock"] = NoOne /\ lockfile'["gate"] = lockfile["gate"]
    BY <1>4, <1>6
  <2>3. /\ LocksTyped' /\ doing'[p] = "open" /\ upon'[p] = "lock"
        /\ \A q \in Proc : q # p => doing'[q] = doing[q] /\ upon'[q] = upon[q]
    BY <1>4, <1>6, <2>1, <2>2, TypedStep
  <2>4. HasGate(p)' /\ ~HasLock(p)' /\ ~Writes(p)' /\ ~Renames(p)'
    BY <1>1, <1>2, <2>3 DEF HasGate, HasLock, Writes, Renames, Exchanges
  <2>5. lockfile["gate"].written
    BY <1>1, <1>2, <1>3 DEF LocksInv, GateHeld
  <2>6. GateHeld'
    BY <1>3, <2>2, <2>3, <2>4, <2>5, GateStep
  <2>7. LockHeld'
    BY <1>1, <1>2, <1>3, <2>2, <2>3, <2>4, LockStep
  <2>8. QED BY <2>3, <2>6, <2>7 DEF LocksInv
<1>7. QED BY <1>1, <1>2, <1>5, <1>6 DEF Swap!Rename, Swap!GiveUp, lockfile

(* Who holds a file finds it his.                                          *)
LEMMA ReadMineLocks ==
  ASSUME LocksInv, NEW p \in Proc, NEW f \in {"gate", "lock"}, Swap!ReadMine(p, f)
  PROVE  /\ LocksInv' /\ doing[p] = "mine" /\ upon[p] = f /\ doing'[p] = "unlink" /\ upon'[p] = f
         /\ UNCHANGED <<lockfile, got>>
         /\ \A q \in Proc : q # p => doing'[q] = doing[q] /\ upon'[q] = upon[q]
<1>1. doing[p] = "mine" /\ upon[p] = f /\ UNCHANGED <<lockfile, got>>
  BY PlaceIs DEF LocksInv, Swap!ReadMine, Swap!locking, lockfile, got
<1>2. lockfile[f] # NoOne /\ lockfile[f].by = p /\ lockfile[f].written
  <2>1. CASE f = "gate"
    BY <1>1, <2>1 DEF LocksInv, GateHeld, HasGate
  <2>2. CASE f = "lock"
    BY <1>1, <2>2 DEF LocksInv, LockHeld, HasLock
  <2>3. QED BY <2>1, <2>2
<1>3. Swap!Go(p, "unlink", f)
  BY <1>2 DEF Swap!ReadMine, lockfile
<1>4. DOMAIN lockfile' = {"gate", "lock"} /\ DOMAIN got' = Proc
  BY <1>1 DEF LocksInv, LocksTyped
<1>5. "unlink" \in Doings /\ f \in Files /\ "unlink" \notin Exchanges \cup {"done", "dead"}
  BY DEF Doings, Files, Exchanges
<1>6. /\ LocksTyped' /\ doing'[p] = "unlink" /\ upon'[p] = f
      /\ \A q \in Proc : q # p => doing'[q] = doing[q] /\ upon'[q] = upon[q]
  BY <1>3, <1>4, <1>5, TypedStep
<1>7. /\ ~IsDead(p) /\ ~Writes(p) /\ ~Writes(p)' /\ ~Opens(p)' /\ ~Renames(p)'
      /\ (HasGate(p)' <=> HasGate(p)) /\ (HasLock(p)' => HasLock(p))
      /\ ~(upon[p] = "gate" /\ doing[p] = "write")
  BY <1>1, <1>6 DEF IsDead, HasGate, HasLock, Writes, Opens, Renames, Exchanges
<1>8. QED BY <1>1, <1>3, <1>5, <1>6, <1>7, FilesStay

LEMMA UnlinkLocks ==
  ASSUME LocksInv, NEW p \in Proc, NEW f \in {"gate", "lock"}, Swap!Unlink(p, f)
  PROVE  /\ LocksInv' /\ doing[p] = "unlink" /\ upon[p] = f
         /\ (doing'[p] = "stage" /\ f = "gate") \/ doing'[p] = "done"
         /\ upon'[p] = ""
         /\ \A q \in Proc : q # p => doing'[q] = doing[q] /\ upon'[q] = upon[q]
<1>1. doing[p] = "unlink" /\ upon[p] = f /\ UNCHANGED got /\ lockfile' = [lockfile EXCEPT ![f] = NoOne]
  BY PlaceIs DEF LocksInv, Swap!Unlink, lockfile, got
<1>2. PICK s \in {"stage", "done"} : Swap!Go(p, s, "") /\ (s = "stage" => f = "gate" /\ got[p])
  BY DEF Swap!Unlink, Swap!AfterRelease, got
<1>3. DOMAIN lockfile' = {"gate", "lock"} /\ DOMAIN got' = Proc
  BY <1>1 DEF LocksInv, LocksTyped
<1>4. s \in Doings /\ "" \in Files
  BY DEF Doings, Files, Exchanges
<1>5. /\ LocksTyped' /\ doing'[p] = s /\ upon'[p] = ""
      /\ \A q \in Proc : q # p => doing'[q] = doing[q] /\ upon'[q] = upon[q]
  BY <1>2, <1>3, <1>4, TypedStep
<1>6. ~IsDead(p) /\ ~Writes(p) /\ ~Writes(p)' /\ ~Opens(p)' /\ ~Renames(p)' /\ ~HasGate(p)'
  BY <1>1, <1>5 DEF IsDead, HasGate, Writes, Opens, Renames
<1>7. /\ f = "gate" => HasGate(p) /\ lockfile'["gate"] = NoOne /\ lockfile'["lock"] = lockfile["lock"]
      /\ f = "lock" => /\ ~HasGate(p) /\ lockfile'["lock"] = NoOne /\ lockfile'["gate"] = lockfile["gate"]
                       /\ HasLock(p) /\ ~HasLock(p)'
  <2>1. DOMAIN lockfile = {"gate", "lock"}
    BY DEF LocksInv, LocksTyped
  <2>2. /\ f = "gate" => HasGate(p)
        /\ f = "lock" => ~HasGate(p) /\ HasLock(p)
    BY <1>1 DEF HasGate, HasLock
  <2>3. f = "lock" => ~HasLock(p)'
    BY <1>2, <1>5 DEF HasLock, Exchanges
  <2>4. QED BY <1>1, <2>1, <2>2, <2>3
<1>8. GateHeld'
  BY <1>5, <1>6, <1>7, GateStep
<1>9. LockHeld'
  <2>1. HasLock(p)' => HasLock(p) /\ got'[p]
    BY <1>1, <1>2, <1>5 DEF HasLock, Exchanges
  <2>2. QED BY <1>1, <1>5, <1>6, <1>7, <2>1, LockStep
<1>10. QED BY <1>1, <1>2, <1>5, <1>8, <1>9 DEF LocksInv

LEMMA CrashLocks ==
  ASSUME LocksInv, ~CrashInGate, NEW p \in Proc, Swap!Crash(p)
  PROVE  /\ LocksInv' /\ doing'[p] = "dead" /\ upon'[p] = ""
         /\ \A q \in Proc : q # p => doing'[q] = doing[q] /\ upon'[q] = upon[q]
<1>1. doing[p] \notin {"done", "dead"} /\ ~HasGate(p) /\ Swap!Go(p, "dead", "") /\ UNCHANGED <<lockfile, got>>
  BY DEF Swap!Crash, Swap!HoldsGate, Swap!locking, HasGate, doing, upon, stage, lockfile, got
<1>2. DOMAIN lockfile' = {"gate", "lock"} /\ DOMAIN got' = Proc
  BY <1>1 DEF LocksInv, LocksTyped
<1>3. "dead" \in Doings /\ "" \in Files
  BY DEF Doings, Files
<1>4. doing'[p] = "dead" /\ upon'[p] = ""
  BY ZenonT(60), <1>1, <1>2, <1>3, TypedStep
<1>5. /\ ~IsDead(p) /\ ~Writes(p) /\ ~Writes(p)' /\ ~Opens(p)' /\ ~Renames(p)' /\ ~HasGate(p)' /\ ~HasLock(p)'
  BY <1>1, <1>4 DEF IsDead, HasGate, HasLock, Writes, Opens, Renames, Exchanges
<1>6. QED BY <1>1, <1>3, <1>4, <1>5, FilesStay

LEMMA AgeLocks ==
  ASSUME LocksInv, NEW f \in {"gate", "lock"}, Swap!Age(f) PROVE LocksInv' /\ UNCHANGED <<doing, upon>>
<1>1. /\ UNCHANGED <<stage, got, doing, upon>>
      /\ lockfile[f] # NoOne /\ ~lockfile[f].old /\ Swap!Dead(lockfile[f].by)
      /\ lockfile' = [lockfile EXCEPT ![f].old = TRUE]
  BY DEF Swap!Age, stage, got, lockfile, doing, upon
<1>2. DOMAIN lockfile = {"gate", "lock"}
  BY DEF LocksInv, LocksTyped
<1>3. f = "lock" /\ lockfile["lock"] \in LockFiles /\ IsDead(lockfile["lock"].by)
  <2>1. lockfile[f].by \in Proc /\ lockfile[f] \in LockFiles /\ (f = "gate" => HasGate(lockfile[f].by))
    BY <1>1 DEF LocksInv, GateHeld, LockHeld
  <2>2. IsDead(lockfile[f].by)
    BY <1>1, <2>1, DeadIs
  <2>3. ~(f = "gate")
    BY <2>1, <2>2 DEF HasGate, IsDead
  <2>4. QED BY <2>1, <2>2, <2>3
<1>4. /\ lockfile'["gate"] = lockfile["gate"] /\ DOMAIN lockfile' = {"gate", "lock"}
      /\ lockfile'["lock"] = [lockfile["lock"] EXCEPT !.old = TRUE]
  BY <1>1, <1>2, <1>3
<1>5. /\ lockfile'["lock"] \in LockFiles /\ lockfile'["lock"].by = lockfile["lock"].by
      /\ lockfile'["lock"].written = lockfile["lock"].written /\ lockfile'["lock"] # NoOne
  <2>1. /\ lockfile'["lock"] \in LockFiles /\ lockfile'["lock"].by = lockfile["lock"].by
        /\ lockfile'["lock"].written = lockfile["lock"].written
    BY <1>3, <1>4 DEF LockFiles
  <2>2. QED BY <2>1, SwapConstants
<1>6. LocksTyped' /\ GateHeld'
  BY ZenonT(60), <1>1, <1>4 DEF LocksInv, LocksTyped, GateHeld, HasGate
<1>7. LockHeld'
  BY <1>1, <1>3, <1>5 DEF LocksInv, LockHeld, HasLock, IsDead
<1>8. QED BY <1>1, <1>6, <1>7 DEF LocksInv

(* The exchange goes from one of its steps to the next, or to the release  *)
(* of the lock.                                                            *)
LEMMA ExchangeGoes ==
  ASSUME LocksInv, NEW p \in Proc, doing[p] \in Exchanges, upon[p] = "", UNCHANGED <<lockfile, got>>,
         NEW s \in Exchanges \cup {"mine"},
         Swap!Go(p, s, IF s = "mine" THEN "lock" ELSE "")
  PROVE  /\ LocksInv' /\ doing'[p] = s /\ upon'[p] = IF s = "mine" THEN "lock" ELSE ""
         /\ \A q \in Proc : q # p => doing'[q] = doing[q] /\ upon'[q] = upon[q]
<1> DEFINE f == IF s = "mine" THEN "lock" ELSE ""
<1>1. /\ s \in Doings /\ f \in Files /\ f # "gate"
      /\ f # "" => s \notin Exchanges \cup {"done", "dead"}
  BY DEF Doings, Files, Exchanges
<1>2. DOMAIN lockfile' = {"gate", "lock"} /\ DOMAIN got' = Proc
  BY DEF LocksInv, LocksTyped
<1>3. (f = "lock" <=> s = "mine") /\ (f = "" <=> s \in Exchanges)
  BY DEF Exchanges
<1>4. Swap!Go(p, s, f)
  OBVIOUS
<1> HIDE DEF f
<1>5. /\ LocksTyped' /\ doing'[p] = s /\ upon'[p] = f
      /\ \A q \in Proc : q # p => doing'[q] = doing[q] /\ upon'[q] = upon[q]
  BY <1>1, <1>2, <1>4, TypedStep
<1>6. ~HasGate(p)' /\ ~HasGate(p)
  BY <1>1, <1>3, <1>5 DEF HasGate, Exchanges
<1>7. ~IsDead(p) /\ ~Writes(p) /\ HasLock(p)
  BY DEF IsDead, HasLock, Writes, Exchanges
<1>8. ~Writes(p)' /\ ~Opens(p)' /\ ~Renames(p)'
  BY <1>3, <1>5 DEF Writes, Opens, Renames, Exchanges
<1>9. /\ LocksInv' /\ doing'[p] = s /\ upon'[p] = f
      /\ \A q \in Proc : q # p => doing'[q] = doing[q] /\ upon'[q] = upon[q]
  BY <1>1, <1>6, <1>7, <1>8, <1>4, FilesStay
<1>10. QED BY <1>9 DEF f

(* A state of the directories in which nothing of the user's is lost: each *)
(* entry is what its name says, his are his wherever they are, each is     *)
(* somewhere, and what was laid out for an update has none.                *)
Kinds == {"old", "new", "user"}
Sound(D) ==
  /\ \A d \in DOMAIN D : D[d] \in [DOMAIN D[d] -> Kinds] /\ DOMAIN D[d] \subseteq Program \cup Kept
  /\ \A d \in DOMAIN D : \A e \in DOMAIN D[d] : e \in Kept => D[d][e] = "user"
  /\ \A e \in Kept : \E d \in DOMAIN D : e \in DOMAIN D[d]
  /\ \A p \in Proc : Swap!Candidate(p) \in DOMAIN D => DOMAIN D[Swap!Candidate(p)] \subseteq Program

LEMMA DirNames ==
  /\ \A p \in Proc : /\ Swap!Deployment # Swap!Candidate(p) /\ Swap!Deployment # Swap!Backup(p)
                     /\ Swap!Deployment # Swap!Failed(p)
  /\ \A p, q \in Proc : /\ Swap!Candidate(p) # Swap!Backup(q) /\ Swap!Candidate(p) # Swap!Failed(q)
                        /\ Swap!Backup(p) # Swap!Failed(q)
  /\ \A p, q \in Proc : p # q => /\ Swap!Candidate(p) # Swap!Candidate(q) /\ Swap!Backup(p) # Swap!Backup(q)
                                 /\ Swap!Failed(p) # Swap!Failed(q)
  BY DEF Swap!Deployment, Swap!Candidate, Swap!Backup, Swap!Failed

(* What a move, a renaming and a removal make of the directories.          *)
IsMoved(M, D, from, to, e) ==
  /\ DOMAIN M = DOMAIN D
  /\ \A d \in DOMAIN D : d # from /\ d # to => M[d] = D[d]
  /\ DOMAIN M[from] = DOMAIN D[from] \ {e} /\ DOMAIN M[to] = DOMAIN D[to] \cup {e}
  /\ \A x \in DOMAIN D[from] : x # e => M[from][x] = D[from][x]
  /\ \A x \in DOMAIN D[to] : x # e => M[to][x] = D[to][x]
  /\ M[to][e] = D[from][e]
IsRenamed(M, D, from, to) ==
  /\ DOMAIN M = (DOMAIN D \ {from}) \cup {to}
  /\ M[to] = D[from]
  /\ \A d \in DOMAIN D : d # from => M[d] = D[d]
IsWithout(M, D, gone) ==
  DOMAIN M = DOMAIN D \ {gone} /\ \A d \in DOMAIN D : d # gone => M[d] = D[d]
IsDropped(M, D, from, e) ==
  /\ DOMAIN M = DOMAIN D
  /\ \A d \in DOMAIN D : d # from => M[d] = D[d]
  /\ DOMAIN M[from] = DOMAIN D[from] \ {e}
  /\ \A x \in DOMAIN D[from] : x # e => M[from][x] = D[from][x]

LEMMA MovedIs ==
  ASSUME NEW D, Sound(D), NEW from \in DOMAIN D, NEW to \in DOMAIN D, from # to, NEW e \in DOMAIN D[from],
         \A p \in Proc : to # Swap!Candidate(p)
  PROVE  Sound(Swap!Moved(D, from, to, e)) /\ IsMoved(Swap!Moved(D, from, to, e), D, from, to, e)
<1> DEFINE M == Swap!Moved(D, from, to, e)
<1>1. /\ DOMAIN M = DOMAIN D
      /\ M[from] = [x \in DOMAIN D[from] \ {e} |-> D[from][x]]
      /\ M[to] = [x \in DOMAIN D[to] \cup {e} |-> IF x = e THEN D[from][e] ELSE D[to][x]]
      /\ \A d \in DOMAIN D : d # from /\ d # to => M[d] = D[d]
  <2> DEFINE E == Swap!Drop(D, from, e)
  <2>1. /\ DOMAIN E = DOMAIN D /\ E[from] = [x \in DOMAIN D[from] \ {e} |-> D[from][x]]
        /\ \A d \in DOMAIN D : d # from => E[d] = D[d]
    BY DEF Swap!Drop
  <2>2. M = Swap!Put(E, to, e, D[from][e])
    BY DEF Swap!Moved
  <2> HIDE DEF E, M
  <2>3. /\ DOMAIN M = DOMAIN E /\ M[to] = [x \in DOMAIN E[to] \cup {e} |-> IF x = e THEN D[from][e] ELSE E[to][x]]
        /\ \A d \in DOMAIN E : d # to => M[d] = E[d]
    BY <2>1, <2>2 DEF Swap!Put
  <2>4. E[to] = D[to]
    BY <2>1
  <2>5. QED BY <2>1, <2>3, <2>4
<1> HIDE DEF M
<1>2. /\ DOMAIN M[from] = DOMAIN D[from] \ {e} /\ DOMAIN M[to] = DOMAIN D[to] \cup {e}
      /\ \A x \in DOMAIN D[from] : x # e => M[from][x] = D[from][x]
      /\ \A x \in DOMAIN D[to] : x # e => M[to][x] = D[to][x]
      /\ M[to][e] = D[from][e]
  BY <1>1
<1>3. Sound(M)
  <2>1. ASSUME NEW d \in DOMAIN M PROVE M[d] \in [DOMAIN M[d] -> Kinds] /\ DOMAIN M[d] \subseteq Program \cup Kept
    <3>1. /\ D[from] \in [DOMAIN D[from] -> Kinds] /\ DOMAIN D[from] \subseteq Program \cup Kept
          /\ D[to] \in [DOMAIN D[to] -> Kinds] /\ DOMAIN D[to] \subseteq Program \cup Kept
          /\ D[d] \in [DOMAIN D[d] -> Kinds] /\ DOMAIN D[d] \subseteq Program \cup Kept
      BY <1>1, <2>1 DEF Sound
    <3>2. CASE d = from
      BY <1>1, <3>1, <3>2
    <3>3. CASE d = to
      BY <1>1, <3>1, <3>3
    <3>4. QED BY <1>1, <2>1, <3>1, <3>2, <3>3
  <2>2. ASSUME NEW d \in DOMAIN M, NEW x \in DOMAIN M[d], x \in Kept PROVE M[d][x] = "user"
    BY <1>1, <1>2, <2>2 DEF Sound
  <2>3. ASSUME NEW x \in Kept PROVE \E d \in DOMAIN M : x \in DOMAIN M[d]
    <3>1. PICK d \in DOMAIN D : x \in DOMAIN D[d]
      BY DEF Sound
    <3>2. CASE x = e
      BY <1>1, <1>2, <3>2
    <3>3. CASE x # e
      BY <1>1, <1>2, <3>1, <3>3
    <3>4. QED BY <3>2, <3>3
  <2>4. ASSUME NEW p \in Proc, Swap!Candidate(p) \in DOMAIN M PROVE DOMAIN M[Swap!Candidate(p)] \subseteq Program
    BY <1>1, <1>2, <2>4 DEF Sound
  <2>5. QED BY <2>1, <2>2, <2>3, <2>4 DEF Sound
<1>4. QED BY <1>1, <1>2, <1>3 DEF M, IsMoved

LEMMA RenamedIs ==
  ASSUME NEW D, Sound(D), NEW from \in DOMAIN D, NEW to, to \notin DOMAIN D,
         \A p \in Proc : to # Swap!Candidate(p)
  PROVE  Sound(Swap!Renamed(D, from, to)) /\ IsRenamed(Swap!Renamed(D, from, to), D, from, to)
<1> DEFINE M == Swap!Renamed(D, from, to)
<1>1. /\ DOMAIN M = (DOMAIN D \ {from}) \cup {to} /\ M[to] = D[from]
      /\ \A d \in DOMAIN D : d # from => M[d] = D[d]
  BY DEF Swap!Renamed
<1> HIDE DEF M
<1>2. Sound(M)
  <2>1. \A e \in Kept : \E d \in DOMAIN M : e \in DOMAIN M[d]
    <3>1. SUFFICES ASSUME NEW e \in Kept PROVE \E d \in DOMAIN M : e \in DOMAIN M[d]
      OBVIOUS
    <3>2. PICK d \in DOMAIN D : e \in DOMAIN D[d]
      BY DEF Sound
    <3>3. QED BY <1>1, <3>2
  <2>2. \A p \in Proc : Swap!Candidate(p) \in DOMAIN M => DOMAIN M[Swap!Candidate(p)] \subseteq Program
    BY <1>1 DEF Sound
  <2>3. \A d \in DOMAIN M : \E c \in DOMAIN D : M[d] = D[c]
    BY <1>1
  <2>4. \A d \in DOMAIN M : M[d] \in [DOMAIN M[d] -> Kinds] /\ DOMAIN M[d] \subseteq Program \cup Kept
    BY <2>3 DEF Sound
  <2>5. \A d \in DOMAIN M : \A e \in DOMAIN M[d] : e \in Kept => M[d][e] = "user"
    BY <2>3 DEF Sound
  <2>6. QED BY <2>1, <2>2, <2>4, <2>5 DEF Sound
<1>3. QED BY <1>1, <1>2 DEF M, IsRenamed

LEMMA WithoutIs ==
  ASSUME NEW D, Sound(D), NEW gone, gone \in DOMAIN D => DOMAIN D[gone] \cap Kept = {}
  PROVE  Sound(Swap!Without(D, gone)) /\ IsWithout(Swap!Without(D, gone), D, gone)
<1> DEFINE M == Swap!Without(D, gone)
<1>1. DOMAIN M = DOMAIN D \ {gone} /\ \A d \in DOMAIN D : d # gone => M[d] = D[d]
  BY DEF Swap!Without
<1> HIDE DEF M
<1>2. Sound(M)
  <2>1. \A e \in Kept : \E d \in DOMAIN M : e \in DOMAIN M[d]
    <3>1. SUFFICES ASSUME NEW e \in Kept PROVE \E d \in DOMAIN M : e \in DOMAIN M[d]
      OBVIOUS
    <3>2. PICK d \in DOMAIN D : e \in DOMAIN D[d]
      BY DEF Sound
    <3>3. QED BY <1>1, <3>2
  <2>2. QED BY <1>1, <2>1 DEF Sound
<1>3. QED BY <1>1, <1>2 DEF M, IsWithout

LEMMA DroppedIs ==
  ASSUME NEW D, Sound(D), NEW from \in DOMAIN D, NEW e \in Program
  PROVE  Sound(Swap!Drop(D, from, e)) /\ IsDropped(Swap!Drop(D, from, e), D, from, e)
<1> DEFINE M == Swap!Drop(D, from, e)
<1>1. /\ DOMAIN M = DOMAIN D /\ M[from] = [x \in DOMAIN D[from] \ {e} |-> D[from][x]]
      /\ \A d \in DOMAIN D : d # from => M[d] = D[d]
  BY DEF Swap!Drop
<1> HIDE DEF M
<1>2. DOMAIN M[from] = DOMAIN D[from] \ {e} /\ \A x \in DOMAIN D[from] : x # e => M[from][x] = D[from][x]
  BY <1>1
<1>3. Sound(M)
  <2>1. ASSUME NEW d \in DOMAIN M PROVE M[d] \in [DOMAIN M[d] -> Kinds] /\ DOMAIN M[d] \subseteq Program \cup Kept
    <3>1. /\ D[from] \in [DOMAIN D[from] -> Kinds] /\ DOMAIN D[from] \subseteq Program \cup Kept
          /\ D[d] \in [DOMAIN D[d] -> Kinds] /\ DOMAIN D[d] \subseteq Program \cup Kept
      BY <1>1, <2>1 DEF Sound
    <3>2. CASE d = from
      BY <1>1, <3>1, <3>2
    <3>3. QED BY <1>1, <2>1, <3>1, <3>2
  <2>2. \A d \in DOMAIN M : \A x \in DOMAIN M[d] : x \in Kept => M[d][x] = "user"
    BY <1>1, <1>2 DEF Sound
  <2>3. ASSUME NEW x \in Kept PROVE \E d \in DOMAIN M : x \in DOMAIN M[d]
    <3>1. PICK d \in DOMAIN D : x \in DOMAIN D[d]
      BY DEF Sound
    <3>2. x # e
      BY SwapConstants
    <3>3. QED BY <1>1, <1>2, <3>1, <3>2
  <2>4. \A p \in Proc : Swap!Candidate(p) \in DOMAIN M => DOMAIN M[Swap!Candidate(p)] \subseteq Program
    BY <1>1, <1>2 DEF Sound
  <2>5. QED BY <2>1, <2>2, <2>3, <2>4 DEF Sound
<1>4. QED BY <1>1, <1>2, <1>3 DEF M, IsDropped

(* A directory that is new, of program entries only.                       *)
Added(D, to, S, k) == [d \in DOMAIN D \cup {to} |-> IF d = to THEN [e \in S |-> k] ELSE D[d]]
IsAdded(M, D, to, S, k) ==
  /\ DOMAIN M = DOMAIN D \cup {to} /\ \A d \in DOMAIN D : M[d] = D[d]
  /\ DOMAIN M[to] = S /\ \A e \in S : M[to][e] = k

LEMMA AddedIs ==
  ASSUME NEW D, Sound(D), NEW to, to \notin DOMAIN D, NEW S \in SUBSET Program, NEW k \in Kinds
  PROVE  Sound(Added(D, to, S, k)) /\ IsAdded(Added(D, to, S, k), D, to, S, k)
<1> DEFINE M == Added(D, to, S, k)
<1>1. /\ DOMAIN M = DOMAIN D \cup {to} /\ M[to] = [e \in S |-> k]
      /\ \A d \in DOMAIN D : M[d] = D[d]
  BY DEF Added
<1> HIDE DEF M
<1>2. DOMAIN M[to] = S /\ \A e \in S : M[to][e] = k
  BY <1>1
<1>3. \A d \in DOMAIN M : M[d] \in [DOMAIN M[d] -> Kinds] /\ DOMAIN M[d] \subseteq Program \cup Kept
  <2>1. M[to] \in [DOMAIN M[to] -> Kinds] /\ DOMAIN M[to] \subseteq Program \cup Kept
    BY <1>1
  <2>2. QED BY <1>1, <2>1 DEF Sound
<1>4. \A d \in DOMAIN M : \A e \in DOMAIN M[d] : e \in Kept => M[d][e] = "user"
  BY <1>1, <1>2, SwapConstants DEF Sound
<1>5. \A e \in Kept : \E d \in DOMAIN M : e \in DOMAIN M[d]
  <2>1. SUFFICES ASSUME NEW e \in Kept PROVE \E d \in DOMAIN M : e \in DOMAIN M[d]
    OBVIOUS
  <2>2. PICK d \in DOMAIN D : e \in DOMAIN D[d]
    BY DEF Sound
  <2>3. QED BY <1>1, <2>2
<1>6. \A p \in Proc : Swap!Candidate(p) \in DOMAIN M => DOMAIN M[Swap!Candidate(p)] \subseteq Program
  BY <1>1, <1>2 DEF Sound
<1>7. Sound(M)
  BY <1>3, <1>4, <1>5, <1>6 DEF Sound
<1>8. QED BY <1>1, <1>2, <1>7 DEF M, IsAdded

Unheld(p) ==
  \/ doing[p] = "stage"
  \/ upon[p] = "gate"
  \/ upon[p] = "lock" /\ doing[p] \notin {"mine", "unlink"}
Untold(p) == ~won[p] /\ ~told[p]

(* What is laid out; what is as the deployment was; what is of it; the new *)
(* program in place, the user's entries with it, and the old one kept.     *)
IsLaid(p) ==
  /\ Swap!Candidate(p) \in DOMAIN dirs /\ DOMAIN dirs[Swap!Candidate(p)] = Program
  /\ \A e \in Program : dirs[Swap!Candidate(p)][e] = "new"
IsWhole(d, p) == d \in DOMAIN dirs /\ dirs[d] = before[p]
IsOf(d, p) == \A e \in Swap!Entries(d) : e \in DOMAIN before[p] /\ dirs[d][e] = before[p][e]
AllNew ==
  /\ Swap!Deployment \in DOMAIN dirs
  /\ \A e \in Program : e \in Swap!Entries(Swap!Deployment) /\ dirs[Swap!Deployment][e] = "new"
UsersIn(p) == \A e \in Kept : e \in Swap!Entries(Swap!Deployment) <=> e \in DOMAIN before[p]
OldOut(p) ==
  /\ Swap!Backup(p) \in DOMAIN dirs /\ IsOf(Swap!Backup(p), p)
  /\ \A e \in DOMAIN before[p] : e \in Swap!Entries(Swap!Backup(p)) <=> e \in Program

(* What has been done of the exchange at each of its steps.                *)
AtAway(p) ==
  /\ ~inPlace /\ Untold(p) /\ IsWhole(Swap!Deployment, p) /\ IsLaid(p)
  /\ Swap!Backup(p) \notin DOMAIN dirs /\ Swap!Failed(p) \notin DOMAIN dirs
AtEnter(p) ==
  /\ ~inPlace /\ Untold(p) /\ IsWhole(Swap!Backup(p), p) /\ IsLaid(p)
  /\ Swap!Deployment \notin DOMAIN dirs /\ Swap!Failed(p) \notin DOMAIN dirs
AtKeep(p) ==
  /\ ~inPlace /\ Untold(p) /\ rest[p] \subseteq Kept
  /\ Swap!Backup(p) \in DOMAIN dirs /\ Swap!Failed(p) \notin DOMAIN dirs
  /\ AllNew /\ IsOf(Swap!Backup(p), p)
  /\ \A e \in Kept : e \in Swap!Entries(Swap!Deployment) <=> e \in DOMAIN before[p] /\ e \notin rest[p]
  /\ \A e \in DOMAIN before[p] : e \in Swap!Entries(Swap!Backup(p)) <=> e \in Program \/ e \in rest[p]
AtRegister(p) ==
  /\ Untold(p) /\ AllNew /\ UsersIn(p) /\ OldOut(p)
  /\ inPlace \/ Swap!Failed(p) \notin DOMAIN dirs
AtCommit(p) ==
  /\ won[p] /\ AllNew /\ UsersIn(p)
  /\ Swap!Entries(Swap!Backup(p)) \cap Kept = {}
AtAside(p) ==
  /\ Untold(p) /\ Swap!Failed(p) \notin DOMAIN dirs
  /\ Swap!Backup(p) \in DOMAIN dirs /\ IsOf(Swap!Backup(p), p)
  /\ \A e \in Swap!Entries(Swap!Deployment) : e \in Kept => e \in DOMAIN before[p]
  /\ \A e \in DOMAIN before[p] :
       e \in Swap!Entries(Swap!Backup(p)) \/ (e \in Kept /\ e \in Swap!Entries(Swap!Deployment))
AtBack(p) ==
  /\ Untold(p) /\ Swap!Deployment \notin DOMAIN dirs
  /\ Swap!Backup(p) \in DOMAIN dirs /\ IsOf(Swap!Backup(p), p)
  /\ rest[p] \subseteq Kept
  /\ \A e \in Swap!Entries(Swap!Failed(p)) : e \in Kept => e \in DOMAIN before[p] /\ e \in rest[p]
  /\ \A e \in DOMAIN before[p] :
       e \in Swap!Entries(Swap!Backup(p)) \/ (e \in Kept /\ e \in Swap!Entries(Swap!Failed(p)))
AtSweep(p) == ~won[p] /\ (told[p] \/ IsWhole(Swap!Deployment, p))
AtOut(p) ==
  /\ inPlace /\ Untold(p) /\ IsLaid(p) /\ Swap!Deployment \in DOMAIN dirs
  /\ rest[p] \subseteq Program /\ rest[p] \subseteq DOMAIN before[p]
  /\ IsOf(Swap!Deployment, p) /\ IsOf(Swap!Backup(p), p)
  /\ \A e \in DOMAIN before[p] :
       /\ e \in Swap!Entries(Swap!Deployment) <=> e \in Kept \/ e \in rest[p]
       /\ e \in Swap!Entries(Swap!Backup(p)) <=> e \in Program /\ e \notin rest[p]
AtIn(p) ==
  /\ inPlace /\ Untold(p) /\ OldOut(p) /\ UsersIn(p)
  /\ Swap!Deployment \in DOMAIN dirs /\ Swap!Candidate(p) \in DOMAIN dirs
  /\ rest[p] \subseteq Program /\ rest[p] \subseteq DOMAIN dirs[Swap!Candidate(p)]
  /\ \A e \in rest[p] : dirs[Swap!Candidate(p)][e] = "new"
  /\ \A e \in Program : /\ e \in Swap!Entries(Swap!Deployment) <=> e \notin rest[p]
                        /\ e \notin rest[p] => dirs[Swap!Deployment][e] = "new"
AtClear(p) ==
  /\ ~won[p] /\ OldOut(p) /\ UsersIn(p)
  /\ Swap!Deployment \in DOMAIN dirs /\ rest[p] \subseteq Program
  /\ ~told[p] => \A e \in Swap!Entries(Swap!Deployment) : e \in Program => e \in rest[p]
AtReturn(p) ==
  /\ ~won[p] /\ Swap!Deployment \in DOMAIN dirs /\ Swap!Backup(p) \in DOMAIN dirs
  /\ IsOf(Swap!Backup(p), p)
  /\ Swap!Entries(Swap!Backup(p)) \subseteq Program /\ rest[p] \subseteq Swap!Entries(Swap!Backup(p))
  /\ ~told[p] => /\ IsOf(Swap!Deployment, p) /\ Swap!Entries(Swap!Backup(p)) \subseteq rest[p]
                 /\ \A e \in DOMAIN before[p] : e \in Swap!Entries(Swap!Deployment) \/ e \in rest[p]
AtMine(p) ==
  DOMAIN before[p] # {} =>
    IF won[p]
      THEN Swap!Contents(Swap!Deployment) = [e \in Program \cup DOMAIN before[p] |->
                                               IF e \in Program THEN "new" ELSE before[p][e]]
      ELSE told[p] \/ Swap!Contents(Swap!Deployment) = before[p]

AtPlace(p) ==
  /\ Unheld(p) => /\ Untold(p) /\ Swap!Candidate(p) \notin DOMAIN dirs
                  /\ Swap!Backup(p) \notin DOMAIN dirs /\ Swap!Failed(p) \notin DOMAIN dirs
  /\ doing[p] = "away" => AtAway(p)
  /\ doing[p] = "enter" => AtEnter(p)
  /\ doing[p] = "keep" => AtKeep(p)
  /\ doing[p] = "register" => AtRegister(p)
  /\ doing[p] = "commit" => AtCommit(p)
  /\ doing[p] = "aside" => AtAside(p)
  /\ doing[p] = "back" => AtBack(p)
  /\ doing[p] = "sweep" => AtSweep(p)
  /\ doing[p] = "out" => AtOut(p)
  /\ doing[p] = "in" => AtIn(p)
  /\ doing[p] = "clear" => AtClear(p)
  /\ doing[p] = "return" => AtReturn(p)
  /\ doing[p] = "mine" /\ upon[p] = "lock" => AtMine(p)

Befores ==
  /\ DOMAIN rest = Proc /\ DOMAIN won = Proc /\ DOMAIN told = Proc /\ DOMAIN before = Proc
  /\ \A p \in Proc : /\ before[p] \in [DOMAIN before[p] -> Kinds] /\ DOMAIN before[p] \subseteq Program \cup Kept
                     /\ \A e \in DOMAIN before[p] : e \in Kept => before[p][e] = "user"

SwapInv == LocksInv /\ Sound(dirs) /\ Befores /\ \A p \in Proc : AtPlace(p)

(* Only who has the lock is at one of the steps of the exchange.           *)
LEMMA Outside ==
  ASSUME NEW p \in Proc, ~HasLock(p), upon[p] # "" => doing[p] \notin Exchanges,
         upon[p] \in {"", "gate", "lock"}
  PROVE  /\ doing[p] \notin Exchanges /\ ~(doing[p] = "mine" /\ upon[p] = "lock")
         /\ AtPlace(p) <=> (Unheld(p) => /\ Untold(p) /\ Swap!Candidate(p) \notin DOMAIN dirs
                                         /\ Swap!Backup(p) \notin DOMAIN dirs /\ Swap!Failed(p) \notin DOMAIN dirs)
  BY DEF HasLock, Exchanges, AtPlace

(* A step of the process that has the lock disturbs no other.              *)
LEMMA OnlyOneWorks ==
  ASSUME SwapInv, NEW p \in Proc, HasLock(p), LocksInv',
         \A q \in Proc : q # p => /\ doing'[q] = doing[q] /\ upon'[q] = upon[q] /\ got'[q] = got[q]
                                  /\ won'[q] = won[q] /\ told'[q] = told[q],
         DOMAIN dirs' \subseteq DOMAIN dirs \cup {Swap!Deployment, Swap!Candidate(p), Swap!Backup(p), Swap!Failed(p)},
         Sound(dirs'), Befores', AtPlace(p)'
  PROVE  SwapInv'
<1>1. SUFFICES ASSUME NEW q \in Proc, q # p PROVE AtPlace(q)'
  BY DEF SwapInv
<1>2. ~HasLock(q)
  BY <1>1, OneHolder DEF SwapInv
<1>3. /\ doing[q] \notin Exchanges /\ ~(doing[q] = "mine" /\ upon[q] = "lock")
      /\ Unheld(q) => /\ Untold(q) /\ Swap!Candidate(q) \notin DOMAIN dirs
                      /\ Swap!Backup(q) \notin DOMAIN dirs /\ Swap!Failed(q) \notin DOMAIN dirs
  <2>1. /\ upon[q] # "" => doing[q] \notin Exchanges
        /\ upon[q] \in {"", "gate", "lock"}
    BY DEF SwapInv, LocksInv, LocksTyped
  <2>2. AtPlace(q)
    BY DEF SwapInv
  <2>3. QED BY <1>2, <2>1, <2>2, Outside
<1>4. /\ Swap!Candidate(q) \notin DOMAIN dirs => Swap!Candidate(q) \notin DOMAIN dirs'
      /\ Swap!Backup(q) \notin DOMAIN dirs => Swap!Backup(q) \notin DOMAIN dirs'
      /\ Swap!Failed(q) \notin DOMAIN dirs => Swap!Failed(q) \notin DOMAIN dirs'
  BY <1>1, DirNames
<1>5. (Unheld(q)' => Unheld(q)) /\ (Untold(q) => Untold(q)') /\ doing'[q] \notin Exchanges /\ ~(doing'[q] = "mine" /\ upon'[q] = "lock")
  BY <1>1, <1>3 DEF Unheld, Untold
<1>6. QED
  BY <1>3, <1>4, <1>5, DirNames DEF AtPlace, Exchanges, Swap!Candidate, Swap!Backup, Swap!Failed

(* Nothing is said of who may not touch a directory but that he did not,   *)
(* and nothing of anyone changes while the directories do not.             *)
LEMMA PlacesStay ==
  ASSUME NEW q \in Proc, UNCHANGED <<dirs, rest, won, told, before, inPlace>>
  PROVE  /\ (AtAway(q)' <=> AtAway(q)) /\ (AtEnter(q)' <=> AtEnter(q)) /\ (AtKeep(q)' <=> AtKeep(q))
         /\ (AtRegister(q)' <=> AtRegister(q)) /\ (AtCommit(q)' <=> AtCommit(q))
         /\ (AtAside(q)' <=> AtAside(q)) /\ (AtBack(q)' <=> AtBack(q)) /\ (AtSweep(q)' <=> AtSweep(q))
         /\ (AtOut(q)' <=> AtOut(q)) /\ (AtIn(q)' <=> AtIn(q)) /\ (AtClear(q)' <=> AtClear(q))
         /\ (AtReturn(q)' <=> AtReturn(q)) /\ (AtMine(q)' <=> AtMine(q))
<1>1. /\ dirs' = dirs /\ rest' = rest /\ won' = won /\ told' = told /\ before' = before /\ inPlace' = inPlace
      /\ \A d : Swap!Entries(d)' = Swap!Entries(d)
      /\ Swap!Contents(Swap!Deployment)' = Swap!Contents(Swap!Deployment)
  BY DEF dirs, Swap!Entries, Swap!Contents, Swap!Exists
<1>2. /\ Untold(q)' <=> Untold(q)
      /\ IsLaid(q)' <=> IsLaid(q)
      /\ AllNew' <=> AllNew
      /\ UsersIn(q)' <=> UsersIn(q)
  BY <1>1 DEF Untold, IsLaid, AllNew, UsersIn
<1>3. \A d : (IsWhole(d, q)' <=> IsWhole(d, q)) /\ (IsOf(d, q)' <=> IsOf(d, q))
  BY <1>1 DEF IsWhole, IsOf
<1>4. OldOut(q)' <=> OldOut(q)
  BY <1>1, <1>3 DEF OldOut
<1>5. (AtAway(q)' <=> AtAway(q)) /\ (AtEnter(q)' <=> AtEnter(q)) /\ (AtKeep(q)' <=> AtKeep(q))
  BY <1>1, <1>2, <1>3 DEF AtAway, AtEnter, AtKeep
<1>6. (AtRegister(q)' <=> AtRegister(q)) /\ (AtCommit(q)' <=> AtCommit(q)) /\ (AtMine(q)' <=> AtMine(q))
  BY <1>1, <1>2, <1>3, <1>4 DEF AtRegister, AtCommit, AtMine
<1>7. (AtAside(q)' <=> AtAside(q)) /\ (AtBack(q)' <=> AtBack(q)) /\ (AtSweep(q)' <=> AtSweep(q))
  BY <1>1, <1>2, <1>3 DEF AtAside, AtBack, AtSweep
<1>8. (AtOut(q)' <=> AtOut(q)) /\ (AtIn(q)' <=> AtIn(q)) /\ (AtClear(q)' <=> AtClear(q)) /\ (AtReturn(q)' <=> AtReturn(q))
  BY <1>1, <1>2, <1>3, <1>4 DEF AtOut, AtIn, AtClear, AtReturn
<1>9. QED BY <1>5, <1>6, <1>7, <1>8

LEMMA PlaceStays ==
  ASSUME NEW q \in Proc, UNCHANGED <<dirs, rest, won, told, before, inPlace>>, AtPlace(q),
         doing'[q] = doing[q], upon'[q] = upon[q]
  PROVE  AtPlace(q)'
<1>1. (Unheld(q)' <=> Unheld(q)) /\ (Untold(q)' <=> Untold(q))
  BY DEF Unheld, Untold
<1>2. QED BY <1>1, PlacesStay DEF AtPlace

(* A step of who has not the lock yet, or has it no more.                  *)
LEMMA OutsideStep ==
  ASSUME SwapInv, NEW p \in Proc, LocksInv', UNCHANGED <<dirs, rest, won, told, before, inPlace>>,
         \A q \in Proc : q # p => doing'[q] = doing[q] /\ upon'[q] = upon[q],
         Unheld(p)' => Unheld(p),
         doing'[p] \notin Exchanges \ {"stage"}, ~(doing'[p] = "mine" /\ upon'[p] = "lock")
  PROVE  SwapInv'
<1>1. Sound(dirs') /\ Befores'
  BY DEF SwapInv, Befores
<1>2. ASSUME NEW q \in Proc, q # p PROVE AtPlace(q)'
  BY <1>2, PlaceStays DEF SwapInv
<1>3. AtPlace(p)'
  <2>1. AtPlace(p)
    BY DEF SwapInv
  <2>2. Unheld(p)' => /\ Untold(p)' /\ Swap!Candidate(p) \notin DOMAIN dirs'
                      /\ Swap!Backup(p) \notin DOMAIN dirs' /\ Swap!Failed(p) \notin DOMAIN dirs'
    BY <2>1 DEF AtPlace, Untold
  <2>3. doing'[p] \notin {"away", "enter", "keep", "register", "commit", "aside",
              "back", "sweep", "out", "in", "clear", "return"}
    BY DEF Exchanges
  <2>4. QED BY <2>2, <2>3 DEF AtPlace, Swap!Candidate, Swap!Backup, Swap!Failed
<1>4. QED BY <1>1, <1>2, <1>3 DEF SwapInv

(* The five calls on either file.                                          *)
LEMMA LockSteps ==
  ASSUME SwapInv, NEW p \in Proc, NEW f \in {"gate", "lock"},
         Swap!Open(p, f) \/ Swap!Write(p, f) \/ Swap!Judge(p, f) \/ Swap!Rename(p, f)
  PROVE  SwapInv'
<1>1. LocksInv'
  BY OpenLocks, WriteLocks, JudgeLocks, RenameLocks DEF SwapInv
<1>2. UNCHANGED <<dirs, rest, won, told, before, inPlace>>
  BY DEF Swap!Open, Swap!Write, Swap!Judge, Swap!Rename, Swap!swapping, Swap!bounds,
         dirs, rest, won, told, before, inPlace
<1>3. upon[p] = f /\ doing[p] \in {"open", "write", "judge", "rename"}
  BY PlaceIs DEF SwapInv, LocksInv, Swap!Open, Swap!Write, Swap!Judge, Swap!Rename
<1>4. Unheld(p)
  BY <1>3 DEF Unheld
<1>5. \/ Swap!Go(p, "write", f) \/ Swap!Go(p, "judge", f) \/ Swap!Go(p, "open", "lock") \/ Swap!Go(p, "mine", "gate")
      \/ Swap!Go(p, "rename", f) \/ Swap!Go(p, "done", "") \/ Swap!Go(p, "open", f)
  BY DEF Swap!Open, Swap!Write, Swap!Judge, Swap!Rename, Swap!GiveUp
<1>6. PICK s \in {"write", "judge", "open", "mine", "rename", "done"}, g \in {f, "lock", "gate", ""} :
        Swap!Go(p, s, g) /\ ~(s = "mine" /\ g # "gate")
  BY <1>5
<1>7. s \in Doings /\ g \in Files /\ s \notin Exchanges
  BY DEF Doings, Files, Exchanges
<1>8. doing' = [doing EXCEPT ![p] = s] /\ upon' = [upon EXCEPT ![p] = g]
  BY <1>6, <1>7, Goes DEF SwapInv, LocksInv
<1>9. /\ doing'[p] = s /\ upon'[p] = g
      /\ \A q \in Proc : q # p => doing'[q] = doing[q] /\ upon'[q] = upon[q]
  BY <1>8, Moves
<1>10. QED BY <1>1, <1>2, <1>4, <1>6, <1>7, <1>9, OutsideStep

(* What was laid out for the update goes before its lock does.             *)
LEMMA ReadMineSwaps ==
  ASSUME SwapInv, NEW p \in Proc, NEW f \in {"gate", "lock"}, Swap!ReadMine(p, f)
  PROVE  SwapInv'
<1>1. /\ LocksInv' /\ doing[p] = "mine" /\ upon[p] = f /\ doing'[p] = "unlink" /\ upon'[p] = f
      /\ UNCHANGED <<lockfile, got>>
      /\ \A q \in Proc : q # p => doing'[q] = doing[q] /\ upon'[q] = upon[q]
  BY ReadMineLocks DEF SwapInv
<1>2. /\ UNCHANGED <<rest, won, told, before, inPlace>>
      /\ dirs' = IF f = "lock" THEN Swap!Without(dirs, Swap!Candidate(p)) ELSE dirs
  BY DEF Swap!ReadMine, Swap!bounds, dirs, rest, won, told, before, inPlace
<1>3. CASE f = "gate"
  <2>1. Unheld(p) /\ UNCHANGED dirs
    BY <1>1, <1>2, <1>3 DEF Unheld
  <2>2. QED BY <1>1, <1>2, <2>1, OutsideStep DEF Exchanges
<1>4. CASE f = "lock"
  <2>1. Sound(dirs)
    BY DEF SwapInv
  <2>2. Swap!Candidate(p) \in DOMAIN dirs => DOMAIN dirs[Swap!Candidate(p)] \cap Kept = {}
    BY <2>1, SwapConstants DEF Sound
  <2>3. Sound(dirs') /\ DOMAIN dirs' = DOMAIN dirs \ {Swap!Candidate(p)}
    BY <1>2, <1>4, <2>1, <2>2, WithoutIs DEF IsWithout
  <2>4. HasLock(p) /\ Befores'
    BY <1>1, <1>2, <1>4 DEF HasLock, SwapInv, Befores
  <2>5. AtPlace(p)'
    BY <1>1, <1>4 DEF AtPlace, Unheld
  <2>6. QED BY <1>1, <1>2, <2>3, <2>4, <2>5, OnlyOneWorks
<1>5. QED BY <1>3, <1>4

LEMMA UnlinkSwaps ==
  ASSUME SwapInv, NEW p \in Proc, NEW f \in {"gate", "lock"}, Swap!Unlink(p, f)
  PROVE  SwapInv'
<1>1. /\ LocksInv' /\ doing[p] = "unlink" /\ upon[p] = f
      /\ (doing'[p] = "stage" /\ f = "gate") \/ doing'[p] = "done"
      /\ upon'[p] = ""
      /\ \A q \in Proc : q # p => doing'[q] = doing[q] /\ upon'[q] = upon[q]
  BY UnlinkLocks DEF SwapInv
<1>2. UNCHANGED <<dirs, rest, won, told, before, inPlace>>
  BY DEF Swap!Unlink, Swap!swapping, Swap!bounds, dirs, rest, won, told, before, inPlace
<1>3. Unheld(p)' => Unheld(p)
  BY <1>1 DEF Unheld
<1>4. QED BY <1>1, <1>2, <1>3, OutsideStep DEF Exchanges

LEMMA CrashSwaps ==
  ASSUME SwapInv, ~CrashInGate, NEW p \in Proc, Swap!Crash(p) PROVE SwapInv'
<1>1. /\ LocksInv' /\ doing'[p] = "dead" /\ upon'[p] = ""
      /\ \A q \in Proc : q # p => doing'[q] = doing[q] /\ upon'[q] = upon[q]
  BY CrashLocks DEF SwapInv
<1>2. UNCHANGED <<dirs, rest, won, told, before, inPlace>>
  BY DEF Swap!Crash, Swap!swapping, dirs, rest, won, told, before, inPlace
<1>3. ~Unheld(p)'
  BY <1>1 DEF Unheld
<1>4. QED BY <1>1, <1>2, <1>3, OutsideStep DEF Exchanges

LEMMA AgeSwaps ==
  ASSUME SwapInv, NEW f \in {"gate", "lock"}, Swap!Age(f) PROVE SwapInv'
<1>1. LocksInv' /\ UNCHANGED <<doing, upon>>
  BY AgeLocks DEF SwapInv
<1>2. UNCHANGED <<dirs, rest, won, told, before, inPlace>>
  BY DEF Swap!Age, Swap!swapping, Swap!bounds, dirs, rest, won, told, before, inPlace
<1>3. Sound(dirs') /\ Befores'
  BY <1>2 DEF SwapInv, Befores
<1>4. ASSUME NEW q \in Proc PROVE AtPlace(q)'
  BY <1>1, <1>2, PlaceStays DEF SwapInv
<1>5. QED BY <1>1, <1>3, <1>4 DEF SwapInv

(* The step of a process that changes nothing of another's.                *)
Alone(p) ==
  /\ UNCHANGED <<lockfile, got, inPlace>>
  /\ \A q \in Proc : q # p => won'[q] = won[q] /\ told'[q] = told[q]

LEMMA EntriesAre ==
  /\ \A d : Swap!Entries(d) = IF d \in DOMAIN dirs THEN DOMAIN dirs[d] ELSE {}
  /\ \A d : Swap!Entries(d)' = IF d \in DOMAIN dirs' THEN DOMAIN dirs'[d] ELSE {}
  BY DEF Swap!Entries, Swap!Exists, dirs

LEMMA NamesRest ==
  /\ Swap!Deployment' = Swap!Deployment
  /\ \A p \in Proc : /\ Swap!Candidate(p)' = Swap!Candidate(p) /\ Swap!Backup(p)' = Swap!Backup(p)
                     /\ Swap!Failed(p)' = Swap!Failed(p)
  BY DEF Swap!Deployment, Swap!Candidate, Swap!Backup, Swap!Failed

LEMMA ExchangeAt ==
  ASSUME SwapInv, NEW p \in Proc, NEW s \in Exchanges, Swap!At(p, s, "")
  PROVE  doing[p] = s /\ upon[p] = "" /\ Sound(dirs) /\ Befores /\ AtPlace(p)
  BY PlaceIs DEF SwapInv, LocksInv

(* A step of the exchange has to be looked at for itself alone.            *)
LEMMA ExchangeStep ==
  ASSUME SwapInv, NEW p \in Proc, doing[p] \in Exchanges, upon[p] = "", Alone(p),
         NEW s \in (Exchanges \ {"stage"}) \cup {"mine"},
         \/ Swap!Go(p, s, IF s = "mine" THEN "lock" ELSE "")
         \/ UNCHANGED stage /\ s = doing[p],
         DOMAIN dirs' \subseteq DOMAIN dirs \cup {Swap!Deployment, Swap!Candidate(p), Swap!Backup(p), Swap!Failed(p)},
         Sound(dirs'), Befores'
  PROVE  /\ s = "away" /\ AtAway(p)' => SwapInv'
         /\ s = "enter" /\ AtEnter(p)' => SwapInv'
         /\ s = "keep" /\ AtKeep(p)' => SwapInv'
         /\ s = "register" /\ AtRegister(p)' => SwapInv'
         /\ s = "commit" /\ AtCommit(p)' => SwapInv'
         /\ s = "aside" /\ AtAside(p)' => SwapInv'
         /\ s = "back" /\ AtBack(p)' => SwapInv'
         /\ s = "sweep" /\ AtSweep(p)' => SwapInv'
         /\ s = "out" /\ AtOut(p)' => SwapInv'
         /\ s = "in" /\ AtIn(p)' => SwapInv'
         /\ s = "clear" /\ AtClear(p)' => SwapInv'
         /\ s = "return" /\ AtReturn(p)' => SwapInv'
         /\ s = "mine" /\ AtMine(p)' => SwapInv'
<1>1. /\ LocksInv' /\ doing'[p] = s /\ upon'[p] = IF s = "mine" THEN "lock" ELSE ""
      /\ \A q \in Proc : q # p => doing'[q] = doing[q] /\ upon'[q] = upon[q]
  <2>1. LocksInv /\ UNCHANGED <<lockfile, got>>
    BY DEF SwapInv, Alone
  <2>2. CASE Swap!Go(p, s, IF s = "mine" THEN "lock" ELSE "")
    BY <2>1, <2>2, ExchangeGoes
  <2>3. CASE UNCHANGED stage /\ s = doing[p]
    <3>1. UNCHANGED <<doing, upon>>
      BY <2>3 DEF doing, upon
    <3>2. LocksInv'
      BY ZenonT(60), <2>1, <2>3, <3>1 DEF LocksInv, LocksTyped, GateHeld, LockHeld, HasGate, HasLock, IsDead
    <3>3. s # "mine"
      BY <2>3 DEF Exchanges
    <3>4. QED BY <2>3, <3>1, <3>2, <3>3
  <2>4. QED BY <2>2, <2>3
<1>2. HasLock(p)
  BY DEF HasLock
<1>3. ~Unheld(p)'
  BY <1>1 DEF Unheld
<1>4. AtPlace(p)' => SwapInv'
  BY <1>1, <1>2, OnlyOneWorks DEF Alone
<1>5. /\ doing'[p] = s /\ (s = "mine" <=> doing'[p] = "mine" /\ upon'[p] = "lock")
      /\ s \in {"away", "enter", "keep", "register", "commit", "aside",
                "back", "sweep", "out", "in", "clear", "return", "mine"}
  BY <1>1 DEF Exchanges
<1>6. ASSUME \/ s = "away" /\ AtAway(p)'
             \/ s = "enter" /\ AtEnter(p)'
             \/ s = "keep" /\ AtKeep(p)'
             \/ s = "register" /\ AtRegister(p)'
             \/ s = "commit" /\ AtCommit(p)'
             \/ s = "aside" /\ AtAside(p)'
             \/ s = "back" /\ AtBack(p)'
             \/ s = "sweep" /\ AtSweep(p)'
             \/ s = "out" /\ AtOut(p)'
             \/ s = "in" /\ AtIn(p)'
             \/ s = "clear" /\ AtClear(p)'
             \/ s = "return" /\ AtReturn(p)'
             \/ s = "mine" /\ AtMine(p)'
      PROVE  AtPlace(p)'
  BY <1>3, <1>5, <1>6 DEF AtPlace
<1>7. QED BY ZenonT(60), <1>4, <1>6

LEMMA AwaySwaps ==
  ASSUME SwapInv, NEW p \in Proc, Swap!Away(p) PROVE SwapInv'
<1>1. doing[p] = "away" /\ upon[p] = "" /\ Sound(dirs) /\ Befores /\ AtAway(p)
  <2>1. Swap!At(p, "away", "") /\ "away" \in Exchanges
    BY DEF Swap!Away, Exchanges
  <2>2. QED BY <2>1, ExchangeAt DEF AtPlace
<1>2. Alone(p) /\ UNCHANGED <<rest, won, told, before, inPlace>>
  BY DEF Swap!Away, Swap!Fault, Swap!locking, Swap!bounds, Alone, lockfile, got, rest, won, told, before,
     inPlace
<1>3. Befores'
  BY <1>1, <1>2 DEF Befores
<1>4. CASE /\ Swap!Deployment \in DOMAIN dirs /\ dirs' = Swap!Renamed(dirs, Swap!Deployment, Swap!Backup(p))
           /\ Swap!Go(p, "enter", "")
  <2>1. Swap!Backup(p) \notin DOMAIN dirs /\ \A q \in Proc : Swap!Backup(p) # Swap!Candidate(q)
    BY <1>1, DirNames DEF AtAway
  <2>2. Sound(dirs') /\ IsRenamed(dirs', dirs, Swap!Deployment, Swap!Backup(p))
    BY <1>1, <1>4, <2>1, RenamedIs
  <2>3. AtEnter(p)'
    BY <1>1, <1>2, <2>2, NamesRest, DirNames DEF IsRenamed, AtAway, AtEnter, Untold, IsWhole, IsLaid
  <2>4. QED BY <1>1, <1>2, <1>3, <1>4, <2>2, <2>3, ExchangeStep DEF IsRenamed, Exchanges
<1>5. CASE UNCHANGED dirs /\ Swap!Go(p, "mine", "lock")
  <2>1. AtMine(p)'
    BY <1>1, <1>2, <1>5, NamesRest DEF AtAway, AtMine, Untold, IsWhole, Swap!Contents, Swap!Exists, dirs
  <2>2. QED BY <1>1, <1>2, <1>3, <1>5, <2>1, ExchangeStep DEF Exchanges
<1>6. QED BY <1>4, <1>5 DEF Swap!Away, Swap!Refuse, Swap!Exists, dirs

LEMMA ContentsAre ==
  /\ Swap!Deployment \in DOMAIN dirs => Swap!Contents(Swap!Deployment) = dirs[Swap!Deployment]
  /\ Swap!Deployment \in DOMAIN dirs' => Swap!Contents(Swap!Deployment)' = dirs'[Swap!Deployment]
  BY DEF Swap!Contents, Swap!Exists, Swap!Deployment, dirs

LEMMA SameEntries ==
  ASSUME NEW f, NEW g, f \in [DOMAIN f -> Kinds], g \in [DOMAIN g -> Kinds], DOMAIN f = DOMAIN g,
         \A e \in DOMAIN f : f[e] = g[e]
  PROVE  f = g
  OBVIOUS

(* The new program with the user's entries is the whole of the deployment. *)
LEMMA NewIsWhole ==
  ASSUME Sound(dirs), Befores, NEW p \in Proc, AllNew, UsersIn(p)
  PROVE  dirs[Swap!Deployment] = [e \in Program \cup DOMAIN before[p] |->
                                    IF e \in Program THEN "new" ELSE before[p][e]]
<1> DEFINE f == dirs[Swap!Deployment]
           g == [e \in Program \cup DOMAIN before[p] |-> IF e \in Program THEN "new" ELSE before[p][e]]
<1>1. /\ f \in [DOMAIN f -> Kinds] /\ DOMAIN f \subseteq Program \cup Kept
      /\ \A e \in DOMAIN f : e \in Kept => f[e] = "user"
  BY DEF AllNew, Sound
<1>2. /\ before[p] \in [DOMAIN before[p] -> Kinds] /\ DOMAIN before[p] \subseteq Program \cup Kept
      /\ \A e \in DOMAIN before[p] : e \in Kept => before[p][e] = "user"
  BY DEF Befores
<1>3. g \in [DOMAIN g -> Kinds]
  BY <1>2 DEF Kinds
<1>4. /\ \A e \in Program : e \in DOMAIN f /\ f[e] = "new"
      /\ \A e \in Kept : e \in DOMAIN f <=> e \in DOMAIN before[p]
  BY EntriesAre DEF AllNew, UsersIn
<1>5. DOMAIN f = DOMAIN g
  BY <1>1, <1>2, <1>4
<1>6. \A e \in DOMAIN f : f[e] = g[e]
  BY <1>1, <1>2, <1>4, <1>5
<1> HIDE DEF f, g
<1>7. f = g
  BY <1>1, <1>3, <1>5, <1>6, SameEntries
<1>8. QED BY <1>7 DEF f, g

LEMMA EnterSwaps ==
  ASSUME SwapInv, NEW p \in Proc, Swap!Enter(p) PROVE SwapInv'
<1>1. doing[p] = "enter" /\ upon[p] = "" /\ Sound(dirs) /\ Befores /\ AtEnter(p)
  <2>1. Swap!At(p, "enter", "") /\ "enter" \in Exchanges
    BY DEF Swap!Enter, Exchanges
  <2>2. QED BY <2>1, ExchangeAt DEF AtPlace
<1>2. Alone(p) /\ UNCHANGED <<won, told, before, inPlace>>
  BY DEF Swap!Enter, Swap!Fault, Swap!locking, Swap!bounds, Alone, lockfile, got, won, told, before, inPlace
<1>3. CASE /\ dirs' = Swap!Renamed(dirs, Swap!Candidate(p), Swap!Deployment)
           /\ rest' = [rest EXCEPT ![p] = Kept] /\ Swap!Go(p, "keep", "")
  <2>1. /\ Swap!Candidate(p) \in DOMAIN dirs /\ Swap!Deployment \notin DOMAIN dirs
        /\ \A q \in Proc : Swap!Deployment # Swap!Candidate(q)
    BY <1>1, DirNames DEF AtEnter, IsLaid
  <2>2. Sound(dirs') /\ IsRenamed(dirs', dirs, Swap!Candidate(p), Swap!Deployment)
    BY <1>1, <1>3, <2>1, RenamedIs
  <2>3. rest'[p] = Kept /\ Befores'
    BY <1>1, <1>2, <1>3 DEF Befores
  <2>4. /\ dirs'[Swap!Deployment] = dirs[Swap!Candidate(p)] /\ dirs'[Swap!Backup(p)] = before[p]
        /\ Swap!Deployment \in DOMAIN dirs' /\ Swap!Backup(p) \in DOMAIN dirs' /\ Swap!Failed(p) \notin DOMAIN dirs'
    BY <1>1, <2>2, DirNames DEF IsRenamed, AtEnter, IsWhole
  <2>5. DOMAIN dirs[Swap!Candidate(p)] = Program /\ \A e \in Program : dirs[Swap!Candidate(p)][e] = "new"
    BY <1>1 DEF AtEnter, IsLaid
  <2>6. DOMAIN before[p] \subseteq Program \cup Kept
    BY <1>1 DEF Befores
  <2>7. AtKeep(p)'
    BY <1>1, <1>2, <2>3, <2>4, <2>5, <2>6, NamesRest, EntriesAre, SwapConstants
       DEF AtEnter, AtKeep, Untold, AllNew, IsOf
  <2>8. QED BY <1>1, <1>2, <1>3, <2>2, <2>3, <2>7, ExchangeStep DEF IsRenamed, Exchanges
<1>4. CASE UNCHANGED <<dirs, rest>> /\ Swap!Go(p, "aside", "")
  <2>1. Befores'
    BY <1>1, <1>2, <1>4 DEF Befores
  <2>2. AtAside(p)'
    BY <1>1, <1>2, <1>4, NamesRest, EntriesAre DEF AtEnter, AtAside, Untold, IsWhole, IsOf
  <2>3. QED BY <1>1, <1>2, <1>4, <2>1, <2>2, ExchangeStep DEF Exchanges
<1>5. QED BY <1>3, <1>4 DEF Swap!Enter, Swap!RollBack, Swap!Preserved, dirs, rest

LEMMA RegisterSwaps ==
  ASSUME SwapInv, NEW p \in Proc, Swap!Register(p) PROVE SwapInv'
<1>1. doing[p] = "register" /\ upon[p] = "" /\ Sound(dirs) /\ Befores /\ AtRegister(p)
  <2>1. Swap!At(p, "register", "") /\ "register" \in Exchanges
    BY DEF Swap!Register, Exchanges
  <2>2. QED BY <2>1, ExchangeAt DEF AtPlace
<1>2. UNCHANGED <<lockfile, got, dirs, told, before, inPlace>>
  BY DEF Swap!Register, Swap!locking, Swap!bounds, lockfile, got, dirs, told, before, inPlace
<1>3. /\ Swap!Deployment \in DOMAIN dirs /\ Swap!Backup(p) \in DOMAIN dirs
      /\ \A e \in Swap!Entries(Swap!Backup(p)) : e \in Program
      /\ DOMAIN before[p] \subseteq Program \cup Kept
  BY <1>1 DEF AtRegister, AllNew, OldOut, IsOf, Befores
<1>4. CASE Swap!Go(p, "commit", "") /\ won' = [won EXCEPT ![p] = TRUE] /\ UNCHANGED rest
  <2>1. Befores' /\ Alone(p) /\ won'[p]
    BY <1>1, <1>2, <1>4 DEF Befores, Alone
  <2>2. AtCommit(p)'
    BY <1>1, <1>2, <1>3, <2>1, NamesRest, EntriesAre, SwapConstants DEF AtRegister, AtCommit, AllNew, UsersIn
  <2>3. QED BY <1>1, <1>2, <1>4, <2>1, <2>2, ExchangeStep DEF Exchanges
<1>5. CASE inPlace /\ Swap!Go(p, "clear", "") /\ rest' = [rest EXCEPT ![p] = Program] /\ UNCHANGED won
  <2>1. Befores' /\ Alone(p) /\ rest'[p] = Program
    BY <1>1, <1>2, <1>5 DEF Befores, Alone
  <2>2. AtClear(p)'
    BY <1>1, <1>2, <1>3, <1>5, <2>1, NamesRest, EntriesAre DEF AtRegister, AtClear, UsersIn, OldOut, IsOf,
       Untold
  <2>3. QED BY <1>1, <1>2, <1>5, <2>1, <2>2, ExchangeStep DEF Exchanges
<1>6. CASE ~inPlace /\ Swap!Go(p, "aside", "") /\ rest' = [rest EXCEPT ![p] = {}] /\ UNCHANGED won
  <2>1. Befores' /\ Alone(p)
    BY <1>1, <1>2, <1>6 DEF Befores, Alone
  <2>2. AtAside(p)'
    BY <1>1, <1>2, <1>3, <1>6, <2>1, NamesRest, EntriesAre DEF AtRegister, AtAside, UsersIn, OldOut, IsOf,
       Untold
  <2>3. QED BY <1>1, <1>2, <1>6, <2>1, <2>2, ExchangeStep DEF Exchanges
<1>7. QED BY <1>4, <1>5, <1>6 DEF Swap!Register, Swap!RollBack, won, rest, inPlace

LEMMA CommitSwaps ==
  ASSUME SwapInv, NEW p \in Proc, Swap!Commit(p) PROVE SwapInv'
<1>1. doing[p] = "commit" /\ upon[p] = "" /\ Sound(dirs) /\ Befores /\ AtCommit(p)
  <2>1. Swap!At(p, "commit", "") /\ "commit" \in Exchanges
    BY DEF Swap!Commit, Exchanges
  <2>2. QED BY <2>1, ExchangeAt DEF AtPlace
<1>2. Alone(p) /\ UNCHANGED <<rest, won, told, before, inPlace>> /\ Swap!Go(p, "mine", "lock")
    BY DEF Swap!Commit, Swap!Fault, Swap!Refuse, Swap!locking, Swap!bounds, Alone, lockfile, got, rest, won,
       told,
      before, inPlace
<1>3. Befores'
  BY <1>1, <1>2 DEF Befores
<1>4. dirs' = Swap!Without(dirs, Swap!Backup(p)) \/ UNCHANGED dirs
  BY DEF Swap!Commit, dirs
<1>5. /\ Sound(dirs') /\ DOMAIN dirs' \subseteq DOMAIN dirs /\ Swap!Deployment \in DOMAIN dirs'
      /\ dirs'[Swap!Deployment] = dirs[Swap!Deployment]
  <2>1. /\ Swap!Backup(p) \in DOMAIN dirs => DOMAIN dirs[Swap!Backup(p)] \cap Kept = {}
        /\ Swap!Deployment \in DOMAIN dirs
    BY <1>1, EntriesAre DEF AtCommit, AllNew
  <2>2. CASE dirs' = Swap!Without(dirs, Swap!Backup(p))
    <3>1. Sound(dirs') /\ IsWithout(dirs', dirs, Swap!Backup(p))
      BY <1>1, <2>1, <2>2, WithoutIs
    <3>2. QED BY <2>1, <3>1, DirNames DEF IsWithout
  <2>3. QED BY <1>1, <1>4, <2>1, <2>2
<1>6. AtMine(p)'
  <2>1. dirs[Swap!Deployment] = [e \in Program \cup DOMAIN before[p] |->
                                   IF e \in Program THEN "new" ELSE before[p][e]]
    BY <1>1, NewIsWhole DEF AtCommit
  <2>2. won'[p] /\ before' = before /\ Swap!Contents(Swap!Deployment)' = dirs[Swap!Deployment]
    BY <1>1, <1>2, <1>5, ContentsAre DEF AtCommit
  <2>3. QED BY <2>1, <2>2 DEF AtMine
<1>7. QED BY <1>1, <1>2, <1>3, <1>5, <1>6, ExchangeStep DEF Exchanges

LEMMA KeepSwaps ==
  ASSUME SwapInv, NEW p \in Proc, Swap!Keep(p) PROVE SwapInv'
<1>1. doing[p] = "keep" /\ upon[p] = "" /\ Sound(dirs) /\ Befores /\ AtKeep(p)
  <2>1. Swap!At(p, "keep", "") /\ "keep" \in Exchanges
    BY DEF Swap!Keep, Exchanges
  <2>2. QED BY <2>1, ExchangeAt DEF AtPlace
<1>2. Alone(p) /\ UNCHANGED <<won, told, before, inPlace>>
  BY DEF Swap!Keep, Swap!Fault, Swap!locking, Swap!bounds, Alone, lockfile, got, won, told, before, inPlace
<1>3. /\ Swap!Deployment \in DOMAIN dirs /\ Swap!Backup(p) \in DOMAIN dirs
      /\ \A q \in Proc : Swap!Deployment # Swap!Candidate(q)
      /\ DOMAIN before[p] \subseteq Program \cup Kept
  BY <1>1, DirNames DEF AtKeep, AllNew, Befores
<1>4. ASSUME NEW e \in rest[p], rest' = [rest EXCEPT ![p] = @ \ {e}], UNCHANGED stage,
             dirs' = IF e \in Swap!Entries(Swap!Backup(p))
                       THEN Swap!Moved(dirs, Swap!Backup(p), Swap!Deployment, e) ELSE dirs
      PROVE  SwapInv'
  <2>1. Befores' /\ rest'[p] = rest[p] \ {e} /\ e \in Kept /\ e \notin Program
    BY <1>1, <1>2, <1>4, SwapConstants DEF Befores, AtKeep
  <2>2. CASE e \in Swap!Entries(Swap!Backup(p))
    <3>1. e \in DOMAIN dirs[Swap!Backup(p)] /\ Swap!Backup(p) # Swap!Deployment
      BY <1>3, <2>2, EntriesAre, DirNames
    <3>2. Sound(dirs') /\ IsMoved(dirs', dirs, Swap!Backup(p), Swap!Deployment, e)
      BY <1>1, <1>3, <1>4, <2>2, <3>1, MovedIs
    <3>3. /\ DOMAIN dirs' = DOMAIN dirs /\ Swap!Failed(p) \notin DOMAIN dirs' /\ Untold(p)'
          /\ ~inPlace' /\ rest'[p] \subseteq Kept
      BY <1>1, <1>2, <2>1, <3>2 DEF IsMoved, AtKeep, Untold
    <3>4. AllNew'
      BY <1>1, <2>1, <3>2, NamesRest, EntriesAre DEF IsMoved, AtKeep, AllNew
    <3>5. IsOf(Swap!Backup(p), p)'
      BY <1>1, <1>2, <1>3, <3>1, <3>2, NamesRest, EntriesAre DEF IsMoved, AtKeep, IsOf
    <3>6. e \in DOMAIN before[p]
      BY <1>1, <2>2 DEF AtKeep, IsOf
    <3>7. /\ Swap!Entries(Swap!Deployment)' = Swap!Entries(Swap!Deployment) \cup {e}
          /\ Swap!Entries(Swap!Backup(p))' = Swap!Entries(Swap!Backup(p)) \ {e}
      BY <1>3, <3>2, NamesRest, EntriesAre DEF IsMoved
    <3>8. AtKeep(p)'
      BY <1>1, <1>2, <1>3, <2>1, <3>3, <3>4, <3>5, <3>6, <3>7, NamesRest DEF AtKeep
    <3>9. QED BY <1>1, <1>2, <1>4, <2>1, <3>2, <3>3, <3>8, ExchangeStep DEF Exchanges
  <2>3. CASE e \notin Swap!Entries(Swap!Backup(p))
    <3>1. dirs' = dirs /\ e \notin DOMAIN before[p]
      BY <1>1, <1>4, <2>3 DEF AtKeep
    <3>2. AtKeep(p)'
      BY <1>1, <1>2, <1>3, <2>1, <3>1, NamesRest, EntriesAre DEF AtKeep, Untold, AllNew, IsOf
    <3>3. QED BY <1>1, <1>2, <1>4, <2>1, <3>1, <3>2, ExchangeStep DEF Exchanges
  <2>4. QED BY <2>2, <2>3
<1>5. CASE rest[p] = {} /\ Swap!Go(p, "register", "") /\ UNCHANGED <<dirs, rest>>
  <2>1. Befores'
    BY <1>1, <1>2, <1>5 DEF Befores
  <2>2. AtRegister(p)'
    BY <1>1, <1>2, <1>3, <1>5, NamesRest, EntriesAre DEF AtKeep, AtRegister, Untold, AllNew, UsersIn, OldOut,
       IsOf
  <2>3. QED BY <1>1, <1>2, <1>5, <2>1, <2>2, ExchangeStep DEF Exchanges
<1>6. CASE Swap!Go(p, "aside", "") /\ UNCHANGED <<dirs, rest>>
  <2>1. Befores'
    BY <1>1, <1>2, <1>6 DEF Befores
  <2>2. AtAside(p)'
    BY <1>1, <1>2, <1>3, <1>6, NamesRest, EntriesAre DEF AtKeep, AtAside, Untold, IsOf
  <2>3. QED BY <1>1, <1>2, <1>6, <2>1, <2>2, ExchangeStep DEF Exchanges
<1>7. QED BY <1>4, <1>5, <1>6 DEF Swap!Keep, Swap!MoveOne, Swap!RollBack, dirs, rest, stage

LEMMA AsideSwaps ==
  ASSUME SwapInv, NEW p \in Proc, Swap!Aside(p) PROVE SwapInv'
<1>1. doing[p] = "aside" /\ upon[p] = "" /\ Sound(dirs) /\ Befores /\ AtAside(p)
  <2>1. Swap!At(p, "aside", "") /\ "aside" \in Exchanges
    BY DEF Swap!Aside, Exchanges
  <2>2. QED BY <2>1, ExchangeAt DEF AtPlace
<1>2. UNCHANGED <<lockfile, got, won, before, inPlace>>
  BY DEF Swap!Aside, Swap!Fault, Swap!locking, Swap!bounds, lockfile, got, won, before, inPlace
<1>3. CASE /\ dirs' = IF Swap!Deployment \in DOMAIN dirs
                        THEN Swap!Renamed(dirs, Swap!Deployment, Swap!Failed(p)) ELSE dirs
           /\ rest' = [rest EXCEPT ![p] = Kept] /\ Swap!Go(p, "back", "") /\ UNCHANGED told
  <2>1. Befores' /\ Alone(p) /\ rest'[p] = Kept /\ Untold(p)'
    BY <1>1, <1>2, <1>3 DEF Befores, Alone, AtAside, Untold
  <2>2. Swap!Failed(p) \notin DOMAIN dirs /\ \A q \in Proc : Swap!Failed(p) # Swap!Candidate(q)
    BY <1>1, DirNames DEF AtAside
  <2>3. CASE Swap!Deployment \in DOMAIN dirs
    <3>1. Sound(dirs') /\ IsRenamed(dirs', dirs, Swap!Deployment, Swap!Failed(p))
      BY <1>1, <1>3, <2>2, <2>3, RenamedIs
    <3>2. /\ Swap!Deployment \notin DOMAIN dirs' /\ Swap!Backup(p) \in DOMAIN dirs'
          /\ dirs'[Swap!Backup(p)] = dirs[Swap!Backup(p)]
          /\ Swap!Entries(Swap!Failed(p))' = Swap!Entries(Swap!Deployment)
          /\ Swap!Entries(Swap!Backup(p))' = Swap!Entries(Swap!Backup(p))
      BY <1>1, <2>3, <3>1, NamesRest, DirNames, EntriesAre DEF IsRenamed, AtAside
    <3>3. AtBack(p)'
      BY <1>1, <1>2, <2>1, <3>2, NamesRest DEF AtAside, AtBack, IsOf
    <3>4. QED BY <1>1, <1>3, <2>1, <3>1, <3>3, ExchangeStep DEF IsRenamed, Exchanges
  <2>4. CASE Swap!Deployment \notin DOMAIN dirs
    <3>1. AtBack(p)'
      BY <1>1, <1>2, <1>3, <2>1, <2>2, <2>4, NamesRest, EntriesAre DEF AtAside, AtBack, IsOf
    <3>2. QED BY <1>1, <1>3, <2>1, <2>4, <3>1, ExchangeStep DEF Exchanges
  <2>5. QED BY <2>3, <2>4
<1>4. CASE UNCHANGED <<dirs, rest>> /\ Swap!Go(p, "sweep", "") /\ told' = [told EXCEPT ![p] = TRUE]
  <2>1. Befores' /\ Alone(p) /\ told'[p] /\ ~won'[p]
    BY <1>1, <1>2, <1>4 DEF Befores, Alone, AtAside, Untold
  <2>2. AtSweep(p)'
    BY <2>1 DEF AtSweep
  <2>3. QED BY <1>1, <1>4, <2>1, <2>2, ExchangeStep DEF Exchanges
<1>5. QED BY <1>3, <1>4 DEF Swap!Aside, Swap!Preserved, Swap!Exists, dirs, rest, told

LEMMA BackSwaps ==
  ASSUME SwapInv, NEW p \in Proc, Swap!Back(p) PROVE SwapInv'
<1>1. doing[p] = "back" /\ upon[p] = "" /\ Sound(dirs) /\ Befores /\ AtBack(p)
  <2>1. Swap!At(p, "back", "") /\ "back" \in Exchanges
    BY DEF Swap!Back, Exchanges
  <2>2. QED BY <2>1, ExchangeAt DEF AtPlace
<1>2. UNCHANGED <<lockfile, got, won, before, inPlace>>
  BY DEF Swap!Back, Swap!Fault, Swap!locking, Swap!bounds, lockfile, got, won, before, inPlace
<1>3. /\ Swap!Backup(p) \in DOMAIN dirs /\ DOMAIN before[p] \subseteq Program \cup Kept
      /\ before[p] \in [DOMAIN before[p] -> Kinds]
      /\ \A q \in Proc : Swap!Backup(p) # Swap!Candidate(q) /\ Swap!Deployment # Swap!Candidate(q)
      /\ Swap!Failed(p) # Swap!Backup(p) /\ Swap!Backup(p) # Swap!Deployment
  BY <1>1, DirNames DEF AtBack, Befores
<1>4. ASSUME NEW e \in rest[p], rest' = [rest EXCEPT ![p] = @ \ {e}], UNCHANGED <<stage, told>>,
             dirs' = IF e \in Swap!Entries(Swap!Failed(p))
                       THEN Swap!Moved(dirs, Swap!Failed(p), Swap!Backup(p), e) ELSE dirs
      PROVE  SwapInv'
  <2>1. Befores' /\ Alone(p) /\ rest'[p] = rest[p] \ {e} /\ e \in Kept /\ Untold(p)'
    BY <1>1, <1>2, <1>4 DEF Befores, Alone, AtBack, Untold
  <2>2. CASE e \in Swap!Entries(Swap!Failed(p))
    <3>1. Swap!Failed(p) \in DOMAIN dirs /\ e \in DOMAIN dirs[Swap!Failed(p)]
      BY <2>2, EntriesAre
    <3>2. Sound(dirs') /\ IsMoved(dirs', dirs, Swap!Failed(p), Swap!Backup(p), e)
      BY <1>1, <1>3, <1>4, <2>2, <3>1, MovedIs
    <3>3. e \in DOMAIN before[p] /\ dirs[Swap!Failed(p)][e] = "user" /\ before[p][e] = "user"
      BY <1>1, <2>1, <2>2, <3>1 DEF AtBack, Sound, Befores
    <3>4. /\ DOMAIN dirs' = DOMAIN dirs
          /\ Swap!Entries(Swap!Failed(p))' = Swap!Entries(Swap!Failed(p)) \ {e}
          /\ Swap!Entries(Swap!Backup(p))' = Swap!Entries(Swap!Backup(p)) \cup {e}
      BY <1>3, <3>1, <3>2, NamesRest, EntriesAre DEF IsMoved
    <3>5. IsOf(Swap!Backup(p), p)'
      BY <1>1, <1>2, <1>3, <3>2, <3>3, <3>4, NamesRest, EntriesAre DEF IsMoved, AtBack, IsOf
    <3>6. AtBack(p)'
      BY <1>1, <1>2, <2>1, <3>4, <3>5, NamesRest DEF AtBack
    <3>7. QED BY <1>1, <1>4, <2>1, <3>2, <3>4, <3>6, ExchangeStep DEF Exchanges
  <2>3. CASE e \notin Swap!Entries(Swap!Failed(p))
    <3>1. AtBack(p)'
      BY <1>1, <1>2, <1>4, <2>1, <2>3, NamesRest, EntriesAre DEF AtBack, IsOf
    <3>2. QED BY <1>1, <1>4, <2>1, <2>3, <3>1, ExchangeStep DEF Exchanges
  <2>4. QED BY <2>2, <2>3
<1>5. CASE /\ rest[p] = {} /\ dirs' = Swap!Renamed(dirs, Swap!Backup(p), Swap!Deployment)
           /\ Swap!Go(p, "sweep", "") /\ UNCHANGED <<rest, told>>
  <2>1. Befores' /\ Alone(p) /\ ~won'[p] /\ Swap!Deployment \notin DOMAIN dirs
    BY <1>1, <1>2, <1>5 DEF Befores, Alone, AtBack, Untold
  <2>2. Sound(dirs') /\ IsRenamed(dirs', dirs, Swap!Backup(p), Swap!Deployment)
    BY <1>1, <1>3, <1>5, <2>1, RenamedIs
  <2>3. dirs[Swap!Backup(p)] = before[p]
    <3>1. dirs[Swap!Backup(p)] \in [DOMAIN dirs[Swap!Backup(p)] -> Kinds]
      BY <1>1, <1>3 DEF Sound
    <3>2. /\ DOMAIN dirs[Swap!Backup(p)] = DOMAIN before[p]
          /\ \A e \in DOMAIN before[p] : dirs[Swap!Backup(p)][e] = before[p][e]
      BY <1>1, <1>3, <1>5, EntriesAre DEF AtBack, IsOf
    <3>3. QED BY <1>3, <3>1, <3>2, SameEntries
  <2>4. IsWhole(Swap!Deployment, p)'
    BY <1>2, <2>2, <2>3, NamesRest DEF IsRenamed, IsWhole
  <2>5. AtSweep(p)'
    BY <2>1, <2>4, NamesRest DEF AtSweep, IsWhole
  <2>6. QED BY <1>1, <1>5, <2>1, <2>2, <2>5, ExchangeStep DEF IsRenamed, Exchanges
<1>6. CASE UNCHANGED <<dirs, rest>> /\ Swap!Go(p, "sweep", "") /\ told' = [told EXCEPT ![p] = TRUE]
  <2>1. Befores' /\ Alone(p) /\ told'[p] /\ ~won'[p]
    BY <1>1, <1>2, <1>6 DEF Befores, Alone, AtBack, Untold
  <2>2. AtSweep(p)'
    BY <2>1 DEF AtSweep
  <2>3. QED BY <1>1, <1>6, <2>1, <2>2, ExchangeStep DEF Exchanges
<1>7. QED BY <1>4, <1>5, <1>6 DEF Swap!Back, Swap!MoveOne, dirs, rest, told, stage

(* What failed goes only when nothing of the user's is left in it.         *)
LEMMA SweepSwaps ==
  ASSUME SwapInv, NEW p \in Proc, Swap!Sweep(p) PROVE SwapInv'
<1>1. doing[p] = "sweep" /\ upon[p] = "" /\ Sound(dirs) /\ Befores /\ AtSweep(p)
  <2>1. Swap!At(p, "sweep", "") /\ "sweep" \in Exchanges
    BY DEF Swap!Sweep, Exchanges
  <2>2. QED BY <2>1, ExchangeAt DEF AtPlace
<1>2. UNCHANGED <<lockfile, got, rest, won, before, inPlace>> /\ Swap!Go(p, "mine", "lock")
  BY DEF Swap!Sweep, Swap!Fault, Swap!Refuse, Swap!locking, Swap!bounds, lockfile, got, rest, won, before,
     inPlace
<1>3. Swap!MaySweep(p) <=> ~told[p] /\ Swap!Entries(Swap!Failed(p)) \cap Kept = {}
  BY DEF Swap!MaySweep, Swap!Preserved, told
<1>4. \/ Swap!MaySweep(p) /\ dirs' = Swap!Without(dirs, Swap!Failed(p)) /\ told' = [told EXCEPT ![p] = FALSE]
      \/ ~Swap!MaySweep(p) /\ dirs' = dirs /\ told' = [told EXCEPT ![p] = TRUE]
      \/ Swap!MaySweep(p) /\ dirs' = dirs /\ told' = told
  BY DEF Swap!Sweep, dirs, told
<1>5. Befores' /\ Alone(p) /\ ~won'[p] /\ (told'[p] \/ Swap!MaySweep(p))
  BY <1>1, <1>2, <1>4 DEF Befores, Alone, AtSweep
<1>6. /\ Sound(dirs') /\ DOMAIN dirs' \subseteq DOMAIN dirs
      /\ Swap!Deployment \in DOMAIN dirs =>
           Swap!Deployment \in DOMAIN dirs' /\ dirs'[Swap!Deployment] = dirs[Swap!Deployment]
  <2>1. CASE Swap!MaySweep(p) /\ dirs' = Swap!Without(dirs, Swap!Failed(p))
    <3>1. Swap!Failed(p) \in DOMAIN dirs => DOMAIN dirs[Swap!Failed(p)] \cap Kept = {}
      BY <1>3, <2>1, EntriesAre
    <3>2. Sound(dirs') /\ IsWithout(dirs', dirs, Swap!Failed(p))
      BY <1>1, <2>1, <3>1, WithoutIs
    <3>3. QED BY <3>2, DirNames DEF IsWithout
  <2>2. QED BY <1>1, <1>4, <2>1
<1>7. told'[p] \/ Swap!Contents(Swap!Deployment)' = before[p]
  BY <1>1, <1>3, <1>5, <1>6, ContentsAre DEF AtSweep, IsWhole
<1>8. AtMine(p)'
  BY <1>2, <1>5, <1>7 DEF AtMine
<1>9. QED BY <1>1, <1>2, <1>5, <1>6, <1>8, ExchangeStep DEF Exchanges

(* A package with an entry that is the user's is not laid out.             *)
LEMMA StageSwaps ==
  ASSUME SwapInv, NEW p \in Proc, Swap!Stage(p) PROVE SwapInv'
<1>1. doing[p] = "stage" /\ upon[p] = "" /\ Sound(dirs) /\ Befores /\ AtPlace(p)
  <2>1. Swap!At(p, "stage", "") /\ "stage" \in Exchanges
    BY DEF Swap!Stage, Exchanges
  <2>2. QED BY <2>1, ExchangeAt
<1>2. Untold(p) /\ Swap!Candidate(p) \notin DOMAIN dirs /\ Swap!Backup(p) \notin DOMAIN dirs /\ Swap!Failed(p) \notin DOMAIN dirs
  BY <1>1 DEF AtPlace, Unheld
<1>3. /\ Alone(p) /\ UNCHANGED <<won, told, inPlace>>
      /\ before' = [before EXCEPT ![p] = Swap!Contents(Swap!Deployment)]
  BY DEF Swap!Stage, Swap!locking, Swap!bounds, Alone, lockfile, got, won, told, before, inPlace
<1>4. before'[p] = Swap!Contents(Swap!Deployment) /\ \A q \in Proc : q # p => before'[q] = before[q]
  BY <1>1, <1>3 DEF Befores
<1>5. /\ before'[p] \in [DOMAIN before'[p] -> Kinds] /\ DOMAIN before'[p] \subseteq Program \cup Kept
      /\ \A e \in DOMAIN before'[p] : e \in Kept => before'[p][e] = "user"
  <2>1. CASE Swap!Deployment \in DOMAIN dirs
    <3>1. before'[p] = dirs[Swap!Deployment]
      BY <1>4, <2>1, ContentsAre
    <3>2. /\ dirs[Swap!Deployment] \in [DOMAIN dirs[Swap!Deployment] -> Kinds]
          /\ DOMAIN dirs[Swap!Deployment] \subseteq Program \cup Kept
          /\ \A e \in DOMAIN dirs[Swap!Deployment] : e \in Kept => dirs[Swap!Deployment][e] = "user"
      BY <1>1, <2>1 DEF Sound
    <3>3. QED BY <3>1, <3>2
  <2>2. CASE Swap!Deployment \notin DOMAIN dirs
    <3>1. before'[p] = [e \in {} |-> "old"]
      BY <1>4, <2>2 DEF Swap!Contents, Swap!Exists, dirs
    <3>2. QED BY <3>1
  <2>3. QED BY <2>1, <2>2
<1>6. DOMAIN rest' = Proc => Befores'
  <2>1. DOMAIN before' = Proc /\ DOMAIN won' = Proc /\ DOMAIN told' = Proc
    BY <1>1, <1>3 DEF Befores
  <2>2. QED BY ZenonT(60), <1>1, <1>4, <1>5, <2>1 DEF Befores
<1>7. CASE Swap!Go(p, "mine", "lock") /\ UNCHANGED <<dirs, rest>>
  <2>1. Befores'
    BY <1>1, <1>6, <1>7 DEF Befores
  <2>2. Swap!Contents(Swap!Deployment)' = before'[p]
    BY <1>4, <1>7 DEF Swap!Contents, Swap!Exists, Swap!Deployment, dirs
  <2>3. AtMine(p)'
    BY <1>2, <1>3, <2>2 DEF AtMine, Untold
  <2>4. QED BY <1>1, <1>3, <1>7, <2>1, <2>3, ExchangeStep DEF Exchanges
<1>8. ASSUME NEW k \in SUBSET Kept, (Program \cup k) \cap Kept = {}, Swap!Deployment \in DOMAIN dirs,
             dirs' = [d \in DOMAIN dirs \cup {Swap!Candidate(p)} |->
                        IF d = Swap!Candidate(p) THEN [e \in Program \cup k |-> "new"] ELSE dirs[d]],
             rest' = [rest EXCEPT ![p] = Swap!Entries(Swap!Deployment) \ Kept],
             Swap!Go(p, IF inPlace THEN "out" ELSE "away", "")
      PROVE  SwapInv'
  <2>1. Program \cup k = Program
    BY <1>8
  <2>2. dirs' = Added(dirs, Swap!Candidate(p), Program, "new")
    BY <1>8, <2>1 DEF Added
  <2>3. /\ Sound(dirs') /\ DOMAIN dirs' = DOMAIN dirs \cup {Swap!Candidate(p)}
        /\ \A d \in DOMAIN dirs : dirs'[d] = dirs[d]
        /\ DOMAIN dirs'[Swap!Candidate(p)] = Program
        /\ \A e \in Program : dirs'[Swap!Candidate(p)][e] = "new"
    <3>1. "new" \in Kinds /\ Program \in SUBSET Program
      BY DEF Kinds
    <3>2. Sound(dirs') /\ IsAdded(dirs', dirs, Swap!Candidate(p), Program, "new")
      BY <1>1, <1>2, <2>2, <3>1, AddedIs
    <3>3. QED BY <3>2 DEF IsAdded
  <2>4. Befores' /\ rest'[p] = Swap!Entries(Swap!Deployment) \ Kept
    BY <1>1, <1>6, <1>8 DEF Befores
  <2>5. /\ IsLaid(p)' /\ Untold(p)'
        /\ Swap!Deployment \in DOMAIN dirs' /\ dirs'[Swap!Deployment] = before'[p]
        /\ Swap!Backup(p) \notin DOMAIN dirs' /\ Swap!Failed(p) \notin DOMAIN dirs'
    BY <1>2, <1>3, <1>4, <1>8, <2>3, NamesRest, DirNames, ContentsAre DEF IsLaid, Untold
  <2>6. CASE inPlace
    <3>1. rest'[p] = DOMAIN before'[p] \ Kept
      BY <1>4, <1>8, <2>4, EntriesAre, ContentsAre
    <3>2. AtOut(p)'
      BY <1>3, <1>5, <2>5, <2>6, <3>1, NamesRest, EntriesAre, SwapConstants DEF AtOut, IsOf
    <3>3. QED BY <1>1, <1>3, <1>8, <2>3, <2>4, <2>6, <3>2, ExchangeStep DEF Exchanges
  <2>7. CASE ~inPlace
    <3>1. AtAway(p)'
      BY <1>3, <2>5, <2>7, NamesRest DEF AtAway, IsWhole
    <3>2. QED BY <1>1, <1>3, <1>8, <2>3, <2>4, <2>7, <3>1, ExchangeStep DEF Exchanges
  <2>8. QED BY <2>6, <2>7
<1>9. QED BY <1>7, <1>8 DEF Swap!Stage, Swap!Refuse, Swap!Conflict, Swap!Preserved, Swap!Exists, dirs, rest,
             inPlace

LEMMA MoveOutSwaps ==
  ASSUME SwapInv, NEW p \in Proc, Swap!MoveOut(p) PROVE SwapInv'
<1> DEFINE here == IF Swap!Backup(p) \in DOMAIN dirs THEN dirs
                   ELSE [d \in DOMAIN dirs \cup {Swap!Backup(p)} |->
                           IF d = Swap!Backup(p) THEN [e \in {} |-> "old"] ELSE dirs[d]]
<1>1. doing[p] = "out" /\ upon[p] = "" /\ Sound(dirs) /\ Befores /\ AtOut(p)
  <2>1. Swap!At(p, "out", "") /\ "out" \in Exchanges
    BY DEF Swap!MoveOut, Exchanges
  <2>2. QED BY ZenonT(60), <2>1, ExchangeAt DEF AtPlace
<1>2. Alone(p) /\ UNCHANGED <<won, told, before, inPlace>>
  BY DEF Swap!MoveOut, Swap!Fault, Swap!locking, Swap!bounds, Alone, lockfile, got, won, told, before, inPlace
<1>3. \/ rest[p] = {} /\ dirs' = here /\ Swap!Go(p, "in", "")
         /\ rest' = [rest EXCEPT ![p] = Swap!Entries(Swap!Candidate(p)) \ Kept]
      \/ \E e \in rest[p] : /\ dirs' = Swap!Moved(here, Swap!Deployment, Swap!Backup(p), e)
                            /\ rest' = [rest EXCEPT ![p] = @ \ {e}] /\ UNCHANGED stage
      \/ dirs' = here /\ rest' = [rest EXCEPT ![p] = Swap!Entries(Swap!Backup(p))] /\ Swap!Go(p, "return", "")
  BY DEF Swap!MoveOut, Swap!Preserved, Swap!Exists, dirs, rest, stage
<1>4. /\ Sound(here) /\ DOMAIN here = DOMAIN dirs \cup {Swap!Backup(p)}
      /\ \A d \in DOMAIN dirs : here[d] = dirs[d]
      /\ DOMAIN here[Swap!Backup(p)] = Swap!Entries(Swap!Backup(p))
  <2>1. CASE Swap!Backup(p) \in DOMAIN dirs
    BY <1>1, <2>1, EntriesAre
  <2>2. CASE Swap!Backup(p) \notin DOMAIN dirs
    <3>1. "old" \in Kinds /\ {} \in SUBSET Program
      BY DEF Kinds
    <3>2. here = Added(dirs, Swap!Backup(p), {}, "old")
      BY <2>2 DEF Added
    <3> HIDE DEF here
    <3>3. Sound(here) /\ IsAdded(here, dirs, Swap!Backup(p), {}, "old")
      BY <1>1, <2>2, <3>1, <3>2, AddedIs
    <3>4. QED BY <2>2, <3>3, EntriesAre DEF IsAdded
  <2>3. QED BY <2>1, <2>2
<1> HIDE DEF here
<1>5. /\ Swap!Deployment \in DOMAIN dirs /\ Swap!Candidate(p) \in DOMAIN dirs
      /\ DOMAIN dirs[Swap!Candidate(p)] = Program
      /\ \A e \in Program : dirs[Swap!Candidate(p)][e] = "new"
      /\ Swap!Deployment # Swap!Backup(p) /\ \A q \in Proc : Swap!Backup(p) # Swap!Candidate(q)
      /\ DOMAIN before[p] \subseteq Program \cup Kept
      /\ Swap!Deployment \in DOMAIN here /\ Swap!Backup(p) \in DOMAIN here
      /\ here[Swap!Deployment] = dirs[Swap!Deployment] /\ here[Swap!Candidate(p)] = dirs[Swap!Candidate(p)]
      /\ \A e \in DOMAIN here[Swap!Backup(p)] : e \in DOMAIN before[p] /\ here[Swap!Backup(p)][e] = before[p][e]
  BY ZenonT(60), <1>1, <1>4, DirNames, EntriesAre DEF AtOut, IsLaid, IsOf, Befores
<1>6. CASE rest[p] = {} /\ dirs' = here /\ Swap!Go(p, "in", "")
           /\ rest' = [rest EXCEPT ![p] = Swap!Entries(Swap!Candidate(p)) \ Kept]
  <2>1. Befores' /\ rest'[p] = Program /\ Untold(p)' /\ inPlace'
    <3>1. Swap!Entries(Swap!Candidate(p)) \ Kept = Program
      BY <1>5, EntriesAre, SwapConstants
    <3>2. QED BY <1>1, <1>2, <1>6, <3>1 DEF Befores, AtOut, Untold
  <2>2. /\ Swap!Entries(Swap!Deployment)' = Swap!Entries(Swap!Deployment)
        /\ Swap!Entries(Swap!Backup(p))' = Swap!Entries(Swap!Backup(p))
    BY <1>4, <1>5, <1>6, NamesRest, EntriesAre
  <2>3. \A e \in Program : e \notin Swap!Entries(Swap!Deployment)
    BY <1>1, <1>6, SwapConstants DEF AtOut, IsOf
  <2>4. OldOut(p)' /\ UsersIn(p)'
    BY <1>1, <1>2, <1>5, <1>6, <2>2, NamesRest, EntriesAre DEF AtOut, OldOut, UsersIn, IsOf
  <2>5. AtIn(p)'
    BY <1>4, <1>5, <1>6, <2>1, <2>2, <2>3, <2>4, NamesRest DEF AtIn
  <2>6. QED BY <1>1, <1>2, <1>4, <1>6, <2>1, <2>5, ExchangeStep DEF Exchanges
<1>7. ASSUME NEW e \in rest[p], dirs' = Swap!Moved(here, Swap!Deployment, Swap!Backup(p), e),
             rest' = [rest EXCEPT ![p] = @ \ {e}], UNCHANGED stage
      PROVE  SwapInv'
  <2>1. Befores' /\ rest'[p] = rest[p] \ {e} /\ e \in Program /\ e \in DOMAIN before[p] /\ e \notin Kept
    BY <1>1, <1>2, <1>7, SwapConstants DEF Befores, AtOut
  <2>2. e \in DOMAIN here[Swap!Deployment]
    BY <1>1, <1>5, <1>7, <2>1, EntriesAre DEF AtOut
  <2>3. Sound(dirs') /\ IsMoved(dirs', here, Swap!Deployment, Swap!Backup(p), e)
    BY <1>4, <1>5, <1>7, <2>2, MovedIs
  <2>4. /\ DOMAIN dirs' = DOMAIN dirs \cup {Swap!Backup(p)}
        /\ Swap!Entries(Swap!Deployment)' = Swap!Entries(Swap!Deployment) \ {e}
        /\ Swap!Entries(Swap!Backup(p))' = Swap!Entries(Swap!Backup(p)) \cup {e}
        /\ dirs'[Swap!Candidate(p)] = dirs[Swap!Candidate(p)]
    BY <1>4, <1>5, <2>3, NamesRest, DirNames, EntriesAre DEF IsMoved
  <2>5. IsOf(Swap!Deployment, p)'
    <3>1. \A x \in Swap!Entries(Swap!Deployment) : x \in DOMAIN before[p] /\ dirs[Swap!Deployment][x] = before[p][x]
      BY <1>1 DEF AtOut, IsOf
    <3>2. \A x \in Swap!Entries(Swap!Deployment)' :
            x \in Swap!Entries(Swap!Deployment) /\ dirs'[Swap!Deployment][x] = dirs[Swap!Deployment][x]
      BY <1>5, <2>3, <2>4, EntriesAre DEF IsMoved
    <3>3. QED BY <1>2, <3>1, <3>2, NamesRest DEF IsOf
  <2>6. IsOf(Swap!Backup(p), p)'
    <3>1. dirs[Swap!Deployment][e] = before[p][e]
      BY <1>1, <1>5, <2>2, EntriesAre DEF AtOut, IsOf
    <3>2. QED BY <1>2, <1>4, <1>5, <2>1, <2>3, <2>4, <3>1, NamesRest, EntriesAre DEF IsMoved, IsOf
  <2>7. Untold(p)' /\ IsLaid(p)' /\ inPlace' /\ Swap!Deployment \in DOMAIN dirs'
    BY <1>1, <1>2, <1>5, <2>4, NamesRest DEF AtOut, Untold, IsLaid
  <2>8. AtOut(p)'
    BY <1>1, <1>2, <1>5, <2>1, <2>4, <2>5, <2>6, <2>7, NamesRest DEF AtOut
  <2>9. QED BY <1>1, <1>2, <1>7, <2>1, <2>3, <2>4, <2>8, ExchangeStep DEF Exchanges
<1>8. CASE dirs' = here /\ rest' = [rest EXCEPT ![p] = Swap!Entries(Swap!Backup(p))] /\ Swap!Go(p, "return", "")
  <2>1. Befores' /\ rest'[p] = Swap!Entries(Swap!Backup(p)) /\ ~won'[p]
    BY <1>1, <1>2, <1>8 DEF Befores, AtOut, Untold
  <2>2. /\ Swap!Entries(Swap!Deployment)' = Swap!Entries(Swap!Deployment)
        /\ Swap!Entries(Swap!Backup(p))' = Swap!Entries(Swap!Backup(p))
    BY <1>4, <1>5, <1>8, NamesRest, EntriesAre
  <2>3. IsOf(Swap!Deployment, p)' /\ IsOf(Swap!Backup(p), p)'
    BY <1>1, <1>2, <1>5, <1>8, NamesRest, EntriesAre DEF AtOut, IsOf
  <2>4. AtReturn(p)'
    BY ZenonT(60), <1>1, <1>2, <1>5, <1>8, <2>1, <2>2, <2>3, NamesRest DEF AtOut, AtReturn, IsOf
  <2>5. QED BY <1>1, <1>2, <1>4, <1>8, <2>1, <2>4, ExchangeStep DEF Exchanges
<1>9. QED BY <1>3, <1>6, <1>7, <1>8

LEMMA MoveInSwaps ==
  ASSUME SwapInv, NEW p \in Proc, Swap!MoveIn(p) PROVE SwapInv'
<1>1. doing[p] = "in" /\ upon[p] = "" /\ Sound(dirs) /\ Befores /\ AtIn(p)
  <2>1. Swap!At(p, "in", "") /\ "in" \in Exchanges
    BY DEF Swap!MoveIn, Exchanges
  <2>2. QED BY <2>1, ExchangeAt DEF AtPlace
<1>2. Alone(p) /\ UNCHANGED <<won, told, before, inPlace>>
  BY DEF Swap!MoveIn, Swap!Fault, Swap!locking, Swap!bounds, Alone, lockfile, got, won, told, before, inPlace
<1>3. /\ Swap!Deployment \in DOMAIN dirs /\ Swap!Candidate(p) \in DOMAIN dirs /\ Swap!Backup(p) \in DOMAIN dirs
      /\ Swap!Deployment # Swap!Candidate(p) /\ \A q \in Proc : Swap!Deployment # Swap!Candidate(q)
      /\ Swap!Backup(p) # Swap!Candidate(p) /\ Swap!Backup(p) # Swap!Deployment
  BY <1>1, DirNames DEF AtIn, OldOut
<1>4. CASE rest[p] = {} /\ Swap!Go(p, "register", "") /\ UNCHANGED <<dirs, rest>>
  <2>1. Befores' /\ Untold(p)' /\ inPlace'
    BY <1>1, <1>2, <1>4 DEF Befores, AtIn, Untold
  <2>2. AtRegister(p)'
    BY <1>1, <1>2, <1>3, <1>4, <2>1, NamesRest, EntriesAre DEF AtIn, AtRegister, AllNew, UsersIn, OldOut, IsOf
  <2>3. QED BY <1>1, <1>2, <1>4, <2>1, <2>2, ExchangeStep DEF Exchanges
<1>5. ASSUME NEW e \in rest[p], dirs' = Swap!Moved(dirs, Swap!Candidate(p), Swap!Deployment, e),
             rest' = [rest EXCEPT ![p] = @ \ {e}], UNCHANGED stage
      PROVE  SwapInv'
  <2>1. Befores' /\ rest'[p] = rest[p] \ {e} /\ e \in Program /\ e \notin Kept /\ Untold(p)' /\ inPlace'
    <3>1. e \in Program /\ Untold(p)' /\ inPlace'
      BY <1>1, <1>2, <1>5 DEF AtIn, Untold
    <3>2. Befores' /\ rest'[p] = rest[p] \ {e}
      BY <1>1, <1>2, <1>5 DEF Befores
    <3>3. QED BY <3>1, <3>2, SwapConstants
  <2>2. e \in DOMAIN dirs[Swap!Candidate(p)] /\ dirs[Swap!Candidate(p)][e] = "new"
    BY <1>1, <1>5 DEF AtIn
  <2>3. Sound(dirs') /\ IsMoved(dirs', dirs, Swap!Candidate(p), Swap!Deployment, e)
    BY <1>1, <1>3, <1>5, <2>2, MovedIs
  <2>4. /\ DOMAIN dirs' = DOMAIN dirs /\ dirs'[Swap!Backup(p)] = dirs[Swap!Backup(p)]
        /\ DOMAIN dirs'[Swap!Candidate(p)] = DOMAIN dirs[Swap!Candidate(p)] \ {e}
        /\ \A x \in DOMAIN dirs'[Swap!Candidate(p)] : dirs'[Swap!Candidate(p)][x] = dirs[Swap!Candidate(p)][x]
        /\ dirs'[Swap!Deployment][e] = "new"
        /\ \A x \in DOMAIN dirs[Swap!Deployment] : x # e => dirs'[Swap!Deployment][x] = dirs[Swap!Deployment][x]
    BY <1>3, <2>2, <2>3 DEF IsMoved
  <2>5. /\ Swap!Entries(Swap!Deployment)' = Swap!Entries(Swap!Deployment) \cup {e}
        /\ Swap!Entries(Swap!Backup(p))' = Swap!Entries(Swap!Backup(p))
        /\ Swap!Entries(Swap!Deployment) = DOMAIN dirs[Swap!Deployment]
    <3>1. DOMAIN dirs'[Swap!Deployment] = DOMAIN dirs[Swap!Deployment] \cup {e}
      BY <2>3 DEF IsMoved
    <3>2. DOMAIN dirs' = DOMAIN dirs /\ dirs'[Swap!Backup(p)] = dirs[Swap!Backup(p)]
      BY <2>4
    <3>3. QED BY <1>3, <3>1, <3>2, NamesRest, EntriesAre
  <2>6. OldOut(p)' /\ UsersIn(p)'
    <3>1. UsersIn(p)'
      BY <1>1, <1>2, <2>1, <2>5, NamesRest DEF AtIn, UsersIn
    <3>2. IsOf(Swap!Backup(p), p)'
      <4>1. IsOf(Swap!Backup(p), p) /\ dirs'[Swap!Backup(p)] = dirs[Swap!Backup(p)]
        BY <1>1, <2>4 DEF AtIn, OldOut
      <4>2. QED BY <1>2, <2>5, <4>1, NamesRest DEF IsOf
    <3>3. OldOut(p)'
      BY <1>1, <1>2, <2>4, <2>5, <3>2, NamesRest DEF AtIn, OldOut
    <3>4. QED BY <3>1, <3>3
  <2>7. AtIn(p)'
    BY <1>1, <1>2, <1>3, <2>1, <2>4, <2>5, <2>6, NamesRest DEF AtIn
  <2>8. QED BY <1>1, <1>2, <1>5, <2>1, <2>3, <2>4, <2>7, ExchangeStep DEF Exchanges
<1>6. CASE rest' = [rest EXCEPT ![p] = Program \ @] /\ UNCHANGED dirs /\ Swap!Go(p, "clear", "")
  <2>1. Befores' /\ rest'[p] = Program \ rest[p] /\ ~won'[p]
    BY <1>1, <1>2, <1>6 DEF Befores, AtIn, Untold
  <2>2. OldOut(p)' /\ UsersIn(p)'
    BY <1>1, <1>2, <1>6, NamesRest, EntriesAre DEF AtIn, OldOut, UsersIn, IsOf
  <2>3. AtClear(p)'
    BY <1>1, <1>3, <1>6, <2>1, <2>2, NamesRest, EntriesAre DEF AtIn, AtClear
  <2>4. QED BY <1>1, <1>2, <1>6, <2>1, <2>3, ExchangeStep DEF Exchanges
<1>7. QED BY <1>4, <1>5, <1>6 DEF Swap!MoveIn, dirs, rest, stage

LEMMA ClearSwaps ==
  ASSUME SwapInv, NEW p \in Proc, Swap!Clear(p) PROVE SwapInv'
<1>1. doing[p] = "clear" /\ upon[p] = "" /\ Sound(dirs) /\ Befores /\ AtClear(p)
  <2>1. Swap!At(p, "clear", "") /\ "clear" \in Exchanges
    BY DEF Swap!Clear, Exchanges
  <2>2. QED BY <2>1, ExchangeAt DEF AtPlace
<1>2. UNCHANGED <<lockfile, got, won, before, inPlace>>
  BY DEF Swap!Clear, Swap!Fault, Swap!locking, Swap!bounds, lockfile, got, won, before, inPlace
<1>3. /\ Swap!Deployment \in DOMAIN dirs /\ Swap!Backup(p) \in DOMAIN dirs /\ Swap!Backup(p) # Swap!Deployment
      /\ DOMAIN before[p] \subseteq Program \cup Kept
      /\ DOMAIN dirs[Swap!Deployment] \subseteq Program \cup Kept
      /\ \A e \in DOMAIN dirs[Swap!Deployment] : e \in Kept => dirs[Swap!Deployment][e] = "user"
      /\ \A e \in DOMAIN before[p] : e \in Kept => before[p][e] = "user"
  BY <1>1, DirNames DEF AtClear, OldOut, Befores, Sound
<1>4. CASE /\ rest[p] = {} /\ Swap!Go(p, "return", "")
           /\ rest' = [rest EXCEPT ![p] = Swap!Entries(Swap!Backup(p))] /\ UNCHANGED <<dirs, told>>
  <2>1. Befores' /\ Alone(p) /\ rest'[p] = Swap!Entries(Swap!Backup(p)) /\ ~won'[p]
    BY <1>1, <1>2, <1>4 DEF Befores, Alone, AtClear
  <2>2. IsOf(Swap!Backup(p), p)' /\ Swap!Entries(Swap!Backup(p)) \subseteq Program
    BY <1>1, <1>2, <1>4, NamesRest, EntriesAre DEF AtClear, OldOut, IsOf
  <2>3. ~told[p] => IsOf(Swap!Deployment, p)'
    BY <1>1, <1>2, <1>3, <1>4, NamesRest, EntriesAre DEF AtClear, UsersIn, IsOf
  <2>4. \A e \in DOMAIN before[p] : e \in Swap!Entries(Swap!Deployment) \/ e \in Swap!Entries(Swap!Backup(p))
    BY <1>1, <1>3 DEF AtClear, UsersIn, OldOut
  <2>5. AtReturn(p)'
    BY <1>2, <1>3, <1>4, <2>1, <2>2, <2>3, <2>4, NamesRest, EntriesAre DEF AtReturn
  <2>6. QED BY <1>1, <1>4, <2>1, <2>5, ExchangeStep DEF Exchanges
<1>5. ASSUME NEW e \in rest[p], rest' = [rest EXCEPT ![p] = @ \ {e}], UNCHANGED stage,
             \/ dirs' = Swap!Drop(dirs, Swap!Deployment, e) /\ UNCHANGED told
             \/ UNCHANGED dirs /\ told' = [told EXCEPT ![p] = TRUE]
      PROVE  SwapInv'
  <2>1. /\ Befores' /\ Alone(p) /\ rest'[p] = rest[p] \ {e} /\ rest'[p] \subseteq Program
        /\ e \in Program /\ e \notin Kept /\ ~won'[p]
    BY <1>1, <1>2, <1>5, SwapConstants DEF Befores, Alone, AtClear
  <2>2. CASE dirs' = Swap!Drop(dirs, Swap!Deployment, e) /\ UNCHANGED told
    <3>1. Sound(dirs') /\ IsDropped(dirs', dirs, Swap!Deployment, e)
      BY <1>1, <1>3, <2>1, <2>2, DroppedIs
    <3>2. /\ DOMAIN dirs' = DOMAIN dirs /\ dirs'[Swap!Backup(p)] = dirs[Swap!Backup(p)]
          /\ Swap!Entries(Swap!Deployment)' = Swap!Entries(Swap!Deployment) \ {e}
          /\ Swap!Entries(Swap!Backup(p))' = Swap!Entries(Swap!Backup(p))
      BY <1>3, <3>1, NamesRest, EntriesAre DEF IsDropped
    <3>3. OldOut(p)' /\ UsersIn(p)'
      BY <1>1, <1>2, <2>1, <3>2, NamesRest DEF AtClear, OldOut, UsersIn, IsOf
    <3>4. AtClear(p)'
      BY <1>1, <1>2, <1>3, <2>1, <2>2, <3>2, <3>3, NamesRest DEF AtClear
    <3>5. QED BY <1>1, <1>5, <2>1, <3>1, <3>2, <3>4, ExchangeStep DEF Exchanges
  <2>3. CASE UNCHANGED dirs /\ told' = [told EXCEPT ![p] = TRUE]
    <3>1. told'[p]
      BY <1>1, <2>3 DEF Befores
    <3>2. OldOut(p)' /\ UsersIn(p)'
      BY <1>1, <1>2, <2>3, NamesRest, EntriesAre DEF AtClear, OldOut, UsersIn, IsOf
    <3>3. AtClear(p)'
      BY <1>3, <2>1, <2>3, <3>1, <3>2, NamesRest DEF AtClear
    <3>4. QED BY <1>1, <1>5, <2>1, <2>3, <3>3, ExchangeStep DEF Exchanges
  <2>4. QED BY <1>5, <2>2, <2>3
<1>6. QED BY <1>4, <1>5 DEF Swap!Clear, dirs, rest, stage, told

LEMMA ReturnSwaps ==
  ASSUME SwapInv, NEW p \in Proc, Swap!Return(p) PROVE SwapInv'
<1>1. doing[p] = "return" /\ upon[p] = "" /\ Sound(dirs) /\ Befores /\ AtReturn(p)
  <2>1. Swap!At(p, "return", "") /\ "return" \in Exchanges
    BY DEF Swap!Return, Exchanges
  <2>2. QED BY <2>1, ExchangeAt DEF AtPlace
<1>2. UNCHANGED <<lockfile, got, won, before, inPlace>>
  BY DEF Swap!Return, Swap!Fault, Swap!locking, Swap!bounds, lockfile, got, won, before, inPlace
<1>3. /\ Swap!Deployment \in DOMAIN dirs /\ Swap!Backup(p) \in DOMAIN dirs /\ Swap!Backup(p) # Swap!Deployment
      /\ \A q \in Proc : Swap!Deployment # Swap!Candidate(q)
      /\ before[p] \in [DOMAIN before[p] -> Kinds]
      /\ dirs[Swap!Deployment] \in [DOMAIN dirs[Swap!Deployment] -> Kinds]
  BY <1>1, DirNames DEF AtReturn, Befores, Sound
<1>4. CASE /\ rest[p] = {} /\ Swap!Go(p, "mine", "lock") /\ UNCHANGED <<rest, told>>
           /\ dirs' = IF Swap!Entries(Swap!Backup(p)) = {} THEN Swap!Without(dirs, Swap!Backup(p)) ELSE dirs
  <2>1. Befores' /\ Alone(p) /\ ~won'[p] /\ told' = told
    BY <1>1, <1>2, <1>4 DEF Befores, Alone, AtReturn
  <2>2. /\ Sound(dirs') /\ DOMAIN dirs' \subseteq DOMAIN dirs /\ Swap!Deployment \in DOMAIN dirs'
        /\ dirs'[Swap!Deployment] = dirs[Swap!Deployment]
    <3>1. CASE Swap!Entries(Swap!Backup(p)) = {}
      <4>1. DOMAIN dirs[Swap!Backup(p)] \cap Kept = {}
        BY <1>3, <3>1, EntriesAre
      <4>2. Sound(dirs') /\ IsWithout(dirs', dirs, Swap!Backup(p))
        BY <1>1, <1>4, <3>1, <4>1, WithoutIs
      <4>3. QED BY <1>3, <4>2 DEF IsWithout
    <3>2. CASE Swap!Entries(Swap!Backup(p)) # {}
      BY <1>1, <1>3, <1>4, <3>2
    <3>3. QED BY <3>1, <3>2
  <2>3. ~told[p] => dirs[Swap!Deployment] = before[p]
    <3>1. SUFFICES ASSUME ~told[p] PROVE dirs[Swap!Deployment] = before[p]
      OBVIOUS
    <3>2. /\ DOMAIN dirs[Swap!Deployment] = DOMAIN before[p]
          /\ \A e \in DOMAIN dirs[Swap!Deployment] : dirs[Swap!Deployment][e] = before[p][e]
      BY <1>1, <1>3, <1>4, <3>1, EntriesAre DEF AtReturn, IsOf
    <3>3. QED BY <1>3, <3>2, SameEntries
  <2>4. AtMine(p)'
    BY <1>2, <2>1, <2>2, <2>3, ContentsAre DEF AtMine
  <2>5. QED BY <1>1, <1>4, <2>1, <2>2, <2>4, ExchangeStep DEF Exchanges
<1>5. ASSUME NEW e \in rest[p], rest' = [rest EXCEPT ![p] = @ \ {e}], UNCHANGED stage,
             e \notin Swap!Entries(Swap!Deployment),
             dirs' = Swap!Moved(dirs, Swap!Backup(p), Swap!Deployment, e), UNCHANGED told
      PROVE  SwapInv'
  <2>1. Befores' /\ Alone(p) /\ rest'[p] = rest[p] \ {e} /\ ~won'[p] /\ told' = told
    BY <1>1, <1>2, <1>5 DEF Befores, Alone, AtReturn
  <2>2. e \in DOMAIN dirs[Swap!Backup(p)] /\ e \in DOMAIN before[p] /\ dirs[Swap!Backup(p)][e] = before[p][e]
    BY <1>1, <1>3, <1>5, EntriesAre DEF AtReturn, IsOf
  <2>3. Sound(dirs') /\ IsMoved(dirs', dirs, Swap!Backup(p), Swap!Deployment, e)
    BY <1>1, <1>3, <1>5, <2>2, MovedIs
  <2>4. /\ DOMAIN dirs' = DOMAIN dirs
        /\ Swap!Entries(Swap!Deployment)' = Swap!Entries(Swap!Deployment) \cup {e}
        /\ Swap!Entries(Swap!Backup(p))' = Swap!Entries(Swap!Backup(p)) \ {e}
        /\ dirs'[Swap!Deployment][e] = before[p][e]
        /\ \A x \in Swap!Entries(Swap!Deployment) : x # e => dirs'[Swap!Deployment][x] = dirs[Swap!Deployment][x]
        /\ \A x \in Swap!Entries(Swap!Backup(p)) : x # e => dirs'[Swap!Backup(p)][x] = dirs[Swap!Backup(p)][x]
    BY <1>3, <2>2, <2>3, NamesRest, EntriesAre DEF IsMoved
  <2>5. IsOf(Swap!Backup(p), p)'
    BY <1>1, <1>2, <2>4, NamesRest DEF AtReturn, IsOf
  <2>6. ~told[p] => IsOf(Swap!Deployment, p)'
    BY <1>1, <1>2, <2>2, <2>4, NamesRest DEF AtReturn, IsOf
  <2>7. AtReturn(p)'
    BY <1>1, <1>2, <1>3, <2>1, <2>4, <2>5, <2>6, NamesRest DEF AtReturn
  <2>8. QED BY <1>1, <1>5, <2>1, <2>3, <2>4, <2>7, ExchangeStep DEF Exchanges
<1>6. ASSUME NEW e \in rest[p], rest' = [rest EXCEPT ![p] = @ \ {e}], UNCHANGED <<stage, dirs>>,
             told' = [told EXCEPT ![p] = TRUE]
      PROVE  SwapInv'
  <2>1. Befores' /\ Alone(p) /\ rest'[p] \subseteq rest[p] /\ ~won'[p] /\ told'[p]
    BY <1>1, <1>2, <1>6 DEF Befores, Alone, AtReturn
  <2>2. IsOf(Swap!Backup(p), p)'
    BY <1>1, <1>2, <1>6, NamesRest, EntriesAre DEF AtReturn, IsOf
  <2>3. AtReturn(p)'
    BY <1>1, <1>3, <1>6, <2>1, <2>2, NamesRest, EntriesAre DEF AtReturn
  <2>4. QED BY <1>1, <1>6, <2>1, <2>3, ExchangeStep DEF Exchanges
<1>7. QED BY <1>4, <1>5, <1>6 DEF Swap!Return, Swap!Refuse, dirs, rest, stage, told

LEMMA SwapBegins == Swap!Init => SwapInv
<1> SUFFICES ASSUME Swap!Init PROVE SwapInv
  OBVIOUS
<1>1. /\ lockfile = [f \in {"gate", "lock"} |-> NoOne] /\ stage = [p \in Proc |-> <<"open", "gate">>]
      /\ dirs = [d \in {Swap!Deployment} |-> [e \in Program \cup Kept |-> IF e \in Kept THEN "user" ELSE "old"]]
      /\ rest = [p \in Proc |-> {}] /\ got = [p \in Proc |-> FALSE] /\ won = got /\ told = got
      /\ before = [p \in Proc |-> [e \in {} |-> "old"]]
  BY DEF Swap!Init, Swap!Name, lockfile, stage, dirs, rest, got, won, told, before
<1>2. LocksInv
  <2>1. \A p \in Proc : stage[p] = <<"open", "gate">>
    BY <1>1
  <2>2. \A p \in Proc : doing[p] = "open" /\ upon[p] = "gate"
    BY <2>1 DEF doing, upon
  <2>3. stage \in [Proc -> Doings \X Files]
    <3>1. "open" \in Doings /\ "gate" \in Files
      BY DEF Doings, Files
    <3>2. QED BY <1>1, <3>1
  <2>4. /\ DOMAIN lockfile = {"gate", "lock"} /\ DOMAIN got = Proc
        /\ lockfile["gate"] = NoOne /\ lockfile["lock"] = NoOne
    BY <1>1
  <2>5. LocksTyped
    BY <2>2, <2>3, <2>4 DEF LocksTyped, Exchanges
  <2>6. \A p \in Proc : ~HasGate(p) /\ ~HasLock(p)
    BY <2>2 DEF HasGate, HasLock
  <2>7. GateHeld
    BY <2>4, <2>6 DEF GateHeld
  <2>8. LockHeld
    BY <2>2, <2>4, <2>6 DEF LockHeld
  <2>9. QED BY <2>5, <2>7, <2>8 DEF LocksInv
<1>3. Sound(dirs)
  <2>1. /\ DOMAIN dirs = {Swap!Deployment}
        /\ dirs[Swap!Deployment] = [e \in Program \cup Kept |-> IF e \in Kept THEN "user" ELSE "old"]
    BY <1>1
  <2>2. QED BY <2>1, DirNames DEF Sound, Kinds
<1>4. Befores
  BY <1>1 DEF Befores
<1>5. ASSUME NEW p \in Proc PROVE AtPlace(p)
  <2>1. stage[p] = <<"open", "gate">>
    BY <1>1
  <2>2. doing[p] = "open" /\ upon[p] = "gate"
    BY <2>1 DEF doing, upon
  <2>3. ~won[p] /\ ~told[p] /\ DOMAIN dirs = {Swap!Deployment}
    BY <1>1
  <2>4. QED BY <2>2, <2>3, DirNames DEF AtPlace, Untold
<1>6. QED BY <1>2, <1>3, <1>4, <1>5 DEF SwapInv

LEMMA SwapGoesOn == ASSUME ~CrashInGate PROVE SwapInv /\ Swap!Next => SwapInv'
<1> SUFFICES ASSUME SwapInv, Swap!Next PROVE SwapInv'
  OBVIOUS
<1>1. ASSUME NEW p \in Proc, NEW f \in {"gate", "lock"}, Swap!LockStep(p, f) PROVE SwapInv'
  BY <1>1, LockSteps, ReadMineSwaps, UnlinkSwaps DEF Swap!LockStep
<1>2. ASSUME NEW p \in Proc, Swap!SwapStep(p) PROVE SwapInv'
  BY <1>2, StageSwaps, AwaySwaps, EnterSwaps, KeepSwaps, RegisterSwaps, CommitSwaps, AsideSwaps, BackSwaps,
     SweepSwaps, MoveOutSwaps, MoveInSwaps, ClearSwaps, ReturnSwaps DEF Swap!SwapStep
<1>3. ASSUME NEW p \in Proc, Swap!Crash(p) PROVE SwapInv'
  BY <1>3, CrashSwaps
<1>4. ASSUME NEW f \in {"gate", "lock"}, Swap!Age(f) PROVE SwapInv'
  BY <1>4, AgeSwaps
<1>5. QED BY <1>1, <1>2, <1>3, <1>4 DEF Swap!Next

LEMMA SwapRests == SwapInv /\ UNCHANGED suiteVars => SwapInv'
<1> SUFFICES ASSUME SwapInv, UNCHANGED suiteVars PROVE SwapInv'
  OBVIOUS
<1>1. UNCHANGED <<lockfile, stage, got, dirs, rest, won, told, before, inPlace>>
  BY DEF suiteVars, lockfile, stage, got, dirs, rest, won, told, before, inPlace
<1>2. UNCHANGED <<doing, upon>>
  BY <1>1 DEF doing, upon
<1>3. LocksInv'
  BY ZenonT(60), <1>1, <1>2 DEF SwapInv, LocksInv, LocksTyped, GateHeld, LockHeld, HasGate, HasLock, IsDead
<1>4. Sound(dirs') /\ Befores'
  BY <1>1 DEF SwapInv, Befores
<1>5. ASSUME NEW p \in Proc PROVE AtPlace(p)'
  BY <1>1, <1>2, PlaceStays DEF SwapInv
<1>6. QED BY <1>3, <1>4, <1>5 DEF SwapInv

(* Only the holder of the lock exchanges, his are his, and the last step   *)
(* leaves one whole program.                                               *)
LEMMA SwapHolds == SwapInv => Swap!OneInstaller /\ Swap!UserDataKept /\ Swap!OutcomeWhole
<1> SUFFICES ASSUME SwapInv PROVE Swap!OneInstaller /\ Swap!UserDataKept /\ Swap!OutcomeWhole
  OBVIOUS
<1>1. Swap!OneInstaller
  <2>1. ASSUME NEW p \in Proc, Swap!Swaps(p) PROVE HasLock(p)
    <3>1. doing[p] \in Exchanges
      BY <2>1 DEF Swap!Swaps, doing, stage, Exchanges
    <3>2. upon[p] = ""
      BY <3>1 DEF SwapInv, LocksInv, LocksTyped
    <3>3. QED BY <3>1, <3>2 DEF HasLock
  <2>2. QED BY <2>1, OneHolder DEF SwapInv, Swap!OneInstaller
<1>2. Swap!UserDataKept
  <2>1. SUFFICES ASSUME NEW e \in Kept
                 PROVE  \E d \in DOMAIN dirs : e \in Swap!Entries(d) /\ dirs[d][e] = "user"
    BY DEF Swap!UserDataKept, dirs
  <2>2. PICK d \in DOMAIN dirs : e \in DOMAIN dirs[d]
    BY DEF SwapInv, Sound
  <2>3. dirs[d][e] = "user"
    BY <2>2 DEF SwapInv, Sound
  <2>4. QED BY <2>2, <2>3, EntriesAre
<1>3. Swap!OutcomeWhole
  <2>1. ASSUME NEW p \in Proc, Swap!At(p, "mine", "lock") PROVE AtMine(p)
    BY <2>1, PlaceIs DEF SwapInv, LocksInv, AtPlace
  <2>2. QED BY <2>1 DEF AtMine, Swap!OutcomeWhole, won, told, before
<1>4. QED BY <1>1, <1>2, <1>3

------------------------------------------------------------------------------
(* Of all that update a deployment one installs, nothing of the user's is  *)
(* lost, and what is left at the end is whole or told of; no update is     *)
(* accounted for twice and the restart on record is the one due, whatever  *)
(* fails, is killed or is lost (update.ts).  With npm the package that is  *)
(* installed need not be the one begun with, and a gate left behind by a   *)
(* killed process may be judged twice: both are findings, so both are      *)
(* left out.                                                               *)
THEOREM UpdatesAreWhole ==
  ASSUME "npm" \notin Targets, ~CrashInGate
  PROVE  Spec => []UpdatesWhole
<1> DEFINE Inv == (part = "engine" => EngineInv) /\ (part = "swap" => SwapInv)
<1>1. Init => Inv
  BY EngineInit, SwapBegins DEF Init
<1>2. Inv /\ [Next]_suiteVars => Inv'
  <2>1. ASSUME Inv, [Next]_suiteVars, part' = "engine" PROVE EngineInv'
    <3>1. part = "engine" /\ EngineInv
      BY <2>1, PartStays
    <3>2. CASE EngineSteps
      BY <3>1, <3>2, EngineStep DEF EngineSteps
    <3>3. CASE UNCHANGED suiteVars
      <4>1. /\ UNCHANGED <<target, installed, art, set, mem, check, manual, dl, inst, retry, recovering, up, accounted>>
            /\ released' \in Version
        BY <3>1, <3>3 DEF suiteVars, EngineInv, EngineTyped, target, released, installed, art, set, mem, check,
           manual,
             dl, inst, retry, recovering, up, accounted
      <4>2. QED BY <3>1, <4>1, EngineRests
    <3>4. QED BY <2>1, <3>1, <3>2, <3>3 DEF Next, SwapSteps, SettingSteps, SupervisorSteps, LinkSteps,
                 SavesSteps
  <2>2. ASSUME Inv, [Next]_suiteVars, part' = "swap" PROVE SwapInv'
    <3>1. part = "swap" /\ SwapInv
      BY <2>2, PartStays
    <3>2. CASE SwapSteps
      BY <3>1, <3>2, SwapGoesOn DEF SwapSteps
    <3>3. CASE UNCHANGED suiteVars
      BY <3>1, <3>3, SwapRests
    <3>4. QED BY <2>2, <3>1, <3>2, <3>3 DEF Next, EngineSteps, SettingSteps, SupervisorSteps, LinkSteps,
                 SavesSteps
  <2>3. QED BY <2>1, <2>2
<1>3. Inv => UpdatesWhole
  BY EngineHolds, SwapHolds DEF UpdatesWhole
<1> HIDE DEF Inv
<1>4. QED BY <1>1, <1>2, <1>3, PTL DEF Spec
==============================================================================
