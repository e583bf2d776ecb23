--------------------------- MODULE EndpointReload ----------------------------
(***************************************************************************)
(* The table of registered endpoints while it changes.  The deployment's   *)
(* file is read again every few seconds; requests and upgrades of a        *)
(* sub-user are judged by the table of the moment, the list of loaded      *)
(* plugins and allow_ssh; a WebSocket outlives that judgement, and whoever *)
(* tightens a rule must close what it had let in.                          *)
(***************************************************************************)
EXTENDS FiniteSets, Naturals

CONSTANTS
  Owner, SubUser,    \* users: the administrator, and sets of sub-users
  Path,              \* paths of endpoints
  Blocked,           \* isSubuserBlockedApiPath()
  Terminal,          \* the official terminal's methods, blocked otherwise
  Plugin,            \* paths that some plugin serves
  Tables,            \* contents of the file that parse: sets of rules
  Missing, Broken,   \* no file; contents that do not parse
  Socket,
  MaxEdits, MaxManifests, MaxSaves \* bounds

Rule == [path : Path, capability : {"ssh", "owner"}, transport : {"any", "http", "ws"}]
TablesAssumption == Tables \subseteq SUBSET Rule /\ Missing \notin Tables /\ Broken \notin Tables

VARIABLES
  file,          \* the file
  rules,         \* endpointRules
  failed,        \* lastEndpointReloadError, reported once
  manifest,      \* dynamicPluginManifest
  ssh,           \* who has allow_ssh
  socket,        \* [Socket -> [at, user, path]]
  registry,      \* registryAuthorizedSockets
  clients,       \* userWebSocketClients
  written,       \* ghost: every table the file has held
  edits, manifests, saves

reload == <<file, rules, failed, written, edits>>
rights == <<manifest, ssh, manifests, saves>>
sockets == <<socket, registry, clients>>
vars == <<reload, rights, sockets>>

Someone == {Owner} \cup SubUser
NoSocket == [at |-> "none", user |-> Owner, path |-> CHOOSE p \in Path : TRUE]
Open(s) == socket[s].at = "open"
Destroyed(S) == [s \in Socket |-> IF s \in S THEN [socket[s] EXCEPT !.at = "destroyed"] ELSE socket[s]]

------------------------------------------------------------------------------
(* endpointAllowed(), with and without a transport, and the classes.       *)
Named(p, c) == \E r \in rules : r.path = p /\ r.capability = c
Listed(p, t) == \E r \in rules : r.path = p /\ r.capability = "ssh" /\ r.transport \in {t, "any"}
PathClass(p, t) ==
  IF Named(p, "owner") THEN "owner-only"
  ELSE IF p \in Blocked THEN "third-party"
  ELSE IF Listed(p, t) THEN "ssh"
  ELSE IF p \in manifest THEN "official"
  ELSE "third-party"

(* The upgrade of a sub-user, and its request over HTTP: does it reach     *)
(* the host?                                                               *)
PluginPassed(p) == p \in manifest \ Blocked
SshPassed(u, p) == PathClass(p, "ws") = "ssh" /\ u \in ssh
Upgraded(u, p) ==
  /\ PathClass(p, "ws") # "owner-only"
  /\ Named(p, "ssh") => PathClass(p, "ws") = "ssh"
  /\ PathClass(p, "ws") = "ssh" => u \in ssh
  /\ PluginPassed(p) \/ SshPassed(u, p)
Requested(u, p) ==
  /\ PathClass(p, "http") # "owner-only"
  /\ IF p \in Terminal THEN u \in ssh
     ELSE /\ p \notin Blocked
          /\ Named(p, "ssh") => PathClass(p, "http") = "ssh"
          /\ PathClass(p, "http") = "ssh" => u \in ssh

(* Slip: only what a rule let in is remembered.                            *)
RegisteredBySsh(u, p) == u # Owner /\ SshPassed(u, p)
Registered(u, p) == u # Owner /\ (PluginPassed(p) \/ SshPassed(u, p))

Upgrades(s, u, p) ==
  /\ socket[s].at = "none" /\ (u # Owner => Upgraded(u, p))
  /\ socket' = [socket EXCEPT ![s] = [at |-> "open", user |-> u, path |-> p]]
  /\ registry' = IF Registered(u, p) THEN registry \cup {s} ELSE registry
  /\ clients' = clients \cup {s}
  /\ UNCHANGED <<reload, rights>>

(* Either leg ends; the close event takes the socket out of both tables.   *)
Ends(s) == Open(s) /\ socket' = Destroyed({s}) /\ UNCHANGED <<registry, clients, reload, rights>>
Cleanup(s) ==
  /\ socket[s].at = "destroyed" /\ socket' = [socket EXCEPT ![s] = NoSocket]
  /\ registry' = registry \ {s} /\ clients' = clients \ {s}
  /\ UNCHANGED <<reload, rights>>

------------------------------------------------------------------------------
Edits(c) ==
  /\ edits < MaxEdits /\ edits' = edits + 1
  /\ file' = c /\ written' = written \cup ({c} \cap Tables)
  /\ UNCHANGED <<rules, failed, rights, sockets>>

(* Slip: a file that is missing is an empty one.                           *)
ReadOrEmpty == IF file = Missing THEN {} ELSE file
(* readEndpointRuntimeConfig(): what it finds.                             *)
Read == file

(* applyEndpointRuntime(): nothing on a missing file, the old rules on a   *)
(* broken one, and every registered socket closed on a change. Slip: they  *)
(* are forgotten without being closed.                                     *)
ForgetsRegistered == socket' = socket /\ registry' = {}
ClosesRegistered == socket' = Destroyed({s \in registry : Open(s)}) /\ registry' = {}
Ticks ==
  /\ Read # Missing
  /\ failed' = (Read = Broken)
  /\ IF Read = Broken \/ Read = rules THEN UNCHANGED <<rules, socket, registry>>
     ELSE rules' = Read /\ ClosesRegistered
  /\ UNCHANGED <<file, written, edits, rights, clients>>

(* A list of plugins arrives: nothing is closed.                           *)
Mounts(m) ==
  /\ manifests < MaxManifests /\ manifests' = manifests + 1
  /\ manifest' = m /\ UNCHANGED <<ssh, saves, reload, sockets>>

(* An administrator saves a user's permissions: its sockets are closed.    *)
Saves(u) ==
  /\ saves < MaxSaves /\ saves' = saves + 1
  /\ ssh' \in {ssh \cup {u}, ssh \ {u}}
  /\ LET mine == {s \in clients : socket[s].user = u}
     IN /\ socket' = Destroyed({s \in mine : Open(s)})
        /\ clients' = clients \ mine
  /\ UNCHANGED <<manifest, manifests, registry, reload>>

------------------------------------------------------------------------------
Init ==
  /\ rules \in Tables /\ file = rules /\ written = {rules} /\ failed = FALSE
  /\ manifest \in SUBSET Plugin /\ ssh \in SUBSET SubUser
  /\ socket = [s \in Socket |-> NoSocket] /\ registry = {} /\ clients = {}
  /\ edits = 0 /\ manifests = 0 /\ saves = 0

Next ==
  \/ Ticks
  \/ \E c \in Tables \cup {Missing, Broken} : Edits(c)
  \/ \E m \in SUBSET Plugin : Mounts(m)
  \/ \E u \in SubUser : Saves(u)
  \/ \E s \in Socket : Ends(s) \/ Cleanup(s) \/ \E u \in Someone, p \in Path : Upgrades(s, u, p)

Spec == Init /\ [][Next]_vars

------------------------------------------------------------------------------
(* What the table says of a sub-user (permissions.ts:62): an owner's path  *)
(* is closed to it; a registered one takes allow_ssh and its transport.    *)
MayUse(u, p, t) ==
  /\ \A r \in rules : r.path = p => r.capability # "owner"
  /\ Named(p, "ssh") => u \in ssh /\ Listed(p, t)

(* Whatever was edited, broken, restored, saved and loaded meanwhile, an   *)
(* open WebSocket of a sub-user is one that the rules of today let in      *)
(* (gateway.ts:4464), a request is judged by the same table, and the table *)
(* is one that the file has held (gateway.ts:4444).  A plugin that is gone *)
(* from the list keeps its sockets until its host closes them.             *)
TodaysRules ==
  /\ \A s \in Socket : Open(s) /\ socket[s].user # Owner =>
       /\ MayUse(socket[s].user, socket[s].path, "ws")
       /\ Listed(socket[s].path, "ws") \/ socket[s].path \in Plugin
  /\ \A u \in SubUser, p \in Path \ Terminal : Requested(u, p) => MayUse(u, p, "http")
  /\ rules \in written
==============================================================================
