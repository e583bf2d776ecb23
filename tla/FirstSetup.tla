----------------------------- MODULE FirstSetup -----------------------------
(***************************************************************************)
(* The first setup and the keys.  Until a main user exists every key that  *)
(* is not configured derives from SETUP_KEY.  When the first main user is  *)
(* created the gateway writes the keys it uses into the deployment file,   *)
(* and replaces SETUP_KEY.  The plugin, the gateway it launches and the    *)
(* command line each find their keys in the file and in their environment, *)
(* in an order that depends on who launched them: all must find the same   *)
(* ones, before and after, whoever crashes in between.                     *)
(***************************************************************************)
EXTENDS Naturals, FiniteSets

CONSTANTS
  Key,           \* MCP_JWT_SECRET, MCP_INTERNAL_SECRET, MCP_DB_ENC_KEY
  Setup,         \* SETUP_KEY
  Attempt,       \* requests of POST /gateway/setup at the same time
  Injected,      \* values the environment of the host may hold; with Blank
  Edited,        \* values an operator may write by hand
  Fresh,         \* what the random generator returns
  Absent, Blank, \* a name that is not there; one without a value
  MaxEdits, MaxCrashes \* bounds

(* SETUP_KEY is not one of the keys, and a random key has a value.         *)
SetupAssumption == Setup \notin Key /\ Fresh \cap {Absent, Blank} = {}

Name == Key \cup {Setup}

VARIABLES
  docker,        \* DSH_PASSWORDS_RUNTIME
  host,          \* the host's own environment: [Name -> value]
  file,          \* the deployment file
  keyFile,       \* setup-key.txt is there
  plugin,        \* [env, seen, cfg]: process.env, managedFileKeys, its snapshot
  gateway,       \* [up, cfg]
  admins,        \* users with the role admin
  req,           \* [Attempt -> "idle" / "hashing" / "hardening" / "replacing" / "deleting"]
  draft,         \* the temporary file
  dataKeys,      \* ghost: the keys in use when the main user was created
  hardened,      \* ghost: the file has been replaced
  edits, crashes

vars == <<docker, host, file, keyFile, plugin, gateway, admins, req, draft, dataKeys, hardened, edits, crashes>>

------------------------------------------------------------------------------
Given(v) == v \notin {Absent, Blank}

(* What importing config.ts leaves in process.env: the environment first,  *)
(* the file where it has no value.                                         *)
Imported(env, f) == [n \in Name |-> IF Given(env[n]) THEN env[n] ELSE IF Given(f[n]) THEN f[n] ELSE env[n]]

(* deploymentGatewayEnv(): natively the file prevails, and a name that has *)
(* left the file leaves the environment too.                               *)
DeploymentEnv(env, f, seen) ==
  IF docker THEN env
  ELSE [n \in Name |-> IF f[n] # Absent THEN f[n] ELSE IF n \in seen THEN Absent ELSE env[n]]
Seen(f, seen) == IF docker THEN seen ELSE seen \cup {n \in Name : f[n] # Absent}

(* The process that a plugin launches reads the file once more.            *)
ChildEnv(env, f) ==
  LET e == Imported(env, f)
  IN IF docker THEN e ELSE [n \in Name |-> IF f[n] # Absent THEN f[n] ELSE e[n]]

(* loadConfig(): a key without a value derives from SETUP_KEY. A value     *)
(* stands for the key derived from it, of whichever kind.                  *)
Config(env) ==
  [n \in Name |-> IF n \in Key /\ ~Given(env[n]) THEN env[Setup] ELSE env[n]]
InForce(cfg) == [k \in Key |-> cfg[k]]

(* gatewayConfigDrift(), of its keys.                                      *)
(* Slip: SETUP_KEY itself is compared.                                     *)
DriftOfAll(current, next) == {n \in Name : current[n] # next[n]}
Drift(current, next) == {k \in Key : current[k] # next[k]}

------------------------------------------------------------------------------
(* apply() and the import before it.                                       *)
PluginOf(f) ==
  LET env == Imported(host, f)
  IN [env |-> env, seen |-> Seen(f, {}), cfg |-> Config(DeploymentEnv(env, f, {}))]

PluginStarts ==
  /\ crashes < MaxCrashes /\ crashes' = crashes + 1
  /\ plugin' = PluginOf(file)
  /\ gateway' = [gateway EXCEPT !.up = FALSE]
  /\ req' = [a \in Attempt |-> "idle"]
  /\ UNCHANGED <<docker, host, file, keyFile, admins, draft, dataKeys, hardened, edits>>

(* launch(): drift refuses. The child then reads the file for itself.      *)
LaunchEnv == DeploymentEnv(plugin.env, file, plugin.seen)
Launches ==
  /\ ~gateway.up
  /\ plugin' = [plugin EXCEPT !.seen = Seen(file, plugin.seen)]
  /\ Drift(plugin.cfg, Config(LaunchEnv)) = {}
  /\ gateway' = [up |-> TRUE, cfg |-> Config(ChildEnv(LaunchEnv, file))]
  /\ UNCHANGED <<docker, host, file, keyFile, admins, req, draft, dataKeys, hardened, edits, crashes>>

GatewayDies ==
  /\ gateway.up /\ crashes < MaxCrashes /\ crashes' = crashes + 1
  /\ gateway' = [gateway EXCEPT !.up = FALSE]
  /\ req' = [a \in Attempt |-> "idle"]
  /\ UNCHANGED <<docker, host, file, keyFile, plugin, admins, draft, dataKeys, hardened, edits>>

(* An operator writes or empties a line of the file before the setup.      *)
Edits ==
  /\ admins = {} /\ edits < MaxEdits /\ edits' = edits + 1
  /\ \E n \in Name, v \in Edited \cup {Blank} :
       file[n] # v /\ (n = Setup => Given(v)) /\ file' = [file EXCEPT ![n] = v]
  /\ UNCHANGED <<docker, host, keyFile, plugin, gateway, admins, req, draft, dataKeys, hardened, crashes>>

------------------------------------------------------------------------------
(* AuthService.setup(): nobody yet, the right key; then it hashes.         *)
Submits(a) ==
  /\ gateway.up /\ req[a] = "idle" /\ admins = {}
  /\ req' = [req EXCEPT ![a] = "hashing"]
  /\ UNCHANGED <<docker, host, file, keyFile, plugin, gateway, admins, draft, dataKeys, hardened, edits, crashes>>

(* setupInitialAdmin(): looks and inserts in one transaction.              *)
(* Slip: it only inserts; the request looked before.                       *)
MayCreateAnyhow(a) == req[a] = "hashing"
MayCreate(a) == req[a] = "hashing" /\ admins = {}

Creates(a) ==
  /\ MayCreate(a)
  /\ admins' = admins \cup {a}
  /\ dataKeys' = InForce(gateway.cfg)
  /\ req' = [req EXCEPT ![a] = "hardening"]
  /\ UNCHANGED <<docker, host, file, keyFile, plugin, gateway, draft, hardened, edits, crashes>>
Conflicts(a) ==
  /\ req[a] = "hashing" /\ ~MayCreate(a)
  /\ req' = [req EXCEPT ![a] = "idle"]
  /\ UNCHANGED <<docker, host, file, keyFile, plugin, gateway, admins, draft, dataKeys, hardened, edits, crashes>>

(* hardenSecretsAfterSetup(): the lines of the new file.                   *)
(* Slip: a key the file has already is left as it is.                      *)
FrozenIfMissing(f, cfg, s) ==
  [n \in Name |-> IF n = Setup THEN s ELSE IF Given(f[n]) THEN f[n] ELSE cfg[n]]
Frozen(f, cfg, s) == [n \in Name |-> IF n = Setup THEN s ELSE cfg[n]]

Drafts(a) ==
  /\ req[a] = "hardening"
  /\ \E s \in Fresh : draft' = Frozen(file, gateway.cfg, s)
  /\ req' = [req EXCEPT ![a] = "replacing"]
  /\ UNCHANGED <<docker, host, file, keyFile, plugin, gateway, admins, dataKeys, hardened, edits, crashes>>
(* renameSync(); or the disk refuses and the request ends all the same.    *)
Replaces(a) ==
  /\ req[a] = "replacing"
  /\ file' = draft /\ hardened' = TRUE
  /\ req' = [req EXCEPT ![a] = "deleting"]
  /\ UNCHANGED <<docker, host, keyFile, plugin, gateway, admins, draft, dataKeys, edits, crashes>>
Refused(a) ==
  /\ req[a] \in {"hardening", "replacing"}
  /\ req' = [req EXCEPT ![a] = "idle"]
  /\ UNCHANGED <<docker, host, file, keyFile, plugin, gateway, admins, draft, dataKeys, hardened, edits, crashes>>
DropsKeyFile(a) ==
  /\ req[a] = "deleting" /\ keyFile' \in {keyFile, FALSE}
  /\ req' = [req EXCEPT ![a] = "idle"]
  /\ UNCHANGED <<docker, host, file, plugin, gateway, admins, draft, dataKeys, hardened, edits, crashes>>

------------------------------------------------------------------------------
Init ==
  /\ docker \in BOOLEAN
  /\ host \in [Name -> Injected \cup {Blank, Absent}]
  /\ file \in [Name -> Edited \cup {Blank, Absent}] /\ Given(file[Setup])
  /\ keyFile = TRUE
  /\ plugin = PluginOf(file) /\ gateway = [up |-> FALSE, cfg |-> plugin.cfg]
  /\ admins = {} /\ req = [a \in Attempt |-> "idle"] /\ draft = file
  /\ dataKeys = InForce(plugin.cfg) /\ hardened = FALSE
  /\ edits = 0 /\ crashes = 0

Next ==
  \/ PluginStarts \/ Launches \/ GatewayDies \/ Edits
  \/ \E a \in Attempt :
       Submits(a) \/ Creates(a) \/ Conflicts(a) \/ Drafts(a) \/ Replaces(a) \/ Refused(a) \/ DropsKeyFile(a)

Spec == Init /\ [][Next]_vars

------------------------------------------------------------------------------
(* Requests that were hashing at the same time make one main user          *)
(* (db.ts:996).                                                            *)
OneAdministrator == Cardinality(admins) <= 1

(* Once the file has been replaced, whoever starts next finds the keys the *)
(* data was written with: the plugin, a gateway launched by a plugin from  *)
(* before or after, natively or in a container, with whatever the host     *)
(* injects and whatever was in the file by hand (config.ts:518).           *)
KeysStay ==
  hardened =>
    /\ InForce(PluginOf(file).cfg) = dataKeys
    /\ InForce(Config(ChildEnv(LaunchEnv, file))) = dataKeys

(* Violated (plugin.ts:419): a gateway runs with the keys of the plugin    *)
(* that launched it, or is refused. In a container the child still fills   *)
(* what the environment leaves blank from the file as it is by then, and   *)
(* the comparison does not.                                                *)
LaunchedAgree == gateway.up => Drift(plugin.cfg, gateway.cfg) = {}

(* The replacement is no drift: the plugin that launched the gateway       *)
(* launches it again (plugin.ts:425).                                      *)
HardeningIsNoDrift ==
  hardened /\ InForce(plugin.cfg) = dataKeys => Drift(plugin.cfg, Config(LaunchEnv)) = {}
==============================================================================
