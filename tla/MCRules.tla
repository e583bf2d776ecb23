---------------------------- MODULE MCRules ----------------------------
(***************************************************************************)
(* Instances of the modules about what sub-users may do: models, sessions, *)
(* endpoints, logins, usage and workspaces.  They share no state and are   *)
(* checked side by side: a behaviour is one of the module that `part'      *)
(* names, and x1 .. x19 stand for its variables.                           *)
(***************************************************************************)
EXTENDS Naturals, Sequences, FiniteSets, TLC

CONSTANTS
  Session, Model, Preset, Request, None, Unknown, NoLimit,
  MaxSaves, MaxDefaults, MaxFollows, Listable, Folder, Order, Home, Caller,
  Ttl, Workers, MaxAttempts, MaxChanges, Owner, SubUser, Path, Blocked,
  Terminal, Plugin, Tables, Missing, Broken, Socket, MaxEdits, MaxManifests,
  MaxGrants, Account, Admin, Ip, Attempt, MaxFailed, NameFactor,
  IpMaxFailed, IpWindow, IpLock, Steps, NameLock, SuccessMax, Minute,
  MaxTime, MaxRuns, NoOne, Tab, TokenLimit, TimeLimit, Touch, Cap, Gap,
  Hour, MaxHours, Passing, MaxTokens, MaxLosses, MaxForgotten, User, Depth, MaxRequests, MaxJobs,
  MaxEditions, MaxFaults, s1, s2, f1, f2

VARIABLES
  part,  \* which of them this behaviour is of
  x1, x2, x3, x4, x5, x6, x7, x8, x9, x10, x11, x12, x13, x14, x15, x16,
  x17, x18, x19

vars == <<part, x1, x2, x3, x4, x5, x6, x7, x8, x9, x10, x11, x12, x13, x14,
         x15, x16, x17, x18, x19>>

Models == INSTANCE ModelChoice WITH
  models <- x1, presets <- x2, record <- x3, catalog <- x4, presetOf <- x5,
  req <- x6, follow <- x7, born <- x8, selected <- x9, default <- x10,
  runsWith <- x11, ever <- x12, saves <- x13, defaults <- x14,
  follows <- x15, added <- x16
Inventory == INSTANCE SessionInventory WITH
  registry <- x1, folders <- x2, listed <- x3, archived <- x4, live <- x5,
  log <- x6, scan <- x7, cached <- x8, fresh <- x9, caller <- x10,
  shown <- x11, warm <- x12, save <- x13, steady <- x14, placed <- x15,
  worth <- x16, lasting <- x17, since <- x18, changes <- x19,
  Session <- Listable
Endpoints == INSTANCE EndpointReload WITH
  file <- x1, rules <- x2, failed <- x3, manifest <- x4, ssh <- x5,
  socket <- x6, registry <- x7, clients <- x8, written <- x9, edits <- x10,
  manifests <- x11, saves <- x12, MaxSaves <- MaxGrants
Logins == INSTANCE LoginThrottle WITH
  now <- x1, attempts <- x2, throttle <- x3, successes <- x4, req <- x5,
  sessions <- x6, freed <- x7, runs <- x8, User <- Account
Quota == INSTANCE UsageQuota WITH
  now <- x1, row <- x2, touched <- x3, reported <- x4, total <- x5,
  tab <- x6, seen <- x7, pending <- x8, flight <- x9, refused <- x10,
  observed <- x11, charged <- x12, twice <- x13, dropped <- x14,
  losses <- x15, writes <- x16, forgot <- x17, MaxTime <- MaxHours
Workspaces == INSTANCE WorkspaceCleanup WITH
  disk <- x1, registry <- x2, owner <- x3, folders <- x4, marks <- x5,
  grants <- x6, intents <- x7, kept <- x8, pending <- x9, tombs <- x10,
  cwds <- x11, epoch <- x12, req <- x13, job <- x14, spent <- x15,
  MaxSaves <- MaxEditions

ASSUME Endpoints!TablesAssumption
ASSUME FoldersInOrder == Inventory!OrderAssumption
ASSUME TabsAreFinite == Quota!QuotaAssumption
ASSUME GuessesCost == Logins!ThrottleAssumption

(* Two sessions in two folders, two minutes of attempts, tables of rules.  *)
InOrder == <<f1, f2>>
InFolders == (s1 :> f1) @@ (s2 :> f2)
Waits == <<1, 2>>
Rule(p, c, t) == [path |-> p, capability |-> c, transport |-> t]
SomeTables ==
  {{}, {Rule("plugin", "owner", "any")}, {Rule("shell", "ssh", "any")},
   {Rule("shell", "ssh", "http"), Rule("plugin", "ssh", "ws")},
   {Rule("shell", "ssh", "any"), Rule("shell", "owner", "http")}, {Rule("terminal", "ssh", "any")}}
Alike == Permutations(Session) \cup Permutations(Model) \cup Permutations(Request)

------------------------------------------------------------------------------
Init ==
  \/ part = "models" /\ Models!Init /\ x17 = 0 /\ x18 = 0
       /\ x19 = 0
  \/ part = "shown" /\ Inventory!Init
  \/ part = "saved" /\ Inventory!Init /\ x1 = TRUE
  \/ part = "endpoints" /\ Endpoints!Init /\ x13 = 0 /\ x14 = 0 /\ x15 = 0
       /\ x16 = 0 /\ x17 = 0 /\ x18 = 0 /\ x19 = 0
  \/ part = "logins" /\ Logins!Init /\ x9 = 0 /\ x10 = 0 /\ x11 = 0 /\ x12 = 0
       /\ x13 = 0 /\ x14 = 0 /\ x15 = 0 /\ x16 = 0 /\ x17 = 0 /\ x18 = 0
       /\ x19 = 0
  \/ part = "quota" /\ Quota!Init /\ x18 = 0 /\ x19 = 0
  \/ part = "workspaces" /\ Workspaces!Init /\ x16 = 0 /\ x17 = 0 /\ x18 = 0
       /\ x19 = 0

ModelsSteps ==
  /\ part = "models" /\ Models!Next /\ UNCHANGED <<part, x17, x18, x19>>
  /\ x13' + x14' + x15' <= IF x4' = Unknown THEN 1 ELSE 2
InventorySteps ==
  /\ \/ part \in {"shown", "saved"} /\ Inventory!HostSteps
     \/ part = "shown" /\ (Inventory!ScanSteps \/ Inventory!LoaderSteps)
     \/ part = "saved" /\ Inventory!SaveSteps
  /\ UNCHANGED part
EndpointsSteps == part = "endpoints" /\ Endpoints!Next /\ UNCHANGED <<part,
        x13, x14, x15, x16, x17, x18, x19>>
LoginsSteps == part = "logins" /\ Logins!Next /\ UNCHANGED <<part, x9, x10,
        x11, x12, x13, x14, x15, x16, x17, x18, x19>>
QuotaSteps == part = "quota" /\ Quota!Next /\ UNCHANGED <<part, x18, x19>>
WorkspacesSteps ==
  /\ part = "workspaces" /\ Workspaces!Next /\ UNCHANGED <<part, x16, x17, x18, x19>>
  /\ x15'.requests + x15'.saves <= MaxRequests

Next ==
  \/ ModelsSteps
  \/ InventorySteps
  \/ EndpointsSteps
  \/ LoginsSteps
  \/ QuotaSteps
  \/ WorkspacesSteps

Spec == Init /\ [][Next]_vars

------------------------------------------------------------------------------
(* A prompt is passed on under the lists of that moment, not of its start, *)
(* and the record they are compared with was the host's choice (proxy.ts). *)
PromptsUnderTodaysLists ==
  [][part = "models" => Models!SentUnderTodaysLists /\ Models!RecordWasReal']_vars

(* A list has what was to be shown all the time it was gathered, and a     *)
(* save loses no grant of a session listed meanwhile (plugin.ts).          *)
InventoryWhole ==
  part \in {"shown", "saved"} => Inventory!GathersWhatLasted /\ Inventory!AssignableOrRetained

(* However rules, plugins and permissions are edited and loaded, an open   *)
(* WebSocket is one that the rules of today let in (gateway.ts).           *)
TodaysRules == part = "endpoints" => Endpoints!TodaysRules

(* Nobody locks the main user out from elsewhere, parallel guesses are     *)
(* counted, and cookies are limited however logins meet (auth.ts).         *)
LoginsLimited ==
  part = "logins" =>
    Logins!AdminLockedOnlyFromHere /\ Logins!GuessesAreSlowed /\ Logins!CookiesPerMinute

(* No token is charged twice or forgotten but with its tab, and the time   *)
(* counted is that which passed but for the rounding of writes that the    *)
(* throttle keeps apart (token.tsx, db.ts).                                *)
UsageIsTrue == part = "quota" => Quota!TokensAreCounted /\ Quota!TimeWasSpent

(* No late answer makes a directory the private one of two sub-users, none *)
(* but the administrator lifts a restriction, and a retry gives its intent *)
(* up only when every grant it names is gone (gateway.ts, db.ts).          *)
WorkspacesHold ==
  [][part = "workspaces" =>
       Workspaces!StaysAlone /\ Workspaces!StaysRestricted /\ Workspaces!RetryFinishes]_vars
==============================================================================
