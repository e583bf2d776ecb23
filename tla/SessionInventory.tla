-------------------------- MODULE SessionInventory --------------------------
(***************************************************************************)
(* What the plugin says can be assigned to a user.  The list for display   *)
(* is gathered in stages, each of them awaited while the host's sessions   *)
(* are created, used, archived and deleted; requests share one gathering   *)
(* and, with a time to live, its last result.  The list a save relies on   *)
(* is gathered for each save and reads no session.                         *)
(***************************************************************************)
EXTENDS Naturals, FiniteSets, Sequences, Functions

CONSTANTS
  Session, Folder,
  Order,        \* the registry's folders in their order
  Home,         \* [Session -> Folder]
  Caller,       \* requests for the list for display
  Ttl,          \* is there a time to live
  Workers,      \* logs read at the same time
  MaxAttempts,  \* PREWARM_MAX_ATTEMPTS
  MaxChanges    \* bound: changes in the host

OrderAssumption == Order \in Seq(Folder) /\ Range(Order) = Folder

VARIABLES
  registry,     \* is the host's registry there
  folders,      \* SUBSET Folder: their directory is there
  listed, archived, live, \* SUBSET Session
  log,          \* [Session -> "gone", "blank", "used", "titled"]
  scan,         \* the gathering under way: pending
  cached, fresh, \* the last result, and is it younger than the time to live
  caller, shown, \* [Caller -> "idle", "waiting", "answered", "failed"], the answers
  warm,         \* tries left of the prewarming
  save,         \* the gathering for a save
  steady,       \* sessions to be shown all the time the gathering ran
  placed, worth, \* at some time of it: listed in a folder that was there; live or used
  lasting,      \* sessions listed all the time the save's gathering ran
  since,        \* [Caller -> sessions archived ever since the request]
  changes

host == <<registry, folders, listed, archived, live, log, changes>>
ghosts == <<steady, placed, worth, lasting, since>>
loader == <<scan, cached, fresh, caller, shown, warm>>
vars == <<host, ghosts, loader, save>>

Idle == [at |-> "idle", left |-> <<>>, archived |-> {}, slots |-> {}, pending |-> {}, titles |-> {}, hidden |-> {}, reading |-> {}, events |-> {}]

(* To be shown now: listed in a folder that is there, and live or used.    *)
Placed == {s \in listed : Home[s] \in folders}
Worth == live \cup {s \in Session : log[s] \in {"used", "titled"}}
Now == (Placed \cap Worth) \ archived

(* listAssignableWorkspaces() begins: the archive is read at its start.    *)
Begun ==
  IF scan.at = "idle"
    THEN /\ scan' = [Idle EXCEPT !.at = "status", !.left = Order, !.archived = archived]
         /\ steady' = Now /\ placed' = Placed /\ worth' = Worth
    ELSE UNCHANGED <<scan, steady, placed, worth>>

------------------------------------------------------------------------------
(* createAssignableInventoryLoader().                                      *)

Refresh == Begun

(* Served from memory; an old result is served as well, and a gathering    *)
(* begun behind it.                                                        *)
LoadCached(c) ==
  /\ registry /\ caller[c] = "idle" /\ Ttl /\ cached.is
  /\ caller' = [caller EXCEPT ![c] = "answered"] /\ shown' = [shown EXCEPT ![c] = cached.shown]
  /\ IF fresh THEN UNCHANGED <<scan, steady, placed, worth>> ELSE Refresh
  /\ since' = [since EXCEPT ![c] = {}]
  /\ UNCHANGED <<cached, fresh, warm, save, lasting, host>>

Load(c) ==
  /\ registry /\ caller[c] = "idle" /\ ~(Ttl /\ cached.is)
  /\ caller' = [caller EXCEPT ![c] = "waiting"]
  /\ Refresh
  /\ since' = [since EXCEPT ![c] = archived]
  /\ UNCHANGED <<cached, fresh, shown, warm, save, lasting, host>>

Ages == fresh /\ fresh' = FALSE /\ UNCHANGED <<scan, cached, caller, shown, warm, save, ghosts, host>>

(* prewarmAssignableInventory(): a few looks for the registry, one refresh.*)
Prewarm ==
  /\ warm > 0 /\ Ttl
  /\ IF registry THEN warm' = 0 /\ Refresh
                 ELSE warm' = warm - 1 /\ UNCHANGED <<scan, steady, placed, worth>>
  /\ UNCHANGED <<cached, fresh, caller, shown, save, lasting, since, host>>

PrewarmCancelled == warm > 0 /\ warm' = 0 /\ UNCHANGED <<scan, cached, fresh, caller, shown, save, ghosts, host>>

------------------------------------------------------------------------------
(* listAssignableWorkspaces().                                             *)

Scans == UNCHANGED <<cached, fresh, caller, shown, warm, save, ghosts, host>>

(* Slip: the logs of live sessions are read like the others'.              *)
TakesFolderAsStored(f) ==
  LET taken == {s \in listed \ scan.archived : Home[s] = f}
  IN IF f \in folders
       THEN scan' = [scan EXCEPT !.left = Tail(@), !.slots = @ \cup taken, !.pending = @ \cup taken]
       ELSE scan' = [scan EXCEPT !.left = Tail(@)]

(* One folder's status has come: its sessions are taken as they are now,   *)
(* the live ones with the title they have.                                 *)
TakesFolder(f) ==
  LET taken == {s \in listed \ scan.archived : Home[s] = f}
  IN IF f \in folders
       THEN scan' = [scan EXCEPT !.left = Tail(@), !.slots = @ \cup taken, !.pending = @ \cup (taken \ live)]
       ELSE scan' = [scan EXCEPT !.left = Tail(@)]

StatusRead == scan.at = "status" /\ scan.left # <<>> /\ TakesFolder(Head(scan.left)) /\ Scans

StatusesRead ==
  /\ scan.at = "status" /\ scan.left = <<>>
  /\ scan' = [scan EXCEPT !.at = "batch", !.reading = scan.pending]
  /\ Scans

(* One title: a session that is definitely missing is hidden.              *)
TitleOf(s) ==
  [scan EXCEPT !.reading = @ \ {s},
               !.titles = IF log[s] = "titled" THEN @ \cup {s} ELSE @,
               !.hidden = IF log[s] = "gone" THEN @ \cup {s} ELSE @]

(* readAssignableTitles(): the host's batch reads the logs one by one; it  *)
(* may miss some, or fail with what it has read, and these are read by id. *)
TitleRead ==
  /\ scan.at \in {"batch", "each"}
  /\ \E s \in scan.reading : scan' = TitleOf(s)
  /\ Scans

BatchEnds ==
  /\ scan.at = "batch"
  /\ \/ scan' = [scan EXCEPT !.at = "each"]
     \/ scan' = [scan EXCEPT !.at = "each", !.reading = scan.pending, !.titles = {}, !.hidden = {}]
  /\ Scans

(* Only the untitled are read further.                                     *)
Untitled == scan.pending \ (scan.titles \cup scan.hidden)

TitlesRead ==
  /\ scan.at = "each" /\ scan.reading = {}
  /\ scan' = [scan EXCEPT !.at = "surface", !.pending = Untitled]
  /\ Scans

(* mapBounded(): a worker takes the next log.                              *)
WorkerTakes(s) ==
  /\ scan.at = "surface" /\ s \in scan.pending
  /\ Cardinality(scan.reading \cup scan.events) < Workers
  /\ scan' = [scan EXCEPT !.pending = @ \ {s}, !.reading = @ \cup {s}]
  /\ Scans

(* An empty surface asks for the events.                                   *)
SurfaceRead(s) ==
  /\ scan.at = "surface" /\ s \in scan.reading
  /\ scan' = [scan EXCEPT !.reading = @ \ {s},
                          !.hidden = IF log[s] = "gone" THEN @ \cup {s} ELSE @,
                          !.events = IF log[s] = "blank" THEN @ \cup {s} ELSE @]
  /\ Scans

(* INITIAL_SESSION_EVENT_TYPES: nothing but these hides the session.       *)
EventsRead(s) ==
  /\ scan.at = "surface" /\ s \in scan.events
  /\ scan' = [scan EXCEPT !.events = @ \ {s}, !.hidden = IF log[s] \in {"gone", "blank"} THEN @ \cup {s} ELSE @]
  /\ Scans

Answers(state, result) ==
  /\ caller' = [c \in Caller |-> IF caller[c] = "waiting" THEN state ELSE caller[c]]
  /\ shown' = [c \in Caller |-> IF caller[c] = "waiting" THEN result ELSE shown[c]]

(* The result is kept, and everyone who joined has it.                     *)
ScanEnds ==
  /\ scan.at = "surface" /\ scan.pending \cup scan.reading \cup scan.events = {}
  /\ scan' = Idle
  /\ IF Ttl THEN cached' = [is |-> TRUE, shown |-> scan.slots \ scan.hidden] /\ fresh' = TRUE
            ELSE UNCHANGED <<cached, fresh>>
  /\ Answers("answered", scan.slots \ scan.hidden)
  /\ UNCHANGED <<warm, save, ghosts, host>>

(* Any read may fail, and with it the gathering.                           *)
ScanFails ==
  /\ scan.at # "idle" /\ scan' = Idle
  /\ Answers("failed", {})
  /\ UNCHANGED <<cached, fresh, warm, save, ghosts, host>>

CallerReturns(c) ==
  /\ caller[c] \in {"answered", "failed"}
  /\ caller' = [caller EXCEPT ![c] = "idle"] /\ shown' = [shown EXCEPT ![c] = {}]
  /\ since' = [since EXCEPT ![c] = {}]
  /\ UNCHANGED <<scan, cached, fresh, warm, save, steady, placed, worth, lasting, host>>

------------------------------------------------------------------------------
(* listAssignableResources(), for a save.                                  *)

Unsaved == [at |-> "idle", left |-> <<>>, seen |-> {}, then |-> {}, assignable |-> {}, retained |-> {}]

SaveBegins ==
  /\ registry /\ save.at = "idle"
  /\ save' = [Unsaved EXCEPT !.at = "status", !.left = Order, !.then = archived]
  /\ lasting' = Placed
  /\ UNCHANGED <<loader, steady, placed, worth, since, host>>

SaveStatusRead ==
  /\ save.at = "status" /\ save.left # <<>>
  /\ save' = [save EXCEPT !.left = Tail(@), !.seen = IF Head(save.left) \in folders THEN @ \cup {s \in listed : Home[s] = Head(save.left)} ELSE @]
  /\ UNCHANGED <<loader, ghosts, host>>

(* Slip: what is assignable is judged by the archive of the start.         *)
SplitByStart == [save EXCEPT !.at = "over", !.assignable = save.seen \ save.then, !.retained = archived]

(* The archive is read once, after the last await.                         *)
Split == [save EXCEPT !.at = "over", !.assignable = save.seen \ archived, !.retained = archived]

SaveRead == save.at = "status" /\ save.left = <<>> /\ save' = Split /\ UNCHANGED <<loader, ghosts, host>>

(* fetchAssignableResources() of the gateway refuses what is no such list, *)
(* and so the save.                                                        *)
SaveFetched == save.at = "over" /\ save' = Unsaved /\ lasting' = {} /\ UNCHANGED <<loader, steady, placed, worth, since, host>>

------------------------------------------------------------------------------
(* The host's sessions change at any time.                                 *)
Settled ==
  /\ changes < MaxChanges /\ changes' = changes + 1
  /\ steady' = steady \cap Now' /\ placed' = placed \cup Placed' /\ worth' = worth \cup Worth'
  /\ lasting' = lasting \cap Placed'
  /\ since' = [c \in Caller |-> since[c] \cap archived']
  /\ UNCHANGED <<loader, save>>

Archive(s) ==
  /\ archived' = (IF s \in archived THEN archived \ {s} ELSE archived \cup {s})
  /\ UNCHANGED <<registry, folders, listed, live, log>> /\ Settled
Create(s) ==
  /\ s \notin listed
  /\ listed' = listed \cup {s} /\ live' = live \cup {s} /\ log' = [log EXCEPT ![s] = "blank"]
  /\ UNCHANGED <<registry, folders, archived>> /\ Settled
Works(s) ==
  /\ s \in live /\ log[s] # "titled"
  /\ log' = [log EXCEPT ![s] = IF @ = "blank" THEN "used" ELSE "titled"]
  /\ UNCHANGED <<registry, folders, listed, archived, live>> /\ Settled
Loads(s) ==
  /\ s \in listed /\ log[s] # "gone"
  /\ live' = (IF s \in live THEN live \ {s} ELSE live \cup {s})
  /\ UNCHANGED <<registry, folders, listed, archived, log>> /\ Settled
Delete(s) ==
  /\ s \in listed \ live /\ log[s] # "gone"
  /\ log' = [log EXCEPT ![s] = "gone"]
  /\ UNCHANGED <<registry, folders, listed, archived, live>> /\ Settled
FolderMoves(f) ==
  /\ folders' = (IF f \in folders THEN folders \ {f} ELSE folders \cup {f})
  /\ UNCHANGED <<registry, listed, archived, live, log>> /\ Settled
RegistryComes == ~registry /\ registry' = TRUE /\ UNCHANGED <<folders, listed, archived, live, log, changes, loader, save, ghosts>>

HostSteps ==
  \/ \E s \in Session : Archive(s) \/ Create(s) \/ Works(s) \/ Loads(s) \/ Delete(s)
  \/ \E f \in Folder : FolderMoves(f)
  \/ RegistryComes

ScanSteps ==
  \/ StatusRead \/ StatusesRead \/ TitleRead \/ BatchEnds \/ TitlesRead
  \/ \E s \in Session : WorkerTakes(s) \/ SurfaceRead(s) \/ EventsRead(s)
  \/ ScanEnds \/ ScanFails

LoaderSteps ==
  \/ \E c \in Caller : LoadCached(c) \/ Load(c) \/ CallerReturns(c)
  \/ Ages \/ Prewarm \/ PrewarmCancelled

SaveSteps == SaveBegins \/ SaveStatusRead \/ SaveRead \/ SaveFetched

Init ==
  /\ registry \in BOOLEAN /\ folders = Folder
  /\ listed \in SUBSET Session /\ archived = {} /\ live = {}
  /\ log \in [Session -> {"gone", "blank", "used", "titled"}]
  /\ \A s \in Session : s \notin listed <=> log[s] = "gone"
  /\ scan = Idle /\ cached = [is |-> FALSE, shown |-> {}] /\ fresh = FALSE
  /\ caller = [c \in Caller |-> "idle"] /\ shown = [c \in Caller |-> {}]
  /\ warm = (IF Ttl THEN MaxAttempts ELSE 0) /\ save = Unsaved
  /\ steady = {} /\ placed = {} /\ worth = {} /\ lasting = {} /\ since = [c \in Caller |-> {}] /\ changes = 0

Next == HostSteps \/ ScanSteps \/ LoaderSteps \/ SaveSteps

Spec == Init /\ [][Next]_vars

------------------------------------------------------------------------------
(* A list that is answered has every session that was to be shown all the  *)
(* time it was gathered, and none that was so at no time of it, however    *)
(* the stages and the host's changes fell together (plugin.ts:1092).       *)
GathersWhatLasted ==
  scan.at = "surface" /\ scan.pending \cup scan.reading \cup scan.events = {} =>
    /\ steady \subseteq scan.slots \ scan.hidden
    /\ scan.slots \ scan.hidden \subseteq placed \cap worth

(* A session that is listed while a save's list is gathered is in one of   *)
(* its two parts, and in one only: what is archived meanwhile is not       *)
(* assigned anew, and its grant is not lost (plugin.ts:1221).              *)
AssignableOrRetained ==
  save.at = "over" => /\ save.assignable \cap save.retained = {}
                      /\ lasting \subseteq save.assignable \cup save.retained

(* A request that joins a gathering is answered as one that began later    *)
(* would be: it is not shown what has been archived ever since it began    *)
(* (the comment at plugin.ts:1236).                                        *)
JoinedSeesItsStart == \A c \in Caller : caller[c] = "answered" => shown[c] \cap since[c] = {}
=============================================================================
