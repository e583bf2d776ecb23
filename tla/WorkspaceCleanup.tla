--------------------------- MODULE WorkspaceCleanup ---------------------------
(***************************************************************************)
(* Directories that sub-users create, register as workspaces of their own, *)
(* rename and give up, and the administrator's deletion of a directory     *)
(* tree: the disk, the host's registry, the rows of the gateway (owners,   *)
(* allow-lists with the marks of what was granted by registering, session  *)
(* grants), what it holds in memory, and the intent that survives a        *)
(* deletion that did not converge.                                         *)
(*                                                                         *)
(* Paths form one chain below an assigned root: p lies inside q when       *)
(* q <= p.  Each path has one session.  A sub-user has one request on its  *)
(* way to the host at a time, and a handler is cut at its awaits.          *)
(***************************************************************************)
EXTENDS Integers

CONSTANTS
  User,
  Depth,         \* the paths below the root
  MaxRequests,   \* bound: requests of sub-users
  MaxJobs,       \* bound: deletions by the administrator
  MaxSaves,      \* bound: saved allow-lists, grants, directories made by hand
  MaxFaults      \* bound: calls that fail, kills of the gateway

Dir == 1 .. Depth
Root == 0
Deny == -1       \* DENY_ALL_WORKSPACES

VARIABLES
  disk,          \* directories that exist
  registry,      \* the host's workspaces, by path
  owner,         \* user_workspaces
  folders,       \* allowed_folders; {} allows every directory
  marks,         \* user_auto_granted_folders
  grants,        \* user_session_grants
  intents, kept, \* workspace_cleanup_intents, and the sessions of each
  pending,       \* pendingCreatedDirectories
  tombs,         \* deletedOwnedWorkspacePaths
  cwds,          \* sessionCwdById: sessions whose directory is known
  epoch,         \* per user, userAccessEpoch
  req,           \* per user, its request and the host's answer
  job,           \* the deletion in progress
  spent          \* requests, jobs, saves and faults so far

rows == <<owner, folders, marks, grants>>
intention == <<intents, kept>>
memory == <<pending, tombs, cwds, epoch>>
vars == <<disk, registry, rows, intention, memory, req, job, spent>>

Inside(p, q) == q <= p
Tree(r) == {p \in Dir : Inside(p, r)}
Of(rel, u) == {p \in Dir : <<u, p>> \in rel}
NoRequest == [kind |-> "none", path |-> 0, to |-> 0, epoch |-> 0, answer |-> "none"]
NoJob == [at |-> "idle", root |-> 0, gone |-> FALSE, seen |-> {}, known |-> FALSE, affected |-> {}, failed |-> {}]

Spend(what, max) == spent[what] < max /\ spent' = [spent EXCEPT ![what] = @ + 1]

(* folderAllowed()                                                         *)
Allowed(u, p) ==
  folders[u] = {} \/ (Deny \notin folders[u] /\ \E f \in folders[u] : Inside(p, f))

(* workspaceSubtreeOverlap()                                               *)
Overlap(u, p) == \E v \in User \ {u}, q \in Dir : <<v, q>> \in owner /\ Inside(p, q)

(* visiblePendingCreatedDirectories()                                      *)
Visible(u) == Of(pending, u) \ Of(tombs, u)

(* workspaceRegistrationAllowed()                                          *)
Registrable(u, p, assigned) ==
  p \in assigned \cup Visible(u) \/ \E q \in Of(owner, u) : Inside(p, q)

------------------------------------------------------------------------------
(* The request of a sub-user passes the gate.                              *)
MayMakeDirectory(u, p) ==
  /\ Allowed(u, p - 1) /\ Allowed(u, p)
  /\ ~Overlap(u, p - 1) /\ ~Overlap(u, p)

MayCreate(u, p) == Allowed(u, p) /\ Registrable(u, p, folders[u]) /\ ~Overlap(u, p)

MayDelete(u, p) == <<u, p>> \in owner /\ \A v \in User \ {u} : <<v, p>> \notin owner

MayRename(u, p, q) ==
  /\ MayDelete(u, p) /\ p # q
  /\ \A v \in User \ {u} : <<v, q>> \notin owner
  /\ Allowed(u, q) /\ ~Overlap(u, q)

Ask(u) ==
  /\ req[u] = NoRequest /\ Spend("requests", MaxRequests)
  /\ \E k \in {"mkdir", "create", "delete", "rename"}, p, q \in Dir :
       /\ k # "rename" => p = q
       /\ k = "mkdir" => MayMakeDirectory(u, p)
       /\ k = "create" => MayCreate(u, p)
       /\ k = "delete" => MayDelete(u, p)
       /\ k = "rename" => MayRename(u, p, q)
       /\ req' = [req EXCEPT ![u] = [kind |-> k, path |-> p, to |-> q, epoch |-> epoch[u], answer |-> "none"]]
  /\ UNCHANGED <<disk, registry, rows, intention, memory, job>>

(* The host answers yes, no, or with a workspace that was there already.   *)
Replies(u, answer) == req' = [req EXCEPT ![u].answer = answer]

Host(u) ==
  LET p == req[u].path  q == req[u].to  k == req[u].kind IN
  /\ k # "none" /\ req[u].answer = "none"
  /\ \/ /\ k = "mkdir" /\ p \notin disk /\ (p = 1 \/ p - 1 \in disk)
        /\ disk' = disk \cup {p} /\ Replies(u, "yes") /\ UNCHANGED registry
     \/ /\ k = "create" /\ p \in disk \ registry
        /\ registry' = registry \cup {p} /\ Replies(u, "yes") /\ UNCHANGED disk
     \/ /\ k = "delete" /\ p \in registry
        /\ registry' = registry \ {p} /\ Replies(u, "yes") /\ UNCHANGED disk
     \/ /\ k = "rename" /\ p \in registry /\ q \in disk \ registry
        /\ registry' = (registry \ {p}) \cup {q} /\ Replies(u, "yes") /\ UNCHANGED disk
     \/ /\ Replies(u, "no") /\ UNCHANGED <<disk, registry>>
  /\ UNCHANGED <<rows, intention, memory, job, spent>>

------------------------------------------------------------------------------
(* The answers reach the gateway: live permissions and the request's epoch *)
(* are checked again before anything is granted.                           *)
Answered(u, kind) ==
  req[u].kind = kind /\ req[u].answer = "yes" /\ req' = [req EXCEPT ![u] = NoRequest]

DirectoryMade(u) ==
  LET p == req[u].path IN
  /\ Answered(u, "mkdir")
  /\ IF epoch[u] = req[u].epoch /\ Allowed(u, p)
       THEN pending' = pending \cup {<<u, p>>} /\ tombs' = tombs \ {<<u, p>>}
       ELSE UNCHANGED <<pending, tombs>>
  /\ UNCHANGED <<disk, registry, rows, intention, cwds, epoch, job, spent>>

(* addAllowedFolder()                                                      *)
AddFolder(u, p) ==
  IF folders[u] = {} \/ p \in folders[u]
    THEN UNCHANGED <<folders, marks>>
    ELSE /\ folders' = [folders EXCEPT ![u] = (@ \ {Deny}) \cup {p}]
         /\ marks' = marks \cup {<<u, p>>}

(* Slip: the registration trusts the check made before the request left.   *)
StillMineAsAsked(u, p) == epoch[u] = req[u].epoch /\ Allowed(u, p) /\ Registrable(u, p, {})
StillMine(u, p) ==
  /\ epoch[u] = req[u].epoch /\ Allowed(u, p) /\ ~Overlap(u, p)
  /\ Registrable(u, p, {})

Created(u) ==
  LET p == req[u].path IN
  /\ Answered(u, "create")
  /\ IF StillMine(u, p)
       THEN /\ owner' = owner \cup {<<u, p>>} /\ AddFolder(u, p)
            /\ tombs' = tombs \ {<<u, p>>}
       ELSE UNCHANGED <<owner, folders, marks, tombs>>
  /\ UNCHANGED <<disk, registry, grants, intention, pending, cwds, epoch, job, spent>>

(* What is left of an allow-list. Slip: nothing left is the empty list.    *)
WithoutBare(list, gone) == IF list = {} \/ Deny \in list THEN list ELSE list \ gone
Without(list, gone) ==
  IF list = {} \/ Deny \in list THEN list
  ELSE IF list \subseteq gone THEN {Deny} ELSE list \ gone

(* removeUserOwnedWorkspace() with the state in memory that goes with it   *)
Deleted(u) ==
  LET p == req[u].path IN
  /\ Answered(u, "delete")
  /\ owner' = owner \ {<<u, p>>}
  /\ folders' = IF <<u, p>> \in marks THEN [folders EXCEPT ![u] = Without(@, {p})] ELSE folders
  /\ marks' = marks \ {<<u, p>>}
  /\ grants' = IF p \in cwds THEN grants \ {<<u, p>>} ELSE grants
  /\ cwds' = cwds \ {p}
  /\ tombs' = tombs \cup {<<u, p>>}
  /\ UNCHANGED <<disk, registry, intention, pending, epoch, job, spent>>

(* renameUserWorkspace()                                                   *)
Renamed(u) ==
  LET p == req[u].path IN
  /\ Answered(u, "rename")
  /\ owner' = IF <<u, p>> \in owner THEN (owner \ {<<u, p>>}) \cup {<<u, req[u].to>>} ELSE owner
  /\ UNCHANGED <<disk, registry, folders, marks, grants, intention, memory, job, spent>>

Refused(u) ==
  /\ req[u].answer = "no" /\ req' = [req EXCEPT ![u] = NoRequest]
  /\ UNCHANGED <<disk, registry, rows, intention, memory, job, spent>>

------------------------------------------------------------------------------
(* The administrator deletes a tree, or retries what did not converge.     *)

(* pathReferencedByWorkspaceState()                                        *)
Referenced(r) ==
  \/ Tree(r) \cap cwds # {}
  \/ \E u \in User : Tree(r) \cap (Of(owner, u) \cup Of(pending, u) \cup folders[u]) # {}

(* Slip: the retry forgets the sessions that its intent names.             *)
SeenNothing(r) == {}
Seen(r) == IF r \in intents THEN kept[r] ELSE {}

(* Only a directory that is gone is retried, with or without its intent;   *)
(* cleanupOnly demands the intent.                                         *)
Begin(r) ==
  /\ job.at = "idle" /\ Spend("jobs", MaxJobs)
  /\ r \in disk \/ r \in intents \/ Referenced(r)
  /\ job' = [NoJob EXCEPT !.at = "snapshot", !.root = r, !.gone = r \notin disk,
                          !.seen = IF r \in disk THEN {} ELSE Seen(r)]
  /\ UNCHANGED <<disk, registry, rows, intention, memory, req>>

(* fetchUpstreamWorkspaceEntries()                                         *)
ReadRegistry ==
  \/ /\ job' = [job EXCEPT !.at = "sync", !.known = TRUE, !.affected = registry \cap Tree(job.root)]
     /\ UNCHANGED spent
  \/ Spend("faults", MaxFaults) /\ job' = [job EXCEPT !.at = "sync"]

(* The registry is read, then the tree is removed.                         *)
Remove ==
  /\ job.at = "snapshot" /\ ReadRegistry
  /\ disk' = IF job.gone THEN disk ELSE disk \ Tree(job.root)
  /\ UNCHANGED <<registry, rows, intention, memory, req>>

(* rmSync() fails.                                                         *)
RemoveFails ==
  /\ job.at = "snapshot" /\ ~job.gone /\ Spend("faults", MaxFaults)
  /\ job' = NoJob
  /\ UNCHANGED <<disk, registry, rows, intention, memory, req>>

(* deleteUpstreamWorkspaceEntry(), per entry                               *)
DropEntries(removed) == registry' = registry \ removed

(* The entries of the registry go, and the registry is read again.         *)
Sync ==
  /\ job.at = "sync"
  /\ \/ /\ DropEntries(job.affected)
        /\ job' = [job EXCEPT !.at = "finish"] /\ UNCHANGED spent
     \/ /\ \E removed \in SUBSET job.affected : DropEntries(removed)
        /\ job.affected # {} /\ Spend("faults", MaxFaults)
        /\ job' = [job EXCEPT !.at = "finish", !.failed = job.affected]
  /\ UNCHANGED <<disk, rows, intention, memory, req>>

Doomed == job.affected \cup (cwds \cap Tree(job.root)) \cup job.seen

(* cleanupDeletedWorkspaceTree()                                           *)
CleanRows ==
  /\ owner' = owner \ (User \X Tree(job.root))
  /\ grants' = grants \ (User \X Doomed)
  /\ folders' = [u \in User |-> Without(folders[u], Tree(job.root))]
  /\ UNCHANGED marks

(* recordWorkspaceCleanupIntent(), clearWorkspaceCleanupIntent()           *)
Record ==
  /\ intents' = intents \cup {job.root}
  /\ kept' = [kept EXCEPT ![job.root] = @ \cup Doomed]

Clear ==
  /\ intents' = intents \ {job.root}
  /\ kept' = [kept EXCEPT ![job.root] = {}]

(* Whose snapshots are dropped.                                            *)
Touched ==
  {u \in User : \/ Tree(job.root) \cap (Of(owner, u) \cup Of(pending, u) \cup folders[u]) # {}
                \/ Doomed \cap Of(grants, u) # {}}

Finish ==
  /\ job.at = "finish" /\ job' = NoJob
  /\ \/ /\ CleanRows
        /\ IF job.known /\ job.failed = {} THEN Clear ELSE Record
        /\ UNCHANGED spent
     \/ /\ Spend("faults", MaxFaults) /\ UNCHANGED rows
        /\ Record \/ UNCHANGED intention
  /\ cwds' = cwds \ Tree(job.root)
  /\ pending' = pending \ (User \X Tree(job.root))
  /\ epoch' = [u \in User |-> IF u \in Touched THEN epoch[u] + 1 ELSE epoch[u]]
  /\ UNCHANGED <<disk, registry, tombs, req>>

------------------------------------------------------------------------------
(* The administrator saves an allow-list, grants a session of a workspace, *)
(* or somebody makes a directory by hand.                                  *)
Save(u) ==
  /\ Spend("saves", MaxSaves)
  /\ \E list \in {{}, {Deny}, {Root}, {1}, {Root, 1}} :
       list # folders[u] /\ folders' = [folders EXCEPT ![u] = list]
  /\ epoch' = [epoch EXCEPT ![u] = @ + 1]
  /\ UNCHANGED <<disk, registry, owner, marks, grants, intention, pending, tombs, cwds, req, job>>

Grant(u) ==
  /\ Spend("saves", MaxSaves)
  /\ \E p \in registry : grants' = grants \cup {<<u, p>>} /\ cwds' = cwds \cup {p}
  /\ UNCHANGED <<disk, registry, owner, folders, marks, intention, pending, tombs, epoch, req, job>>

MakeByHand ==
  /\ Spend("saves", MaxSaves)
  /\ \E p \in Dir \ disk : (p = 1 \/ p - 1 \in disk) /\ disk' = disk \cup {p}
  /\ UNCHANGED <<registry, rows, intention, memory, req, job>>

(* The gateway is killed: what it holds in memory is lost.                 *)
Kill ==
  /\ Spend("faults", MaxFaults)
  /\ pending' = {} /\ tombs' = {} /\ cwds' = {}
  /\ req' = [u \in User |-> NoRequest] /\ job' = NoJob
  /\ UNCHANGED <<disk, registry, rows, intention, epoch>>

Init ==
  /\ disk = {} /\ registry = {} /\ owner = {} /\ marks = {} /\ grants = {}
  /\ folders = [u \in User |-> {Root}]
  /\ intents = {} /\ kept = [p \in Dir |-> {}]
  /\ pending = {} /\ tombs = {} /\ cwds = {} /\ epoch = [u \in User |-> 0]
  /\ req = [u \in User |-> NoRequest] /\ job = NoJob
  /\ spent = [requests |-> 0, jobs |-> 0, saves |-> 0, faults |-> 0]

Next ==
  \/ \E u \in User : \/ Ask(u) \/ Host(u) \/ DirectoryMade(u) \/ Created(u)
                     \/ Deleted(u) \/ Renamed(u) \/ Refused(u) \/ Save(u) \/ Grant(u)
  \/ \E r \in Dir : Begin(r)
  \/ Remove \/ RemoveFails \/ Sync \/ Finish \/ MakeByHand \/ Kill

Spec == Init /\ [][Next]_vars

------------------------------------------------------------------------------
(* A directory becomes the private workspace of a second sub-user by no    *)
(* registration, however late its answer and whatever was created, renamed *)
(* or deleted meanwhile.  (The answer to a rename is applied as it was     *)
(* asked; that it may collide is recorded in the README.)                  *)
Shared == {p \in Dir : \E u, v \in User : u # v /\ p \in Of(owner, u) \cap Of(owner, v)}
StaysAlone == Shared' \subseteq Shared \/ \E u \in User : Renamed(u)

(* Only the administrator's save lifts the restriction of a sub-user: an   *)
(* allow-list whose last directory goes is not the empty one, which allows *)
(* every directory.                                                        *)
StaysRestricted == \A u \in User : folders[u] # {} /\ folders'[u] = {} => Save(u)

(* When a retry gives up its intent, every grant of a session that the     *)
(* intent names is gone: nothing else would lead to them any more.         *)
RetryFinishes == job.gone => \A r \in intents \ intents' : grants' \cap (User \X kept[r]) = {}

(* So it is when the directory has come back and is deleted in the         *)
(* ordinary way.                                                           *)
IntentConverges ==
  [][\A r \in intents \ intents' : grants' \cap (User \X kept[r]) = {}]_vars

==============================================================================
