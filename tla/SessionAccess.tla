---------------------------- MODULE SessionAccess ----------------------------
(***************************************************************************)
(* Which sessions of the host a sub-user may use.  The database holds the  *)
(* permissions; the gateway keeps a snapshot of what they amount to, and   *)
(* an epoch that every change of them advances.  Requests take both at     *)
(* their start and come back after an await: the body, the baseline, the   *)
(* confirmation of a sandbox mode, the host's answer.  Meanwhile           *)
(* administrators save permissions, in handlers that await as well.        *)
(*                                                                         *)
(* One sub-user.  `closed' stands for the sessions switched off one by one *)
(* and those outside the allowed folders.  A handler is one step from one  *)
(* await to the next.                                                      *)
(***************************************************************************)
EXTENDS Integers, Sequences

CONSTANTS
  Session,
  Request,         \* requests of the sub-user, each made once
  Admin,           \* permission saves, each made once
  Migrated,        \* BOOLEAN: session_grants_seeded is set from the start
  Ordered          \* BOOLEAN: the host takes sandbox modes up in the order
                   \* they were sent, and none it timed out on

Narrow == 1        \* ranks of SANDBOX_RANK: a session that writes less, ...
Wide == 2          \* ... one that writes more,
NoPolicy == 3      \* ... and sandbox_mode NULL: nothing is imposed
Rank == {Narrow, Wide}
Policy == {Narrow, Wide, NoPolicy}
Nobody == "nobody" \* no session; nobody who waits for a confirmation

ASSUME SessionAccessAssumption ==
  /\ {Migrated, Ordered} \subseteq BOOLEAN
  /\ Nobody \notin Request \cup Admin \cup Session
  /\ Request \cap Admin = {}

VARIABLES
  grants, closed, policy, seeded,        \* the database
  ready, access, epoch, order, newest,   \* userSessionAccess, userAccessEpoch,
                                         \* the number of the last list request,
                                         \* userAccessListOrder
  req,             \* [Request -> what the request carries across its awaits]
  save,            \* [Admin -> what the save carries across its awaits]
  known, log,      \* the host: its sessions and their sandbox modes
  sent             \* [Session -> the modes on their way to its log, in order]

dbVars == <<grants, closed, policy, seeded>>
memVars == <<ready, access, epoch, order, newest>>
hostVars == <<known, log, sent>>
vars == <<dbVars, memVars, req, save, hostVars>>

Least(m, n) == IF m < n THEN m ELSE n

------------------------------------------------------------------------------
(* The snapshot.                                                           *)

(* sessionAccessStillAuthorized(), under the permissions the caller holds. *)
Authorized(granted, off) == granted \ off

(* mergeAuthorizedAccess()                                                 *)
Merged(visible, granted, off) == (access \cup visible) \cap Authorized(granted, off)

(* Slip: an answer from before the last change is accepted.                *)
MayReplaceStale(e, n) == n = 0 \/ n >= newest

(* replaceUserSessionAccess(): not for a request older than the epoch, nor *)
(* for a list older than the newest one.                                   *)
MayReplace(e, n) == e >= epoch /\ (n = 0 \/ n >= newest)

Replace(snapshot, e, n) ==
  IF MayReplace(e, n)
    THEN /\ ready' = TRUE
         /\ access' = snapshot
         /\ newest' = IF n = 0 THEN newest ELSE n
    ELSE UNCHANGED <<ready, access, newest>>

------------------------------------------------------------------------------
(* A mode on its way to the session's log (applySandboxToSession).         *)

Apply(by, mode) == [by |-> by, mode |-> mode]

(* The sessions whose mode, sent by this one, has not landed.              *)
Pending(by) == {s \in Session : \E i \in DOMAIN sent[s] : sent[s][i].by = by}

SendMode(by, targets, mode) ==
  sent' = [s \in Session |->
             IF s \in targets THEN Append(sent[s], Apply(by, mode)) ELSE sent[s]]

(* What is left of a list once its entry at i is taken.                    *)
Without(list, i) == SubSeq(list, 1, i - 1) \o SubSeq(list, i + 1, Len(list))

(* A wait is over: the mode it was for, of which a session has at most     *)
(* one, is withdrawn. The host may still take a mode up that timed out.    *)
Abandon(by) ==
  \E stray \in IF Ordered THEN {{}} ELSE SUBSET Pending(by) :
    sent' = [s \in Session |->
      LET i == CHOOSE i \in DOMAIN sent[s] : sent[s][i].by = by
      IN  IF s \notin Pending(by) THEN sent[s]
          ELSE IF s \in stray THEN [sent[s] EXCEPT ![i].by = Nobody]
          ELSE Without(sent[s], i)]

(* The host takes up the mode at place i.                                  *)
Lands(s, i) ==
  /\ i \in DOMAIN sent[s]
  /\ Ordered => i = 1
  /\ log' = [log EXCEPT ![s] = sent[s][i].mode]
  /\ sent' = [sent EXCEPT ![s] = Without(@, i)]
  /\ UNCHANGED <<dbVars, memVars, req, save, known>>

------------------------------------------------------------------------------
(* Requests of the sub-user.                                               *)

NoRequest == [phase |-> "idle", kind |-> "list", session |-> Nobody, epoch |-> 0,
              closed |-> {}, policy |-> NoPolicy, order |-> 0]

Goto(r, phase) == req' = [req EXCEPT ![r].phase = phase]

(* The request is passed on, or it is answered without being passed on.    *)
Finish(r, phase) == req' = [req EXCEPT ![r] = [NoRequest EXCEPT !.phase = phase]]

(* The permissions and the epoch are read in one go at the start.          *)
Arrives(r, kind, s, n, phase) ==
  /\ req[r].phase = "idle"
  /\ req' = [req EXCEPT ![r] =
       [phase |-> phase, kind |-> kind, session |-> s, epoch |-> epoch,
        closed |-> closed, policy |-> policy, order |-> n]]

StartList(r) ==
  /\ order' = order + 1
  /\ Arrives(r, "list", Nobody, order + 1, "listing")
  /\ UNCHANGED <<dbVars, ready, access, epoch, newest, save, hostVars>>

(* The host's answer to workspace.list, possibly not all of it; a user who *)
(* predates the grants is given what it shows.                             *)
ListAnswered(r) ==
  /\ req[r].phase = "listing"
  /\ \E visible \in SUBSET known :
       LET off  == req[r].closed
           seed == IF seeded THEN {} ELSE visible \ off
       IN  /\ grants' = grants \cup seed
           /\ Replace(Merged(visible \ off, grants \cup seed, off),
                      req[r].epoch, req[r].order)
  /\ seeded' = TRUE
  /\ Finish(r, "ended")
  /\ UNCHANGED <<closed, policy, epoch, order, save, hostVars>>

(* A baseline of the mux: filtered under the permissions of the moment.    *)
Baseline ==
  /\ \E visible \in SUBSET known :
       Replace(Merged(visible, grants, closed), epoch, 0)
  /\ seeded' = TRUE
  /\ UNCHANGED <<grants, closed, policy, epoch, order, req, save, hostVars>>

StartCreate(r, s) ==
  /\ s \notin known
  /\ \A q \in Request : req[q].phase # "idle" => req[q].kind # "create" \/ req[q].session # s
  /\ Arrives(r, "create", s, 0, "creating")
  /\ UNCHANGED <<dbVars, memVars, save, hostVars>>

HostCreates(r) ==
  /\ req[r].phase = "creating"
  /\ known' = known \cup {req[r].session}
  /\ log' = [log EXCEPT ![req[r].session] = Wide]
  /\ Goto(r, "created")
  /\ UNCHANGED <<dbVars, memVars, save, sent>>

(* strictestSandboxMode() of the start and of now.                         *)
Imposed(r) == Least(req[r].policy, policy)

(* Slip: the epoch is not compared.                                        *)
UnfencedSince(r) == TRUE

(* No permission has changed since the request started.                    *)
Unfenced(r) == req[r].epoch = epoch

(* The new session is granted, if nothing has changed since the start.     *)
Attach(r) ==
  LET s == req[r].session
      given == {s} \ closed
  IN  IF Unfenced(r)
        THEN /\ grants' = grants \cup given
             /\ Replace(access \cup given, req[r].epoch, 0)
        ELSE UNCHANGED <<grants, ready, access, newest>>

(* The host's answer to session.create: confine the session first.         *)
CreateAnswered(r) ==
  /\ req[r].phase = "created"
  /\ IF Imposed(r) = NoPolicy
       THEN Attach(r) /\ Finish(r, "ended") /\ UNCHANGED sent
       ELSE /\ SendMode(r, {req[r].session}, Imposed(r))
            /\ Goto(r, "confining")
            /\ UNCHANGED <<grants, ready, access, newest>>
  /\ UNCHANGED <<closed, policy, seeded, epoch, order, save, known, log>>

CreateConfined(r) ==
  /\ req[r].phase = "confining" /\ req[r].kind = "create"
  /\ Pending(r) = {}
  /\ Attach(r)
  /\ Finish(r, "ended")
  /\ UNCHANGED <<closed, policy, seeded, epoch, order, save, hostVars>>

(* 502: the session stays without a grant, the prompt is not passed on.    *)
ConfiningFails(r) ==
  /\ req[r].phase = "confining"
  /\ Abandon(r)
  /\ Finish(r, "ended")
  /\ UNCHANGED <<dbVars, memVars, save, known, log>>

StartUse(r, s, kind) ==
  /\ Arrives(r, kind, s, 0, "arriving")
  /\ UNCHANGED <<dbVars, memVars, save, hostVars>>

(* Slip: the snapshot is not consulted.                                    *)
OwnsByGrants(r) == req[r].session \in Authorized(grants, req[r].closed)

(* The ownership check, with the permissions of the start and the snapshot *)
(* and grants of now.                                                      *)
Owns(r) == req[r].session \in access \cap Authorized(grants, req[r].closed)

(* The check after the await, all of it with what holds now.               *)
StillOwns(r) ==
  /\ Unfenced(r)
  /\ ~(policy < req[r].policy)
  /\ req[r].session \in access \cap Authorized(grants, closed)

(* The body has arrived, or the snapshot: a prompt confines its session.   *)
Check(r) ==
  IF ~Owns(r) THEN Finish(r, "ended") /\ UNCHANGED sent
  ELSE IF req[r].kind = "read" THEN Finish(r, "forwarded") /\ UNCHANGED sent
  ELSE IF Imposed(r) = NoPolicy
    THEN Finish(r, IF StillOwns(r) THEN "forwarded" ELSE "ended") /\ UNCHANGED sent
  ELSE /\ SendMode(r, {req[r].session}, Imposed(r))
       /\ Goto(r, "confining")

BodyArrives(r) ==
  /\ req[r].phase = "arriving"
  /\ IF ready THEN Check(r) ELSE Goto(r, "waiting") /\ UNCHANGED sent
  /\ UNCHANGED <<dbVars, memVars, save, known, log>>

(* waitForUserSessionAccess(): woken by a snapshot, or after five seconds. *)
Woken(r) ==
  /\ req[r].phase = "waiting"
  /\ ready
  /\ Check(r)
  /\ UNCHANGED <<dbVars, memVars, save, known, log>>

WaitTimesOut(r) ==
  /\ req[r].phase = "waiting"
  /\ Finish(r, "ended")
  /\ UNCHANGED <<dbVars, memVars, save, hostVars>>

(* Slip: the mode is sent but not confirmed.                               *)
PromptConfinedUnseen(r) ==
  /\ req[r].phase = "confining" /\ req[r].kind = "prompt"
  /\ Finish(r, IF StillOwns(r) THEN "forwarded" ELSE "ended")
  /\ UNCHANGED <<dbVars, memVars, save, hostVars>>

PromptConfined(r) ==
  /\ req[r].phase = "confining" /\ req[r].kind = "prompt"
  /\ Pending(r) = {}
  /\ Finish(r, IF StillOwns(r) THEN "forwarded" ELSE "ended")
  /\ UNCHANGED <<dbVars, memVars, save, hostVars>>

------------------------------------------------------------------------------
(* An administrator saves the permissions.                                 *)

(* Slip: what was switched off meanwhile is not compared.                  *)
UnchangedSince(d) ==
  /\ policy = d.policy
  /\ d.submitted => grants = d.grants

(* The baselines setPermissions() compares inside its transaction.         *)
AsExpected(d) ==
  /\ closed = d.closed /\ policy = d.policy
  /\ d.submitted => grants = d.grants

(* Slip: the sessions are handed over although no mode is imposed.         *)
ToEnforceAlways(d) ==
  (d.newGrants \ d.grants)
    \cup (IF d.newPolicy < d.policy THEN d.newGrants \cap d.grants ELSE {})

(* What the commit hands to applySandboxToSessions(): grants of before if  *)
(* the mode was tightened, and all the new ones.                           *)
ToEnforce(d) ==
  IF d.newPolicy = NoPolicy THEN {}
  ELSE (d.newGrants \ d.grants)
       \cup (IF d.newPolicy < d.policy THEN d.newGrants \cap d.grants ELSE {})

AccessChanges(d) ==
  \/ d.newClosed # d.closed
  \/ d.newPolicy # d.policy
  \/ d.folders
  \/ d.submitted /\ d.newGrants # d.grants

NoSave == [phase |-> "idle", grants |-> {}, closed |-> {}, policy |-> NoPolicy,
           submitted |-> FALSE, folders |-> FALSE, newGrants |-> {}, newClosed |-> {},
           newPolicy |-> NoPolicy, targets |-> {}]

(* invalidateUserSessionAccess()                                           *)
Invalidate == ready' = FALSE /\ access' = {} /\ epoch' = epoch + 1

(* setPermissions(), then, before any await, the epoch, the snapshot and   *)
(* the carriers; the sandbox modes are sent.                               *)
Commit(a, d) ==
  IF ~AsExpected(d)
    THEN /\ save' = [save EXCEPT ![a] = [NoSave EXCEPT !.phase = "over"]]
         /\ UNCHANGED <<dbVars, ready, access, epoch, sent>>
    ELSE /\ closed' = d.newClosed
         /\ policy' = d.newPolicy
         /\ grants' = IF d.submitted THEN d.newGrants ELSE grants
         /\ seeded' = (seeded \/ d.submitted \/ d.folders)
         /\ IF AccessChanges(d) THEN Invalidate ELSE UNCHANGED <<ready, access, epoch>>
         /\ SendMode(a, ToEnforce(d), d.newPolicy)
         /\ save' = [save EXCEPT ![a] =
              [NoSave EXCEPT !.phase = IF ToEnforce(d) = {} THEN "over" ELSE "enforcing",
                             !.targets = ToEnforce(d)]]

(* The request: what it found and what it wants; grants it drops must be   *)
(* switched off as well.                                                   *)
Draft(submitted, folders, newGrants, newClosed, newPolicy) ==
  [phase |-> "probing", grants |-> grants, closed |-> closed, policy |-> policy,
   submitted |-> submitted, folders |-> folders, newGrants |-> newGrants,
   newClosed |-> newClosed, newPolicy |-> newPolicy, targets |-> {}]

(* Without session grants and folders nothing is awaited before the commit.*)
SaveOthers(a) ==
  /\ save[a].phase = "idle"
  /\ \E newClosed \in SUBSET Session, newPolicy \in Policy :
       Commit(a, Draft(FALSE, FALSE, grants, newClosed, newPolicy))
  /\ UNCHANGED <<order, newest, req, known, log>>

(* With them, the host's inventory is awaited.                             *)
SaveProbing(a) ==
  /\ save[a].phase = "idle"
  /\ \E newClosed \in SUBSET Session, newPolicy \in Policy, folders \in BOOLEAN :
       \/ \E newGrants \in SUBSET (known \cup grants) :
            /\ grants \ newGrants \subseteq newClosed
            /\ save' = [save EXCEPT ![a] =
                 Draft(TRUE, folders, newGrants, newClosed, newPolicy)]
       \/ /\ folders
          /\ save' = [save EXCEPT ![a] =
               Draft(FALSE, TRUE, grants, newClosed, newPolicy)]
  /\ UNCHANGED <<dbVars, memVars, req, hostVars>>

SaveProbed(a) ==
  /\ save[a].phase = "probing"
  /\ Commit(a, save[a])
  /\ UNCHANGED <<order, newest, req, known, log>>

(* Every mode is confirmed or has failed: the grants of those that failed  *)
(* are taken back.                                                         *)
SaveEnforced(a) ==
  /\ save[a].phase = "enforcing"
  /\ \E failed \in SUBSET save[a].targets :
       /\ Pending(a) \subseteq failed
       /\ grants' = grants \ failed
       /\ Abandon(a)
       /\ IF failed # {} THEN Invalidate ELSE UNCHANGED <<ready, access, epoch>>
  /\ save' = [save EXCEPT ![a] = [NoSave EXCEPT !.phase = "over"]]
  /\ UNCHANGED <<closed, policy, seeded, order, newest, req, known, log>>

------------------------------------------------------------------------------
Init ==
  /\ known \in SUBSET Session
  /\ grants \in SUBSET known /\ closed = {} /\ policy \in Policy
  /\ seeded = Migrated
  /\ ready = FALSE /\ access = {} /\ epoch = 0 /\ order = 0 /\ newest = 0
  /\ req = [r \in Request |-> NoRequest]
  /\ save = [a \in Admin |-> NoSave]
  /\ log = [s \in Session |-> IF s \in grants THEN Least(Wide, policy) ELSE Wide]
  /\ sent = [s \in Session |-> <<>>]

RequestStep(r) ==
  \/ \E s \in Session : \/ StartCreate(r, s)
                        \/ \E kind \in {"read", "prompt"} : StartUse(r, s, kind)
  \/ StartList(r) \/ ListAnswered(r) \/ HostCreates(r) \/ CreateAnswered(r) \/ CreateConfined(r)
  \/ ConfiningFails(r) \/ BodyArrives(r) \/ Woken(r) \/ WaitTimesOut(r)
  \/ PromptConfined(r)

Next ==
  \/ \E r \in Request : RequestStep(r)
  \/ \E a \in Admin :
       SaveOthers(a) \/ SaveProbing(a) \/ SaveProbed(a) \/ SaveEnforced(a)
  \/ \E s \in Session : \E i \in DOMAIN sent[s] : Lands(s, i)
  \/ Baseline

Spec == Init /\ [][Next]_vars

------------------------------------------------------------------------------
RequestType ==
  [phase : {"idle", "listing", "creating", "created", "confining", "arriving",
            "waiting", "forwarded", "ended"},
   kind : {"list", "create", "read", "prompt"}, session : Session \cup {Nobody},
   epoch : Nat, closed : SUBSET Session, policy : Policy, order : Nat]
SaveType ==
  [phase : {"idle", "probing", "enforcing", "over"},
   grants : SUBSET Session, closed : SUBSET Session, policy : Policy,
   submitted : BOOLEAN, folders : BOOLEAN, newGrants : SUBSET Session,
   newClosed : SUBSET Session, newPolicy : Policy, targets : SUBSET Session]

(* Every variable keeps its type, and an epoch or a list number that a     *)
(* request took is one that was handed out.                                *)
TypeOK ==
  /\ grants \subseteq Session /\ closed \subseteq Session
  /\ policy \in Policy /\ {seeded, ready} \subseteq BOOLEAN
  /\ access \subseteq Session
  /\ epoch \in Nat /\ order \in Nat /\ newest \in 0..order
  /\ req \in [Request -> RequestType]
  /\ save \in [Admin -> SaveType]
  /\ known \subseteq Session /\ log \in [Session -> Rank]
  /\ sent \in [Session -> Seq([by : Request \cup Admin \cup {Nobody}, mode : Rank])]
  /\ \A r \in Request : req[r].epoch \in 0..epoch /\ req[r].order \in 0..order

(* The snapshot, from which requests are admitted, never holds a session   *)
(* the database does not allow at this moment, whatever answers, baselines *)
(* and saves came in between and in whatever order.                        *)
SnapshotAuthorized == access \subseteq Authorized(grants, closed)

(* What is passed on to the host is allowed when it is passed on, however  *)
(* long the request waited and whatever was withdrawn since it came in.    *)
ForwardsWhatIsAllowed ==
  [][\A r \in Request :
       req'[r].phase = "forwarded" /\ req[r].phase # "forwarded" =>
         req[r].session \in Authorized(grants, closed)]_vars

(* A prompt is passed on with a session that writes no more than the       *)
(* user's policy of that moment allows, although the session may be one    *)
(* the owner shared and other requests and saves impose modes of their own.*)
RunsConfined ==
  [][\A r \in Request :
       /\ req[r].kind = "prompt"
       /\ req'[r].phase = "forwarded" /\ req[r].phase # "forwarded"
       => log[req[r].session] <= policy]_vars

(* An answer to a request from before a change of permissions never gives  *)
(* a session to the user.                                                  *)
StaleNeverGrants ==
  [][\A r \in Request :
       req'[r] # req[r] /\ grants' # grants => req[r].epoch = epoch]_vars

(* A save only takes back what it has seen: a session granted while the    *)
(* save waited for the host is not lost, and one switched off meanwhile is *)
(* not switched on again.                                                  *)
UndoesWhatItSaw ==
  /\ \A s \in grants \ grants' :
       \E a \in Admin : save'[a] # save[a] /\ s \in save[a].grants \cup save[a].targets
  /\ \A s \in closed \ closed' :
       \E a \in Admin : /\ save'[a] # save[a]
                        /\ save[a].phase = "probing" => s \in save[a].closed

(* Once nothing is under way, every session the user was granted is        *)
(* confined to the policy.                                                 *)
Quiet ==
  /\ \A r \in Request : req[r].phase \in {"idle", "forwarded", "ended"}
  /\ \A a \in Admin : save[a].phase \in {"idle", "over"}
GrantsConfined == Quiet => \A s \in grants : log[s] <= policy
==============================================================================
