------------------------- MODULE SessionAccessProofs -------------------------
(***************************************************************************)
(* The fence of SessionAccess, for any number of sessions, requests and    *)
(* saves.  The snapshot is authorized because whoever replaces it holds    *)
(* either the permissions of the moment or those of the current epoch, and *)
(* within one epoch the sessions switched off do not change.  At the end:  *)
(* a prompt runs in a session whose mode the policy allows.                *)
(***************************************************************************)
EXTENDS SessionAccess, TLAPS

(* The request has taken its permissions and will still use them; but for  *)
(* workspace.list it is about a session.                                   *)
AboutSession(r) == req[r].phase \in {"creating", "created", "confining", "arriving", "waiting"}
UnderWay(r) == req[r].phase = "listing" \/ AboutSession(r)

(* What the fence needs of the types.                                      *)
Shape ==
  /\ grants \subseteq Session /\ closed \subseteq Session /\ known \subseteq Session
  /\ policy \in Policy /\ epoch \in Nat /\ order \in Nat
  /\ req \in [Request -> RequestType]
  /\ save \in [Admin -> SaveType]

SessionsNamed == \A r \in Request : AboutSession(r) => req[r].session \in Session

(* No request is ahead of the epoch, and one that is not behind holds the  *)
(* sessions switched off at this moment.                                   *)
FenceHolds ==
  \A r \in Request : UnderWay(r) =>
    /\ req[r].epoch <= epoch
    /\ req[r].epoch = epoch => req[r].closed = closed

FenceInv == Shape /\ SessionsNamed /\ FenceHolds /\ SnapshotAuthorized

------------------------------------------------------------------------------
(* The records that requests and saves are reset to have their type.       *)
LEMMA ResetTypes ==
  /\ \A phase \in {"ended", "forwarded"} : [NoRequest EXCEPT !.phase = phase] \in RequestType
  /\ NoRequest \in RequestType
  /\ NoSave \in SaveType
  /\ [NoSave EXCEPT !.phase = "over"] \in SaveType
  /\ \A phase \in {"over", "enforcing"}, targets \in SUBSET Session :
       [NoSave EXCEPT !.phase = phase, !.targets = targets] \in SaveType
BY DEF NoRequest, NoSave, RequestType, SaveType, Policy, NoPolicy

(* A request that only moves on, or ends, keeps the type and the fence.    *)
LEMMA MovesOn ==
  ASSUME Shape, SessionsNamed, FenceHolds, NEW r \in Request, closed' = closed, epoch' = epoch,
         \/ \E phase \in {"created", "confining", "waiting"} :
              Goto(r, phase) /\ AboutSession(r)
         \/ \E phase \in {"ended", "forwarded"} : Finish(r, phase)
  PROVE  req' \in [Request -> RequestType] /\ SessionsNamed' /\ FenceHolds'
<1>1. CASE \E phase \in {"created", "confining", "waiting"} : Goto(r, phase) /\ AboutSession(r)
  <2>1. PICK phase \in {"created", "confining", "waiting"} : Goto(r, phase) /\ AboutSession(r)
    BY <1>1
  <2>2. [req[r] EXCEPT !.phase = phase] \in RequestType
    BY DEF Shape, RequestType
  <2>3. req' \in [Request -> RequestType]
    BY <2>1, <2>2 DEF Goto, Shape
  <2>4. \A q \in Request : /\ req'[q].epoch = req[q].epoch
                           /\ req'[q].closed = req[q].closed
                           /\ req'[q].session = req[q].session
                           /\ AboutSession(q)' => AboutSession(q)
                           /\ UnderWay(q)' => UnderWay(q)
    BY <2>1 DEF Goto, Shape, RequestType, AboutSession, UnderWay
  <2>. QED  BY <2>3, <2>4 DEF FenceHolds, SessionsNamed
<1>2. CASE \E phase \in {"ended", "forwarded"} : Finish(r, phase)
  <2>1. PICK phase \in {"ended", "forwarded"} : Finish(r, phase)
    BY <1>2
  <2>2. req' \in [Request -> RequestType]
    BY <2>1, ResetTypes DEF Finish, Shape
  <2>3. req'[r].phase = phase
    BY <2>1 DEF Finish, Shape, NoRequest
  <2>4. \A q \in Request : q # r => req'[q] = req[q]
    BY <2>1 DEF Finish, Shape
  <2>. QED  BY <2>2, <2>3, <2>4 DEF FenceHolds, SessionsNamed, UnderWay, AboutSession
<1>. QED  BY <1>1, <1>2

(* Whoever replaces the snapshot with one that is authorized leaves it so. *)
LEMMA ReplaceAuthorized ==
  ASSUME SnapshotAuthorized, NEW snapshot, NEW e, NEW n, Replace(snapshot, e, n),
         grants \subseteq grants', closed' = closed,
         MayReplace(e, n) => snapshot \subseteq Authorized(grants', closed')
  PROVE  SnapshotAuthorized'
BY DEF SnapshotAuthorized, Authorized, Replace

(* A step that touches neither the permissions nor the snapshot.           *)
LEMMA Untouched ==
  ASSUME SnapshotAuthorized, grants' = grants, closed' = closed, access' = access
  PROVE  SnapshotAuthorized'
BY DEF SnapshotAuthorized, Authorized

------------------------------------------------------------------------------
(* Requests.                                                               *)

LEMMA StartKeeps ==
  ASSUME FenceInv, NEW r \in Request, NEW kind \in {"list", "create", "read", "prompt"},
         NEW s \in Session \cup {Nobody}, NEW n \in Nat,
         NEW phase \in {"listing", "creating", "arriving"}, Arrives(r, kind, s, n, phase),
         phase # "listing" => s \in Session,
         order' \in Nat, UNCHANGED <<dbVars, access, epoch, save, known>>
  PROVE  FenceInv'
<1> DEFINE q == [phase |-> phase, kind |-> kind, session |-> s, epoch |-> epoch,
                 closed |-> closed, policy |-> policy, order |-> n]
<1>1. q \in RequestType
  BY DEF RequestType, FenceInv, Shape
<1>2. req' = [req EXCEPT ![r] = q]
  BY DEF Arrives
<1>3. Shape'
  BY <1>1, <1>2 DEF FenceInv, Shape, dbVars
<1>4. q.epoch = epoch /\ q.closed = closed /\ q.session = s /\ q.phase = phase
  OBVIOUS
<1> HIDE DEF q
<1>5. FenceHolds' /\ SessionsNamed'
  BY <1>2, <1>4 DEF FenceInv, Shape, FenceHolds, SessionsNamed, UnderWay, AboutSession, dbVars
<1>6. SnapshotAuthorized'
  BY Untouched DEF FenceInv, dbVars
<1>. QED  BY <1>3, <1>5, <1>6 DEF FenceInv

(* An answer, at which the request ends or goes on to confine its session. *)
LEMMA AnswerKeeps ==
  ASSUME FenceInv, NEW r \in Request,
         \/ \E phase \in {"created", "confining", "waiting"} :
              Goto(r, phase) /\ AboutSession(r)
         \/ \E phase \in {"ended", "forwarded"} : Finish(r, phase),
         closed' = closed, epoch' = epoch, policy' = policy, order' = order, save' = save,
         grants' \subseteq Session, known' \subseteq Session,
         SnapshotAuthorized'
  PROVE  FenceInv'
<1>1. req' \in [Request -> RequestType] /\ SessionsNamed' /\ FenceHolds'
  BY MovesOn DEF FenceInv
<1>. QED  BY <1>1 DEF FenceInv, Shape

LEMMA ListKeeps ==
  ASSUME FenceInv, NEW r \in Request, ListAnswered(r)
  PROVE  FenceInv'
<1>1. PICK visible \in SUBSET known :
        LET off  == req[r].closed
            seed == IF seeded THEN {} ELSE visible \ off
        IN  /\ grants' = grants \cup seed
            /\ Replace(Merged(visible \ off, grants \cup seed, off),
                       req[r].epoch, req[r].order)
  BY DEF ListAnswered
<1> DEFINE off == req[r].closed
           snapshot == Merged(visible \ off, grants', off)
<1>2. grants \subseteq grants' /\ grants' \subseteq Session
  BY <1>1 DEF FenceInv, Shape
<1>3. Replace(snapshot, req[r].epoch, req[r].order)
  BY <1>1
<1>4. closed' = closed /\ epoch' = epoch /\ policy' = policy /\ order' = order /\ save' = save
        /\ known' = known /\ Finish(r, "ended")
  BY DEF ListAnswered, hostVars
<1>5. ASSUME MayReplace(req[r].epoch, req[r].order)
      PROVE  snapshot \subseteq Authorized(grants', closed')
  <2>1. UnderWay(r)
    BY DEF ListAnswered, UnderWay, AboutSession
  <2>2. req[r].epoch \in Nat /\ epoch \in Nat
    BY DEF FenceInv, Shape, RequestType
  <2>3. req[r].epoch <= epoch /\ req[r].epoch >= epoch
    BY <1>5, <2>1 DEF MayReplace, FenceInv, FenceHolds
  <2>4. off = closed
    BY <2>1, <2>2, <2>3 DEF FenceInv, FenceHolds
  <2>. QED  BY <2>4, <1>4 DEF Merged, Authorized
<1> HIDE DEF snapshot
<1>6. SnapshotAuthorized'
  BY <1>2, <1>3, <1>4, <1>5, ReplaceAuthorized DEF FenceInv
<1>. QED  BY <1>2, <1>4, <1>6, AnswerKeeps DEF FenceInv, Shape

(* The new session is attached to a snapshot of the current epoch.         *)
LEMMA AttachKeeps ==
  ASSUME FenceInv, NEW r \in Request, Attach(r), Finish(r, "ended"),
         AboutSession(r), UNCHANGED <<closed, policy, epoch, order, save, known>>
  PROVE  FenceInv'
<1>0. req[r].session \in Session
  BY DEF FenceInv, SessionsNamed
<1>1. CASE ~Unfenced(r)
  <2>1. SnapshotAuthorized'
    BY <1>1, Untouched DEF Attach, FenceInv
  <2>2. grants' \subseteq Session
    BY <1>1 DEF Attach, FenceInv, Shape
  <2>. QED  BY <2>1, <2>2, AnswerKeeps DEF FenceInv, Shape
<1>2. CASE Unfenced(r)
  <2> DEFINE given == {req[r].session} \ closed
  <2>1. grants' = grants \cup given /\ Replace(access \cup given, req[r].epoch, 0)
    BY <1>2 DEF Attach
  <2>2. access \cup given \subseteq Authorized(grants', closed')
    BY <2>1 DEF FenceInv, SnapshotAuthorized, Authorized
  <2>3. SnapshotAuthorized'
    BY <2>1, <2>2, ReplaceAuthorized DEF FenceInv
  <2>4. grants' \subseteq Session
    BY <2>1, <1>0 DEF FenceInv, Shape
  <2>. QED  BY <2>3, <2>4, AnswerKeeps DEF FenceInv, Shape
<1>. QED  BY <1>1, <1>2

(* The requests that leave permissions and snapshot alone.                 *)
LEMMA UseKeeps ==
  ASSUME FenceInv, NEW r \in Request, AboutSession(r),
         \/ BodyArrives(r) \/ Woken(r) \/ WaitTimesOut(r) \/ PromptConfined(r)
         \/ ConfiningFails(r) \/ HostCreates(r)
  PROVE  FenceInv'
<1>1. \/ \E phase \in {"created", "confining", "waiting"} :
           Goto(r, phase) /\ AboutSession(r)
      \/ \E phase \in {"ended", "forwarded"} : Finish(r, phase)
  BY DEF BodyArrives, Woken, WaitTimesOut, PromptConfined, ConfiningFails, HostCreates, Check
<1>2. known' \subseteq Session
  BY DEF BodyArrives, Woken, WaitTimesOut, PromptConfined, ConfiningFails, HostCreates,
         hostVars, FenceInv, Shape, SessionsNamed
<1>3. UNCHANGED <<dbVars, memVars, save>>
  BY DEF BodyArrives, Woken, WaitTimesOut, PromptConfined, ConfiningFails, HostCreates
<1>4. SnapshotAuthorized'
  BY <1>3, Untouched DEF FenceInv, dbVars, memVars
<1>. QED  BY <1>1, <1>2, <1>3, <1>4, AnswerKeeps DEF FenceInv, Shape, dbVars, memVars

LEMMA RequestKeeps ==
  ASSUME FenceInv, NEW r \in Request, RequestStep(r)
  PROVE  FenceInv'
<1>1. CASE \E s \in Session : StartCreate(r, s)
  BY <1>1, StartKeeps DEF StartCreate, memVars, hostVars, FenceInv, Shape
<1>2. CASE \E s \in Session : \E kind \in {"read", "prompt"} : StartUse(r, s, kind)
  BY <1>2, StartKeeps DEF StartUse, memVars, hostVars, FenceInv, Shape
<1>3. CASE StartList(r)
  BY <1>3, StartKeeps DEF StartList, hostVars, FenceInv, Shape
<1>4. CASE ListAnswered(r)
  BY <1>4, ListKeeps
<1>5. CASE CreateAnswered(r)
  <2>1. AboutSession(r)
    BY <1>5 DEF CreateAnswered, AboutSession
  <2>2. CASE Attach(r) /\ Finish(r, "ended")
    BY <1>5, <2>1, <2>2, AttachKeeps DEF CreateAnswered
  <2>3. CASE Goto(r, "confining") /\ UNCHANGED <<grants, ready, access, newest>>
    <3>1. SnapshotAuthorized'
      BY <1>5, <2>3, Untouched DEF CreateAnswered, FenceInv
    <3>. QED  BY <1>5, <2>1, <2>3, <3>1, AnswerKeeps DEF CreateAnswered, FenceInv, Shape
  <2>. QED  BY <1>5, <2>2, <2>3 DEF CreateAnswered
<1>6. CASE CreateConfined(r)
  BY <1>6, AttachKeeps DEF CreateConfined, AboutSession, hostVars
<1>7. CASE \/ BodyArrives(r) \/ Woken(r) \/ WaitTimesOut(r) \/ PromptConfined(r)
           \/ ConfiningFails(r) \/ HostCreates(r)
  <2>1. AboutSession(r)
    BY <1>7 DEF AboutSession, BodyArrives, Woken, WaitTimesOut, PromptConfined,
                ConfiningFails, HostCreates
  <2>. QED  BY <1>7, <2>1, UseKeeps
<1>. QED  BY <1>1, <1>2, <1>3, <1>4, <1>5, <1>6, <1>7 DEF RequestStep

------------------------------------------------------------------------------
(* Saves.                                                                  *)

(* Once the epoch advances, no request is level with it.                   *)
LEMMA FenceAdvances ==
  ASSUME FenceInv, epoch' = epoch + 1, req' = req
  PROVE  FenceHolds' /\ SessionsNamed'
<1>1. \A r \in Request : req[r].epoch \in Nat /\ epoch \in Nat
  BY DEF FenceInv, Shape, RequestType
<1>. QED  BY <1>1 DEF FenceInv, FenceHolds, SessionsNamed, UnderWay, AboutSession

LEMMA FenceStays ==
  ASSUME FenceInv, epoch' = epoch, req' = req, closed' = closed
  PROVE  FenceHolds' /\ SessionsNamed'
BY DEF FenceInv, FenceHolds, SessionsNamed, UnderWay, AboutSession

LEMMA CommitKeeps ==
  ASSUME FenceInv, NEW a \in Admin, NEW d \in SaveType, Commit(a, d),
         UNCHANGED <<order, req, known>>
  PROVE  FenceInv'
<1>1. CASE ~AsExpected(d)
  <2>1. UNCHANGED <<dbVars, access, epoch>>
    BY <1>1 DEF Commit
  <2>2. save' \in [Admin -> SaveType]
    BY <1>1, ResetTypes DEF Commit, FenceInv, Shape
  <2>3. SnapshotAuthorized'
    BY <2>1, Untouched DEF FenceInv, dbVars
  <2>. QED  BY <2>1, <2>2, <2>3, FenceStays DEF FenceInv, Shape, dbVars
<1>2. CASE AsExpected(d)
  <2> DEFINE phase == IF ToEnforce(d) = {} THEN "over" ELSE "enforcing"
  <2>1. /\ closed' = d.newClosed /\ policy' = d.newPolicy
        /\ grants' = IF d.submitted THEN d.newGrants ELSE grants
        /\ save' = [save EXCEPT ![a] =
             [NoSave EXCEPT !.phase = phase, !.targets = ToEnforce(d)]]
    BY <1>2 DEF Commit
  <2>2. ToEnforce(d) \subseteq Session
    BY DEF ToEnforce, SaveType
  <2>3. save' \in [Admin -> SaveType]
    <3>1. [NoSave EXCEPT !.phase = phase, !.targets = ToEnforce(d)] \in SaveType
      BY <2>2, ResetTypes
    <3>. QED  BY <2>1, <3>1 DEF FenceInv, Shape
  <2>4. CASE AccessChanges(d)
    <3>1. Invalidate
      BY <1>2, <2>4 DEF Commit
    <3>2. closed' \subseteq Session /\ policy' \in Policy /\ grants' \subseteq Session
      BY <2>1 DEF FenceInv, Shape, SaveType
    <3>3. epoch' \in Nat
      BY <3>1 DEF Invalidate, FenceInv, Shape
    <3>4. Shape'
      BY <2>3, <3>2, <3>3 DEF FenceInv, Shape
    <3>5. SnapshotAuthorized'
      BY <3>1 DEF Invalidate, SnapshotAuthorized
    <3>. QED  BY <3>1, <3>4, <3>5, FenceAdvances DEF Invalidate, FenceInv
  <2>5. CASE ~AccessChanges(d)
    <3>1. UNCHANGED <<access, epoch>>
      BY <1>2, <2>5 DEF Commit
    <3>2. closed' = closed /\ grants' = grants /\ policy' = policy
      BY <1>2, <2>1, <2>5 DEF AsExpected, AccessChanges
    <3>3. Shape'
      BY <2>3, <3>1, <3>2 DEF FenceInv, Shape
    <3>4. SnapshotAuthorized'
      BY <3>1, <3>2, Untouched DEF FenceInv
    <3>. QED  BY <3>1, <3>2, <3>3, <3>4, FenceStays DEF FenceInv
  <2>. QED  BY <2>4, <2>5
<1>. QED  BY <1>1, <1>2

LEMMA SaveKeeps ==
  ASSUME FenceInv, NEW a \in Admin,
         SaveOthers(a) \/ SaveProbing(a) \/ SaveProbed(a) \/ SaveEnforced(a)
  PROVE  FenceInv'
<1>1. \A submitted, folders \in BOOLEAN, newGrants, newClosed \in SUBSET Session,
         newPolicy \in Policy :
        Draft(submitted, folders, newGrants, newClosed, newPolicy) \in SaveType
  BY DEF Draft, SaveType, FenceInv, Shape
<1>2. CASE SaveOthers(a)
  <2>1. PICK newClosed \in SUBSET Session, newPolicy \in Policy :
          Commit(a, Draft(FALSE, FALSE, grants, newClosed, newPolicy))
    BY <1>2 DEF SaveOthers
  <2>2. Draft(FALSE, FALSE, grants, newClosed, newPolicy) \in SaveType
    BY <1>1 DEF FenceInv, Shape
  <2>3. UNCHANGED <<order, req, known>>
    BY <1>2 DEF SaveOthers
  <2>. QED  BY <2>1, <2>2, <2>3, CommitKeeps
<1>3. CASE SaveProbing(a)
  <2>1. UNCHANGED <<dbVars, memVars, req, hostVars>>
    BY <1>3 DEF SaveProbing
  <2>2. PICK d \in SaveType : save' = [save EXCEPT ![a] = d]
    <3>1. PICK newClosed \in SUBSET Session, newPolicy \in Policy, folders \in BOOLEAN :
            \/ \E newGrants \in SUBSET (known \cup grants) :
                 save' = [save EXCEPT ![a] =
                   Draft(TRUE, folders, newGrants, newClosed, newPolicy)]
            \/ save' = [save EXCEPT ![a] = Draft(FALSE, TRUE, grants, newClosed, newPolicy)]
      BY <1>3 DEF SaveProbing
    <3>2. grants \in SUBSET Session /\ SUBSET (known \cup grants) \subseteq SUBSET Session
      BY DEF FenceInv, Shape
    <3>. QED  BY <1>1, <3>1, <3>2
  <2>3. Shape'
    BY <2>1, <2>2 DEF FenceInv, Shape, dbVars, memVars, hostVars
  <2>4. SnapshotAuthorized'
    BY <2>1, Untouched DEF FenceInv, dbVars, memVars
  <2>. QED  BY <2>1, <2>3, <2>4, FenceStays DEF FenceInv, dbVars, memVars
<1>4. CASE SaveProbed(a)
  <2>1. save[a] \in SaveType
    BY DEF FenceInv, Shape
  <2>. QED  BY <1>4, <2>1, CommitKeeps DEF SaveProbed
<1>5. CASE SaveEnforced(a)
  <2>1. PICK failed \in SUBSET save[a].targets :
          /\ grants' = grants \ failed
          /\ IF failed # {} THEN Invalidate ELSE UNCHANGED <<ready, access, epoch>>
    BY <1>5 DEF SaveEnforced
  <2>2. save' \in [Admin -> SaveType]
    BY <1>5, ResetTypes DEF SaveEnforced, FenceInv, Shape
  <2>3. UNCHANGED <<closed, policy, order, req, known>>
    BY <1>5 DEF SaveEnforced
  <2>4. CASE failed # {}
    <3>1. Invalidate
      BY <2>1, <2>4
    <3>2. Shape'
      BY <2>1, <2>2, <2>3, <3>1 DEF Invalidate, FenceInv, Shape
    <3>3. SnapshotAuthorized'
      BY <3>1 DEF Invalidate, SnapshotAuthorized
    <3>. QED  BY <2>3, <3>1, <3>2, <3>3, FenceAdvances DEF Invalidate, FenceInv
  <2>5. CASE failed = {}
    <3>1. UNCHANGED <<grants, access, epoch>>
      BY <2>1, <2>5
    <3>2. SnapshotAuthorized'
      BY <2>3, <3>1, Untouched DEF FenceInv
    <3>3. Shape'
      BY <2>2, <2>3, <3>1 DEF FenceInv, Shape
    <3>. QED  BY <2>3, <3>1, <3>2, <3>3, FenceStays DEF FenceInv
  <2>. QED  BY <2>4, <2>5
<1>. QED  BY <1>2, <1>3, <1>4, <1>5

(* A baseline is filtered under the permissions of the moment.             *)
LEMMA BaselineKeeps ==
  ASSUME FenceInv, Baseline
  PROVE  FenceInv'
<1>1. PICK visible \in SUBSET known : Replace(Merged(visible, grants, closed), epoch, 0)
  BY DEF Baseline
<1>2. UNCHANGED <<grants, closed, policy, epoch, order, req, save, hostVars>>
  BY DEF Baseline
<1>3. SnapshotAuthorized'
  BY <1>1, <1>2, ReplaceAuthorized DEF Merged, Authorized, FenceInv
<1>4. Shape'
  BY <1>2 DEF FenceInv, Shape, hostVars
<1>. QED  BY <1>2, <1>3, <1>4, FenceStays DEF FenceInv

LEMMA UnchangedKeeps ==
  ASSUME FenceInv, UNCHANGED <<dbVars, memVars, req, save, known>>
  PROVE  FenceInv'
<1>1. Shape' /\ SnapshotAuthorized'
  BY Untouched DEF FenceInv, Shape, dbVars, memVars
<1>. QED  BY <1>1, FenceStays DEF FenceInv, dbVars, memVars

------------------------------------------------------------------------------
(* FenceInv is an inductive invariant.                                     *)
THEOREM FenceInvariance == Spec => []FenceInv
<1>1. Init => FenceInv
  <2> SUFFICES ASSUME Init PROVE FenceInv
    OBVIOUS
  <2>1. Shape
    BY ResetTypes DEF Init, Shape
  <2>2. FenceHolds /\ SessionsNamed
    BY DEF Init, FenceHolds, SessionsNamed, UnderWay, AboutSession, NoRequest
  <2>3. SnapshotAuthorized
    BY DEF Init, SnapshotAuthorized
  <2>. QED  BY <2>1, <2>2, <2>3 DEF FenceInv
<1>2. FenceInv /\ [Next]_vars => FenceInv'
  <2> SUFFICES ASSUME FenceInv, [Next]_vars PROVE FenceInv'
    OBVIOUS
  <2>1. CASE \E r \in Request : RequestStep(r)
    BY <2>1, RequestKeeps
  <2>2. CASE \E a \in Admin :
               SaveOthers(a) \/ SaveProbing(a) \/ SaveProbed(a) \/ SaveEnforced(a)
    BY <2>2, SaveKeeps
  <2>3. CASE \E s \in Session : \E i \in DOMAIN sent[s] : Lands(s, i)
    BY <2>3, UnchangedKeeps DEF Lands
  <2>4. CASE Baseline
    BY <2>4, BaselineKeeps
  <2>5. CASE UNCHANGED vars
    BY <2>5, UnchangedKeeps DEF vars, hostVars
  <2>. QED  BY <2>1, <2>2, <2>3, <2>4, <2>5 DEF Next
<1>. QED  BY <1>1, <1>2, PTL DEF Spec

(* The snapshot from which requests are admitted never holds a session the *)
(* database does not allow at this moment (replaceUserSessionAccess() and  *)
(* invalidateUserSessionAccess() of gateway.ts).                           *)
THEOREM SnapshotIsAuthorized == Spec => []SnapshotAuthorized
<1>1. FenceInv => SnapshotAuthorized
  BY DEF FenceInv
<1>. QED  BY <1>1, FenceInvariance, PTL

------------------------------------------------------------------------------
(* What a step may do to a request it is not about: nothing.               *)
LEMMA OthersStay ==
  ASSUME FenceInv, NEW q \in Request, RequestStep(q), NEW r \in Request, r # q
  PROVE  req'[r] = req[r]
<1>1. \/ \E kind, s, n, phase : Arrives(q, kind, s, n, phase)
      \/ \E phase : Goto(q, phase)
      \/ \E phase : Finish(q, phase)
  BY DEF RequestStep, StartCreate, StartUse, StartList, ListAnswered, HostCreates,
         CreateAnswered, CreateConfined, ConfiningFails, BodyArrives, Woken, WaitTimesOut,
         PromptConfined, Check
<1>2. req \in [Request -> RequestType]
  BY DEF FenceInv, Shape
<1>. QED  BY <1>1, <1>2 DEF Arrives, Goto, Finish

(* A request is passed on by Check or by PromptConfined, who have looked.  *)
LEMMA ForwardsAllowed ==
  ASSUME FenceInv, NEW r \in Request, RequestStep(r),
         req'[r].phase = "forwarded", req[r].phase # "forwarded"
  PROVE  req[r].session \in Authorized(grants, closed)
<1>1. \A phase : /\ Goto(r, phase) => req'[r].phase = phase
                 /\ Finish(r, phase) => req'[r].phase = phase
  BY DEF Goto, Finish, FenceInv, Shape, RequestType, NoRequest
<1>2. \A kind, s, n, phase : Arrives(r, kind, s, n, phase) => req'[r].phase = phase
  BY DEF Arrives, FenceInv, Shape
<1>3. (BodyArrives(r) /\ Check(r)) \/ Woken(r) \/ PromptConfined(r)
  BY <1>1, <1>2 DEF RequestStep, StartCreate, StartUse, StartList, ListAnswered, HostCreates,
         CreateAnswered, CreateConfined, ConfiningFails, BodyArrives, WaitTimesOut
<1>4. Owns(r) \/ StillOwns(r)
  BY <1>1, <1>3 DEF Woken, PromptConfined, Check
<1>. QED  BY <1>4 DEF Owns, StillOwns, FenceInv, SnapshotAuthorized

(* What is passed on to the host is allowed when it is passed on, although *)
(* the ownership check of the proxy uses the permissions of the start.     *)
THEOREM ForwardsOnlyAllowed == Spec => ForwardsWhatIsAllowed
<1>1. FenceInv /\ [Next]_vars =>
        [\A r \in Request :
           req'[r].phase = "forwarded" /\ req[r].phase # "forwarded" =>
             req[r].session \in Authorized(grants, closed)]_vars
  <2> SUFFICES ASSUME FenceInv, Next, NEW r \in Request,
                      req'[r].phase = "forwarded", req[r].phase # "forwarded"
               PROVE  req[r].session \in Authorized(grants, closed)
    OBVIOUS
  <2>1. PICK q \in Request : RequestStep(q)
    BY DEF Next, SaveOthers, SaveProbing, SaveProbed, SaveEnforced, Lands, Baseline
  <2>2. q = r
    BY <2>1, OthersStay
  <2>. QED  BY <2>1, <2>2, ForwardsAllowed
<1>. QED  BY <1>1, FenceInvariance, PTL DEF Spec, ForwardsWhatIsAllowed

(* Once every user's grants are seeded, they stay so.                      *)
LEMMA StaysSeeded ==
  ASSUME Migrated, FenceInv, seeded, [Next]_vars
  PROVE  seeded'
<1>1. CASE UNCHANGED vars
  BY <1>1 DEF vars, dbVars
<1>2. CASE \E r \in Request : RequestStep(r)
  BY <1>2 DEF RequestStep, StartCreate, StartUse, StartList, ListAnswered, HostCreates,
         CreateAnswered, CreateConfined, ConfiningFails, BodyArrives, Woken, WaitTimesOut,
         PromptConfined, dbVars
<1>3. CASE \E a \in Admin :
             SaveOthers(a) \/ SaveProbing(a) \/ SaveProbed(a) \/ SaveEnforced(a)
  BY ZenonT(30), <1>3 DEF SaveOthers, SaveProbing, SaveProbed, SaveEnforced, Commit, dbVars
<1>4. CASE \E s \in Session : \E i \in DOMAIN sent[s] : Lands(s, i)
  BY <1>4 DEF Lands, dbVars
<1>5. CASE Baseline
  BY <1>5 DEF Baseline
<1>. QED  BY <1>1, <1>2, <1>3, <1>4, <1>5 DEF Next

(* Of the requests only an answer to session.create or fork gives sessions *)
(* to a user whose grants are seeded, and it compares the epoch.           *)
LEMMA GrantsFenced ==
  ASSUME FenceInv, seeded, NEW r \in Request, RequestStep(r), grants' # grants
  PROVE  req[r].epoch = epoch
<1>1. CreateAnswered(r) \/ CreateConfined(r)
  BY DEF RequestStep, StartCreate, StartUse, StartList, ListAnswered, HostCreates,
         ConfiningFails, BodyArrives, Woken, WaitTimesOut, PromptConfined, dbVars
<1>2. Attach(r)
  BY <1>1 DEF CreateAnswered, CreateConfined
<1>. QED  BY <1>2 DEF Attach, Unfenced

(* An answer to a request from before a change of permissions gives the    *)
(* user no session, provided the user's old sessions were migrated before  *)
(* (for the users that were not, it does: a finding).                      *)
THEOREM StaleAnswersGrantNothing == Migrated /\ Spec => StaleNeverGrants
<1> SUFFICES ASSUME Migrated PROVE Spec => StaleNeverGrants
  OBVIOUS
<1>1. Init => seeded
  BY DEF Init
<1>2. FenceInv /\ seeded /\ [Next]_vars => seeded'
  BY StaysSeeded
<1>3. FenceInv /\ seeded /\ [Next]_vars =>
        [\A r \in Request :
           req'[r] # req[r] /\ grants' # grants => req[r].epoch = epoch]_vars
  <2> SUFFICES ASSUME FenceInv, seeded, Next, NEW r \in Request,
                      req'[r] # req[r], grants' # grants
               PROVE  req[r].epoch = epoch
    OBVIOUS
  <2>1. PICK q \in Request : RequestStep(q)
    BY DEF Next, SaveOthers, SaveProbing, SaveProbed, SaveEnforced, Lands, Baseline
  <2>2. q = r
    BY <2>1, OthersStay
  <2>. QED  BY <2>1, <2>2, GrantsFenced
<1>. QED  BY <1>1, <1>2, <1>3, FenceInvariance, PTL DEF Spec, StaleNeverGrants

------------------------------------------------------------------------------
(* What a save takes back.                                                 *)

LEMMA RequestsTakeNothing ==
  ASSUME FenceInv, NEW r \in Request, RequestStep(r)
  PROVE  grants \subseteq grants' /\ closed' = closed
BY DEF RequestStep, StartCreate, StartUse, StartList, ListAnswered, HostCreates, CreateAnswered, CreateConfined,
       Attach, ConfiningFails, BodyArrives, Woken, WaitTimesOut, PromptConfined, dbVars

(* A commit is refused if the permissions it replaces are not those its    *)
(* baseline was taken of.                                                  *)
LEMMA CommitTakes ==
  ASSUME FenceInv, NEW a \in Admin, NEW d \in SaveType, Commit(a, d), save[a].phase \in {"idle", "probing"}
  PROVE  /\ save'[a] # save[a]
         /\ \A s \in grants \ grants' : d.submitted /\ s \in d.grants
         /\ \A s \in closed \ closed' : s \in d.closed
<1>1. \E targets : \/ save' = [save EXCEPT ![a] = [NoSave EXCEPT !.phase = "over"]]
                   \/ \E phase \in {"over", "enforcing"} :
                        save' = [save EXCEPT ![a] = [NoSave EXCEPT !.phase = phase, !.targets = targets]]
  BY DEF Commit
<1>2. save'[a].phase \in {"over", "enforcing"}
  BY <1>1 DEF NoSave, FenceInv, Shape
<1>3. /\ \A s \in grants \ grants' : d.submitted /\ s \in d.grants
      /\ \A s \in closed \ closed' : s \in d.closed
  BY DEF Commit, AsExpected, dbVars
<1>. QED  BY <1>2, <1>3

LEMMA SavesTake ==
  ASSUME FenceInv, NEW a \in Admin, SaveOthers(a) \/ SaveProbing(a) \/ SaveProbed(a) \/ SaveEnforced(a)
  PROVE  UndoesWhatItSaw
<1> USE DEF UndoesWhatItSaw
<1>1. CASE SaveOthers(a)
  <2>1. PICK newClosed \in SUBSET Session, newPolicy \in Policy :
          save[a].phase = "idle" /\ Commit(a, Draft(FALSE, FALSE, grants, newClosed, newPolicy))
    BY <1>1 DEF SaveOthers
  <2>2. /\ Draft(FALSE, FALSE, grants, newClosed, newPolicy) \in SaveType
        /\ Draft(FALSE, FALSE, grants, newClosed, newPolicy).submitted = FALSE
    <3>1. grants \in SUBSET Session /\ closed \in SUBSET Session /\ policy \in Policy
      BY DEF FenceInv, Shape
    <3>. QED  BY <2>1, <3>1 DEF Draft, SaveType
  <2>3. /\ save'[a] # save[a]
        /\ \A s \in grants \ grants' : Draft(FALSE, FALSE, grants, newClosed, newPolicy).submitted
    BY <2>1, <2>2, CommitTakes
  <2>. QED  BY <2>1, <2>2, <2>3
<1>2. CASE SaveProbing(a)
  BY <1>2 DEF SaveProbing, dbVars
<1>3. CASE SaveProbed(a)
  <2>1. save[a].phase = "probing" /\ Commit(a, save[a]) /\ save[a] \in SaveType
    BY <1>3 DEF SaveProbed, FenceInv, Shape
  <2>. QED  BY <2>1, CommitTakes
<1>4. CASE SaveEnforced(a)
  <2>1. PICK failed \in SUBSET save[a].targets :
          /\ save[a].phase = "enforcing" /\ grants' = grants \ failed /\ closed' = closed
          /\ save' = [save EXCEPT ![a] = [NoSave EXCEPT !.phase = "over"]]
    BY <1>4 DEF SaveEnforced
  <2>2. save'[a] # save[a]
    BY <2>1 DEF NoSave, FenceInv, Shape
  <2>. QED  BY <2>1, <2>2
<1>. QED  BY <1>1, <1>2, <1>3, <1>4

(* A save takes back no session that was granted while it waited for the   *)
(* host, and switches none on again that was switched off meanwhile: its   *)
(* baselines are compared in the transaction that replaces what they were  *)
(* taken of.                                                               *)
THEOREM SavesUndoWhatTheySaw == Spec => [][UndoesWhatItSaw]_vars
<1>1. FenceInv /\ [Next]_vars => [UndoesWhatItSaw]_vars
  <2> SUFFICES ASSUME FenceInv, Next PROVE UndoesWhatItSaw
    OBVIOUS
  <2>1. CASE \E r \in Request : RequestStep(r)
    BY <2>1, RequestsTakeNothing DEF UndoesWhatItSaw
  <2>2. CASE \E a \in Admin :
               SaveOthers(a) \/ SaveProbing(a) \/ SaveProbed(a) \/ SaveEnforced(a)
    BY <2>2, SavesTake
  <2>3. CASE \E s \in Session : \E i \in DOMAIN sent[s] : Lands(s, i)
    BY <2>3 DEF Lands, dbVars, UndoesWhatItSaw
  <2>4. CASE Baseline
    BY <2>4 DEF Baseline, UndoesWhatItSaw
  <2>. QED  BY <2>1, <2>2, <2>3, <2>4 DEF Next
<1>. QED  BY <1>1, FenceInvariance, PTL DEF Spec
------------------------------------------------------------------------------
(* The modes on their way to the host, which takes them up in the order    *)
(* they were sent.  A prompt is passed on when the mode it sent has landed *)
(* and no permission has changed since it came in.  Whatever was sent      *)
(* after its mode is then of that policy too, for a save that sends modes  *)
(* changes a permission; and the session was there before, so it is not    *)
(* made anew.                                                              *)

Entry == [by : Request \cup Admin \cup {Nobody}, mode : Rank]
ModesTyped == log \in [Session -> Rank] /\ sent \in [Session -> Seq(Entry)]

(* Who has a mode on its way to a session waits for it, and has one.       *)
Waiting == {r \in Request : req[r].phase = "confining"}
             \cup {a \in Admin : save[a].phase = "enforcing"}
OwnModes ==
  \A s \in Session : \A i \in DOMAIN sent[s] :
    /\ sent[s][i].by \in Waiting
    /\ \A j \in DOMAIN sent[s] : sent[s][i].by = sent[s][j].by => i = j

(* A request that is level with the epoch holds the policy of the moment.  *)
PolicyFence == \A r \in Request : AboutSession(r) /\ req[r].epoch = epoch => req[r].policy = policy

(* What is granted, or about to be, exists at the host; a session that is  *)
(* being made does not, and is made by one request.                        *)
GrantsKnown ==
  /\ grants \subseteq known
  /\ \A r \in Request : req[r].phase \in {"created", "confining"} => req[r].session \in known
CreatedOnce ==
  \A r \in Request : req[r].phase = "creating" =>
    /\ req[r].kind = "create" /\ req[r].session \notin known
    /\ \A q \in Request : q # r /\ req[q].phase = "creating" => req[q].session # req[r].session
DraftsKnown ==
  \A a \in Admin : save[a].phase = "probing" =>
    /\ save[a].newGrants \subseteq known
    /\ ~save[a].submitted => save[a].newGrants = save[a].grants

(* The mode of w will land after place i of what is on its way to s.       *)
Later(w, s, i) == \E j \in DOMAIN sent[s] : j > i /\ sent[s][j].by = w

(* Unless the mode of w is still to land, the log of s is p or less; and   *)
(* what is on its way there is p or less unless that mode lands after it.  *)
Follows(w, s, p) ==
  /\ log[s] <= p \/ Later(w, s, 0)
  /\ \A i \in DOMAIN sent[s] : sent[s][i].mode <= p \/ Later(w, s, i)

PromptWaits(r) == req[r].phase = "confining" /\ req[r].kind = "prompt" /\ req[r].epoch = epoch
PromptsFollow == \A r \in Request : PromptWaits(r) => Follows(r, req[r].session, policy)

ModesInv == /\ ModesTyped /\ OwnModes /\ PolicyFence /\ GrantsKnown
            /\ CreatedOnce /\ DraftsKnown /\ PromptsFollow

(* A list without one of its entries.                                      *)
LEMMA WithoutIs ==
  ASSUME NEW S, NEW list \in Seq(S), NEW i \in DOMAIN list
  PROVE  /\ Without(list, i) \in Seq(S)
         /\ Len(Without(list, i)) = Len(list) - 1
         /\ \A k \in 1..(Len(list) - 1) :
              Without(list, i)[k] = list[IF k < i THEN k ELSE k + 1]
<1>1. i \in 1..Len(list) /\ Len(list) \in Nat
  OBVIOUS
<1>2. SubSeq(list, 1, i - 1) \in Seq(S) /\ Len(SubSeq(list, 1, i - 1)) = i - 1
  BY <1>1
<1>3. SubSeq(list, i + 1, Len(list)) \in Seq(S) /\ Len(SubSeq(list, i + 1, Len(list))) = Len(list) - i
  BY <1>1
<1> DEFINE before == SubSeq(list, 1, i - 1)
           after == SubSeq(list, i + 1, Len(list))
<1>4. \A k \in 1..(i - 1) : before[k] = list[k]
  BY <1>1
<1>5. \A k \in 1..(Len(list) - i) : after[k] = list[k + i]
  BY <1>1
<1> HIDE DEF before, after
<1>6. before \in Seq(S) /\ Len(before) = i - 1 /\ after \in Seq(S) /\ Len(after) = Len(list) - i
  BY <1>2, <1>3 DEF before, after
<1>7. before \o after \in Seq(S) /\ Len(before \o after) = Len(list) - 1
  BY <1>1, <1>6
<1>8. ASSUME NEW k \in 1..(Len(list) - 1)
      PROVE  (before \o after)[k] = list[IF k < i THEN k ELSE k + 1]
  <2>1. CASE k < i
    <3>1. (before \o after)[k] = before[k]
      BY <1>1, <1>6, <2>1
    <3>2. QED BY <1>1, <1>4, <2>1, <3>1
  <2>2. CASE ~(k < i)
    <3>1. (before \o after)[k] = after[k - (i - 1)]
      BY <1>1, <1>6, <2>2
    <3>2. k - (i - 1) \in 1..(Len(list) - i) /\ k - (i - 1) + i = k + 1
      BY <1>1, <2>2
    <3>3. QED BY <1>5, <2>2, <3>1, <3>2
  <2>3. QED BY <2>1, <2>2
<1>9. Without(list, i) = before \o after
  BY DEF Without, before, after
<1>10. QED BY <1>7, <1>8, <1>9

(* A mode is sent to some sessions.                                        *)
LEMMA SendIs ==
  ASSUME ModesTyped, NEW w \in Request \cup Admin, NEW targets, NEW mode, SendMode(w, targets, mode),
         targets # {} => mode \in Rank
  PROVE  /\ sent' \in [Session -> Seq(Entry)]
         /\ \A s \in Session \ targets : sent'[s] = sent[s]
         /\ \A s \in Session \cap targets :
              /\ Len(sent'[s]) = Len(sent[s]) + 1
              /\ \A i \in 1..Len(sent[s]) : sent'[s][i] = sent[s][i]
              /\ sent'[s][Len(sent[s]) + 1].by = w
              /\ sent'[s][Len(sent[s]) + 1].mode = mode
<1>1. ASSUME NEW s \in Session \cap targets
      PROVE  /\ sent'[s] \in Seq(Entry)
             /\ Len(sent'[s]) = Len(sent[s]) + 1
             /\ \A i \in 1..Len(sent[s]) : sent'[s][i] = sent[s][i]
             /\ sent'[s][Len(sent[s]) + 1].by = w
             /\ sent'[s][Len(sent[s]) + 1].mode = mode
  <2>1. sent[s] \in Seq(Entry) /\ sent'[s] = Append(sent[s], Apply(w, mode))
    BY <1>1 DEF SendMode, ModesTyped
  <2>2. Apply(w, mode) \in Entry /\ Apply(w, mode).by = w /\ Apply(w, mode).mode = mode
    BY <1>1 DEF Apply, Entry
  <2>3. QED BY <2>1, <2>2
<1>2. \A s \in Session \ targets : sent'[s] = sent[s] /\ sent'[s] \in Seq(Entry)
  BY DEF SendMode, ModesTyped
<1>3. sent' \in [Session -> Seq(Entry)]
  <2>1. \A s \in Session : sent'[s] \in Seq(Entry)
    BY <1>1, <1>2
  <2>2. sent' = [s \in Session |-> sent'[s]]
    BY DEF SendMode
  <2>3. QED BY <2>1, <2>2
<1>4. QED BY <1>1, <1>2, <1>3

(* A mode is withdrawn, where there is one; the others keep their order.   *)
Taken(s, i) ==
  /\ i \in DOMAIN sent[s]
  /\ Len(sent'[s]) = Len(sent[s]) - 1
  /\ \A k \in 1..(Len(sent[s]) - 1) : sent'[s][k] = sent[s][IF k < i THEN k ELSE k + 1]

LEMMA AbandonIs ==
  ASSUME Ordered, ModesTyped, NEW w, Abandon(w)
  PROVE  /\ sent' \in [Session -> Seq(Entry)]
         /\ \A s \in Session \ Pending(w) : sent'[s] = sent[s]
         /\ \A s \in Session \cap Pending(w) : \E i \in DOMAIN sent[s] : sent[s][i].by = w /\ Taken(s, i)
<1> DEFINE place(s) == CHOOSE i \in DOMAIN sent[s] : sent[s][i].by = w
<1>1. sent' = [s \in Session |-> IF s \notin Pending(w) THEN sent[s] ELSE Without(sent[s], place(s))]
  BY DEF Abandon
<1>2. ASSUME NEW s \in Session \cap Pending(w)
      PROVE  place(s) \in DOMAIN sent[s] /\ sent[s][place(s)].by = w
  BY <1>2 DEF Pending
<1> HIDE DEF place
<1>3. ASSUME NEW s \in Session \cap Pending(w)
      PROVE  sent'[s] \in Seq(Entry) /\ Taken(s, place(s))
  <2>1. sent[s] \in Seq(Entry) /\ sent'[s] = Without(sent[s], place(s))
    BY <1>1, <1>3 DEF ModesTyped
  <2>2. QED BY <2>1, <1>2, <1>3, WithoutIs DEF Taken
<1>4. \A s \in Session \ Pending(w) : sent'[s] = sent[s] /\ sent'[s] \in Seq(Entry)
  BY <1>1 DEF ModesTyped
<1>5. sent' \in [Session -> Seq(Entry)]
  <2>1. \A s \in Session : sent'[s] \in Seq(Entry)
    BY <1>3, <1>4
  <2>2. sent' = [s \in Session |-> sent'[s]]
    BY <1>1
  <2>3. QED BY <2>1, <2>2
<1>6. QED BY <1>2, <1>3, <1>4, <1>5

LEMMA LandsIs ==
  ASSUME Ordered, ModesTyped, NEW s \in Session, NEW i, Lands(s, i)
  PROVE  /\ i = 1 /\ Taken(s, 1) /\ log' = [log EXCEPT ![s] = sent[s][1].mode]
         /\ log' \in [Session -> Rank] /\ sent' \in [Session -> Seq(Entry)]
         /\ \A t \in Session \ {s} : sent'[t] = sent[t]
<1>1. /\ i = 1 /\ 1 \in DOMAIN sent[s] /\ log' = [log EXCEPT ![s] = sent[s][1].mode]
      /\ sent' = [sent EXCEPT ![s] = Without(sent[s], 1)]
  BY DEF Lands
<1>2. sent[s] \in Seq(Entry) /\ sent[s][1] \in Entry
  BY <1>1 DEF ModesTyped
<1>3. sent[s][1].mode \in Rank
  BY <1>2 DEF Entry
<1>4. sent'[s] = Without(sent[s], 1) /\ \A t \in Session \ {s} : sent'[t] = sent[t]
  BY <1>1 DEF ModesTyped
<1>5. Without(sent[s], 1) \in Seq(Entry) /\ Taken(s, 1)
  BY <1>1, <1>2, <1>4, WithoutIs DEF Taken
<1>6. QED BY <1>1, <1>3, <1>4, <1>5 DEF ModesTyped

(* Who waited and still has a mode on its way, still waits.                *)
LEMMA OwnRest ==
  ASSUME OwnModes, sent' = sent, \A w \in Waiting : Pending(w) # {} => w \in Waiting'
  PROVE  OwnModes'
<1>1. ASSUME NEW s \in Session, NEW i \in DOMAIN sent[s]
      PROVE  sent[s][i].by \in Waiting'
  <2>1. s \in Pending(sent[s][i].by)
    BY DEF Pending
  <2>2. QED BY <2>1 DEF OwnModes
<1>2. ASSUME NEW s \in Session, NEW i \in DOMAIN sent[s], NEW j \in DOMAIN sent[s],
             sent[s][i].by = sent[s][j].by
      PROVE  i = j
  BY <1>2 DEF OwnModes
<1>3. QED BY <1>1, <1>2 DEF OwnModes

LEMMA OwnSend ==
  ASSUME ModesTyped, OwnModes, NEW w \in Request \cup Admin, NEW targets, NEW mode,
         SendMode(w, targets, mode), targets # {} => mode \in Rank,
         w \notin Waiting, targets # {} => w \in Waiting', Waiting \subseteq Waiting'
  PROVE  OwnModes'
<1>1. ASSUME NEW s \in Session
      PROVE  \A i \in DOMAIN sent'[s] :
               /\ sent'[s][i].by \in Waiting'
               /\ \A j \in DOMAIN sent'[s] : sent'[s][i].by = sent'[s][j].by => i = j
  <2>1. sent[s] \in Seq(Entry) /\ sent'[s] \in Seq(Entry)
    BY SendIs DEF ModesTyped
  <2>2. \A i \in DOMAIN sent[s] : sent[s][i].by # w
    BY DEF OwnModes
  <2>3. CASE s \notin targets
    <3>1. sent'[s] = sent[s]
      BY <2>3, SendIs
    <3>2. QED BY <3>1 DEF OwnModes
  <2>4. CASE s \in targets
    <3>1. /\ Len(sent'[s]) = Len(sent[s]) + 1
          /\ \A i \in 1..Len(sent[s]) : sent'[s][i] = sent[s][i]
          /\ sent'[s][Len(sent[s]) + 1].by = w
      BY <2>4, SendIs
    <3>2. \A i \in DOMAIN sent'[s] : i \in DOMAIN sent[s] \/ i = Len(sent[s]) + 1
      BY <2>1, <3>1
    <3>3. \A i \in DOMAIN sent[s] : sent'[s][i] = sent[s][i]
      BY <2>1, <3>1
    <3>4. ASSUME NEW i \in DOMAIN sent'[s] PROVE sent'[s][i].by \in Waiting'
      BY <2>4, <3>1, <3>2, <3>3 DEF OwnModes
    <3>5. ASSUME NEW i \in DOMAIN sent'[s], NEW j \in DOMAIN sent'[s], sent'[s][i].by = sent'[s][j].by
          PROVE  i = j
      BY <2>2, <3>1, <3>2, <3>3, <3>5 DEF OwnModes
    <3>6. QED BY <3>4, <3>5
  <2>5. QED BY <2>3, <2>4
<1>2. QED BY <1>1 DEF OwnModes

(* What is left once one is taken was there before.                        *)
LEMMA TakenFrom ==
  ASSUME NEW s \in Session, NEW i, Taken(s, i), sent[s] \in Seq(Entry), sent'[s] \in Seq(Entry),
         NEW k \in DOMAIN sent'[s]
  PROVE  /\ (IF k < i THEN k ELSE k + 1) \in DOMAIN sent[s]
         /\ (IF k < i THEN k ELSE k + 1) # i
         /\ sent'[s][k] = sent[s][IF k < i THEN k ELSE k + 1]
BY DEF Taken

LEMMA TakenLeaves ==
  ASSUME NEW s \in Session, NEW i, Taken(s, i), sent[s] \in Seq(Entry), sent'[s] \in Seq(Entry),
         NEW j \in DOMAIN sent[s], j # i
  PROVE  /\ (IF j < i THEN j ELSE j - 1) \in DOMAIN sent'[s]
         /\ sent'[s][IF j < i THEN j ELSE j - 1] = sent[s][j]
<1>1. i \in 1..Len(sent[s]) /\ j \in 1..Len(sent[s]) /\ Len(sent'[s]) = Len(sent[s]) - 1
  BY DEF Taken
<1>2. (IF j < i THEN j ELSE j - 1) \in 1..(Len(sent[s]) - 1)
  BY <1>1
<1>3. (IF j < i THEN j ELSE j - 1) \in DOMAIN sent'[s]
  BY <1>1, <1>2
<1>4. sent'[s][IF j < i THEN j ELSE j - 1] = sent[s][j]
  BY <1>1, <1>2 DEF Taken
<1>5. QED BY <1>3, <1>4

LEMMA OwnTaken ==
  ASSUME OwnModes, NEW s \in Session, NEW i, Taken(s, i), sent[s] \in Seq(Entry), sent'[s] \in Seq(Entry),
         Waiting \ {sent[s][i].by} \subseteq Waiting'
  PROVE  /\ \A k \in DOMAIN sent'[s] :
              /\ sent'[s][k].by \in Waiting'
              /\ \A j \in DOMAIN sent'[s] : sent'[s][k].by = sent'[s][j].by => k = j
         /\ \A k \in DOMAIN sent'[s] : sent'[s][k].by # sent[s][i].by
<1>1. i \in DOMAIN sent[s]
  BY DEF Taken
<1> DEFINE was(k) == IF k < i THEN k ELSE k + 1
<1>2. \A k \in DOMAIN sent'[s] : was(k) \in DOMAIN sent[s] /\ was(k) # i /\ sent'[s][k] = sent[s][was(k)]
  BY TakenFrom
<1>3. \A k, j \in DOMAIN sent'[s] : was(k) = was(j) => k = j
  BY <1>1
<1> HIDE DEF was
<1>4. \A k \in DOMAIN sent'[s] : sent'[s][k].by # sent[s][i].by
  BY <1>1, <1>2 DEF OwnModes
<1>5. \A k \in DOMAIN sent'[s] : sent'[s][k].by \in Waiting'
  BY <1>2, <1>4 DEF OwnModes
<1>6. ASSUME NEW k \in DOMAIN sent'[s], NEW j \in DOMAIN sent'[s], sent'[s][k].by = sent'[s][j].by
      PROVE  k = j
  BY <1>2, <1>3, <1>6 DEF OwnModes
<1>7. QED BY <1>4, <1>5, <1>6

LEMMA OwnAbandon ==
  ASSUME Ordered, ModesTyped, OwnModes, NEW w, Abandon(w), Waiting \ {w} \subseteq Waiting'
  PROVE  OwnModes'
<1>1. ASSUME NEW s \in Session
      PROVE  \A k \in DOMAIN sent'[s] :
               /\ sent'[s][k].by \in Waiting'
               /\ \A j \in DOMAIN sent'[s] : sent'[s][k].by = sent'[s][j].by => k = j
  <2>1. sent[s] \in Seq(Entry) /\ sent'[s] \in Seq(Entry)
    BY AbandonIs DEF ModesTyped
  <2>2. CASE s \in Pending(w)
    <3>1. PICK i \in DOMAIN sent[s] : sent[s][i].by = w /\ Taken(s, i)
      BY <2>2, AbandonIs
    <3>2. QED BY <2>1, <3>1, OwnTaken
  <2>3. CASE s \notin Pending(w)
    <3>1. sent'[s] = sent[s] /\ \A i \in DOMAIN sent[s] : sent[s][i].by # w
      BY <2>3, AbandonIs DEF Pending
    <3>2. QED BY <3>1 DEF OwnModes
  <2>4. QED BY <2>2, <2>3
<1>2. QED BY <1>1 DEF OwnModes

LEMMA OwnLands ==
  ASSUME Ordered, ModesTyped, OwnModes, NEW s \in Session, NEW i, Lands(s, i)
  PROVE  OwnModes'
<1>1. Waiting \subseteq Waiting'
  BY DEF Lands, Waiting
<1>2. Taken(s, 1) /\ sent' \in [Session -> Seq(Entry)] /\ \A t \in Session \ {s} : sent'[t] = sent[t]
  BY LandsIs
<1>3. \A t \in Session : sent[t] \in Seq(Entry) /\ sent'[t] \in Seq(Entry)
  BY <1>2 DEF ModesTyped
<1>4. ASSUME NEW t \in Session
      PROVE  \A k \in DOMAIN sent'[t] :
               /\ sent'[t][k].by \in Waiting'
               /\ \A j \in DOMAIN sent'[t] : sent'[t][k].by = sent'[t][j].by => k = j
  <2>1. CASE t = s
    BY <1>1, <1>2, <1>3, <2>1, OwnTaken
  <2>2. CASE t # s
    BY <1>1, <1>2, <2>2 DEF OwnModes
  <2>3. QED BY <2>1, <2>2
<1>5. QED BY <1>4 DEF OwnModes

(* Another mode is sent that is p or less, or is about another session.    *)
LEMMA FollowsSend ==
  ASSUME ModesTyped, NEW r \in Request, NEW s \in Session, NEW p \in Policy, Follows(r, s, p), log' = log,
         NEW w \in Request \cup Admin, NEW targets, NEW mode, SendMode(w, targets, mode),
         targets # {} => mode \in Rank, s \in targets => mode <= p
  PROVE  Follows(r, s, p)'
<1>1. sent[s] \in Seq(Entry) /\ sent'[s] \in Seq(Entry)
  BY SendIs DEF ModesTyped
<1>2. CASE s \notin targets
  <2>1. sent'[s] = sent[s]
    BY <1>2, SendIs
  <2>2. QED BY <2>1 DEF Follows, Later
<1>3. CASE s \in targets
  <2>1. /\ Len(sent'[s]) = Len(sent[s]) + 1
        /\ \A i \in 1..Len(sent[s]) : sent'[s][i] = sent[s][i]
        /\ sent'[s][Len(sent[s]) + 1].mode = mode
    BY <1>3, SendIs
  <2>2. \A i \in DOMAIN sent'[s] : i \in DOMAIN sent[s] \/ i = Len(sent[s]) + 1
    BY <1>1, <2>1
  <2>3. \A i \in DOMAIN sent[s] : i \in DOMAIN sent'[s] /\ sent'[s][i] = sent[s][i]
    BY <1>1, <2>1
  <2>4. \A i : Later(r, s, i) => Later(r, s, i)'
    BY <2>3 DEF Later
  <2>5. \A i \in DOMAIN sent'[s] : sent'[s][i].mode <= p \/ Later(r, s, i)'
    BY <1>3, <2>1, <2>2, <2>3, <2>4 DEF Follows
  <2>6. QED BY <2>4, <2>5 DEF Follows
<1>4. QED BY <1>2, <1>3

(* A prompt sends its mode.                                                *)
LEMMA FollowsBegin ==
  ASSUME ModesTyped, NEW r \in Request, NEW s \in Session, NEW p \in Policy,
         NEW mode \in Rank, SendMode(r, {s}, mode), mode <= p
  PROVE  Follows(r, s, p)'
<1>1. sent[s] \in Seq(Entry) /\ sent'[s] \in Seq(Entry)
  BY SendIs DEF ModesTyped
<1>2. /\ Len(sent'[s]) = Len(sent[s]) + 1
      /\ sent'[s][Len(sent[s]) + 1].by = r
      /\ sent'[s][Len(sent[s]) + 1].mode = mode
  BY SendIs
<1>3. \A i \in 0..Len(sent[s]) : Later(r, s, i)'
  BY <1>1, <1>2 DEF Later
<1>4. \A i \in DOMAIN sent'[s] : i \in 0..Len(sent[s]) \/ i = Len(sent[s]) + 1
  BY <1>1, <1>2
<1>5. QED BY <1>1, <1>2, <1>3, <1>4 DEF Follows

(* One mode is taken that is not the prompt's.                             *)
LEMMA LaterTaken ==
  ASSUME NEW r, NEW s \in Session, NEW i, Taken(s, i), sent[s] \in Seq(Entry), sent'[s] \in Seq(Entry),
         sent[s][i].by # r
  PROVE  /\ \A k \in DOMAIN sent'[s] : Later(r, s, IF k < i THEN k ELSE k + 1) => Later(r, s, k)'
         /\ Later(r, s, 0) => Later(r, s, 0)'
<1>1. i \in DOMAIN sent[s] /\ i \in Nat
  BY DEF Taken
<1>2. ASSUME NEW k \in Nat, Later(r, s, IF k < i THEN k ELSE k + 1)
      PROVE  Later(r, s, k)'
  <2>1. PICK j \in DOMAIN sent[s] : j > (IF k < i THEN k ELSE k + 1) /\ sent[s][j].by = r
    BY <1>2 DEF Later
  <2>2. j # i /\ j \in Nat
    BY <2>1
  <2>3. /\ (IF j < i THEN j ELSE j - 1) \in DOMAIN sent'[s]
        /\ sent'[s][IF j < i THEN j ELSE j - 1] = sent[s][j]
    BY <2>1, <2>2, TakenLeaves
  <2>4. (IF j < i THEN j ELSE j - 1) > k
    BY <1>1, <2>1, <2>2
  <2>5. QED BY <2>1, <2>3, <2>4 DEF Later
<1>3. DOMAIN sent'[s] \subseteq Nat
  OBVIOUS
<1>4. 0 < i
  BY <1>1
<1>5. QED BY <1>2, <1>3, <1>4

LEMMA FollowsAbandon ==
  ASSUME Ordered, ModesTyped, NEW r \in Request, NEW s \in Session, NEW p \in Policy, Follows(r, s, p),
         log' = log, NEW w, w # r, Abandon(w)
  PROVE  Follows(r, s, p)'
<1>1. sent[s] \in Seq(Entry) /\ sent'[s] \in Seq(Entry)
  BY AbandonIs DEF ModesTyped
<1>2. CASE s \notin Pending(w)
  <2>1. sent'[s] = sent[s]
    BY <1>2, AbandonIs
  <2>2. QED BY <2>1 DEF Follows, Later
<1>3. CASE s \in Pending(w)
  <2>1. PICK i \in DOMAIN sent[s] : sent[s][i].by = w /\ Taken(s, i)
    BY <1>3, AbandonIs
  <2>2. ASSUME NEW k \in DOMAIN sent'[s]
        PROVE  sent'[s][k].mode <= p \/ Later(r, s, k)'
    <3>1. /\ (IF k < i THEN k ELSE k + 1) \in DOMAIN sent[s]
          /\ sent'[s][k] = sent[s][IF k < i THEN k ELSE k + 1]
      BY <1>1, <2>1, TakenFrom
    <3>2. QED BY <1>1, <2>1, <3>1, LaterTaken DEF Follows
  <2>3. QED BY <1>1, <2>1, <2>2, LaterTaken DEF Follows
<1>4. QED BY <1>2, <1>3

(* The host takes up the first of what is on its way.                      *)
LEMMA FollowsLands ==
  ASSUME Ordered, ModesTyped, NEW r \in Request, NEW s \in Session, NEW p \in Policy,
         Follows(r, s, p), NEW t \in Session, NEW i, Lands(t, i)
  PROVE  Follows(r, s, p)'
<1>1. Taken(t, 1) /\ log' = [log EXCEPT ![t] = sent[t][1].mode] /\ sent' \in [Session -> Seq(Entry)]
      /\ \A u \in Session \ {t} : sent'[u] = sent[u]
  BY LandsIs
<1>2. sent[s] \in Seq(Entry) /\ sent'[s] \in Seq(Entry)
  BY <1>1 DEF ModesTyped
<1>3. CASE s # t
  <2>1. sent'[s] = sent[s] /\ log'[s] = log[s]
    BY <1>1, <1>3 DEF ModesTyped
  <2>2. QED BY <2>1 DEF Follows, Later
<1>4. CASE s = t
  <2>1. log'[s] = sent[s][1].mode /\ Taken(s, 1) /\ 1 \in DOMAIN sent[s]
    BY <1>1, <1>4 DEF ModesTyped, Taken
  <2>2. ASSUME NEW k \in DOMAIN sent'[s]
        PROVE  k + 1 \in DOMAIN sent[s] /\ sent'[s][k] = sent[s][k + 1] /\ k \in Nat /\ k # 0
    <3>1. Len(sent'[s]) = Len(sent[s]) - 1 /\ k \in 1..Len(sent'[s]) /\ Len(sent[s]) \in Nat
      BY <1>2, <2>1 DEF Taken
    <3>2. k \in 1..(Len(sent[s]) - 1) /\ ~(k < 1)
      BY <3>1
    <3>3. sent'[s][k] = sent[s][IF k < 1 THEN k ELSE k + 1]
      BY <2>1, <3>2 DEF Taken
    <3>4. k + 1 \in DOMAIN sent[s]
      BY <1>2, <3>2
    <3>5. QED BY <3>2, <3>3, <3>4
  <2>3. ASSUME NEW j \in DOMAIN sent[s], j > 1
        PROVE  j - 1 \in DOMAIN sent'[s] /\ sent'[s][j - 1] = sent[s][j] /\ j \in Nat
    <3>1. Len(sent'[s]) = Len(sent[s]) - 1 /\ j \in 1..Len(sent[s])
      BY <2>1 DEF Taken
    <3>2. j - 1 \in 1..(Len(sent[s]) - 1) /\ ~(j - 1 < 1) /\ j - 1 + 1 = j
      BY <1>2, <2>3, <3>1
    <3>3. sent'[s][j - 1] = sent[s][IF j - 1 < 1 THEN j - 1 ELSE j - 1 + 1]
      BY <2>1, <3>2 DEF Taken
    <3>4. QED BY <1>2, <3>1, <3>2, <3>3
  <2>4. ASSUME NEW k \in DOMAIN sent'[s], Later(r, s, k + 1)
        PROVE  Later(r, s, k)'
    <3>1. PICK j \in DOMAIN sent[s] : j > k + 1 /\ sent[s][j].by = r
      BY <2>4 DEF Later
    <3>2. j > 1 /\ j - 1 > k
      BY <1>2, <2>2, <3>1
    <3>3. QED BY <2>3, <3>1, <3>2 DEF Later
  <2>5. Later(r, s, 1) => Later(r, s, 0)'
    <3>1. SUFFICES ASSUME NEW j \in DOMAIN sent[s], j > 1, sent[s][j].by = r PROVE Later(r, s, 0)'
      BY DEF Later
    <3>2. j - 1 > 0
      BY <2>3, <3>1
    <3>3. QED BY <2>3, <3>1, <3>2 DEF Later
  <2>6. log'[s] <= p \/ Later(r, s, 0)'
    BY <2>1, <2>5 DEF Follows
  <2>7. \A k \in DOMAIN sent'[s] : sent'[s][k].mode <= p \/ Later(r, s, k)'
    BY <2>2, <2>4 DEF Follows
  <2>8. QED BY <2>6, <2>7 DEF Follows
<1>5. QED BY <1>3, <1>4

(* A prompt that waits was waiting before, under the same policy, and what *)
(* it relies on is kept.                                                   *)
LEMMA PromptStays ==
  ASSUME FenceInv, PromptsFollow, NEW r \in Request, PromptWaits(r), req'[r] = req[r], policy' = policy,
         \A s \in Session, p \in Policy :
           s = req[r].session /\ p = policy /\ Follows(r, s, p) => Follows(r, s, p)'
  PROVE  Follows(r, req[r].session, policy)'
<1>1. req[r].session \in Session /\ policy \in Policy
  BY DEF PromptWaits, FenceInv, Shape, SessionsNamed, AboutSession
<1>2. PICK s \in Session : s = req[r].session
  BY <1>1
<1>3. PICK p \in Policy : p = policy
  BY <1>1
<1>4. Follows(r, s, p)'
  BY <1>2, <1>3 DEF PromptsFollow
<1>5. s = req'[r].session /\ p = policy'
  BY <1>2, <1>3
<1>6. QED BY <1>4, <1>5 DEF Follows, Later

(* What a step of a request does to the modes: nothing, or it sends one,   *)
(* or it gives up the one it waits for; and the request waits accordingly. *)
LEMMA RequestSends ==
  ASSUME FenceInv, NEW r \in Request, RequestStep(r)
  PROVE  /\ UNCHANGED <<closed, policy, epoch, save>>
         /\ \/ /\ sent' = sent /\ req'[r].phase # "confining"
               /\ req[r].phase = "confining" => Pending(r) = {}
            \/ /\ req[r].phase \in {"created", "arriving", "waiting"}
               /\ req[r].phase = "created" \/ Owns(r)
               /\ Imposed(r) # NoPolicy /\ SendMode(r, {req[r].session}, Imposed(r))
               /\ Goto(r, "confining") /\ UNCHANGED <<known, log>>
            \/ req[r].phase = "confining" /\ Abandon(r) /\ Finish(r, "ended") /\ UNCHANGED <<known, log>>
<1>1. \A phase : /\ Goto(r, phase) => req'[r].phase = phase
                 /\ Finish(r, phase) => req'[r].phase = phase
  BY DEF Goto, Finish, FenceInv, Shape, RequestType, NoRequest
<1>2. \A kind, s, n, phase : Arrives(r, kind, s, n, phase) => req[r].phase = "idle" /\ req'[r].phase = phase
  BY DEF Arrives, FenceInv, Shape
<1>3. CASE \/ \E s \in Session : \/ StartCreate(r, s)
                                 \/ \E kind \in {"read", "prompt"} : StartUse(r, s, kind)
           \/ StartList(r) \/ ListAnswered(r)
  BY <1>1, <1>2, <1>3 DEF StartCreate, StartUse, StartList, ListAnswered, dbVars, memVars, hostVars
<1>4. CASE HostCreates(r) \/ CreateConfined(r) \/ WaitTimesOut(r) \/ PromptConfined(r) \/ ConfiningFails(r)
  BY <1>1, <1>4 DEF HostCreates, CreateConfined, WaitTimesOut, PromptConfined, ConfiningFails,
     dbVars, memVars, hostVars
<1>5. CASE CreateAnswered(r)
  BY <1>1, <1>5 DEF CreateAnswered
<1>6. CASE BodyArrives(r) \/ Woken(r)
  <2>1. UNCHANGED <<closed, policy, epoch, save, known, log>>
    BY <1>6 DEF BodyArrives, Woken, dbVars, memVars
  <2>2. CASE Check(r)
    BY <1>1, <1>6, <2>1, <2>2 DEF BodyArrives, Woken, Check
  <2>3. CASE req[r].phase = "arriving" /\ Goto(r, "waiting") /\ UNCHANGED sent
    BY <1>1, <2>1, <2>3
  <2>4. QED BY <1>6, <2>2, <2>3 DEF BodyArrives, Woken
<1>7. QED BY <1>3, <1>4, <1>5, <1>6 DEF RequestStep

(* The mode imposed is no wider than the policy of the moment.             *)
LEMMA ImposedIs ==
  ASSUME FenceInv, NEW r \in Request
  PROVE  Imposed(r) \in Policy /\ Imposed(r) <= policy
BY DEF Imposed, Least, FenceInv, Shape, RequestType, Policy, Narrow, Wide, NoPolicy

LEMMA ModeIsRank ==
  ASSUME NEW mode \in Policy, mode # NoPolicy
  PROVE  mode \in Rank
BY DEF Policy, Rank, Narrow, Wide, NoPolicy

(* What a step of a request does to the request, and to what is granted.   *)
LEMMA RequestMoves ==
  ASSUME FenceInv, GrantsKnown, NEW r \in Request, RequestStep(r)
  PROVE  \/ HostCreates(r)
         \/ /\ known' = known /\ log' = log /\ grants' \subseteq known
            /\ \/ \E s \in Session : StartCreate(r, s)
               \/ \E kind, s, n : \E phase \in {"listing", "arriving"} : Arrives(r, kind, s, n, phase)
               \/ \E phase \in {"confining", "waiting"} :
                    /\ AboutSession(r) /\ Goto(r, phase)
                    /\ phase = "confining" => req[r].session \in known
               \/ \E phase \in {"ended", "forwarded"} : Finish(r, phase)
<1>1. CASE HostCreates(r)
  BY <1>1
<1>2. CASE \E s \in Session : \/ StartCreate(r, s)
                              \/ \E kind \in {"read", "prompt"} : StartUse(r, s, kind)
  BY <1>2 DEF StartCreate, StartUse, hostVars, dbVars, GrantsKnown
<1>3. CASE StartList(r)
  BY <1>3 DEF StartList, hostVars, dbVars, GrantsKnown
<1>4. CASE ListAnswered(r)
  <2>1. grants' \subseteq known /\ Finish(r, "ended") /\ UNCHANGED hostVars
    BY <1>4 DEF ListAnswered, GrantsKnown
  <2>2. QED BY <2>1 DEF hostVars
<1>5. CASE CreateAnswered(r)
  <2>1. req[r].session \in known /\ AboutSession(r) /\ known' = known /\ log' = log
    BY <1>5 DEF CreateAnswered, GrantsKnown, AboutSession
  <2>2. CASE Attach(r) /\ Finish(r, "ended")
    BY <2>1, <2>2 DEF Attach, GrantsKnown
  <2>3. CASE Goto(r, "confining") /\ grants' = grants
    BY <2>1, <2>3 DEF GrantsKnown
  <2>4. QED BY <1>5, <2>2, <2>3 DEF CreateAnswered
<1>6. CASE CreateConfined(r)
  <2>1. req[r].session \in known /\ known' = known /\ log' = log /\ Attach(r) /\ Finish(r, "ended")
    BY <1>6 DEF CreateConfined, GrantsKnown, hostVars
  <2>2. QED BY <2>1 DEF Attach, GrantsKnown
<1>7. CASE ConfiningFails(r) \/ WaitTimesOut(r) \/ PromptConfined(r)
  BY <1>7 DEF ConfiningFails, WaitTimesOut, PromptConfined, hostVars, dbVars, GrantsKnown
<1>8. CASE BodyArrives(r) \/ Woken(r)
  <2>1. known' = known /\ log' = log /\ grants' \subseteq known /\ AboutSession(r)
    BY <1>8 DEF BodyArrives, Woken, dbVars, GrantsKnown, AboutSession
  <2>2. Owns(r) => req[r].session \in known
    BY DEF Owns, FenceInv, SnapshotAuthorized, Authorized, GrantsKnown
  <2>3. Check(r) \/ Goto(r, "waiting")
    BY <1>8 DEF BodyArrives, Woken
  <2>4. QED BY <2>1, <2>2, <2>3 DEF Check
<1>9. QED BY <1>1, <1>2, <1>3, <1>4, <1>5, <1>6, <1>7, <1>8 DEF RequestStep

(* The parts of the invariant that are not about modes.                    *)
LEMMA RequestKnows ==
  ASSUME FenceInv, PolicyFence, GrantsKnown, CreatedOnce, DraftsKnown, NEW r \in Request, RequestStep(r)
  PROVE  PolicyFence' /\ GrantsKnown' /\ CreatedOnce' /\ DraftsKnown'
<1>1. \A q \in Request : q # r => req'[q] = req[q]
  BY OthersStay
<1>2. UNCHANGED <<policy, epoch, save>>
  BY RequestSends
<1>3. req \in [Request -> RequestType] /\ known \subseteq known' /\ grants \subseteq known
  BY RequestMoves DEF FenceInv, Shape, GrantsKnown, HostCreates
<1>4. DraftsKnown'
  BY <1>2, <1>3 DEF DraftsKnown
<1>5. CASE HostCreates(r)
  <2>1. /\ req[r].phase = "creating" /\ known' = known \cup {req[r].session} /\ grants' = grants
        /\ req' = [req EXCEPT ![r].phase = "created"]
    BY <1>5 DEF HostCreates, Goto, dbVars
  <2>2. /\ req'[r].phase = "created" /\ req'[r].session = req[r].session
        /\ req'[r].epoch = req[r].epoch /\ req'[r].policy = req[r].policy
    BY <1>3, <2>1 DEF RequestType
  <2>3. GrantsKnown'
    BY <1>1, <1>3, <2>1, <2>2 DEF GrantsKnown
  <2>4. CreatedOnce'
    BY <1>1, <2>1, <2>2 DEF CreatedOnce
  <2>5. PolicyFence'
    BY <1>1, <1>2, <2>1, <2>2 DEF PolicyFence, AboutSession
  <2>6. QED BY <1>4, <2>3, <2>4, <2>5
<1>6. ASSUME NEW s \in Session, StartCreate(r, s), known' = known, grants' \subseteq known
      PROVE  PolicyFence' /\ GrantsKnown' /\ CreatedOnce'
  <2>1. /\ req'[r].phase = "creating" /\ req'[r].kind = "create" /\ req'[r].session = s
        /\ req'[r].policy = policy /\ s \notin known
        /\ \A q \in Request : req[q].phase = "creating" => req[q].kind # "create" \/ req[q].session # s
    BY <1>3, <1>6 DEF StartCreate, Arrives
  <2>2. QED BY <1>1, <1>2, <1>6, <2>1 DEF PolicyFence, GrantsKnown, CreatedOnce, AboutSession
<1>7. ASSUME NEW kind, NEW s, NEW n, NEW phase \in {"listing", "arriving"}, Arrives(r, kind, s, n, phase),
             known' = known, grants' \subseteq known
      PROVE  PolicyFence' /\ GrantsKnown' /\ CreatedOnce'
  <2>1. req'[r].phase = phase /\ req'[r].policy = policy
    BY <1>3, <1>7 DEF Arrives
  <2>2. QED BY <1>1, <1>2, <1>7, <2>1 DEF PolicyFence, GrantsKnown, CreatedOnce, AboutSession
<1>8. ASSUME NEW phase \in {"confining", "waiting"}, AboutSession(r), Goto(r, phase),
             phase = "confining" => req[r].session \in known, known' = known, grants' \subseteq known
      PROVE  PolicyFence' /\ GrantsKnown' /\ CreatedOnce'
  <2>1. /\ req'[r].phase = phase /\ req'[r].session = req[r].session
        /\ req'[r].epoch = req[r].epoch /\ req'[r].policy = req[r].policy
    BY <1>3, <1>8 DEF Goto, RequestType
  <2>2. QED BY <1>1, <1>2, <1>8, <2>1 DEF PolicyFence, GrantsKnown, CreatedOnce, AboutSession
<1>9. ASSUME NEW phase \in {"ended", "forwarded"}, Finish(r, phase), known' = known, grants' \subseteq known
      PROVE  PolicyFence' /\ GrantsKnown' /\ CreatedOnce'
  <2>1. req'[r].phase = phase
    BY <1>3, <1>9 DEF Finish, NoRequest
  <2>2. QED BY <1>1, <1>2, <1>9, <2>1 DEF PolicyFence, GrantsKnown, CreatedOnce, AboutSession
<1>10. QED BY <1>4, <1>5, <1>6, <1>7, <1>8, <1>9, RequestMoves

LEMMA RequestModes ==
  ASSUME Ordered, FenceInv, ModesInv, NEW r \in Request, RequestStep(r)
  PROVE  ModesInv'
<1>1. PolicyFence' /\ GrantsKnown' /\ CreatedOnce' /\ DraftsKnown'
  BY RequestKnows DEF ModesInv
<1>2. \A q \in Request : q # r => req'[q] = req[q]
  BY OthersStay
<1>3. UNCHANGED <<policy, epoch, save>> /\ r \notin Admin
  BY RequestSends, SessionAccessAssumption
<1>4. Waiting \ {r} \subseteq Waiting'
  BY <1>2, <1>3 DEF Waiting
<1>5. \/ log' = log
      \/ HostCreates(r) /\ log' = [log EXCEPT ![req[r].session] = Wide]
  BY RequestMoves DEF ModesInv, HostCreates
<1>6. log' \in [Session -> Rank]
  BY <1>5 DEF ModesInv, ModesTyped, Rank
<1>7. ASSUME NEW q \in Request, q # r, PromptWaits(q)'
      PROVE  PromptWaits(q) /\ req'[q] = req[q] /\ policy' = policy
  BY <1>2, <1>3, <1>7 DEF PromptWaits
<1>8. CASE /\ sent' = sent /\ req'[r].phase # "confining"
           /\ req[r].phase = "confining" => Pending(r) = {}
  <2>1. OwnModes'
    <3>1. \A w \in Waiting : Pending(w) # {} => w \in Waiting'
      BY <1>3, <1>4, <1>8 DEF Waiting
    <3>2. QED BY <1>8, <3>1, OwnRest DEF ModesInv
  <2>2. ASSUME NEW q \in Request, PromptWaits(q)'
        PROVE  Follows(q, req[q].session, policy)'
    <3>1. q # r
      BY <1>8, <2>2 DEF PromptWaits
    <3>2. PromptWaits(q) /\ req'[q] = req[q] /\ policy' = policy
      BY <1>7, <2>2, <3>1
    <3>3. log'[req[q].session] = log[req[q].session]
      <4>1. req[q].session \in known
        BY <3>2 DEF PromptWaits, ModesInv, GrantsKnown
      <4>2. HostCreates(r) => req[r].session \notin known
        BY DEF HostCreates, ModesInv, CreatedOnce
      <4>3. req[q].session \in Session
        BY <4>1 DEF FenceInv, Shape
      <4>4. QED BY <1>5, <4>1, <4>2, <4>3 DEF ModesInv, ModesTyped
    <3>4. \A s \in Session, p \in Policy : s = req[q].session /\ Follows(q, s, p) => Follows(q, s, p)'
      BY <1>8, <3>3 DEF Follows, Later
    <3>5. QED BY <3>2, <3>4, PromptStays DEF ModesInv
  <2>3. PromptsFollow'
    BY <2>2 DEF PromptsFollow
  <2>4. QED BY <1>1, <1>6, <1>8, <2>1, <2>3 DEF ModesInv, ModesTyped
<1>9. CASE /\ req[r].phase \in {"created", "arriving", "waiting"}
           /\ Imposed(r) # NoPolicy /\ SendMode(r, {req[r].session}, Imposed(r))
           /\ Goto(r, "confining") /\ UNCHANGED <<known, log>>
  <2>1. req'[r].phase = "confining" /\ req'[r].session = req[r].session
    BY <1>9 DEF Goto, FenceInv, Shape, RequestType
  <2>2. PICK s \in Session : s = req[r].session
    BY <1>9 DEF FenceInv, SessionsNamed, AboutSession
  <2>3. PICK mode \in Policy : mode = Imposed(r)
    BY ImposedIs
  <2>4. mode \in Rank /\ mode <= policy /\ SendMode(r, {s}, mode)
    BY <1>9, <2>2, <2>3, ImposedIs, ModeIsRank
  <2>5. sent' \in [Session -> Seq(Entry)]
    BY <2>4, SendIs DEF ModesInv
  <2>6. OwnModes'
    <3>1. r \notin Waiting /\ r \in Waiting'
      BY <1>3, <1>9, <2>1 DEF Waiting
    <3>2. Waiting \subseteq Waiting'
      BY <1>4, <3>1
    <3>3. QED BY <2>4, <3>1, <3>2, OwnSend DEF ModesInv
  <2>7. ASSUME NEW q \in Request, PromptWaits(q)'
        PROVE  Follows(q, req[q].session, policy)'
    <3>1. CASE q = r
      <4>1. PICK p \in Policy : p = policy
        BY DEF FenceInv, Shape
      <4>2. Follows(r, s, p)'
        BY <2>4, <4>1, FollowsBegin DEF ModesInv
      <4>3. QED BY <1>3, <2>1, <2>2, <3>1, <4>1, <4>2 DEF Follows, Later
    <3>2. CASE q # r
      <4>1. PromptWaits(q) /\ req'[q] = req[q] /\ policy' = policy
        BY <1>7, <2>7, <3>2
      <4>2. ASSUME NEW t \in Session, NEW p \in Policy, p = policy, Follows(q, t, p)
            PROVE  Follows(q, t, p)'
        BY <1>9, <2>4, <4>2, FollowsSend DEF ModesInv
      <4>3. QED BY <4>1, <4>2, PromptStays DEF ModesInv
    <3>3. QED BY <3>1, <3>2
  <2>8. PromptsFollow'
    BY <2>7 DEF PromptsFollow
  <2>9. QED BY <1>1, <1>6, <2>5, <2>6, <2>8 DEF ModesInv, ModesTyped
<1>10. CASE Abandon(r) /\ Finish(r, "ended") /\ UNCHANGED <<known, log>>
  <2>1. req'[r].phase = "ended"
    BY <1>10 DEF Finish, NoRequest, FenceInv, Shape
  <2>2. OwnModes' /\ sent' \in [Session -> Seq(Entry)]
    BY <1>4, <1>10, OwnAbandon, AbandonIs DEF ModesInv
  <2>3. ASSUME NEW q \in Request, PromptWaits(q)'
        PROVE  Follows(q, req[q].session, policy)'
    <3>1. q # r
      BY <2>1, <2>3 DEF PromptWaits
    <3>2. PromptWaits(q) /\ req'[q] = req[q] /\ policy' = policy
      BY <1>7, <2>3, <3>1
    <3>3. \A s \in Session, p \in Policy : Follows(q, s, p) => Follows(q, s, p)'
      BY <1>10, <3>1, FollowsAbandon DEF ModesInv
    <3>4. QED BY <3>2, <3>3, PromptStays DEF ModesInv
  <2>4. PromptsFollow'
    BY <2>3 DEF PromptsFollow
  <2>5. QED BY <1>1, <1>6, <2>2, <2>4 DEF ModesInv, ModesTyped
<1>11. QED BY <1>8, <1>9, <1>10, RequestSends

(* A save that leaves the epoch alone has sent no mode.                    *)
LEMMA CommitModes ==
  ASSUME Ordered, FenceInv, ModesInv, NEW a \in Admin, NEW d \in SaveType, Commit(a, d),
         save[a].phase \in {"idle", "probing"},
         d.newGrants \subseteq known, ~d.submitted => d.newGrants = d.grants,
         UNCHANGED <<req, known, log>>
  PROVE  ModesInv'
<1>1. save \in [Admin -> SaveType] /\ a \notin Request
  BY SessionAccessAssumption DEF FenceInv, Shape
<1>2. CASE ~AsExpected(d)
  <2>1. save' = [save EXCEPT ![a] = [NoSave EXCEPT !.phase = "over"]] /\ UNCHANGED <<dbVars, epoch, sent>>
    BY <1>2 DEF Commit
  <2>2. save'[a].phase = "over" /\ \A b \in Admin : b # a => save'[b] = save[b]
    BY <1>1, <2>1 DEF NoSave
  <2>3. Waiting \subseteq Waiting'
    BY <2>2 DEF Waiting
  <2>4. DraftsKnown'
    BY <2>2 DEF ModesInv, DraftsKnown
  <2>5. OwnModes'
    BY <2>1, <2>3, OwnRest DEF ModesInv
  <2>6. PromptsFollow'
    BY <2>1 DEF ModesInv, PromptsFollow, PromptWaits, Follows, Later, dbVars
  <2>7. QED BY <2>1, <2>4, <2>5, <2>6
        DEF ModesInv, ModesTyped, PolicyFence, AboutSession, GrantsKnown, CreatedOnce, dbVars
<1>3. CASE AsExpected(d)
  <2> DEFINE phase == IF ToEnforce(d) = {} THEN "over" ELSE "enforcing"
  <2>1. /\ policy' = d.newPolicy /\ grants' = IF d.submitted THEN d.newGrants ELSE grants
        /\ SendMode(a, ToEnforce(d), d.newPolicy)
        /\ save' = [save EXCEPT ![a] = [NoSave EXCEPT !.phase = phase, !.targets = ToEnforce(d)]]
    BY <1>3 DEF Commit
  <2>2. save'[a].phase = phase /\ \A b \in Admin : b # a => save'[b] = save[b]
    BY <1>1, <2>1 DEF NoSave
  <2>3. ToEnforce(d) # {} => d.newPolicy \in Rank
    BY ModeIsRank DEF ToEnforce, SaveType
  <2>4. a \notin Waiting /\ (ToEnforce(d) # {} => a \in Waiting') /\ Waiting \subseteq Waiting'
    BY <1>1, <2>2 DEF Waiting
  <2>5. OwnModes' /\ sent' \in [Session -> Seq(Entry)]
    BY <2>1, <2>3, <2>4, OwnSend, SendIs DEF ModesInv
  <2>6. DraftsKnown'
    BY <2>2 DEF ModesInv, DraftsKnown
  <2>7. GrantsKnown' /\ CreatedOnce'
    BY <2>1 DEF ModesInv, GrantsKnown, CreatedOnce
  <2>8. PolicyFence' /\ PromptsFollow'
    <3>1. CASE AccessChanges(d)
      <4>1. epoch' = epoch + 1
        BY <1>3, <3>1 DEF Commit, Invalidate
      <4>2. \A r \in Request : req[r].epoch \in Nat /\ epoch \in Nat
        BY DEF FenceInv, Shape, RequestType
      <4>3. \A r \in Request : AboutSession(r) => req[r].epoch # epoch'
        BY <4>1, <4>2 DEF FenceInv, FenceHolds, UnderWay
      <4>4. QED BY <4>3 DEF PolicyFence, PromptsFollow, PromptWaits, AboutSession
    <3>2. CASE ~AccessChanges(d)
      <4>1. d.newPolicy = d.policy /\ d.newGrants = d.grants
        BY <3>2, <1>3 DEF AccessChanges, AsExpected
      <4>2. ToEnforce(d) = {}
        <5>1. ~(d.newPolicy < d.policy)
          BY <4>1 DEF SaveType, Policy, Narrow, Wide, NoPolicy
        <5>2. QED BY <4>1, <5>1 DEF ToEnforce
      <4>3. epoch' = epoch /\ policy' = policy
        BY <1>3, <2>1, <3>2, <4>1 DEF Commit, AsExpected
      <4>4. sent' = sent
        BY <2>1, <4>2 DEF SendMode, ModesInv, ModesTyped
      <4>5. QED BY <4>3, <4>4
            DEF ModesInv, PolicyFence, AboutSession, PromptsFollow, PromptWaits, Follows, Later
    <3>3. QED BY <3>1, <3>2
  <2>9. QED BY <2>5, <2>6, <2>7, <2>8 DEF ModesInv, ModesTyped
<1>4. QED BY <1>2, <1>3

LEMMA SaveModes ==
  ASSUME Ordered, FenceInv, ModesInv, NEW a \in Admin,
         SaveOthers(a) \/ SaveProbing(a) \/ SaveProbed(a) \/ SaveEnforced(a)
  PROVE  ModesInv'
<1>1. \A submitted, folders \in BOOLEAN, newGrants, newClosed \in SUBSET Session, newPolicy \in Policy :
        Draft(submitted, folders, newGrants, newClosed, newPolicy) \in SaveType
  BY DEF Draft, SaveType, FenceInv, Shape
<1>2. grants \in SUBSET Session /\ grants \subseteq known /\ known \in SUBSET Session
  BY DEF FenceInv, Shape, ModesInv, GrantsKnown
<1>3. CASE SaveOthers(a)
  <2>1. PICK newClosed \in SUBSET Session, newPolicy \in Policy :
          Commit(a, Draft(FALSE, FALSE, grants, newClosed, newPolicy))
    BY <1>3 DEF SaveOthers
  <2>2. PICK d \in SaveType : d = Draft(FALSE, FALSE, grants, newClosed, newPolicy)
    BY <1>1, <1>2
  <2>3. d.newGrants = grants /\ d.grants = grants
    BY <2>2 DEF Draft
  <2>4. Commit(a, d) /\ save[a].phase = "idle" /\ UNCHANGED <<req, known, log>>
    BY <1>3, <2>1, <2>2 DEF SaveOthers
  <2>5. QED BY <1>2, <2>3, <2>4, CommitModes
<1>4. CASE SaveProbing(a)
  <2>1. UNCHANGED <<dbVars, memVars, req, hostVars>> /\ save[a].phase = "idle"
    BY <1>4 DEF SaveProbing
  <2>2. PICK d \in SaveType : /\ save' = [save EXCEPT ![a] = d]
                              /\ d.phase = "probing" /\ d.newGrants \subseteq known
                              /\ ~d.submitted => d.newGrants = d.grants
    <3>1. PICK newClosed \in SUBSET Session, newPolicy \in Policy, folders \in BOOLEAN :
            \/ \E newGrants \in SUBSET (known \cup grants) :
                 save' = [save EXCEPT ![a] = Draft(TRUE, folders, newGrants, newClosed, newPolicy)]
            \/ save' = [save EXCEPT ![a] = Draft(FALSE, TRUE, grants, newClosed, newPolicy)]
      BY <1>4 DEF SaveProbing
    <3>2. SUBSET (known \cup grants) = SUBSET known /\ SUBSET known \subseteq SUBSET Session
      BY <1>2
    <3>3. CASE \E newGrants \in SUBSET (known \cup grants) :
                 save' = [save EXCEPT ![a] = Draft(TRUE, folders, newGrants, newClosed, newPolicy)]
      <4>1. PICK newGrants \in SUBSET known :
              save' = [save EXCEPT ![a] = Draft(TRUE, folders, newGrants, newClosed, newPolicy)]
        BY <3>2, <3>3
      <4>2. PICK d \in SaveType : d = Draft(TRUE, folders, newGrants, newClosed, newPolicy)
        BY <1>1, <3>2
      <4>3. d.phase = "probing" /\ d.newGrants = newGrants /\ d.submitted = TRUE
        BY <4>2 DEF Draft
      <4>4. QED BY <4>1, <4>2, <4>3
    <3>4. CASE save' = [save EXCEPT ![a] = Draft(FALSE, TRUE, grants, newClosed, newPolicy)]
      <4>1. PICK d \in SaveType : d = Draft(FALSE, TRUE, grants, newClosed, newPolicy)
        BY <1>1, <1>2
      <4>2. d.phase = "probing" /\ d.newGrants = grants /\ d.grants = grants
        BY <4>1 DEF Draft
      <4>3. QED BY <1>2, <3>4, <4>1, <4>2
    <3>5. QED BY <3>1, <3>3, <3>4
  <2>3. save'[a] = d /\ \A b \in Admin : b # a => save'[b] = save[b]
    BY <2>2 DEF FenceInv, Shape
  <2>4. Waiting \subseteq Waiting'
    BY <2>1, <2>3 DEF Waiting
  <2>5. DraftsKnown'
    BY <2>1, <2>2, <2>3 DEF ModesInv, DraftsKnown, hostVars
  <2>6. OwnModes'
    BY <2>1, <2>4, OwnRest DEF ModesInv, hostVars
  <2>7. PromptsFollow'
    BY <2>1 DEF ModesInv, PromptsFollow, PromptWaits, Follows, Later, dbVars, memVars, hostVars
  <2>8. QED BY <2>1, <2>5, <2>6, <2>7
        DEF ModesInv, ModesTyped, PolicyFence, AboutSession, GrantsKnown, CreatedOnce, dbVars, memVars, hostVars
<1>5. CASE SaveProbed(a)
  <2>1. save[a] \in SaveType /\ save[a].phase = "probing" /\ Commit(a, save[a])
        /\ UNCHANGED <<req, known, log>>
    BY <1>5 DEF SaveProbed, FenceInv, Shape
  <2>2. PICK d \in SaveType : d = save[a]
    BY <2>1
  <2>3. d.newGrants \subseteq known /\ (~d.submitted => d.newGrants = d.grants)
    BY <2>1, <2>2 DEF ModesInv, DraftsKnown
  <2>4. QED BY <2>1, <2>2, <2>3, CommitModes
<1>6. CASE SaveEnforced(a)
  <2>1. PICK failed \in SUBSET save[a].targets :
          /\ grants' = grants \ failed
          /\ IF failed # {} THEN Invalidate ELSE UNCHANGED <<ready, access, epoch>>
    BY <1>6 DEF SaveEnforced
  <2>2. /\ Abandon(a) /\ save' = [save EXCEPT ![a] = [NoSave EXCEPT !.phase = "over"]]
        /\ UNCHANGED <<policy, req, known, log>>
    BY <1>6 DEF SaveEnforced
  <2>3. save'[a].phase = "over" /\ \A b \in Admin : b # a => save'[b] = save[b]
    BY <2>2 DEF NoSave, FenceInv, Shape
  <2>4. Waiting \ {a} \subseteq Waiting'
    BY <2>2, <2>3 DEF Waiting
  <2>5. OwnModes' /\ sent' \in [Session -> Seq(Entry)]
    BY <2>2, <2>4, OwnAbandon, AbandonIs DEF ModesInv
  <2>6. DraftsKnown' /\ GrantsKnown' /\ CreatedOnce'
    BY <2>1, <2>2, <2>3 DEF ModesInv, DraftsKnown, GrantsKnown, CreatedOnce
  <2>7. \A r \in Request : AboutSession(r) /\ req[r].epoch = epoch' => epoch' = epoch
    <3>1. \A r \in Request : req[r].epoch \in Nat /\ epoch \in Nat
      BY DEF FenceInv, Shape, RequestType
    <3>2. QED BY <2>1, <3>1 DEF FenceInv, FenceHolds, UnderWay, Invalidate
  <2>8. PolicyFence'
    BY <2>2, <2>7 DEF ModesInv, PolicyFence, AboutSession
  <2>9. ASSUME NEW r \in Request, PromptWaits(r)'
        PROVE  Follows(r, req[r].session, policy)'
    <3>1. PromptWaits(r) /\ req'[r] = req[r] /\ policy' = policy
      BY <2>2, <2>7, <2>9 DEF PromptWaits, AboutSession
    <3>2. a # r
      BY SessionAccessAssumption
    <3>3. \A s \in Session, p \in Policy : Follows(r, s, p) => Follows(r, s, p)'
      BY <2>2, <3>2, FollowsAbandon DEF ModesInv
    <3>4. QED BY <3>1, <3>3, PromptStays DEF ModesInv
  <2>10. PromptsFollow'
    BY <2>9 DEF PromptsFollow
  <2>11. QED BY <2>2, <2>5, <2>6, <2>8, <2>10 DEF ModesInv, ModesTyped
<1>7. QED BY <1>3, <1>4, <1>5, <1>6

LEMMA LandModes ==
  ASSUME Ordered, FenceInv, ModesInv, NEW t \in Session, NEW i, Lands(t, i)
  PROVE  ModesInv'
<1>1. UNCHANGED <<dbVars, memVars, req, save, known>>
  BY DEF Lands
<1>2. OwnModes' /\ ModesTyped'
  BY OwnLands, LandsIs DEF ModesInv, ModesTyped
<1>3. ASSUME NEW r \in Request, PromptWaits(r)'
      PROVE  Follows(r, req[r].session, policy)'
  <2>1. PromptWaits(r) /\ req'[r] = req[r] /\ policy' = policy
    BY <1>1, <1>3 DEF PromptWaits, dbVars, memVars
  <2>2. \A s \in Session, p \in Policy : Follows(r, s, p) => Follows(r, s, p)'
    BY FollowsLands DEF ModesInv
  <2>3. QED BY <2>1, <2>2, PromptStays DEF ModesInv
<1>4. PromptsFollow'
  BY <1>3 DEF PromptsFollow
<1>5. QED BY <1>1, <1>2, <1>4
      DEF ModesInv, PolicyFence, AboutSession, GrantsKnown, CreatedOnce, DraftsKnown, dbVars, memVars

LEMMA ModesRest ==
  ASSUME ModesInv, UNCHANGED <<grants, policy, epoch, req, save, hostVars>>
  PROVE  ModesInv'
BY DEF ModesInv, ModesTyped, OwnModes, Waiting, PolicyFence, AboutSession, GrantsKnown, CreatedOnce,
       DraftsKnown, PromptsFollow, PromptWaits, Follows, Later, hostVars

LEMMA ModesBegin == ASSUME Init PROVE ModesInv
<1>1. /\ req \in [Request -> {NoRequest}] /\ save \in [Admin -> {NoSave}]
      /\ sent \in [Session -> {<<>>}] /\ grants \subseteq known /\ policy \in Policy
      /\ log \in [Session -> {Wide, Least(Wide, policy)}]
  BY DEF Init
<1>2. Wide \in Rank /\ Least(Wide, policy) \in Rank
  BY <1>1 DEF Least, Rank, Policy, Wide, Narrow, NoPolicy
<1>3. \A r \in Request : req[r].phase = "idle"
  BY <1>1 DEF NoRequest
<1>4. \A a \in Admin : save[a].phase = "idle"
  BY <1>1 DEF NoSave
<1>5. ModesTyped /\ OwnModes
  <2>1. log \in [Session -> Rank]
    BY <1>1, <1>2
  <2>2. \A s \in Session : sent[s] = <<>>
    BY <1>1
  <2>3. <<>> \in Seq(Entry) /\ DOMAIN <<>> = {}
    OBVIOUS
  <2>4. sent \in [Session -> Seq(Entry)]
    BY <1>1, <2>3
  <2>5. QED BY <2>1, <2>2, <2>3, <2>4 DEF ModesTyped, OwnModes
<1>6. QED BY <1>1, <1>3, <1>4, <1>5
      DEF ModesInv, PolicyFence, AboutSession, GrantsKnown, CreatedOnce, DraftsKnown, PromptsFollow, PromptWaits

(* A prompt is passed on with nothing imposed, or with its mode landed and *)
(* the permissions it came in under.                                       *)
LEMMA PromptRuns ==
  ASSUME FenceInv, ModesInv, NEW r \in Request, RequestStep(r), req[r].kind = "prompt",
         req'[r].phase = "forwarded", req[r].phase # "forwarded"
  PROVE  log[req[r].session] <= policy
<1>1. \A phase : /\ Goto(r, phase) => req'[r].phase = phase
                 /\ Finish(r, phase) => req'[r].phase = phase
  BY DEF Goto, Finish, FenceInv, Shape, RequestType, NoRequest
<1>2. \A kind, s, n, phase : Arrives(r, kind, s, n, phase) => req'[r].phase = phase
  BY DEF Arrives, FenceInv, Shape
<1>3. AboutSession(r) /\ (Check(r) \/ PromptConfined(r))
  BY <1>1, <1>2 DEF RequestStep, StartCreate, StartUse, StartList, ListAnswered, HostCreates,
         CreateAnswered, CreateConfined, ConfiningFails, BodyArrives, Woken, WaitTimesOut, PromptConfined,
         AboutSession
<1>4. req[r].session \in Session /\ log[req[r].session] \in Rank
  BY <1>3 DEF FenceInv, SessionsNamed, ModesInv, ModesTyped
<1>5. CASE Check(r)
  <2>1. Imposed(r) = NoPolicy
    BY <1>1, <1>5 DEF Check
  <2>2. policy = NoPolicy
    BY <2>1, ImposedIs DEF Imposed, Least, FenceInv, Shape, RequestType, Policy, Narrow, Wide, NoPolicy
  <2>3. QED BY <1>4, <2>2 DEF Rank, Narrow, Wide, NoPolicy
<1>6. CASE PromptConfined(r)
  <2>1. StillOwns(r) /\ Pending(r) = {} /\ req[r].phase = "confining"
    BY <1>1, <1>6 DEF PromptConfined
  <2>2. PromptWaits(r)
    BY <2>1 DEF StillOwns, Unfenced, PromptWaits
  <2>3. Follows(r, req[r].session, policy)
    BY <2>2 DEF ModesInv, PromptsFollow
  <2>4. ~Later(r, req[r].session, 0)
    BY <1>4, <2>1 DEF Later, Pending
  <2>5. QED BY <2>3, <2>4 DEF Follows
<1>7. QED BY <1>3, <1>5, <1>6

(* ModesInv is an inductive invariant, given the fence.                    *)
THEOREM ModesInvariance == Ordered /\ Spec => []ModesInv
<1> SUFFICES ASSUME Ordered PROVE Spec => []ModesInv
  OBVIOUS
<1>1. Init => ModesInv
  BY ModesBegin
<1>2. FenceInv /\ ModesInv /\ [Next]_vars => ModesInv'
  <2> SUFFICES ASSUME FenceInv, ModesInv, [Next]_vars PROVE ModesInv'
    OBVIOUS
  <2>1. CASE \E r \in Request : RequestStep(r)
    BY <2>1, RequestModes
  <2>2. CASE \E a \in Admin :
               SaveOthers(a) \/ SaveProbing(a) \/ SaveProbed(a) \/ SaveEnforced(a)
    BY <2>2, SaveModes
  <2>3. CASE \E s \in Session : \E i \in DOMAIN sent[s] : Lands(s, i)
    BY <2>3, LandModes
  <2>4. CASE Baseline
    BY <2>4, ModesRest DEF Baseline
  <2>5. CASE UNCHANGED vars
    BY <2>5, ModesRest DEF vars, dbVars, memVars
  <2>6. QED BY <2>1, <2>2, <2>3, <2>4, <2>5 DEF Next
<1>3. QED BY <1>1, <1>2, FenceInvariance, PTL DEF Spec

(* A prompt runs in a session that writes no more than the policy of the   *)
(* moment allows, whatever other prompts, creations and saves impose on    *)
(* the same session, provided the host takes modes up in the order they    *)
(* were sent (applySandboxToSession() gives up after three seconds, and    *)
(* what it gave up may land later: a finding).                             *)
THEOREM PromptsRunConfined == Ordered /\ Spec => RunsConfined
<1>1. FenceInv /\ ModesInv /\ [Next]_vars =>
        [\A r \in Request :
           /\ req[r].kind = "prompt"
           /\ req'[r].phase = "forwarded" /\ req[r].phase # "forwarded"
           => log[req[r].session] <= policy]_vars
  <2> SUFFICES ASSUME FenceInv, ModesInv, Next, NEW r \in Request, req[r].kind = "prompt",
                      req'[r].phase = "forwarded", req[r].phase # "forwarded"
               PROVE  log[req[r].session] <= policy
    OBVIOUS
  <2>1. PICK q \in Request : RequestStep(q)
    BY DEF Next, SaveOthers, SaveProbing, SaveProbed, SaveEnforced, Lands, Baseline
  <2>2. q = r
    BY <2>1, OthersStay
  <2>3. QED BY <2>1, <2>2, PromptRuns
<1>2. QED BY <1>1, FenceInvariance, ModesInvariance, PTL DEF Spec, RunsConfined
==============================================================================
