---------------------------- MODULE EventStreams ----------------------------
(***************************************************************************)
(* What the host tells a user unasked, and the answers to its questions.   *)
(*                                                                         *)
(* A browser has one $events stream on its carrier; the host names it by a *)
(* client id in the first item.  A question of a session (an approval, a   *)
(* waterfall) goes to every client, and the gateway shows it where the     *)
(* session is allowed, remembering to whom (remoteEventOwnership).  The    *)
(* answer comes in a separate HTTP request.  Older browsers read event     *)
(* streams over HTTP (SSE) or a WebSocket of their own.                    *)
(*                                                                         *)
(* The host announces a session on $events before its session/create is    *)
(* answered and a grant exists: until then the gateway goes by what it     *)
(* notes when it forwards the request (pendingCreatedSessions).            *)
(*                                                                         *)
(* Permissions, logins and the snapshot change in between.  `off' stands   *)
(* for sessions switched off one by one and for those of `outside': not in *)
(* the allowed folders or in another user's workspace.  A handler is one   *)
(* step from one await to the next.                                        *)
(***************************************************************************)
EXTENDS Naturals, FiniteSets, Sequences

CONSTANTS
  User, Session, Event,
  Client,          \* client ids: each of one carrier of one user
  UserOf,          \* [Client -> User]
  Mine,            \* SUBSET (User \X Session): sessions in the user's own workspace
  Answer,          \* HTTP requests to $events/result, each made once
  Creation,        \* session/create requests, each made once
  Stream,          \* older event streams, each opened once
  ChannelOf,       \* [Stream -> {"host", "mux", "socket"}]
  MaxPending,      \* REMOTE_EVENT_MAX_PENDING
  MaxSaves,        \* bound: permission saves
  MaxEmits,        \* bound: notices of the host on $events
  MaxLate          \* bound: questions whose twelve hours pass

ASSUME EventStreamsAssumption ==
  /\ UserOf \in [Client -> User] /\ Mine \subseteq User \X Session
  /\ ChannelOf \in [Stream -> {"host", "mux", "socket"}]
  /\ {MaxPending, MaxSaves, MaxEmits, MaxLate} \subseteq Nat

VARIABLES
  grants, off,     \* [User -> SUBSET Session]: the database
  outside,         \* [User -> SUBSET Session]: the part of off that their folders decide
  ready, access,   \* [User -> BOOLEAN], [User -> SUBSET Session]: userSessionAccess
  valid,           \* [User -> BOOLEAN]: the token of the user's login is good
  born,            \* SUBSET Session: ids of sessions of the host
  coming,          \* [User -> SUBSET Session]: pendingCreatedSessions, not yet expired
  creation,        \* [Creation -> the request, with the permissions of its gate]
  carrier,         \* [Client -> "none" | "opened" | "ready" | "ended" | "closing" | "gone"]
  tracked,         \* [Client -> BOOLEAN]: its $events stream is among the active ones
  own,             \* remoteEventOwnership: [event, client, user, session]
  late,            \* pairs of own whose expiresAt has passed
  about,           \* [Event -> SUBSET Session]: the session that asks, if it has
  settled,         \* SUBSET Event: answered or withdrawn at the host
  wire,            \* [Client -> what is on its way from the host, in order]
  screen,          \* [Client -> SUBSET Event]: questions the browser shows
  answer,          \* [Answer -> the request]
  accepted,        \* sequence of pairs passed on to the host
  stream,          \* [Stream -> [phase, user, off]]
  heard,           \* [User -> SUBSET Session]: whose events reached the user
                   \* since the user's permissions changed
  announced,       \* [User -> SUBSET Session]: whose api-session/added did
  saves, emits, lates

made == <<born, coming, creation>>
rights == <<grants, off, outside, ready, access, valid, made>>
carriers == <<carrier, tracked, own, late, wire, screen>>
hostVars == <<about, settled>>
news == <<heard, announced>>
bounds == <<saves, emits, lates>>
vars == <<rights, carriers, hostVars, answer, accepted, stream, news, bounds>>

(* sessionAllowed(): grants and permissions are read anew for every frame. *)
Allowed(u, s) ==
  /\ s \in access[u] /\ s \notin off[u]
  /\ s \in grants[u] \/ <<u, s>> \in Mine

(* What a snapshot holds after a baseline.                                 *)
Authorized(u) == {s \in Session : s \in grants[u] \/ <<u, s>> \in Mine} \ off[u]

------------------------------------------------------------------------------
(* remoteEventOwnership.                                                   *)

(* Slip: the entry of every client that shows the question is dropped.     *)
WithoutEvent(e, c) == {o \in own : o.event # e}

(* remoteEventOwnershipKey(): a question and a client.                     *)
Without(e, c) == {o \in own : o.event # e \/ o.client # c}

Held(e, c) == {o \in own : o.event = e /\ o.client = c}

Room(e, c) == Cardinality(own) < MaxPending \/ Held(e, c) # {}

(* Slip: an answer leaves the entry for the next one.                      *)
NotConsumed(e, c) == own

(* The entry goes before the answer is passed on.                          *)
Consumed(e, c) == Without(e, c)

(* The client's close: entries of $events streams still active.            *)
Purged(c) == IF tracked[c] THEN {o \in own : o.client # c} ELSE own

------------------------------------------------------------------------------
(* The $events stream.                                                     *)

OpenEvents(c) ==
  /\ carrier[c] = "none" /\ valid[UserOf[c]]
  /\ carrier' = [carrier EXCEPT ![c] = "opened"]
  /\ tracked' = [tracked EXCEPT ![c] = TRUE]
  /\ UNCHANGED <<rights, own, late, wire, screen, hostVars, answer, accepted, stream, news, bounds>>

(* The ready item: only the first is taken. Nothing passes before it.      *)
Ready(c) ==
  /\ carrier[c] = "opened"
  /\ carrier' = [carrier EXCEPT ![c] = "ready"]
  /\ UNCHANGED <<rights, tracked, own, late, wire, screen, hostVars, answer, accepted, stream, news, bounds>>

Frame(kind, e, s) == [kind |-> kind, event |-> e, session |-> s]
Popped(c) == [wire EXCEPT ![c] = Tail(wire[c])]
Listening(c) == carrier[c] = "ready" /\ wire[c] # <<>>

(* remoteMuxEventSessionId(): the session a notice names.                  *)
Named(f) == f.session

(* A question: shown where its session is allowed and there is room.       *)
ShowQuestion(c) ==
  LET f == Head(wire[c])  key == <<f.event, c>> IN
  /\ Listening(c) /\ f.kind = "waterfall"
  /\ wire' = Popped(c)
  /\ IF Allowed(UserOf[c], f.session) /\ Room(f.event, c)
       THEN /\ own' = Without(f.event, c) \cup
                 {[event |-> f.event, client |-> c, user |-> UserOf[c], session |-> f.session]}
            /\ late' = late \ {key}
            /\ screen' = [screen EXCEPT ![c] = @ \cup {f.event}]
       ELSE UNCHANGED <<own, late, screen>>
  /\ UNCHANGED <<rights, carrier, tracked, hostVars, answer, accepted, stream, news, bounds>>

(* cancel: passed on only to the client that was shown the question.       *)
Cancel(c) ==
  LET e == Head(wire[c]).event IN
  /\ Listening(c) /\ Head(wire[c]).kind = "cancel"
  /\ wire' = Popped(c)
  /\ IF \E o \in Held(e, c) : o.user = UserOf[c]
       THEN own' = Without(e, c) /\ screen' = [screen EXCEPT ![c] = @ \ {e}]
       ELSE UNCHANGED <<own, screen>>
  /\ UNCHANGED <<rights, carrier, tracked, late, hostVars, answer, accepted, stream, news, bounds>>

(* pendingSessionAllowedForEvent(): neither grant, snapshot nor a session  *)
(* switched off are asked for, only its folder.                            *)
MayAnnounce(u, s) == s \in coming[u] /\ s \notin outside[u]

(* emit: api-session/activity and the like, by the session it names;       *)
(* api-session/added also for a session that is being created.             *)
Notice(c) ==
  LET f == Head(wire[c])  s == Named(f)  u == UserOf[c] IN
  /\ Listening(c) /\ f.kind \in {"emit", "added"}
  /\ wire' = Popped(c)
  /\ \/ /\ f.kind = "emit" /\ Allowed(u, s)
        /\ heard' = [heard EXCEPT ![u] = @ \cup {s}] /\ UNCHANGED announced
     \/ /\ f.kind = "added" /\ (Allowed(u, s) \/ MayAnnounce(u, s))
        /\ announced' = [announced EXCEPT ![u] = @ \cup {s}] /\ UNCHANGED heard
     \/ /\ ~Allowed(u, s) /\ (f.kind = "emit" \/ ~MayAnnounce(u, s))
        /\ UNCHANGED news
  /\ UNCHANGED <<rights, carrier, tracked, own, late, screen, hostVars, answer, accepted, stream, bounds>>

(* end or error of the stream: the carrier lives on.                       *)
EndEvents(c) ==
  /\ carrier[c] \in {"opened", "ready"}
  /\ carrier' = [carrier EXCEPT ![c] = "ended"]
  /\ tracked' = [tracked EXCEPT ![c] = FALSE]
  /\ wire' = [wire EXCEPT ![c] = <<>>]
  /\ UNCHANGED <<rights, own, late, screen, hostVars, answer, accepted, stream, news, bounds>>

(* The client leg closes, on its own or because the gateway asked it to.   *)
ClientCloses(c) ==
  /\ carrier[c] \in {"opened", "ready", "ended", "closing"}
  /\ carrier' = [carrier EXCEPT ![c] = "gone"]
  /\ own' = Purged(c)
  /\ tracked' = [tracked EXCEPT ![c] = FALSE]
  /\ wire' = [wire EXCEPT ![c] = <<>>]
  /\ screen' = [screen EXCEPT ![c] = {}]
  /\ UNCHANGED <<rights, late, hostVars, answer, accepted, stream, news, bounds>>

(* The host asks every client at once.                                     *)
Asks(e, s) ==
  /\ about[e] = {} /\ s \in born
  /\ about' = [about EXCEPT ![e] = {s}]
  /\ wire' = [c \in Client |-> IF carrier[c] \in {"opened", "ready"}
                THEN Append(wire[c], Frame("waterfall", e, s)) ELSE wire[c]]
  /\ UNCHANGED <<rights, carrier, tracked, own, late, screen, settled, answer, accepted, stream, news, bounds>>

(* ... and lets the others know when it has an answer, or none is needed.  *)
Settles(e) ==
  /\ about[e] # {} /\ e \notin settled
  /\ settled' = settled \cup {e}
  /\ \E s \in about[e] :
       wire' = [c \in Client |-> IF carrier[c] \in {"opened", "ready"}
                  THEN Append(wire[c], Frame("cancel", e, s)) ELSE wire[c]]
  /\ UNCHANGED <<rights, carrier, tracked, own, late, screen, about, answer, accepted, stream, news, bounds>>

Emits(c, e, s) ==
  /\ carrier[c] \in {"opened", "ready"} /\ wire[c] = <<>> /\ s \in born
  /\ emits < MaxEmits
  /\ \/ s \notin heard[UserOf[c]] /\ wire' = [wire EXCEPT ![c] = <<Frame("emit", e, s)>>]
     \/ s \notin announced[UserOf[c]] /\ wire' = [wire EXCEPT ![c] = <<Frame("added", e, s)>>]
  /\ emits' = emits + 1
  /\ UNCHANGED <<rights, carrier, tracked, own, late, screen, hostVars, answer, accepted, stream, news, saves, lates>>

(* Twelve hours later.                                                     *)
GrowsOld(o) ==
  /\ lates < MaxLate /\ <<o.event, o.client>> \notin late
  /\ late' = late \cup {<<o.event, o.client>>}
  /\ lates' = lates + 1
  /\ UNCHANGED <<rights, carrier, tracked, own, wire, screen, hostVars, answer, accepted, stream, news, saves, emits>>

(* The sweep every ten minutes.                                            *)
Sweep ==
  /\ \E o \in own : <<o.event, o.client>> \in late
  /\ own' = {o \in own : <<o.event, o.client>> \notin late}
  /\ UNCHANGED <<rights, carrier, tracked, late, wire, screen, hostVars, answer, accepted, stream, news, bounds>>

------------------------------------------------------------------------------
(* $events/result.                                                         *)

NoAnswer == [phase |-> "idle", user |-> CHOOSE u \in User : TRUE, event |-> CHOOSE e \in Event : TRUE,
             client |-> CHOOSE c \in Client : TRUE, off |-> {}]

(* The gate takes the permissions; the body is awaited.                    *)
PostAnswer(a, u, e, c) ==
  /\ answer[a].phase = "idle" /\ valid[u]
  /\ answer' = [answer EXCEPT ![a] =
       [phase |-> "sent", user |-> u, event |-> e, client |-> c, off |-> off[u]]]
  /\ UNCHANGED <<rights, carriers, hostVars, accepted, stream, news, bounds>>

(* Slip: whose question it is is not compared.                             *)
AnswerableByAny(q, o) ==
  /\ <<o.event, o.client>> \notin late
  /\ o.session \in access[q.user]
  /\ o.session \in grants[q.user] /\ o.session \notin q.off

Answerable(q, o) ==
  /\ <<o.event, o.client>> \notin late
  /\ o.user = q.user
  /\ o.session \in access[q.user]
  /\ o.session \in grants[q.user] /\ o.session \notin q.off

BodyRead(a) ==
  LET q == answer[a] IN
  /\ q.phase = "sent"
  /\ IF \E o \in Held(q.event, q.client) : Answerable(q, o)
       THEN /\ own' = Consumed(q.event, q.client)
            /\ accepted' = Append(accepted, <<q.event, q.client>>)
            /\ answer' = [answer EXCEPT ![a] = [NoAnswer EXCEPT !.phase = "forwarded"]]
       ELSE /\ answer' = [answer EXCEPT ![a] = [NoAnswer EXCEPT !.phase = "refused"]]
            /\ UNCHANGED <<own, accepted>>
  /\ UNCHANGED <<rights, carrier, tracked, late, wire, screen, hostVars, stream, news, bounds>>

------------------------------------------------------------------------------
(* The older streams.                                                      *)

(* The request passes the gate. A WebSocket is registered at the upgrade,  *)
(* an SSE stream when the host has answered.                               *)
AskStream(k, u) ==
  /\ stream[k].phase = "idle" /\ valid[u]
  /\ stream' = [stream EXCEPT ![k] =
       [phase |-> IF ChannelOf[k] = "socket" THEN "live" ELSE "asked", user |-> u, off |-> off[u]]]
  /\ UNCHANGED <<rights, carriers, hostVars, answer, accepted, news, bounds>>

HostAnswers(k) ==
  /\ stream[k].phase = "asked"
  /\ stream' = [stream EXCEPT ![k].phase = "live"]
  /\ UNCHANGED <<rights, carriers, hostVars, answer, accepted, news, bounds>>

StreamCloses(k) ==
  /\ stream[k].phase \in {"asked", "live"}
  /\ stream' = [stream EXCEPT ![k].phase = "closed"]
  /\ UNCHANGED <<rights, carriers, hostVars, answer, accepted, news, bounds>>

(* hostEventFilter(), filterEventWebSocketFrame(): the permissions and the *)
(* snapshot of this moment.                                                *)
HostPasses(k, s) ==
  LET u == stream[k].user IN ready[u] /\ s \in access[u] /\ s \notin off[u]

SocketPasses(k, s) ==
  LET u == stream[k].user IN s \in access[u] /\ s \notin off[u]

(* muxEventFilter(): the snapshot of this moment, the permissions of the   *)
(* request.                                                                *)
MuxPasses(k, s) == s \in access[stream[k].user] \ stream[k].off

Passes(k, s) ==
  CASE ChannelOf[k] = "host" -> HostPasses(k, s)
    [] ChannelOf[k] = "mux" -> MuxPasses(k, s)
    [] ChannelOf[k] = "socket" -> SocketPasses(k, s)

Delivers(k, s) ==
  LET u == stream[k].user IN
  /\ stream[k].phase = "live" /\ s \notin heard[u] /\ Passes(k, s)
  /\ heard' = [heard EXCEPT ![u] = @ \cup {s}]
  /\ UNCHANGED <<rights, carriers, hostVars, answer, accepted, stream, announced, bounds>>

------------------------------------------------------------------------------
(* session/create: a new id, or the blank session its user has already.    *)

NoCreation == [phase |-> "idle", user |-> CHOOSE u \in User : TRUE, named |-> {},
               off |-> {}, outside |-> {}, current |-> TRUE]

(* Of k's user; `named' holds the session once it is chosen, `current' is  *)
(* the comparison of the request's epoch with the user's.                  *)
GateCreate(k, u) ==
  /\ creation[k].phase = "idle" /\ valid[u]
  /\ creation' = [creation EXCEPT ![k] =
       [NoCreation EXCEPT !.phase = "gated", !.user = u, !.off = off[u], !.outside = outside[u]]]
  /\ UNCHANGED <<grants, off, outside, ready, access, valid, born, coming>>
  /\ UNCHANGED <<carriers, hostVars, answer, accepted, stream, news, bounds>>

(* authorizedSubuserSessionRoot() of the session the browser names, with   *)
(* the permissions of the gate.                                            *)
Reusable(k, s) ==
  LET u == creation[k].user IN
  /\ s \in access[u] /\ s \notin creation[k].off
  /\ s \in grants[u] \/ <<u, s>> \in Mine

(* The body is read: the folder of s was allowed at the gate.              *)
ForwardCreate(k, s) ==
  LET u == creation[k].user IN
  /\ creation[k].phase = "gated" /\ s \notin creation[k].outside
  /\ s \notin born \/ s \in coming[u] \/ Reusable(k, s)
  /\ creation' = [creation EXCEPT ![k] =
       [NoCreation EXCEPT !.phase = "asked", !.user = u, !.named = {s}, !.current = creation[k].current]]
  /\ born' = born \cup {s}
  /\ coming' = [coming EXCEPT ![u] = @ \cup {s}]
  /\ UNCHANGED <<grants, off, outside, ready, access, valid>>
  /\ UNCHANGED <<carriers, hostVars, answer, accepted, stream, news, bounds>>

Over(k) ==
  LET q == creation[k] IN
  [creation EXCEPT ![k] = [NoCreation EXCEPT !.phase = "over", !.user = q.user, !.named = q.named]]
Cleared(k) ==
  [coming EXCEPT ![creation[k].user] = @ \ creation[k].named]

(* The host has answered with the id it was given: a grant and a line of   *)
(* the snapshot, unless permissions changed since the gate.                *)
CreateAnswered(k) ==
  LET q == creation[k]  u == q.user  kept == q.named \ off[u] IN
  /\ q.phase = "asked"
  /\ creation' = Over(k) /\ coming' = Cleared(k)
  /\ IF q.current
       THEN /\ grants' = [grants EXCEPT ![u] = @ \cup kept]
            /\ access' = [access EXCEPT ![u] = @ \cup kept]
            /\ ready' = [ready EXCEPT ![u] = TRUE]
       ELSE UNCHANGED <<grants, access, ready>>
  /\ UNCHANGED <<off, outside, valid, born>>
  /\ UNCHANGED <<carriers, hostVars, answer, accepted, stream, news, bounds>>

(* Refused, refused by the host, answered with another id, timed out or    *)
(* given up by the browser.                                                *)
CreateEnds(k) ==
  /\ creation[k].phase \in {"gated", "asked"}
  /\ creation' = Over(k) /\ coming' = Cleared(k)
  /\ UNCHANGED <<grants, off, outside, ready, access, valid, born>>
  /\ UNCHANGED <<carriers, hostVars, answer, accepted, stream, news, bounds>>

(* Thirty seconds have passed, or 256 others came.                         *)
Forgets(u, s) ==
  /\ s \in coming[u]
  /\ coming' = [coming EXCEPT ![u] = @ \ {s}]
  /\ UNCHANGED <<grants, off, outside, ready, access, valid, born, creation>>
  /\ UNCHANGED <<carriers, hostVars, answer, accepted, stream, news, bounds>>

------------------------------------------------------------------------------
(* Rights.                                                                 *)

(* workspace.list or the baseline of workspace/follow.                     *)
Listed(u) ==
  /\ valid[u] /\ (~ready[u] \/ access[u] # Authorized(u) \cap born)
  /\ ready' = [ready EXCEPT ![u] = TRUE]
  /\ access' = [access EXCEPT ![u] = Authorized(u) \cap born]
  /\ UNCHANGED <<grants, off, outside, valid, made, carriers, hostVars, answer, accepted, stream, news, bounds>>

(* Slip: what is being created outlives the permissions of its request.    *)
InvalidatedLater(u) ==
  /\ ready' = [ready EXCEPT ![u] = FALSE] /\ access' = [access EXCEPT ![u] = {}]
  /\ UNCHANGED coming

(* invalidateUserSessionAccess()                                           *)
Invalidated(u) ==
  /\ ready' = [ready EXCEPT ![u] = FALSE] /\ access' = [access EXCEPT ![u] = {}]
  /\ coming' = [coming EXCEPT ![u] = {}]

(* bumpUserAccessEpoch()                                                   *)
Bumped(u) ==
  creation' = [k \in Creation |-> IF creation[k].user = u
                 THEN [creation[k] EXCEPT !.current = FALSE] ELSE creation[k]]

(* closeUserRemoteMuxClients(): the streams stay among the active ones     *)
(* until the close is answered, but nothing passes any more.               *)
ClosingAll(u) ==
  carrier' = [c \in Client |-> IF UserOf[c] = u /\ carrier[c] \in {"opened", "ready", "ended"}
                THEN "closing" ELSE carrier[c]]

(* closeUserWebSocketClients(): only what is registered.                   *)
Dropped(u) ==
  stream' = [k \in Stream |-> IF stream[k].user = u /\ stream[k].phase = "live"
               THEN [stream[k] EXCEPT !.phase = "closed"] ELSE stream[k]]

(* A session is granted or switched off by its id, others by their folder. *)
SavePermissions(u, newGrants, newOff, newOutside) ==
  /\ saves < MaxSaves
  /\ <<newGrants, newOff, newOutside>> # <<grants[u], off[u], outside[u]>>
  /\ newOutside \subseteq newOff /\ newGrants \cup (newOff \ newOutside) \subseteq born
  /\ grants' = [grants EXCEPT ![u] = newGrants]
  /\ off' = [off EXCEPT ![u] = newOff]
  /\ outside' = [outside EXCEPT ![u] = newOutside]
  /\ Invalidated(u) /\ Bumped(u) /\ ClosingAll(u) /\ Dropped(u)
  /\ heard' = [heard EXCEPT ![u] = {}] /\ announced' = [announced EXCEPT ![u] = {}]
  /\ saves' = saves + 1
  /\ UNCHANGED <<valid, born, tracked, own, late, wire, screen, hostVars, answer, accepted, emits, lates>>

(* /gateway/logout and internal/invalidate-user.                           *)
Logout(u) ==
  /\ valid[u]
  /\ valid' = [valid EXCEPT ![u] = FALSE]
  /\ ClosingAll(u) /\ Dropped(u)
  /\ UNCHANGED <<grants, off, outside, ready, access, made, tracked, own, late, wire, screen, hostVars, answer, accepted, news, bounds>>

------------------------------------------------------------------------------
(* Carriers may be ready, and carriers, requests and streams over and      *)
(* bounds used up, from the start: a smaller instance.                     *)
Init ==
  /\ born \in SUBSET Session /\ grants \in [User -> SUBSET born]
  /\ off = [u \in User |-> {}] /\ outside = [u \in User |-> {}]
  /\ ready = [u \in User |-> FALSE] /\ access = [u \in User |-> {}]
  /\ coming = [u \in User |-> {}]
  /\ \E p \in {"idle", "over"} : creation = [k \in Creation |-> [NoCreation EXCEPT !.phase = p]]
  /\ valid \in [User -> BOOLEAN]
  /\ carrier \in [Client -> {"none", "ready", "gone"}]
  /\ tracked = [c \in Client |-> carrier[c] = "ready"]
  /\ own = {} /\ late = {}
  /\ about = [e \in Event |-> {}] /\ settled = {}
  /\ wire = [c \in Client |-> <<>>] /\ screen = [c \in Client |-> {}]
  /\ \E p \in {"idle", "refused"} : answer = [a \in Answer |-> [NoAnswer EXCEPT !.phase = p]]
  /\ accepted = <<>>
  /\ \E p \in {"idle", "closed"} : stream = [k \in Stream |->
       [phase |-> p, user |-> CHOOSE u \in User : TRUE, off |-> {}]]
  /\ heard = [u \in User |-> {}] /\ announced = [u \in User |-> {}]
  /\ saves = 0 /\ emits \in {0, MaxEmits} /\ lates \in {0, MaxLate}

Next ==
  \/ \E c \in Client : OpenEvents(c) \/ Ready(c) \/ ShowQuestion(c) \/ Cancel(c)
                       \/ Notice(c) \/ EndEvents(c) \/ ClientCloses(c)
  \/ \E e \in Event, s \in Session : Asks(e, s) \/ \E c \in Client : Emits(c, e, s)
  \/ \E e \in Event : Settles(e)
  \/ \E o \in own : GrowsOld(o)
  \/ Sweep
  \/ \E a \in Answer : BodyRead(a) \/ \E u \in User, e \in Event, c \in Client : PostAnswer(a, u, e, c)
  \/ \E k \in Stream : HostAnswers(k) \/ StreamCloses(k)
                       \/ (\E u \in User : AskStream(k, u)) \/ (\E s \in Session : Delivers(k, s))
  \/ \E k \in Creation : CreateAnswered(k) \/ CreateEnds(k)
                         \/ (\E u \in User : GateCreate(k, u)) \/ (\E s \in Session : ForwardCreate(k, s))
  \/ \E u \in User : Listed(u) \/ Logout(u) \/ (\E s \in Session : Forgets(u, s))
                     \/ \E g, x, y \in SUBSET Session : SavePermissions(u, g, x, y)

Spec == Init /\ [][Next]_vars

------------------------------------------------------------------------------
(* An answer reaches the host only from the user whose client was shown    *)
(* the question, only while that user may use the session, although the    *)
(* request carries the permissions of its start, and at most once from a   *)
(* client, however many requests carry it (proxy.ts:2655-2687).            *)
AnsweredOnceByItsReader ==
  [][/\ \A i, j \in DOMAIN accepted' : accepted'[i] = accepted'[j] => i = j
     /\ \A a \in Answer : answer[a].phase = "sent" /\ answer'[a].phase = "forwarded" =>
          LET q == answer[a] IN
            /\ q.user = UserOf[q.client]
            /\ about[q.event] \subseteq grants[q.user] \ off[q.user]]_vars

(* A user who may use the session, sees the question and has not answered  *)
(* it from there is never refused before the twelve hours are over, nor    *)
(* because another client answered (gateway.ts:2483: a question may go to  *)
(* several clients, and the key is both ids).                              *)
Owed(a) ==
  LET q == answer[a] IN
  /\ answer[a].phase = "sent" /\ answer'[a].phase = "refused"
  /\ q.user = UserOf[q.client] /\ q.event \in screen[q.client]
  /\ <<q.event, q.client>> \notin late
  /\ \A i \in DOMAIN accepted : accepted[i] # <<q.event, q.client>>
  /\ about[q.event] \subseteq access[q.user] \ (off[q.user] \cup q.off)

GrantedMayAnswer ==
  [][\A a \in Answer : Owed(a) => ~(about[answer[a].event] \subseteq grants[answer[a].user])]_vars

(* The same for every session the user may use, those in a workspace of    *)
(* the user's own included, where no grant is needed (gateway.ts:2518, one *)
(* decision for HTTP and Remote alike).                                    *)
ShownMayBeAnswered ==
  [][\A a \in Answer : Owed(a) => ~(about[answer[a].event] \subseteq Authorized(answer[a].user))]_vars

(* Since the last change of a user's permissions no stream has told the    *)
(* user of a session outside them, also not one opened before the change   *)
(* with the permissions of that time (gateway.ts:3003), and only the       *)
(* sessions that requests of the user asked for were announced before they *)
(* were granted: none switched off, none outside the folders of this       *)
(* moment, although the folder was checked with those of the gate          *)
(* (proxy.ts:3016, gateway.ts:2706).                                       *)
Begun(u) == {s \in Session : \E k \in Creation : creation[k].user = u /\ s \in creation[k].named}

HeardIsAllowed ==
  \A u \in User :
    /\ heard[u] \subseteq Authorized(u)
    /\ announced[u] \subseteq Authorized(u) \cup (Begun(u) \ off[u])

(* Logging out ends the event streams opened with the login                *)
(* (proxy.ts:2228).                                                        *)
StreamsEndAtLogout ==
  \A k \in Stream : stream[k].phase = "live" => valid[stream[k].user]
=============================================================================
