----------------------------- MODULE MuxCarrier ------------------------------
(***************************************************************************)
(* The /api/remote.mux carrier of src/src/proxy.ts: the gateway between a  *)
(* browser and the host, multiplexing logical streams over one WebSocket   *)
(* to each.  It registers streams, queues frames for a host that is not    *)
(* connected yet, defers session streams until the user's workspace        *)
(* baseline is known, rejects single streams, and closes both legs when    *)
(* either fails or the user's permissions are revoked.                     *)
(*                                                                         *)
(* The two senders are taken at their word (MessagePipe): a queue whose    *)
(* head is being written, of which cancel() removes what has not begun.    *)
(* Bytes are counted in frames.  Every action is a whole event handler,    *)
(* built as a draft `d' of the state the handlers may update.              *)
(***************************************************************************)
EXTENDS Integers, Sequences, FiniteSets, SequencesExt

CONSTANTS
  Stream,        \* stream ids the browser uses
  NoStream,      \* a stream id that is not in `active'
  Subuser,       \* BOOLEAN: a sub-user's carrier, or an administrator's
  IdReuse,       \* BOOLEAN: the browser opens an id again after its stream
  MaxStreams,    \* REMOTE_MUX_MAX_STREAMS
  MaxPending,    \* REMOTE_MUX_MAX_PENDING_BYTES
  Capacity,      \* frames a sender accepts
  MaxOpens,      \* BOUND: streams opened in a behaviour
  MaxHostOut     \* BOUND: frames of the host under way

Endpoint == {"workspace", "session", "control", "plain"}
Filtered == {"workspace", "session", "control"}
Opening  == 1..MaxOpens    \* every open gets a number: this stream, not that
                           \* earlier one under the same id
Leg == {"connecting", "open", "closing", "terminated", "closed"}

ASSUME CarrierAssumption ==
  /\ {Subuser, IdReuse} \subseteq BOOLEAN
  /\ {MaxStreams, MaxPending, Capacity, MaxOpens, MaxHostOut} \subseteq Nat
  /\ NoStream \notin [endpoint : Endpoint, opening : Opening]

VARIABLES
  active,          \* [Stream -> NoStream or the stream open under the id]
  deferred,        \* pendingSessionStreams, in insertion order
  forwarded,       \* upstreamForwardedStreamIds
  pending,         \* frames for a host that is not connected
  pendingBytes,
  up, down,        \* the senders' queues, head in flight
  disposed,        \* disposeCarrier(): senders and heartbeats
  closeIssued, grace,
  client, upstream,                     \* the two legs
  registered,      \* in remoteMuxClientsByUser
  baseline,        \* userSessionAccess has this user
  granted,         \* streams whose session the user may follow
  opens,           \* the opens the browser sent, in order
  hostOpen,        \* [Stream -> number of the stream the host serves, or 0]
  hostOut,         \* frames from the host, not handled yet
  ended,           \* streams whose `end' or `error' reached the browser
  cancelled        \* streams the browser cancelled

carrierVars == <<active, deferred, forwarded, pending, pendingBytes, up, down,
                 disposed, closeIssued, grace, client, upstream, registered,
                 baseline>>
outsideVars == <<granted, opens, hostOpen, hostOut, ended, cancelled>>
vars == <<carrierVars, outsideVars>>

------------------------------------------------------------------------------
Now ==
  [active |-> active, deferred |-> deferred, forwarded |-> forwarded,
   pending |-> pending, pendingBytes |-> pendingBytes, up |-> up, down |-> down,
   disposed |-> disposed, closeIssued |-> closeIssued, grace |-> grace,
   client |-> client, upstream |-> upstream, registered |-> registered,
   baseline |-> baseline]

Become(d) ==
  /\ active' = d.active /\ deferred' = d.deferred /\ forwarded' = d.forwarded
  /\ pending' = d.pending /\ pendingBytes' = d.pendingBytes
  /\ up' = d.up /\ down' = d.down /\ disposed' = d.disposed
  /\ closeIssued' = d.closeIssued /\ grace' = d.grace
  /\ client' = d.client /\ upstream' = d.upstream
  /\ registered' = d.registered /\ baseline' = d.baseline

Frame(kind, s, n) == [kind |-> kind, stream |-> s, opening |-> n, tagged |-> TRUE]
Untagged(f) == [f EXCEPT !.tagged = FALSE]

------------------------------------------------------------------------------
(* Closing.                                                                *)

Dispose(d) == [d EXCEPT !.disposed = TRUE, !.up = <<>>, !.down = <<>>]

Terminated(leg) == IF leg = "closed" THEN leg ELSE "terminated"

(* requestLegClose(): start the closing handshake, wait for a running one. *)
LegClosing(leg) ==
  CASE leg = "open"       -> "closing"
    [] leg = "connecting" -> "terminated"
    [] OTHER              -> leg

Settled(d) == d.client = "closed" /\ d.upstream = "closed"

(* Slip: the grace timer is not armed.                                     *)
ArmGraceNever(d) == d

(* armCloseGrace()                                                         *)
ArmGrace(d) == IF Settled(d) THEN d ELSE [d EXCEPT !.grace = TRUE]

(* closeCarrier(): dispose at once, ask each leg to close once.            *)
CloseCarrier(d) ==
  IF d.closeIssued THEN Dispose(d)
  ELSE ArmGrace([Dispose(d) EXCEPT !.closeIssued = TRUE,
                                   !.client = LegClosing(@),
                                   !.upstream = LegClosing(@)])

------------------------------------------------------------------------------
(* Sending.                                                                *)

(* MuxSender.cancel(tag): what is left of the first n frames of a queue.   *)
Unsent(q, s) ==
  LET left[n \in 0..Len(q)] ==
        IF n = 0 THEN <<>>
        ELSE IF n > 1 /\ q[n].tagged /\ q[n].stream = s THEN left[n - 1]
        ELSE Append(left[n - 1], q[n])
  IN  left

WithoutUnsent(q, s) == Unsent(q, s)[Len(q)]

(* sendClientControlFrame(): no room closes the carrier.                   *)
SendControl(d, f) ==
  IF d.disposed THEN d
  ELSE IF Len(d.down) < Capacity THEN [d EXCEPT !.down = Append(@, Untagged(f))]
  ELSE CloseCarrier(d)

Connected(d) == d.upstream = "open"

(* queueUpstreamFrame(): what it returns ...                               *)
UpstreamTakes(d) ==
  IF ~Connected(d) THEN d.pendingBytes + 1 <= MaxPending
  ELSE ~d.disposed /\ Len(d.up) < Capacity

(* ... and what it does with a control frame: no room closes the carrier.  *)
QueueUp(d, f) ==
  IF UpstreamTakes(d)
    THEN IF Connected(d)
           THEN [d EXCEPT !.up = Append(@, f)]
           ELSE [d EXCEPT !.pending = Append(@, f), !.pendingBytes = @ + 1]
  ELSE IF Connected(d) /\ d.disposed THEN d
  ELSE CloseCarrier(d)

IsDeferred(d, s) == \E i \in 1..Len(d.deferred) : d.deferred[i].stream = s

Entry(d, s) == CHOOSE i \in 1..Len(d.deferred) : d.deferred[i].stream = s

(* Slip: the bytes are given back though the stream is not deferred.       *)
DropAnyway(d, s) ==
  [d EXCEPT !.deferred = IF IsDeferred(d, s) THEN RemoveAt(@, Entry(d, s)) ELSE @,
            !.pendingBytes = @ - 1]

(* dropPendingSessionStream()                                              *)
DropDeferred(d, s) ==
  IF IsDeferred(d, s)
    THEN [d EXCEPT !.deferred = RemoveAt(@, Entry(d, s)),
                   !.pendingBytes = IF @ = 0 THEN 0 ELSE @ - 1]
    ELSE d

(* Forget what the gateway knows of a stream, what waits for it included.  *)
Forgotten(d, s) ==
  [DropDeferred(d, s) EXCEPT !.active[s] = NoStream,
                             !.up = WithoutUnsent(@, s),
                             !.down = WithoutUnsent(@, s),
                             !.forwarded = @ \ {s}]

(* Slips: the host is not told; the browser is not told.                   *)
RejectQuietly(d, s, n) == SendControl(Forgotten(d, s), Frame("error", s, n))

RejectUntold(d, s, n) ==
  IF s \in d.forwarded THEN QueueUp(Forgotten(d, s), Frame("cancel", s, n))
  ELSE Forgotten(d, s)

(* rejectLogicalStream(): end one stream, tell the host if it knows it,    *)
(* tell the browser; the other streams of the carrier go on.               *)
Reject(d, s, n) ==
  LET told == IF s \in d.forwarded
                THEN QueueUp(Forgotten(d, s), Frame("cancel", s, n))
                ELSE Forgotten(d, s)
  IN  SendControl(told, Frame("error", s, n))

(* sendClientItemFrame(): no room rejects the stream.                      *)
ClientTakes(d) == ~d.disposed /\ Len(d.down) < Capacity

SendItem(d, s, n) ==
  IF d.disposed THEN d
  ELSE IF ClientTakes(d) THEN [d EXCEPT !.down = Append(@, Frame("item", s, n))]
  ELSE Reject(d, s, n)

(* queueUpstreamFrame(.., 'item'): no room in the sender rejects only the  *)
(* stream.                                                                 *)
QueueUpItem(d, s, n) ==
  IF Connected(d) /\ ~d.disposed /\ ~UpstreamTakes(d) THEN Reject(d, s, n)
  ELSE QueueUp(d, Frame("item", s, n))

(* A stream's open goes out, now or once the host is connected.            *)
ForwardOpen(d, s, n) ==
  LET d1 == QueueUp(d, Frame("open", s, n))
  IN  IF UpstreamTakes(d) THEN [d1 EXCEPT !.forwarded = @ \cup {s}] ELSE d1

------------------------------------------------------------------------------
(* Deferred session streams.                                               *)

(* Slip: nothing looks at the TTL.                                         *)
ExpireNone(d) == d

ExpireOne(d, e) == IF e.late THEN Reject(d, e.stream, e.opening) ELSE d

(* expirePendingSessionStreams(): the TTL of some has passed.              *)
Expiry(d, q) ==
  LET upTo[n \in 0..Len(q)] == IF n = 0 THEN d ELSE ExpireOne(upTo[n - 1], q[n])
  IN  upTo

Expire(d) == Expiry(d, d.deferred)[Len(d.deferred)]

(* Slip: the authorization is not looked up again.                         *)
MayFollowUnchecked(e) == e.endpoint = "session"

MayFollow(e) == e.endpoint = "session" /\ e.stream \in granted

(* Slip: the stream goes out and stays deferred.                           *)
FlushOneKeeping(acc, e) ==
  IF ~acc.go THEN acc
  ELSE IF Subuser /\ e.endpoint # "control" /\ ~MayFollow(e)
    THEN [acc EXCEPT !.d = Reject(@, e.stream, e.opening)]
  ELSE [d |-> ForwardOpen(acc.d, e.stream, e.opening), go |-> UpstreamTakes(acc.d)]

(* flushPendingSessionStreams(): authorize every deferred stream again and *)
(* forward or reject it; stop as soon as the carrier cannot take one.      *)
FlushOne(acc, e) ==
  IF ~acc.go THEN acc
  ELSE IF Subuser /\ e.endpoint # "control" /\ ~MayFollow(e)
    THEN [acc EXCEPT !.d = Reject(@, e.stream, e.opening)]
  ELSE LET d1 == DropDeferred(acc.d, e.stream)
       IN  IF d1.active[e.stream] = NoStream THEN [acc EXCEPT !.d = d1]
           ELSE [d |-> ForwardOpen(d1, e.stream, e.opening),
                 go |-> UpstreamTakes(d1)]

Flushing(d, q) ==
  LET upTo[n \in 0..Len(q)] ==
        IF n = 0 THEN [d |-> d, go |-> TRUE] ELSE FlushOne(upTo[n - 1], q[n])
  IN  upTo

Flush(d) ==
  LET d1 == Expire(d)
  IN  Flushing(d1, d1.deferred)[Len(d1.deferred)].d

------------------------------------------------------------------------------
(* client.on('message').  The browser may go on speaking while its leg is  *)
(* closing.                                                                *)

ClientSpeaks == client \in {"open", "closing"}

(* An entry under the same id would be overwritten, with its bytes counted *)
(* twice.                                                                  *)
Defer(d, s, n, endpoint) ==
  LET e == [stream |-> s, opening |-> n, endpoint |-> endpoint, late |-> FALSE]
  IN  IF d.pendingBytes + 1 > MaxPending THEN Reject(d, s, n)
      ELSE [d EXCEPT !.pendingBytes = @ + 1,
                     !.deferred = IF IsDeferred(d, s) THEN [@ EXCEPT ![Entry(d, s)] = e]
                                  ELSE Append(@, e)]

(* Refused by the rules for endpoints and payloads (`refused'), or because *)
(* the user's baseline does not hold the session.                          *)
Denied(s, endpoint, refused) ==
  /\ Subuser
  /\ refused \/ (endpoint = "session" /\ baseline /\ s \notin granted)

Opened(d, s, n, endpoint, refused) ==
  IF d.active[s] # NoStream
     \/ Cardinality({t \in Stream : d.active[t] # NoStream}) >= MaxStreams
    THEN CloseCarrier(d)
  ELSE IF Denied(s, endpoint, refused) THEN Reject(d, s, n)
  ELSE LET d1 == [d EXCEPT !.active[s] = [endpoint |-> endpoint, opening |-> n]]
       IN  IF endpoint \in {"session", "control"} /\ ~baseline
             THEN Defer(d1, s, n, endpoint)
             ELSE ForwardOpen(d1, s, n)

ClientOpens(s, endpoint, refused) ==
  /\ ClientSpeaks
  /\ Len(opens) < MaxOpens
  /\ IdReuse \/ \A i \in 1..Len(opens) : opens[i].stream # s
  /\ ~Subuser => endpoint = "plain"
  /\ opens' = Append(opens, [stream |-> s, endpoint |-> endpoint])
  /\ Become(Opened(Expire(Now), s, Len(opens) + 1, endpoint, refused))
  /\ UNCHANGED <<granted, hostOpen, hostOut, ended, cancelled>>

Cancelled(d, s) ==
  IF d.active[s] = NoStream THEN d
  ELSE IF IsDeferred(d, s)
    THEN [DropDeferred(d, s) EXCEPT !.active[s] = NoStream]
  ELSE LET d1 == QueueUp(d, Frame("cancel", s, d.active[s].opening))
       IN  IF ~UpstreamTakes(d) THEN d1
           ELSE [d1 EXCEPT !.down = WithoutUnsent(@, s),
                           !.forwarded = @ \ {s}, !.active[s] = NoStream]

ClientCancels(s) ==
  /\ ClientSpeaks
  /\ active[s] # NoStream
  /\ Become(Cancelled(Expire(Now), s))
  /\ cancelled' = IF Expire(Now).active[s] = NoStream THEN cancelled
                   ELSE cancelled \cup {active[s].opening}
  /\ UNCHANGED <<granted, opens, hostOpen, hostOut, ended>>

(* An `item' or `end' of the browser only passes on a stream that is not   *)
(* filtered and that the host was told of.                                 *)
ClientSends(s, kind) ==
  /\ ClientSpeaks
  /\ LET d == Expire(Now)
         passes == /\ d.active[s] # NoStream
                   /\ d.active[s].endpoint = "plain"
                   /\ s \in d.forwarded
     IN  Become(IF ~passes THEN d
                ELSE IF kind = "item" THEN QueueUpItem(d, s, d.active[s].opening)
                ELSE QueueUp(d, Frame("end", s, d.active[s].opening)))
  /\ UNCHANGED outsideVars

(* A frame no carrier may get: not text, not parseable, wrong payload.     *)
ClientMisspeaks ==
  /\ ClientSpeaks
  /\ Become(CloseCarrier(Expire(Now)))
  /\ UNCHANGED outsideVars

------------------------------------------------------------------------------
(* upstreamWs.on('open') and on('message').                                *)

(* What waited goes to the sender, untagged, while it has room.            *)
Drain(d) ==
  IF d.disposed THEN d
  ELSE LET room  == Capacity - Len(d.up)
           moved == IF Len(d.pending) <= room THEN Len(d.pending) ELSE room
           d1 == [d EXCEPT
                   !.up = @ \o [i \in 1..moved |-> Untagged(d.pending[i])],
                   !.pending = SubSeq(@, moved + 1, Len(@)),
                   !.pendingBytes = @ - moved]
       IN  IF moved < Len(d.pending) THEN CloseCarrier(d1) ELSE d1

UpstreamOpens ==
  /\ upstream = "connecting"
  /\ Become(Drain([Now EXCEPT !.upstream = "open"]))
  /\ UNCHANGED outsideVars

HostSpeaks == upstream \in {"open", "closing"}

(* filterRemoteMuxUserItem(): what the filter makes of an item.            *)
Filterings(stream) ==
  CASE stream.endpoint = "plain"   -> {"pass"}
    [] stream.endpoint = "session" -> {"pass", "drop", "refuse"}
    [] OTHER                       -> {"pass", "drop"}

(* The filter records the baseline; if the browser can be sent it too, the *)
(* deferred streams are taken up.                                          *)
BaselineShown(d, f) ==
  LET d1 == [d EXCEPT !.baseline = TRUE]
      d2 == SendItem(d1, f.stream, f.opening)
  IN  IF ClientTakes(d1) THEN Flush(d2) ELSE d2

(* Slip: the stream stays registered after its end.                        *)
EndedButActive(d, f) == SendControl(d, f)

Ended(d, f) ==
  IF ~ClientTakes(d) THEN SendControl(d, f)
  ELSE [SendControl(d, f) EXCEPT !.active[f.stream] = NoStream,
                                 !.forwarded = @ \ {f.stream}]

(* A frame of a stream that is not active is dropped: it raced a cancel.   *)
HostMessage ==
  /\ HostSpeaks
  /\ hostOut # <<>>
  /\ hostOut' = Tail(hostOut)
  /\ LET f == Head(hostOut)
         stream == active[f.stream]
     IN  IF stream = NoStream \/ client # "open" THEN UNCHANGED carrierVars
         ELSE IF f.kind = "end" THEN Become(Ended(Now, f))
         ELSE \E filtering \in Filterings(stream) :
           Become(CASE filtering = "drop"   -> Now
                    [] filtering = "refuse" -> Reject(Now, f.stream, stream.opening)
                    [] filtering = "pass" /\ f.kind = "baseline" /\ stream.endpoint = "workspace" ->
                         BaselineShown(Now, f)
                    [] OTHER -> SendItem(Now, f.stream, f.opening))
  /\ UNCHANGED <<granted, opens, hostOpen, ended, cancelled>>

HostMisspeaks ==
  /\ HostSpeaks
  /\ Become(CloseCarrier(Now))
  /\ UNCHANGED outsideVars

------------------------------------------------------------------------------
(* Timers, failures and the other parts of the gateway.                    *)

(* MuxHeartbeat's onTick.                                                  *)
HeartbeatTick ==
  /\ ~disposed
  /\ Become(Expire(Now))
  /\ UNCHANGED outsideVars

(* onFailure of a sender, or onClose of a heartbeat.                       *)
LegFails ==
  /\ ~disposed
  /\ Become(CloseCarrier(Now))
  /\ UNCHANGED outsideVars

(* client.on('error') and upstreamWs.on('error'): ws is closing the leg.   *)
ClientErrors ==
  /\ client \in {"open", "closing"}
  /\ Become(CloseCarrier([Now EXCEPT !.client = "closing"]))
  /\ UNCHANGED outsideVars

UpstreamErrors ==
  /\ upstream \in {"connecting", "open", "closing"}
  /\ Become(CloseCarrier([Now EXCEPT !.upstream = "closing"]))
  /\ UNCHANGED outsideVars

(* client.on('close') and upstreamWs.on('close'): the other leg follows.   *)
ClientCloses ==
  /\ client # "closed"
  /\ LET d == [Dispose(Now) EXCEPT !.client = "closed", !.registered = FALSE,
                                   !.upstream = LegClosing(@)]
     IN  Become([d EXCEPT !.grace = ~Settled(d)])
  /\ UNCHANGED outsideVars

(* The host ends what it served on the connection.                         *)
UpstreamCloses ==
  /\ upstream # "closed"
  /\ LET d == [Dispose(Now) EXCEPT !.upstream = "closed", !.client = LegClosing(@)]
     IN  Become([d EXCEPT !.grace = ~Settled(d)])
  /\ hostOpen' = [s \in Stream |-> 0]
  /\ hostOut' = <<>>
  /\ UNCHANGED <<granted, opens, ended, cancelled>>

BroughtDown(leg) == Terminated(leg)

(* The grace timer: what has not finished its handshake is brought down.   *)
GraceFires ==
  /\ grace
  /\ Become([Dispose(Now) EXCEPT !.grace = FALSE,
                                 !.client = BroughtDown(@),
                                 !.upstream = BroughtDown(@)])
  /\ UNCHANGED outsideVars

(* teardownCarrier()                                                       *)
TornDown(d) == ArmGrace(Dispose(d))

(* closeUserRemoteMuxClients() of gateway.ts, after the user's permissions *)
(* changed: tear the carrier down, then close an open browser leg and      *)
(* terminate any other.  Sessions may have been withdrawn.                 *)
Revoke ==
  /\ registered
  /\ Become([TornDown(Now) EXCEPT
               !.registered = FALSE, !.baseline = FALSE,
               !.client = IF @ = "open" THEN "closing" ELSE Terminated(@)])
  /\ granted' \in SUBSET granted
  /\ UNCHANGED <<opens, hostOpen, hostOut, ended, cancelled>>

(* A session the user has just created is granted.                         *)
GrantSession(s) ==
  /\ s \notin granted
  /\ granted' = granted \cup {s}
  /\ UNCHANGED <<carrierVars, opens, hostOpen, hostOut, ended, cancelled>>

(* Another carrier or workspace.list establishes the baseline.             *)
BaselineElsewhere ==
  /\ Subuser /\ ~baseline
  /\ baseline' = TRUE
  /\ UNCHANGED <<active, deferred, forwarded, pending, pendingBytes, up, down,
                 disposed, closeIssued, grace, client, upstream, registered,
                 outsideVars>>

(* An item for a stream that follows the workspaces and shows this one, by *)
(* the order of the opens, which is that of the map `active'.  An item     *)
(* that cannot be sent may stop it.                                        *)
Follows(d, n) ==
  d.active[opens[n].stream] = [endpoint |-> "workspace", opening |-> n]

PublishTo(acc, n, showing, untilFull) ==
  IF acc.go /\ Follows(acc.d, n) /\ opens[n].stream \in showing
    THEN [d |-> SendItem(acc.d, opens[n].stream, n), go |-> untilFull => ClientTakes(acc.d)]
    ELSE acc

Publishing(d, showing, untilFull) ==
  LET upTo[n \in 0..Len(opens)] ==
        IF n = 0 THEN [d |-> d, go |-> TRUE]
        ELSE PublishTo(upTo[n - 1], n, showing, untilFull)
  IN  upTo

(* publishWorkspaceUpsert(): an item to each, until one cannot be sent.    *)
PublishWorkspaceUpsert ==
  /\ registered /\ Subuser
  /\ Become(Publishing(Now, Stream, TRUE)[Len(opens)].d)
  /\ UNCHANGED outsideVars

(* publishSessionAttachment(): an item to each that shows the workspace,   *)
(* one that cannot be sent does not stop the others.                       *)
PublishSessionAttachment ==
  /\ registered /\ Subuser /\ baseline
  /\ \E showing \in SUBSET Stream :
       Become(Publishing(Now, showing, FALSE)[Len(opens)].d)
  /\ UNCHANGED outsideVars

------------------------------------------------------------------------------
(* The peers and the clock.                                                *)

(* The last fragment of the head of a sender's queue is written; the host  *)
(* takes up or drops the stream, the browser sees it end.                  *)
HostReceives ==
  /\ up # <<>>
  /\ up' = Tail(up)
  /\ hostOpen' = CASE Head(up).kind = "open" ->
                        [hostOpen EXCEPT ![Head(up).stream] = Head(up).opening]
                   [] Head(up).kind = "cancel" ->
                        [hostOpen EXCEPT ![Head(up).stream] = 0]
                   [] OTHER -> hostOpen
  /\ UNCHANGED <<active, deferred, forwarded, pending, pendingBytes, down,
                 disposed, closeIssued, grace, client, upstream, registered,
                 baseline, granted, opens, hostOut, ended, cancelled>>

Final(f) == f.kind \in {"end", "error"}

ClientReceives ==
  /\ down # <<>>
  /\ down' = Tail(down)
  /\ ended' = IF Final(Head(down)) THEN ended \cup {Head(down).opening} ELSE ended
  /\ UNCHANGED <<active, deferred, forwarded, pending, pendingBytes, up,
                 disposed, closeIssued, grace, client, upstream, registered,
                 baseline, granted, opens, hostOpen, hostOut, cancelled>>

HostSends(s, kind) ==
  /\ HostSpeaks
  /\ hostOpen[s] # 0
  /\ Len(hostOut) < MaxHostOut
  /\ kind = "baseline" => opens[hostOpen[s]].endpoint = "workspace"
  /\ hostOut' = Append(hostOut, Frame(kind, s, hostOpen[s]))
  /\ hostOpen' = IF kind = "end" THEN [hostOpen EXCEPT ![s] = 0] ELSE hostOpen
  /\ UNCHANGED <<carrierVars, granted, opens, ended, cancelled>>

(* The TTL of the oldest entry that is not late yet has passed.            *)
TtlPasses ==
  \E i \in 1..Len(deferred) :
    /\ ~deferred[i].late
    /\ \A j \in 1..i - 1 : deferred[j].late
    /\ deferred' = [deferred EXCEPT ![i].late = TRUE]
    /\ UNCHANGED <<active, forwarded, pending, pendingBytes, up, down, disposed,
                   closeIssued, grace, client, upstream, registered, baseline,
                   outsideVars>>

------------------------------------------------------------------------------
Init ==
  /\ active = [s \in Stream |-> NoStream]
  /\ deferred = <<>> /\ forwarded = {}
  /\ pending = <<>> /\ pendingBytes = 0
  /\ up = <<>> /\ down = <<>>
  /\ disposed = FALSE /\ closeIssued = FALSE /\ grace = FALSE
  /\ client = "open" /\ upstream = "connecting"
  /\ registered = TRUE
  /\ baseline \in IF Subuser THEN BOOLEAN ELSE {FALSE}
  /\ granted \in SUBSET Stream
  /\ opens = <<>>
  /\ hostOpen = [s \in Stream |-> 0] /\ hostOut = <<>>
  /\ ended = {} /\ cancelled = {}

Next ==
  \/ \E s \in Stream, endpoint \in Endpoint, refused \in BOOLEAN :
       ClientOpens(s, endpoint, refused)
  \/ \E s \in Stream : ClientCancels(s) \/ GrantSession(s)
  \/ \E s \in Stream, kind \in {"item", "end"} : ClientSends(s, kind)
  \/ ClientMisspeaks
  \/ UpstreamOpens \/ HostMessage \/ HostMisspeaks
  \/ HeartbeatTick \/ LegFails
  \/ ClientErrors \/ UpstreamErrors \/ ClientCloses \/ UpstreamCloses
  \/ GraceFires \/ Revoke \/ BaselineElsewhere
  \/ PublishWorkspaceUpsert \/ PublishSessionAttachment
  \/ HostReceives \/ ClientReceives
  \/ \E s \in Stream, kind \in {"item", "baseline", "end"} : HostSends(s, kind)
  \/ TtlPasses

Spec == Init /\ [][Next]_vars

(* Timers run; a leg that was terminated reports its close.                *)
ClientIsGone == client = "terminated" /\ ClientCloses
UpstreamIsGone == upstream = "terminated" /\ UpstreamCloses

FairSpec ==
  /\ Spec
  /\ WF_vars(GraceFires)
  /\ WF_vars(ClientIsGone)
  /\ WF_vars(UpstreamIsGone)
  /\ WF_vars(HeartbeatTick)
  /\ WF_vars(TtlPasses)

------------------------------------------------------------------------------
FrameType == [kind : {"open", "item", "end", "cancel", "error", "baseline"},
              stream : Stream, opening : Opening, tagged : BOOLEAN]
OpenStream == [endpoint : Endpoint, opening : Opening]

(* Every variable keeps its type.                                          *)
TypeOK ==
  /\ active \in [Stream -> OpenStream \cup {NoStream}]
  /\ deferred \in Seq([stream : Stream, opening : Opening,
                       endpoint : {"session", "control"}, late : BOOLEAN])
  /\ forwarded \subseteq Stream
  /\ pending \in Seq(FrameType) /\ pendingBytes \in Nat
  /\ up \in Seq(FrameType) /\ down \in Seq(FrameType)
  /\ {disposed, closeIssued, grace, registered, baseline} \subseteq BOOLEAN
  /\ client \in Leg \ {"connecting"} /\ upstream \in Leg
  /\ granted \subseteq Stream
  /\ hostOpen \in [Stream -> Opening \cup {0}]
  /\ hostOut \in Seq(FrameType)
  /\ ended \subseteq Opening /\ cancelled \subseteq Opening

(* The shared pending budget counts exactly the frames that wait for the   *)
(* host's connection and the deferred streams, and is never exceeded,      *)
(* through rejection, expiry, cancellation, flush and drain.               *)
PendingCounted ==
  /\ pendingBytes = Len(pending) + Len(deferred)
  /\ pendingBytes <= MaxPending

(* The registers agree: what was forwarded or is deferred is active, and   *)
(* never both; an id is deferred at most once.                             *)
RegistersAgree ==
  /\ \A s \in forwarded : active[s] # NoStream /\ ~IsDeferred(Now, s)
  /\ \A i \in 1..Len(deferred) :
       /\ active[deferred[i].stream] # NoStream
       /\ active[deferred[i].stream].opening = deferred[i].opening

CancelUnderWay(s) == \E i \in 1..Len(up) : up[i].kind = "cancel" /\ up[i].stream = s

(* The host never serves a stream the gateway has forgotten: as long as    *)
(* the carrier lives, either it is still registered or a cancel for it is  *)
(* on its way.                                                             *)
NoOrphanAtHost ==
  \A s \in Stream :
    hostOpen[s] # 0 /\ ~disposed =>
      \/ s \in forwarded /\ active[s].opening = hostOpen[s]
      \/ CancelUnderWay(s)

(* No stream ends in silence: a stream the browser opened and did not      *)
(* cancel is registered, or the browser has seen its end, or that end is   *)
(* on its way, unless the whole carrier is closing.                        *)
NoSilentDrop ==
  \A n \in 1..Len(opens) :
    \/ disposed
    \/ n \in ended \cup cancelled
    \/ active[opens[n].stream] # NoStream /\ active[opens[n].stream].opening = n
    \/ \E i \in 1..Len(down) : Final(down[i]) /\ down[i].opening = n

(* What the browser sees of a stream ends at most once, with nothing after *)
(* it; after its own cancel it sees at most the message being written.     *)
OneEnding ==
  \A i \in 1..Len(down) :
    /\ down[i].opening \notin ended
    /\ down[i].opening \in cancelled => i = 1
    /\ \A j \in 1..i - 1 : Final(down[j]) => down[j].opening # down[i].opening

(* A carrier's registers stay in step with what waits, what was told and   *)
(* what its streams still need, in whatever order its two ends fail.       *)
Bookkeeping == TypeOK /\ PendingCounted /\ RegistersAgree /\ OneEnding

(* A sub-user's session stream only reaches the host while its session is  *)
(* granted: however long it was deferred, and whatever was withdrawn while *)
(* its frames were waiting.                                                *)
OnItsWay(n) ==
  \/ hostOpen[opens[n].stream] = n
  \/ \E i \in 1..Len(up) : up[i].kind = "open" /\ up[i].opening = n
  \/ \E i \in 1..Len(pending) : pending[i].kind = "open" /\ pending[i].opening = n
OnlyGrantedReachHost ==
  Subuser /\ ~disposed =>
    \A n \in 1..Len(opens) :
      opens[n].endpoint = "session" /\ OnItsWay(n) => opens[n].stream \in granted

(* Whatever brought the carrier down, both legs are closed in the end: no  *)
(* half-open connection is left, even if neither peer answers the close.   *)
Fallen == disposed
BothClosed == client = "closed" /\ upstream = "closed"
CarrierCloses == Fallen ~> BothClosed

(* A stream is not deferred for ever, even if no baseline comes.           *)
Waits(s) == IsDeferred(Now, s)
DeferralEnds == \A s \in Stream : Waits(s) ~> ~Waits(s) \/ Fallen
==============================================================================
