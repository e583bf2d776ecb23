------------------------- MODULE EventStreamsProofs -------------------------
(***************************************************************************)
(* Who hears of a session, and who may answer for it: proofs about         *)
(* EventStreams for any users, clients, requests and streams.              *)
(***************************************************************************)
EXTENDS EventStreams, TLAPS

------------------------------------------------------------------------------
(* Types.                                                                  *)

Notices == [kind : {"waterfall", "cancel", "emit", "added"}, event : Event, session : Session]
Entries == [event : Event, client : Client, user : User, session : Session]
Nobody == CHOOSE u \in User : TRUE
Requests ==
  [phase : {"sent"}, user : User, event : Event, client : Client, off : SUBSET Session]
    \cup {[NoAnswer EXCEPT !.phase = p] : p \in {"idle", "forwarded", "refused"}}
Streams == [phase : {"idle", "asked", "live", "closed"}, user : User \cup {Nobody},
            off : SUBSET Session]
Creations ==
  [phase : {"idle", "gated", "asked", "over"}, user : User \cup {Nobody}, named : SUBSET Session,
   off : SUBSET Session, outside : SUBSET Session, current : BOOLEAN]

Types ==
  /\ grants \in [User -> SUBSET Session] /\ off \in [User -> SUBSET Session]
  /\ access \in [User -> SUBSET Session] /\ heard \in [User -> SUBSET Session]
  /\ outside \in [User -> SUBSET Session] /\ announced \in [User -> SUBSET Session]
  /\ born \subseteq Session /\ coming \in [User -> SUBSET Session]
  /\ creation \in [Creation -> Creations]
  /\ own \subseteq Entries /\ about \in [Event -> SUBSET Session]
  /\ wire \in [Client -> Seq(Notices)] /\ screen \in [Client -> SUBSET Event]
  /\ answer \in [Answer -> Requests] /\ accepted \in Seq(Event \X Client)
  /\ stream \in [Stream -> Streams]

(* A snapshot holds nothing that the user may not see now.                 *)
Snapshots == \A u \in User : access[u] \subseteq Authorized(u)

(* What is being created was asked for by the user, and nobody switched it *)
(* off one by one since: it has been there only since it was asked for, or *)
(* was the user's.                                                         *)
Pendings ==
  /\ \A k \in Creation : creation[k].phase \in {"idle", "gated"} => creation[k].named = {}
  /\ \A u \in User :
       /\ off[u] \ outside[u] \subseteq born
       /\ coming[u] \subseteq Begun(u) /\ coming[u] \cap (off[u] \ outside[u]) = {}

Hearing == Snapshots /\ Pendings /\ HeardIsAllowed

Has(entries, e, c) == {o \in entries : o.event = e /\ o.client = c}
Accepted == {accepted[i] : i \in 1..Len(accepted)}

(* Each client is asked a question once: what waits on its wire is new.    *)
In(w) == {w[i] : i \in 1..Len(w)}
Asked(f) == f.kind = "waterfall"
OnceIn(w) ==
  \A i, j \in 1..Len(w) : i # j /\ Asked(w[i]) /\ Asked(w[j]) => w[i].event # w[j].event
New(f, c, askers, entries, pairs) ==
  askers[f.event] = {f.session} /\ Has(entries, f.event, c) = {} /\ <<f.event, c>> \notin pairs
Asking ==
  \A c \in Client :
    /\ OnceIn(wire[c])
    /\ \A f \in In(wire[c]) : Asked(f) => New(f, c, about, own, Accepted)

(* An entry is its client's user's, of the session that asks, and not yet  *)
(* answered from there.                                                    *)
Owning ==
  \A o \in own :
    /\ o.user = UserOf[o.client] /\ about[o.event] = {o.session}
    /\ <<o.event, o.client>> \notin Accepted

AcceptedOnce ==
  /\ \A i, j \in 1..Len(accepted) : accepted[i] = accepted[j] => i = j
  /\ \A p \in Accepted : about[p[1]] # {}

(* What a browser shows can be answered, was, or is too old.               *)
Showing ==
  \A c \in Client : \A e \in screen[c] :
    <<e, c>> \in late \/ <<e, c>> \in Accepted \/ Has(own, e, c) # {}

Dialogue == Asking /\ Owning /\ AcceptedOnce /\ Showing

IInv == Types /\ Hearing /\ Dialogue

------------------------------------------------------------------------------
(* Sequences.                                                              *)

LEMMA Elements ==
  ASSUME NEW M, NEW q \in Seq(M)
  PROVE  Len(q) \in Nat /\ \A i \in 1..Len(q) : q[i] \in M
OBVIOUS

LEMMA Appended ==
  ASSUME NEW M, NEW q \in Seq(M), NEW f \in M
  PROVE  /\ Append(q, f) \in Seq(M) /\ Len(q) \in Nat
         /\ Len(Append(q, f)) = Len(q) + 1 /\ Append(q, f)[Len(q) + 1] = f
         /\ \A i \in 1..Len(q) : Append(q, f)[i] = q[i]
OBVIOUS

LEMMA Tails ==
  ASSUME NEW M, NEW q \in Seq(M), q # <<>>
  PROVE  /\ Tail(q) \in Seq(M) /\ Len(Tail(q)) \in Nat
         /\ \A i \in 1..Len(Tail(q)) : Tail(q)[i] = q[i + 1] /\ i + 1 \in 1..Len(q)
         /\ Head(q) = q[1] /\ 1 \in 1..Len(q) /\ q[1] \in M
<1>1. Len(q) \in Nat /\ Len(q) # 0 OBVIOUS
<1>2. /\ Tail(q) \in Seq(M) /\ Len(Tail(q)) = Len(q) - 1
      /\ \A i \in 1..Len(Tail(q)) : Tail(q)[i] = q[i + 1]
  OBVIOUS
<1>3. QED BY <1>1, <1>2

(* The frames of a queue, and that none asks again, after a step of it.    *)
LEMMA Emptied == In(<<>>) = {} /\ OnceIn(<<>>)
BY DEF In, OnceIn

LEMMA Popping ==
  ASSUME NEW q \in Seq(Notices), q # <<>>, OnceIn(q)
  PROVE  /\ In(Tail(q)) \subseteq In(q) /\ OnceIn(Tail(q)) /\ q[1] \in In(q)
         /\ Asked(q[1]) => \A f \in In(Tail(q)) : Asked(f) => f.event # q[1].event
<1> DEFINE t == Tail(q)
<1>1. /\ Len(t) \in Nat /\ \A i \in 1..Len(t) : t[i] = q[i + 1] /\ i + 1 \in 1..Len(q)
      /\ 1 \in 1..Len(q)
  BY Tails
<1>2. \A i, j \in 1..Len(t) : i # j => i + 1 # j + 1 BY <1>1
<1>3. \A i \in 1..Len(t) : i + 1 # 1 BY <1>1
<1> HIDE DEF t
<1>4. OnceIn(t)
  <2>1. SUFFICES ASSUME NEW i \in 1..Len(t), NEW j \in 1..Len(t), i # j, Asked(t[i]), Asked(t[j])
                 PROVE  t[i].event # t[j].event
    BY DEF OnceIn
  <2>2. t[i] = q[i + 1] /\ t[j] = q[j + 1] /\ i + 1 # j + 1 BY <1>1, <1>2, <2>1
  <2>3. QED BY <1>1, <2>1, <2>2 DEF OnceIn
<1>5. In(t) \subseteq In(q) /\ q[1] \in In(q) BY <1>1 DEF In
<1>6. ASSUME Asked(q[1]), NEW i \in 1..Len(t), Asked(t[i]) PROVE t[i].event # q[1].event
  BY <1>1, <1>3, <1>6 DEF OnceIn
<1>7. QED BY <1>4, <1>5, <1>6 DEF In, t

LEMMA OneFrameMore ==
  ASSUME NEW q \in Seq(Notices), NEW f \in Notices, OnceIn(q),
         Asked(f) => \A g \in In(q) : Asked(g) => g.event # f.event
  PROVE  In(Append(q, f)) = In(q) \cup {f} /\ OnceIn(Append(q, f))
<1> DEFINE r == Append(q, f)
           n == Len(q)
<1>1. n \in Nat /\ Len(r) = n + 1 /\ r[n + 1] = f /\ \A i \in 1..n : r[i] = q[i]
  BY Appended
<1>2. \A i \in 1..Len(r) : i = n + 1 \/ i \in 1..n BY <1>1
<1>3. 1..n \subseteq 1..Len(r) /\ n + 1 \in 1..Len(r) BY <1>1
<1>4. \A i \in 1..n : q[i] \in In(q) BY DEF In
<1> HIDE DEF r, n
<1>5. In(r) = In(q) \cup {f}
  <2>1. In(q) = {q[i] : i \in 1..n} BY DEF In, n
  <2>2. In(r) = {r[i] : i \in 1..Len(r)} BY DEF In
  <2>3. ASSUME NEW g \in In(r) PROVE g \in In(q) \cup {f} BY <1>1, <1>2, <2>1, <2>2, <2>3
  <2>4. In(q) \subseteq In(r) BY <1>1, <1>3, <2>1, <2>2
  <2>5. f \in In(r) BY <1>1, <1>3, <2>2
  <2>6. QED BY <2>3, <2>4, <2>5
<1>6. OnceIn(r)
  <2>1. SUFFICES ASSUME NEW i \in 1..Len(r), NEW j \in 1..Len(r), i # j, Asked(r[i]), Asked(r[j])
                 PROVE  r[i].event # r[j].event
    BY DEF OnceIn
  <2>2. CASE i \in 1..n /\ j \in 1..n BY <1>1, <2>1, <2>2 DEF OnceIn, n
  <2>3. CASE i = n + 1 /\ j \in 1..n BY <1>1, <1>4, <2>1, <2>3
  <2>4. CASE j = n + 1 /\ i \in 1..n BY <1>1, <1>4, <2>1, <2>4
  <2>5. QED BY <1>2, <2>1, <2>2, <2>3, <2>4
<1>7. QED BY <1>5, <1>6 DEF r

(* The pairs answered, one more than before.                               *)
LEMMA OneMore ==
  ASSUME NEW p \in Event \X Client, accepted \in Seq(Event \X Client),
         accepted' = Append(accepted, p)
  PROVE  /\ Accepted' = Accepted \cup {p} /\ accepted' \in Seq(Event \X Client)
         /\ p \notin Accepted /\ (\A i, j \in 1..Len(accepted) : accepted[i] = accepted[j] => i = j)
              => \A i, j \in 1..Len(accepted') : accepted'[i] = accepted'[j] => i = j
<1> DEFINE r == Append(accepted, p)
           n == Len(accepted)
<1>1. /\ r \in Seq(Event \X Client) /\ n \in Nat
      /\ Len(r) = n + 1 /\ r[n + 1] = p /\ \A i \in 1..n : r[i] = accepted[i]
  BY Appended
<1>2. accepted' = r OBVIOUS
<1> HIDE DEF r
<1>3. \A i \in 1..n + 1 : i = n + 1 \/ i \in 1..n BY <1>1
<1>4. 1..n \subseteq 1..n + 1 /\ n + 1 \in 1..n + 1 BY <1>1
<1>5. Accepted' = {r[i] : i \in 1..n + 1} BY <1>1, <1>2 DEF Accepted
<1>6. {r[i] : i \in 1..n + 1} = {accepted[i] : i \in 1..n} \cup {p}
  <2> HIDE DEF n
  <2>1. \A i \in 1..n + 1 : r[i] \in {accepted[j] : j \in 1..n} \cup {p} BY <1>1, <1>3
  <2>2. \A j \in 1..n : accepted[j] \in {r[i] : i \in 1..n + 1} BY <1>1, <1>4
  <2>3. p \in {r[i] : i \in 1..n + 1} BY <1>1, <1>4
  <2>4. QED BY <2>1, <2>2, <2>3
<1>7. Accepted' = Accepted \cup {p} BY <1>5, <1>6 DEF Accepted
<1>8. ASSUME p \notin Accepted, \A i, j \in 1..n : accepted[i] = accepted[j] => i = j,
             NEW i \in 1..n + 1, NEW j \in 1..n + 1, r[i] = r[j]
      PROVE  i = j
  <2>1. \A k \in 1..n : accepted[k] # p BY <1>8 DEF Accepted
  <2>2. QED BY <1>1, <1>3, <1>8, <2>1
<1>9. QED BY <1>1, <1>2, <1>7, <1>8

------------------------------------------------------------------------------
(* The types are kept.                                                     *)

LEMMA NamesUser == ASSUME NEW c \in Client PROVE UserOf[c] \in User
BY EventStreamsAssumption

(* The wire after a frame is taken from it, after all is, and after the    *)
(* host wrote one to those who listen.                                     *)
LEMMA WireTyped ==
  ASSUME Types
  PROVE  /\ \A c \in Client : Listening(c) =>
              /\ Popped(c) \in [Client -> Seq(Notices)]
              /\ Head(wire[c]) = wire[c][1] /\ wire[c][1] \in Notices
              /\ Popped(c)[c] = Tail(wire[c])
              /\ \A d \in Client : d # c => Popped(c)[d] = wire[d]
         /\ \A c \in Client : [wire EXCEPT ![c] = <<>>] \in [Client -> Seq(Notices)]
         /\ \A f \in Notices :
              [c \in Client |-> IF carrier[c] \in {"opened", "ready"} THEN Append(wire[c], f) ELSE wire[c]]
                \in [Client -> Seq(Notices)]
<1>1. wire \in [Client -> Seq(Notices)] BY DEF Types
<1>2. ASSUME NEW c \in Client, Listening(c)
      PROVE  /\ Popped(c) \in [Client -> Seq(Notices)]
             /\ Head(wire[c]) = wire[c][1] /\ wire[c][1] \in Notices
             /\ Popped(c)[c] = Tail(wire[c])
             /\ \A d \in Client : d # c => Popped(c)[d] = wire[d]
  <2>1. wire[c] \in Seq(Notices) /\ wire[c] # <<>> BY <1>1, <1>2 DEF Listening
  <2>2. /\ Tail(wire[c]) \in Seq(Notices) /\ Head(wire[c]) = wire[c][1]
        /\ wire[c][1] \in Notices
    BY <2>1, Tails
  <2>3. QED BY <1>1, <2>2 DEF Popped
<1>3. <<>> \in Seq(Notices) OBVIOUS
<1>4. ASSUME NEW f \in Notices, NEW c \in Client PROVE Append(wire[c], f) \in Seq(Notices)
  BY <1>1, Appended
<1>5. QED BY <1>1, <1>2, <1>3, <1>4

LEMMA ClosedTyped ==
  ASSUME NEW x \in Streams, NEW p \in {"live", "closed"}
  PROVE  [x EXCEPT !.phase = p] \in Streams
BY DEF Streams

LEMMA CreationTyped ==
  ASSUME Types, NEW k \in Creation,
         \/ CreateAnswered(k) \/ CreateEnds(k) \/ (\E u \in User : GateCreate(k, u))
         \/ (\E s \in Session : ForwardCreate(k, s))
  PROVE  creation' \in [Creation -> Creations]
<1> DEFINE q == creation[k]
<1>1. q \in Creations BY DEF Types
<1>2. CASE CreateAnswered(k) \/ CreateEnds(k)
  <2>1. [NoCreation EXCEPT !.phase = "over", !.user = q.user, !.named = q.named] \in Creations
    BY <1>1 DEF Creations, NoCreation
  <2>2. creation' =
          [creation EXCEPT ![k] = [NoCreation EXCEPT !.phase = "over", !.user = q.user, !.named = q.named]]
    BY <1>2 DEF CreateAnswered, CreateEnds, Over
  <2>3. QED BY <2>1, <2>2 DEF Types
<1>3. ASSUME NEW u \in User, GateCreate(k, u) PROVE creation' \in [Creation -> Creations]
  <2>1. [NoCreation EXCEPT !.phase = "gated", !.user = u, !.off = off[u], !.outside = outside[u]]
          \in Creations
    BY DEF Creations, NoCreation, Types
  <2>2. QED BY <1>3, <2>1 DEF GateCreate, Types
<1>4. ASSUME NEW s \in Session, ForwardCreate(k, s) PROVE creation' \in [Creation -> Creations]
  <2>1. [NoCreation EXCEPT !.phase = "asked", !.user = q.user, !.named = {s}, !.current = q.current]
          \in Creations
    BY <1>1 DEF Creations, NoCreation
  <2>2. creation' = [creation EXCEPT ![k] =
          [NoCreation EXCEPT !.phase = "asked", !.user = q.user, !.named = {s}, !.current = q.current]]
    BY <1>4 DEF ForwardCreate
  <2>3. QED BY <2>1, <2>2 DEF Types
<1>5. QED BY <1>2, <1>3, <1>4

LEMMA TypesKept == ASSUME Types, [Next]_vars PROVE Types'
<1> USE DEF rights, carriers, hostVars, bounds, news, made
<1>1. CASE UNCHANGED vars BY <1>1 DEF Types, vars
<1>2. ASSUME NEW c \in Client, OpenEvents(c) \/ Ready(c) PROVE Types'
  BY <1>2 DEF Types, OpenEvents, Ready
<1>3. ASSUME NEW c \in Client, ShowQuestion(c) PROVE Types'
  <2> DEFINE f == Head(wire[c])
             o == [event |-> f.event, client |-> c, user |-> UserOf[c], session |-> f.session]
  <2>1. wire' \in [Client -> Seq(Notices)] /\ f \in Notices
    BY <1>3, WireTyped DEF ShowQuestion
  <2>2. o \in Entries BY <2>1, NamesUser DEF Entries, Notices
  <2>3. own' \subseteq Entries BY <1>3, <2>2 DEF ShowQuestion, Types, Without
  <2>4. f.event \in Event BY <2>1 DEF Notices
  <2>5. screen' \in [Client -> SUBSET Event]
    <3>1. screen' = screen \/ screen' = [screen EXCEPT ![c] = @ \cup {f.event}]
      BY <1>3 DEF ShowQuestion
    <3> HIDE DEF f
    <3>2. screen \in [Client -> SUBSET Event] BY DEF Types
    <3>3. QED BY <2>4, <3>1, <3>2
  <2>6. QED BY <1>3, <2>1, <2>3, <2>5 DEF ShowQuestion, Types
<1>4. ASSUME NEW c \in Client, Cancel(c) PROVE Types'
  <2>1. wire' \in [Client -> Seq(Notices)] BY <1>4, WireTyped DEF Cancel
  <2>2. own' \subseteq Entries /\ screen' \in [Client -> SUBSET Event]
    BY <1>4 DEF Cancel, Types, Without
  <2>3. QED BY <1>4, <2>1, <2>2 DEF Cancel, Types
<1>5. ASSUME NEW c \in Client, Notice(c) PROVE Types'
  <2>1. wire' \in [Client -> Seq(Notices)] /\ Head(wire[c]) \in Notices
    BY <1>5, WireTyped DEF Notice
  <2>2. Named(Head(wire[c])) \in Session BY <2>1 DEF Notices, Named
  <2>3. heard' \in [User -> SUBSET Session] /\ announced' \in [User -> SUBSET Session]
    <3> DEFINE s == Named(Head(wire[c]))
    <3>1. /\ heard' \in {heard, [heard EXCEPT ![UserOf[c]] = @ \cup {s}]}
          /\ announced' \in {announced, [announced EXCEPT ![UserOf[c]] = @ \cup {s}]}
      BY <1>5 DEF Notice
    <3>2. heard \in [User -> SUBSET Session] /\ announced \in [User -> SUBSET Session] BY DEF Types
    <3> HIDE DEF s
    <3>3. s \in Session BY <2>2 DEF s
    <3>4. QED BY <3>1, <3>2, <3>3
  <2>4. QED BY <1>5, <2>1, <2>3 DEF Notice, Types
<1>6. ASSUME NEW c \in Client, EndEvents(c) \/ ClientCloses(c) PROVE Types'
  <2>1. wire' \in [Client -> Seq(Notices)] BY <1>6, WireTyped DEF EndEvents, ClientCloses
  <2>2. own' \subseteq Entries /\ screen' \in [Client -> SUBSET Event]
    BY <1>6 DEF EndEvents, ClientCloses, Types, Purged
  <2>3. QED BY <1>6, <2>1, <2>2 DEF EndEvents, ClientCloses, Types
<1>7. ASSUME NEW e \in Event, NEW s \in Session, Asks(e, s) PROVE Types'
  <2>1. Frame("waterfall", e, s) \in Notices BY DEF Frame, Notices
  <2>2. wire' \in [Client -> Seq(Notices)] BY <1>7, <2>1, WireTyped DEF Asks
  <2>3. QED BY <1>7, <2>2 DEF Asks, Types
<1>8. ASSUME NEW e \in Event, NEW s \in Session, NEW c \in Client, Emits(c, e, s) PROVE Types'
  <2>1. Frame("emit", e, s) \in Notices /\ Frame("added", e, s) \in Notices BY DEF Frame, Notices
  <2>2. <<Frame("emit", e, s)>> \in Seq(Notices) /\ <<Frame("added", e, s)>> \in Seq(Notices) BY <2>1
  <2>3. wire' \in [Client -> Seq(Notices)] BY <1>8, <2>2 DEF Emits, Types
  <2>4. QED BY <1>8, <2>3 DEF Emits, Types
<1>9. ASSUME NEW e \in Event, Settles(e) PROVE Types'
  <2>1. PICK s \in about[e] :
          wire' = [c \in Client |-> IF carrier[c] \in {"opened", "ready"}
                     THEN Append(wire[c], Frame("cancel", e, s)) ELSE wire[c]]
    BY <1>9 DEF Settles
  <2>2. s \in Session BY <2>1 DEF Types
  <2>3. Frame("cancel", e, s) \in Notices BY <2>2 DEF Frame, Notices
  <2>4. wire' \in [Client -> Seq(Notices)] BY <2>1, <2>3, WireTyped
  <2>5. QED BY <1>9, <2>4 DEF Settles, Types
<1>10. ASSUME Sweep \/ \E o \in own : GrowsOld(o) PROVE Types'
  BY <1>10 DEF Types, Sweep, GrowsOld
<1>11. ASSUME NEW a \in Answer, BodyRead(a) PROVE Types'
  <2> DEFINE q == answer[a]
  <2>1. \A p \in {"forwarded", "refused"} : [NoAnswer EXCEPT !.phase = p] \in Requests
    BY DEF Requests
  <2>2. answer' \in [Answer -> Requests] BY <1>11, <2>1 DEF BodyRead, Types
  <2>3. own' \subseteq Entries BY <1>11 DEF BodyRead, Types, Consumed, Without
  <2>4. CASE \E o \in Held(q.event, q.client) : Answerable(q, o)
    <3>1. PICK o \in own : o.event = q.event /\ o.client = q.client BY <2>4 DEF Held
    <3>2. <<q.event, q.client>> \in Event \X Client BY <3>1 DEF Types, Entries
    <3>3. accepted' = Append(accepted, <<q.event, q.client>>) BY <1>11, <2>4 DEF BodyRead
    <3>4. accepted' \in Seq(Event \X Client) BY <3>2, <3>3, Appended DEF Types
    <3>5. QED BY <1>11, <2>2, <2>3, <3>4 DEF BodyRead, Types
  <2>5. CASE ~\E o \in Held(q.event, q.client) : Answerable(q, o)
    BY <1>11, <2>2, <2>3, <2>5 DEF BodyRead, Types
  <2>6. QED BY <2>4, <2>5
<1>12. ASSUME NEW a \in Answer, NEW u \in User, NEW e \in Event, NEW c \in Client,
              PostAnswer(a, u, e, c)
       PROVE  Types'
  <2>1. [phase |-> "sent", user |-> u, event |-> e, client |-> c, off |-> off[u]] \in Requests
    BY DEF Types, Requests
  <2>2. answer' \in [Answer -> Requests] BY <1>12, <2>1 DEF PostAnswer, Types
  <2>3. QED BY <1>12, <2>2 DEF PostAnswer, Types
<1>13. ASSUME NEW k \in Stream, HostAnswers(k) \/ StreamCloses(k) PROVE Types'
  <2>1. PICK p \in {"live", "closed"} : stream' = [stream EXCEPT ![k] = [@ EXCEPT !.phase = p]]
    BY <1>13 DEF HostAnswers, StreamCloses
  <2>2. [stream[k] EXCEPT !.phase = p] \in Streams BY ClosedTyped DEF Types
  <2>3. stream' \in [Stream -> Streams] BY <2>1, <2>2 DEF Types
  <2>4. QED BY <1>13, <2>3 DEF HostAnswers, StreamCloses, Types
<1>14. ASSUME NEW k \in Stream, NEW u \in User, AskStream(k, u) PROVE Types'
  <2>1. [phase |-> IF ChannelOf[k] = "socket" THEN "live" ELSE "asked",
         user |-> u, off |-> off[u]] \in Streams
    BY DEF Types, Streams
  <2>2. stream' \in [Stream -> Streams] BY <1>14, <2>1 DEF AskStream, Types
  <2>3. QED BY <1>14, <2>2 DEF AskStream, Types
<1>15. ASSUME NEW k \in Stream, NEW s \in Session, Delivers(k, s) PROVE Types'
  BY <1>15 DEF Delivers, Types
<1>16. ASSUME NEW u \in User, Listed(u) PROVE Types'
  BY <1>16 DEF Listed, Types, Authorized
<1>17. ASSUME NEW u \in User, Logout(u) PROVE Types'
  <2>1. stream' \in [Stream -> Streams] BY <1>17, ClosedTyped DEF Logout, Dropped, Types
  <2>2. QED BY <1>17, <2>1 DEF Logout, Types
<1>18. ASSUME NEW u \in User, NEW g \in SUBSET Session, NEW x \in SUBSET Session,
              NEW y \in SUBSET Session, SavePermissions(u, g, x, y)
       PROVE  Types'
  <2>1. stream' \in [Stream -> Streams]
    BY <1>18, ClosedTyped DEF SavePermissions, Dropped, Types
  <2>2. creation' \in [Creation -> Creations]
    <3>1. \A k \in Creation : [creation[k] EXCEPT !.current = FALSE] \in Creations
      BY DEF Types, Creations
    <3>2. creation \in [Creation -> Creations] BY DEF Types
    <3>3. QED BY <1>18, <3>1, <3>2 DEF SavePermissions, Bumped
  <2>3. QED BY <1>18, <2>1, <2>2 DEF SavePermissions, Types, Invalidated
<1>19. ASSUME NEW k \in Creation,
              \/ CreateAnswered(k) \/ CreateEnds(k) \/ (\E u \in User : GateCreate(k, u))
              \/ (\E s \in Session : ForwardCreate(k, s))
       PROVE  Types'
  <2>1. creation' \in [Creation -> Creations] BY <1>19, CreationTyped
  <2>2. coming' \in [User -> SUBSET Session] /\ born' \subseteq Session
    <3>1. coming \in [User -> SUBSET Session] /\ born \subseteq Session BY DEF Types
    <3>2. CASE CreateAnswered(k) \/ CreateEnds(k) \/ (\E u \in User : GateCreate(k, u))
      BY <3>1, <3>2 DEF CreateAnswered, CreateEnds, GateCreate, Cleared
    <3>3. ASSUME NEW s \in Session, ForwardCreate(k, s)
          PROVE  coming' \in [User -> SUBSET Session] /\ born' \subseteq Session
      BY <3>1, <3>3 DEF ForwardCreate
    <3>4. QED BY <1>19, <3>2, <3>3
  <2>3. grants' \in [User -> SUBSET Session] /\ access' \in [User -> SUBSET Session]
    <3>1. grants \in [User -> SUBSET Session] /\ access \in [User -> SUBSET Session] BY DEF Types
    <3>2. CASE CreateAnswered(k)
      <4> DEFINE kept == creation[k].named \ off[creation[k].user]
      <4>1. kept \subseteq Session BY DEF Types, Creations
      <4>2. /\ grants' \in {grants, [grants EXCEPT ![creation[k].user] = @ \cup kept]}
            /\ access' \in {access, [access EXCEPT ![creation[k].user] = @ \cup kept]}
        BY <3>2 DEF CreateAnswered
      <4> HIDE DEF kept
      <4>3. QED BY <3>1, <4>1, <4>2
    <3>3. QED BY <1>19, <3>1, <3>2 DEF CreateEnds, GateCreate, ForwardCreate
  <2>4. QED BY <1>19, <2>1, <2>2, <2>3 DEF CreateAnswered, CreateEnds, GateCreate, ForwardCreate, Types
<1>20. ASSUME NEW u \in User, NEW s \in Session, Forgets(u, s) PROVE Types'
  BY <1>20 DEF Forgets, Types
<1>21. QED
  BY <1>1, <1>2, <1>3, <1>4, <1>5, <1>6, <1>7, <1>8, <1>9, <1>10, <1>11, <1>12, <1>13,
     <1>14, <1>15, <1>16, <1>17, <1>18, <1>19, <1>20 DEF Next

------------------------------------------------------------------------------
(* Snapshots and what was heard of follow the permissions of the moment.   *)

(* How the requests of a user stand, and what they asked for.              *)
LEMMA BegunGrows ==
  ASSUME Types, Pendings, NEW k \in Creation,
         \/ CreateAnswered(k) \/ CreateEnds(k) \/ (\E u \in User : GateCreate(k, u))
         \/ (\E s \in Session : ForwardCreate(k, s))
  PROVE  /\ \A u \in User : Begun(u) \subseteq Begun(u)'
         /\ \A j \in Creation : creation'[j].phase \in {"idle", "gated"} => creation'[j].named = {}
<1> DEFINE q == creation[k]
<1>1. \A j \in Creation : j # k => creation'[j] = creation[j]
  BY DEF CreateAnswered, CreateEnds, GateCreate, ForwardCreate, Over, Types
<1>2. /\ q.named = {} \/ (creation'[k].user = q.user /\ creation'[k].named = q.named)
      /\ creation'[k].phase \in {"idle", "gated"} => creation'[k].named = {}
  <2>1. CASE CreateAnswered(k) \/ CreateEnds(k)
    <3>1. creation'[k] = [NoCreation EXCEPT !.phase = "over", !.user = q.user, !.named = q.named]
      BY <2>1 DEF CreateAnswered, CreateEnds, Over, Types
    <3>2. QED BY <3>1 DEF NoCreation
  <2>2. ASSUME NEW u \in User, GateCreate(k, u)
        PROVE  q.named = {} /\ creation'[k].named = {}
    <3>1. creation'[k] =
            [NoCreation EXCEPT !.phase = "gated", !.user = u, !.off = off[u], !.outside = outside[u]]
      BY <2>2 DEF GateCreate, Types
    <3>2. q.named = {} BY <2>2 DEF Pendings, GateCreate
    <3>3. creation'[k].named = {} BY <3>1 DEF NoCreation
    <3>4. QED BY <3>2, <3>3
  <2>3. ASSUME NEW s \in Session, ForwardCreate(k, s)
        PROVE  q.named = {} /\ creation'[k].phase = "asked"
    <3>1. creation'[k] =
            [NoCreation EXCEPT !.phase = "asked", !.user = q.user, !.named = {s}, !.current = q.current]
      BY <2>3 DEF ForwardCreate, Types
    <3>2. q.named = {} BY <2>3 DEF Pendings, ForwardCreate
    <3>3. creation'[k].phase = "asked" BY <3>1 DEF NoCreation
    <3>4. QED BY <3>2, <3>3
  <2> HIDE DEF q
  <2>4. QED BY <2>1, <2>2, <2>3
<1>3. ASSUME NEW u \in User, NEW s \in Begun(u) PROVE s \in Begun(u)'
  <2>1. PICK j \in Creation : creation[j].user = u /\ s \in creation[j].named BY DEF Begun
  <2>2. creation'[j].user = u /\ s \in creation'[j].named BY <1>1, <1>2, <2>1
  <2>3. s \in Session BY DEF Begun
  <2>4. QED BY <2>2, <2>3 DEF Begun
<1>4. QED BY <1>1, <1>2, <1>3 DEF Pendings

(* A request to create.                                                    *)
LEMMA CreationKept ==
  ASSUME Types, Hearing, NEW k \in Creation,
         \/ CreateAnswered(k) \/ CreateEnds(k) \/ (\E u \in User : GateCreate(k, u))
         \/ (\E s \in Session : ForwardCreate(k, s))
  PROVE  Hearing'
<1> USE DEF rights, carriers, hostVars, bounds, news, made
<1> DEFINE q == creation[k]
<1>1. /\ off' = off /\ outside' = outside /\ heard' = heard /\ announced' = announced
      /\ born \subseteq born'
  BY DEF CreateAnswered, CreateEnds, GateCreate, ForwardCreate
<1>2. /\ \A u \in User : Begun(u) \subseteq Begun(u)'
      /\ \A j \in Creation : creation'[j].phase \in {"idle", "gated"} => creation'[j].named = {}
  BY BegunGrows DEF Hearing
<1>3. /\ \A u \in User : Authorized(u) \subseteq Authorized(u)'
      /\ \A u \in User : access'[u] \subseteq Authorized(u)'
  <2>1. CASE grants' = grants /\ access' = access
    BY <1>1, <2>1 DEF Authorized, Hearing, Snapshots
  <2>2. CASE CreateAnswered(k) /\ q.current
    <3> DEFINE kept == q.named \ off[q.user]
    <3>1. /\ grants' = [grants EXCEPT ![q.user] = @ \cup kept]
          /\ access' = [access EXCEPT ![q.user] = @ \cup kept]
      BY <2>2 DEF CreateAnswered
    <3>2. kept \subseteq Session BY DEF Types, Creations
    <3>3. \A u \in User : Authorized(u) \subseteq Authorized(u)'
      BY <1>1, <3>1 DEF Authorized, Types
    <3>4. ASSUME NEW u \in User PROVE access'[u] \subseteq Authorized(u)'
      <4>1. access'[u] \subseteq access[u] \cup (IF u = q.user THEN kept ELSE {})
        BY <3>1 DEF Types
      <4>2. u = q.user => kept \subseteq Authorized(u)'
        BY <1>1, <3>1, <3>2 DEF Authorized, Types
      <4>3. access[u] \subseteq Authorized(u) BY DEF Hearing, Snapshots
      <4>4. QED BY <3>3, <4>1, <4>2, <4>3
    <3>5. QED BY <3>3, <3>4
  <2>3. QED BY <2>1, <2>2 DEF CreateAnswered, CreateEnds, GateCreate, ForwardCreate
<1>4. Snapshots' BY <1>3 DEF Snapshots
<1>5. HeardIsAllowed'
  BY <1>1, <1>2, <1>3 DEF Hearing, HeardIsAllowed
<1>6. \A u \in User : coming'[u] \subseteq Begun(u)' /\ coming'[u] \cap (off[u] \ outside[u]) = {}
  <2>1. CASE \A u \in User : coming'[u] \subseteq coming[u]
    BY <1>2, <2>1 DEF Hearing, Pendings
  <2>2. ASSUME NEW s \in Session, ForwardCreate(k, s), NEW u \in User
        PROVE  coming'[u] \subseteq Begun(u)' /\ coming'[u] \cap (off[u] \ outside[u]) = {}
    <3>1. coming'[u] \subseteq coming[u] \cup (IF u = q.user THEN {s} ELSE {})
      BY <2>2 DEF ForwardCreate, Types
    <3>2. CASE u = q.user
      <4>1. s \notin born \/ s \in coming[u] \/ s \in access[u]
        BY <2>2, <3>2 DEF ForwardCreate, Reusable
      <4>2. s \notin off[u] \ outside[u]
        BY <4>1 DEF Hearing, Pendings, Snapshots, Authorized
      <4>3. creation'[k] =
              [NoCreation EXCEPT !.phase = "asked", !.user = q.user, !.named = {s}, !.current = q.current]
        BY <2>2 DEF ForwardCreate, Types
      <4>4. creation'[k].user = u /\ s \in creation'[k].named BY <3>2, <4>3 DEF NoCreation
      <4>5. s \in Begun(u)' BY <4>4 DEF Begun
      <4>6. QED BY <1>2, <3>1, <4>2, <4>5 DEF Hearing, Pendings
    <3>3. CASE u # q.user
      BY <1>2, <3>1, <3>3 DEF Hearing, Pendings
    <3>4. QED BY <3>2, <3>3
  <2>3. CASE CreateAnswered(k) \/ CreateEnds(k) \/ (\E u \in User : GateCreate(k, u))
    <3>1. \A u \in User : coming'[u] \subseteq coming[u]
      BY <2>3 DEF CreateAnswered, CreateEnds, GateCreate, Cleared, Types
    <3>2. QED BY <2>1, <3>1
  <2>4. QED BY <2>2, <2>3
<1>7. Pendings' BY <1>1, <1>2, <1>6 DEF Hearing, Pendings
<1>8. QED BY <1>4, <1>5, <1>7 DEF Hearing

(* A change of permissions.                                                *)
LEMMA SaveKept ==
  ASSUME Types, Hearing, NEW u \in User, NEW g \in SUBSET Session, NEW x \in SUBSET Session,
         NEW y \in SUBSET Session, SavePermissions(u, g, x, y)
  PROVE  Hearing'
<1>1. /\ \A v \in User : v # u => Authorized(v)' = Authorized(v)
      /\ \A v \in User : v # u => off'[v] = off[v] /\ outside'[v] = outside[v]
      /\ off'[u] = x /\ outside'[u] = y /\ x \ y \subseteq born /\ born' = born
  BY DEF SavePermissions, Authorized, Types
<1>2. /\ \A v \in User : access'[v] = IF v = u THEN {} ELSE access[v]
      /\ \A v \in User : coming'[v] = IF v = u THEN {} ELSE coming[v]
      /\ \A v \in User : heard'[v] = IF v = u THEN {} ELSE heard[v]
      /\ \A v \in User : announced'[v] = IF v = u THEN {} ELSE announced[v]
  BY DEF SavePermissions, Invalidated, Types
<1>3. \A k \in Creation : /\ creation'[k].phase = creation[k].phase
                          /\ creation'[k].user = creation[k].user
                          /\ creation'[k].named = creation[k].named
  BY DEF SavePermissions, Bumped, Types, Creations
<1>4. \A v \in User : Begun(v)' = Begun(v) BY <1>3 DEF Begun
<1>5. Snapshots' BY <1>1, <1>2 DEF Hearing, Snapshots
<1>6. Pendings' BY <1>1, <1>2, <1>3, <1>4 DEF Hearing, Pendings
<1>7. HeardIsAllowed' BY <1>1, <1>2, <1>4 DEF Hearing, HeardIsAllowed
<1>8. QED BY <1>5, <1>6, <1>7 DEF Hearing

LEMMA HearingKept ==
  ASSUME Types, Hearing, [Next]_vars PROVE Hearing'
<1> USE DEF rights, carriers, hostVars, bounds, news, made
<1>1. ASSUME UNCHANGED <<rights, news>> PROVE Hearing'
  BY <1>1 DEF Hearing, Snapshots, Pendings, HeardIsAllowed, Authorized, Begun
<1>2. ASSUME NEW u \in User, NEW s \in access[u] \ off[u]
      PROVE  s \in Authorized(u)
  BY DEF Hearing, Snapshots
<1>3. ASSUME UNCHANGED rights, HeardIsAllowed' PROVE Hearing'
  BY <1>3 DEF Hearing, Snapshots, Pendings, Authorized, Begun
<1>4. ASSUME UNCHANGED rights, NEW u \in User PROVE Authorized(u)' = Authorized(u) /\ Begun(u)' = Begun(u)
  BY <1>4 DEF Authorized, Begun
<1>5. ASSUME NEW c \in Client, Notice(c) PROVE Hearing'
  <2> DEFINE f == Head(wire[c])
             u == UserOf[c]
             s == Named(f)
  <2>1. u \in User BY NamesUser
  <2>2. UNCHANGED rights BY <1>5 DEF Notice
  <2>3. Allowed(u, s) => s \in Authorized(u) BY <1>2, <2>1 DEF Allowed
  <2>4. MayAnnounce(u, s) => s \in Begun(u) \ off[u]
    BY <2>1 DEF MayAnnounce, Hearing, Pendings
  <2>5. \/ Allowed(u, s) /\ heard' = [heard EXCEPT ![u] = @ \cup {s}] /\ announced' = announced
        \/ /\ Allowed(u, s) \/ MayAnnounce(u, s)
           /\ announced' = [announced EXCEPT ![u] = @ \cup {s}] /\ heard' = heard
        \/ heard' = heard /\ announced' = announced
    BY <1>5 DEF Notice
  <2> HIDE DEF u, s
  <2>6. ASSUME NEW v \in User
        PROVE  /\ heard'[v] \subseteq heard[v] \cup (IF v = u /\ Allowed(u, s) THEN {s} ELSE {})
               /\ announced'[v] \subseteq
                    announced[v] \cup (IF v = u /\ (Allowed(u, s) \/ MayAnnounce(u, s)) THEN {s} ELSE {})
    BY <2>1, <2>5 DEF Types
  <2>7. ASSUME NEW v \in User
        PROVE  /\ heard'[v] \subseteq Authorized(v)
               /\ announced'[v] \subseteq Authorized(v) \cup (Begun(v) \ off[v])
    BY <2>3, <2>4, <2>6 DEF Hearing, HeardIsAllowed
  <2>8. off' = off BY <2>2
  <2>9. HeardIsAllowed' BY <1>4, <2>2, <2>7, <2>8 DEF HeardIsAllowed
  <2>10. QED BY <1>3, <2>2, <2>9
<1>6. ASSUME NEW k \in Stream, NEW s \in Session, Delivers(k, s) PROVE Hearing'
  <2> DEFINE u == stream[k].user
  <2>1. UNCHANGED <<rights, announced>> BY <1>6 DEF Delivers
  <2>2. s \in access[u] BY <1>6, EventStreamsAssumption
    DEF Delivers, Passes, HostPasses, MuxPasses, SocketPasses
  <2>3. \A v \in User : heard'[v] \subseteq heard[v] \cup (IF v = u THEN {s} ELSE {})
    BY <1>6 DEF Delivers, Types
  <2> HIDE DEF u
  <2>4. \A v \in User : heard'[v] \subseteq Authorized(v)
    BY <2>2, <2>3 DEF Hearing, HeardIsAllowed, Snapshots
  <2>5. off' = off /\ announced' = announced BY <2>1
  <2>6. HeardIsAllowed' BY <1>4, <2>1, <2>4, <2>5 DEF Hearing, HeardIsAllowed
  <2>7. QED BY <1>3, <2>1, <2>6
<1>7. ASSUME NEW u \in User, Listed(u) PROVE Hearing'
  <2>1. \A v \in User : Authorized(v)' = Authorized(v) /\ Begun(v)' = Begun(v)
    BY <1>7 DEF Listed, Authorized, Begun
  <2>2. \A v \in User : access'[v] = IF v = u THEN Authorized(u) \cap born ELSE access[v]
    BY <1>7 DEF Listed, Types
  <2>3. UNCHANGED <<off, outside, made, news>> BY <1>7 DEF Listed
  <2>4. QED BY <2>1, <2>2, <2>3 DEF Hearing, Snapshots, Pendings, HeardIsAllowed
<1>8. ASSUME NEW u \in User, NEW g \in SUBSET Session, NEW x \in SUBSET Session,
             NEW y \in SUBSET Session, SavePermissions(u, g, x, y)
      PROVE  Hearing'
  BY <1>8, SaveKept
<1>9. ASSUME UNCHANGED vars PROVE UNCHANGED <<rights, news>> BY <1>9 DEF vars
<1>10. ASSUME NEW c \in Client,
              OpenEvents(c) \/ Ready(c) \/ ShowQuestion(c) \/ Cancel(c) \/ EndEvents(c) \/ ClientCloses(c)
       PROVE  UNCHANGED <<rights, news>>
  BY <1>10 DEF OpenEvents, Ready, ShowQuestion, Cancel, EndEvents, ClientCloses
<1>11. ASSUME \/ \E e \in Event, s \in Session : Asks(e, s) \/ \E c \in Client : Emits(c, e, s)
              \/ \E e \in Event : Settles(e)
              \/ Sweep \/ \E o \in own : GrowsOld(o)
              \/ \E a \in Answer : \/ BodyRead(a)
                                   \/ \E u \in User, e \in Event, c \in Client : PostAnswer(a, u, e, c)
       PROVE  UNCHANGED <<rights, news>>
  BY <1>11 DEF Asks, Emits, Settles, Sweep, GrowsOld, BodyRead, PostAnswer
<1>12. ASSUME NEW k \in Stream,
              HostAnswers(k) \/ StreamCloses(k) \/ (\E u \in User : AskStream(k, u))
       PROVE  UNCHANGED <<rights, news>>
  BY <1>12 DEF HostAnswers, StreamCloses, AskStream
<1>13. ASSUME NEW u \in User, Logout(u) PROVE Hearing'
  BY <1>13 DEF Logout, Hearing, Snapshots, Pendings, HeardIsAllowed, Authorized, Begun
<1>14. ASSUME NEW u \in User, NEW s \in Session, Forgets(u, s) PROVE Hearing'
  <2>1. /\ \A v \in User : coming'[v] \subseteq coming[v]
        /\ UNCHANGED <<grants, off, outside, access, born, creation, news>>
    BY <1>14 DEF Forgets, Types
  <2>2. QED BY <2>1 DEF Hearing, Snapshots, Pendings, HeardIsAllowed, Authorized, Begun
<1>15. QED
  BY <1>1, <1>5, <1>6, <1>7, <1>8, <1>9, <1>10, <1>11, <1>12, <1>13, <1>14, CreationKept DEF Next

------------------------------------------------------------------------------
(* Questions and answers.                                                  *)

(* Nothing of them changes but what is on its way, and no client is asked. *)
LEMMA DialogueStays ==
  ASSUME Types, Dialogue, about' = about, own' = own, accepted' = accepted, screen' = screen,
         late \subseteq late',
         \A c \in Client : wire'[c] = wire[c] \/ \A i \in 1..Len(wire'[c]) : wire'[c][i].kind # "waterfall"
  PROVE  Dialogue'
<1>1. Accepted' = Accepted BY DEF Accepted
<1>2. \A e, c : Has(own', e, c) = Has(own, e, c) BY DEF Has
<1>3. Asking'
  <2>1. ASSUME NEW c \in Client, \A i \in 1..Len(wire'[c]) : wire'[c][i].kind # "waterfall"
        PROVE  OnceIn(wire'[c]) /\ \A f \in In(wire'[c]) : ~Asked(f)
    BY <2>1 DEF OnceIn, In, Asked
  <2>2. QED BY <1>1, <2>1 DEF Dialogue, Asking
<1>4. Owning' BY <1>1 DEF Dialogue, Owning
<1>5. AcceptedOnce' BY <1>1 DEF Dialogue, AcceptedOnce
<1>6. Showing' BY <1>1, <1>2 DEF Dialogue, Showing
<1>7. QED BY <1>3, <1>4, <1>5, <1>6 DEF Dialogue

(* Entries go: a client may lose the answer only to an answer, to old age  *)
(* or with its screen.                                                     *)
LEMMA EntriesGo ==
  ASSUME Types, Dialogue, about' = about, own' \subseteq own, accepted' = accepted,
         late \subseteq late',
         \A c \in Client : wire'[c] = wire[c] \/ wire'[c] = <<>>,
         \A c \in Client : \A e \in screen'[c] :
           e \in screen[c] /\ (<<e, c>> \in late' \/ Has(own', e, c) = Has(own, e, c))
  PROVE  Dialogue'
<1>1. Accepted' = Accepted BY DEF Accepted
<1>2. \A e, c : Has(own, e, c) = {} => Has(own', e, c) = {} BY DEF Has
<1>3. Asking' BY <1>1, <1>2, Emptied DEF Dialogue, Asking, New
<1>4. Owning' BY <1>1 DEF Dialogue, Owning
<1>5. AcceptedOnce' BY <1>1 DEF Dialogue, AcceptedOnce
<1>6. Showing' BY <1>1 DEF Dialogue, Showing
<1>7. QED BY <1>3, <1>4, <1>5, <1>6 DEF Dialogue

(* A frame is taken from the wire; if it is a question, it was the only    *)
(* one of its kind.                                                        *)
LEMMA AskingPopped ==
  ASSUME Types, Asking, NEW c \in Client, Listening(c), wire' = Popped(c),
         about' = about, accepted' = accepted,
         \A e, d : e # wire[c][1].event \/ d # c \/ ~Asked(wire[c][1]) =>
                     Has(own', e, d) \subseteq Has(own, e, d)
  PROVE  Asking'
<1>1. /\ wire[c] \in Seq(Notices) /\ wire[c] # <<>>
      /\ wire'[c] = Tail(wire[c]) /\ \A d \in Client : d # c => wire'[d] = wire[d]
  BY WireTyped DEF Types, Listening
<1>2. Accepted' = Accepted BY DEF Accepted
<1>3. /\ In(wire'[c]) \subseteq In(wire[c]) /\ OnceIn(wire'[c])
      /\ Asked(wire[c][1]) => \A f \in In(wire'[c]) : Asked(f) => f.event # wire[c][1].event
  BY <1>1, Popping DEF Asking
<1>4. ASSUME NEW d \in Client, NEW f \in In(wire'[d]), Asked(f)
      PROVE  New(f, d, about', own', Accepted')
  <2>1. f \in In(wire[d]) BY <1>1, <1>3
  <2>2. New(f, d, about, own, Accepted) BY <1>4, <2>1 DEF Asking
  <2>3. f.event # wire[c][1].event \/ d # c \/ ~Asked(wire[c][1]) BY <1>3, <1>4
  <2>4. Has(own', f.event, d) \subseteq Has(own, f.event, d) BY <2>3
  <2>5. QED BY <1>2, <2>2, <2>4 DEF New
<1>5. \A d \in Client : OnceIn(wire'[d]) BY <1>1, <1>3 DEF Asking
<1>6. QED BY <1>4, <1>5 DEF Asking

(* A question reaches its client.                                          *)
LEMMA ShowQuestionKept ==
  ASSUME Types, Dialogue, NEW c \in Client, ShowQuestion(c) PROVE Dialogue'
<1> USE DEF rights, carriers, hostVars, bounds, news, made
<1> DEFINE f == wire[c][1]
           new == [event |-> f.event, client |-> c, user |-> UserOf[c], session |-> f.session]
           shown == Allowed(UserOf[c], f.session) /\ Room(f.event, c)
<1>1. /\ Listening(c) /\ wire' = Popped(c) /\ f.kind = "waterfall" /\ Head(wire[c]) = f
      /\ 1 \in 1..Len(wire[c])
  <2>1. Listening(c) /\ wire' = Popped(c) /\ Head(wire[c]).kind = "waterfall"
    BY DEF ShowQuestion
  <2>2. wire[c] \in Seq(Notices) /\ wire[c] # <<>> BY <2>1 DEF Types, Listening
  <2>3. QED BY <2>1, <2>2, Tails
<1>2. /\ about' = about /\ accepted' = accepted /\ Accepted' = Accepted
  BY DEF ShowQuestion, Accepted
<1>3. about[f.event] = {f.session} /\ Has(own, f.event, c) = {} /\ <<f.event, c>> \notin Accepted
  <2>1. f \in In(wire[c]) /\ Asked(f) BY <1>1 DEF In, Asked
  <2>2. New(f, c, about, own, Accepted) BY <2>1 DEF Dialogue, Asking
  <2>3. QED BY <2>2 DEF New
<1>4. AcceptedOnce' BY <1>2 DEF Dialogue, AcceptedOnce
<1>5. CASE shown
  <2>1. /\ own' = Without(f.event, c) \cup {new} /\ late' = late \ {<<f.event, c>>}
        /\ screen' = [screen EXCEPT ![c] = @ \cup {f.event}]
    BY <1>1, <1>5 DEF ShowQuestion
  <2>2. new.event = f.event /\ new.client = c /\ new.user = UserOf[c] /\ new.session = f.session
    OBVIOUS
  <2> HIDE DEF new
  <2>3. \A e, d : e # f.event \/ d # c => Has(own', e, d) = Has(own, e, d)
    BY <2>1, <2>2 DEF Has, Without
  <2>4. new \in Has(own', f.event, c) BY <2>1, <2>2 DEF Has
  <2> HIDE DEF f
  <2>5. Asking'
    <3>1. Asking BY DEF Dialogue
    <3>2. \A e, d : e # f.event \/ d # c \/ ~Asked(f) => Has(own', e, d) \subseteq Has(own, e, d)
      BY <1>1, <2>3 DEF Asked
    <3>3. QED BY <1>1, <1>2, <3>1, <3>2, AskingPopped DEF f
  <2>6. Owning'
    <3>1. ASSUME NEW o \in own'
          PROVE  /\ o.user = UserOf[o.client] /\ about[o.event] = {o.session}
                 /\ <<o.event, o.client>> \notin Accepted
      <4>1. CASE o = new BY <1>3, <2>2, <4>1
      <4>2. CASE o \in own BY <4>2 DEF Dialogue, Owning
      <4>3. QED BY <2>1, <4>1, <4>2 DEF Without
    <3>2. QED BY <1>2, <3>1 DEF Owning
  <2>7. Showing'
    <3>1. ASSUME NEW d \in Client, NEW e \in screen'[d]
          PROVE  <<e, d>> \in late' \/ <<e, d>> \in Accepted \/ Has(own', e, d) # {}
      <4>1. CASE e = f.event /\ d = c BY <2>4, <4>1
      <4>2. CASE e # f.event \/ d # c
        <5>1. e \in screen[d] BY <2>1, <3>1, <4>2 DEF Types
        <5>2. <<e, d>> \in late => <<e, d>> \in late' BY <2>1, <4>2
        <5>3. QED BY <2>3, <4>2, <5>1, <5>2 DEF Dialogue, Showing
      <4>3. QED BY <4>1, <4>2
    <3>2. QED BY <1>2, <3>1 DEF Showing
  <2>8. QED BY <1>4, <2>5, <2>6, <2>7 DEF Dialogue
<1>6. CASE ~shown
  <2>1. own' = own /\ late' = late /\ screen' = screen BY <1>1, <1>6 DEF ShowQuestion
  <2>2. \A e, d : Has(own', e, d) = Has(own, e, d) BY <2>1 DEF Has
  <2>3. Asking' BY <1>1, <1>2, <2>2, AskingPopped DEF Dialogue
  <2>4. Owning' BY <1>2, <2>1 DEF Dialogue, Owning
  <2>5. Showing' BY <1>2, <2>1, <2>2 DEF Dialogue, Showing
  <2>6. QED BY <1>4, <2>3, <2>4, <2>5 DEF Dialogue
<1>7. QED BY <1>5, <1>6

(* A withdrawal reaches it, or a notice.                                   *)
LEMMA CancelKept ==
  ASSUME Types, Dialogue, NEW c \in Client, Cancel(c) PROVE Dialogue'
<1> USE DEF rights, carriers, hostVars, bounds, news, made
<1> DEFINE e == Head(wire[c]).event
<1>1. Listening(c) /\ wire' = Popped(c) /\ wire[c][1].kind # "waterfall"
  <2>1. Listening(c) /\ wire' = Popped(c) /\ Head(wire[c]).kind = "cancel" BY DEF Cancel
  <2>2. QED BY <2>1, WireTyped
<1>2. /\ about' = about /\ accepted' = accepted /\ late' = late /\ Accepted' = Accepted
  BY DEF Cancel, Accepted
<1>3. \/ own' = own /\ screen' = screen
      \/ own' = Without(e, c) /\ screen' = [screen EXCEPT ![c] = @ \ {e}]
  BY DEF Cancel
<1> HIDE DEF e
<1>4. own' \subseteq own BY <1>3 DEF Without
<1>5. \A x, d : Has(own', x, d) \subseteq Has(own, x, d) BY <1>4 DEF Has
<1>6. Asking' BY <1>1, <1>2, <1>5, AskingPopped DEF Dialogue
<1>7. Owning' BY <1>2, <1>4 DEF Dialogue, Owning
<1>8. AcceptedOnce' BY <1>2 DEF Dialogue, AcceptedOnce
<1>9. ASSUME NEW d \in Client, NEW x \in screen'[d]
      PROVE  x \in screen[d] /\ Has(own', x, d) = Has(own, x, d)
  <2>1. CASE own' = own /\ screen' = screen BY <1>9, <2>1 DEF Has
  <2>2. CASE own' = Without(e, c) /\ screen' = [screen EXCEPT ![c] = @ \ {e}]
    <3>1. x \in screen[d] /\ (d # c \/ x # e) BY <1>9, <2>2 DEF Types
    <3>2. QED BY <2>2, <3>1 DEF Has, Without
  <2>3. QED BY <1>3, <2>1, <2>2
<1>10. Showing' BY <1>2, <1>9 DEF Dialogue, Showing
<1>11. QED BY <1>6, <1>7, <1>8, <1>10 DEF Dialogue

LEMMA NoticeKept ==
  ASSUME Types, Dialogue, NEW c \in Client, Notice(c) PROVE Dialogue'
<1> USE DEF rights, carriers, hostVars, bounds, news, made
<1>1. Listening(c) /\ wire' = Popped(c) BY DEF Notice
<1>2. /\ about' = about /\ accepted' = accepted /\ late' = late /\ own' = own /\ screen' = screen
  BY DEF Notice
<1>3. Accepted' = Accepted BY <1>2 DEF Accepted
<1>4. \A e, d : Has(own', e, d) = Has(own, e, d) BY <1>2 DEF Has
<1>5. Asking' BY <1>1, <1>2, <1>4, AskingPopped DEF Dialogue
<1>6. Owning' BY <1>2, <1>3 DEF Dialogue, Owning
<1>7. AcceptedOnce' BY <1>2, <1>3 DEF Dialogue, AcceptedOnce
<1>8. Showing' BY <1>2, <1>3, <1>4 DEF Dialogue, Showing
<1>9. QED BY <1>5, <1>6, <1>7, <1>8 DEF Dialogue

(* The host asks: nobody has heard of the question before.                 *)
LEMMA AsksKept ==
  ASSUME Types, Dialogue, NEW e \in Event, NEW s \in Session, Asks(e, s) PROVE Dialogue'
<1> USE DEF rights, carriers, hostVars, bounds, news, made
<1> DEFINE new == Frame("waterfall", e, s)
<1>1. /\ about[e] = {} /\ about' = [about EXCEPT ![e] = {s}]
      /\ \A c \in Client : wire'[c] = wire[c] \/ wire'[c] = Append(wire[c], new)
      /\ own' = own /\ accepted' = accepted /\ late' = late /\ screen' = screen
  BY DEF Asks
<1>2. Accepted' = Accepted BY <1>1 DEF Accepted
<1>3. \A x, d : Has(own', x, d) = Has(own, x, d) BY <1>1 DEF Has
<1>4. new \in Notices /\ Asked(new) /\ new.event = e /\ new.session = s
  BY DEF Frame, Notices, Asked
<1>5. about'[e] = {s} /\ \A x \in Event : x # e => about'[x] = about[x]
  BY <1>1 DEF Types
<1>6. \A o \in own : o.event # e /\ o.event \in Event BY <1>1 DEF Dialogue, Owning, Types, Entries
<1>7. \A d : <<e, d>> \notin Accepted
  <2>1. ASSUME NEW d, <<e, d>> \in Accepted PROVE FALSE
    <3>1. about[<<e, d>>[1]] # {} BY <2>1 DEF Dialogue, AcceptedOnce
    <3>2. QED BY <1>1, <3>1
  <2>2. QED BY <2>1
<1>8. \A d : Has(own, e, d) = {} BY <1>6 DEF Has
<1> HIDE DEF new
<1>9. Asking'
  <2>1. ASSUME NEW c \in Client, NEW f \in In(wire[c]), Asked(f)
        PROVE  f.event # e /\ New(f, c, about', own', Accepted')
    <3>1. New(f, c, about, own, Accepted) BY <2>1 DEF Dialogue, Asking
    <3>2. f \in Notices BY Elements DEF Types, In
    <3>3. f.event \in Event BY <3>2 DEF Notices
    <3>4. f.event # e BY <1>1, <3>1 DEF New
    <3>5. about'[f.event] = about[f.event] BY <1>5, <3>3, <3>4
    <3>6. QED BY <1>1, <1>2, <3>1, <3>4, <3>5 DEF New
  <2>2. \A c \in Client : New(new, c, about', own', Accepted')
    BY <1>1, <1>2, <1>4, <1>5, <1>7, <1>8 DEF New
  <2>3. ASSUME NEW c \in Client
        PROVE  OnceIn(wire'[c]) /\ \A f \in In(wire'[c]) : Asked(f) => New(f, c, about', own', Accepted')
    <3>1. OnceIn(wire[c]) /\ wire[c] \in Seq(Notices) BY DEF Dialogue, Asking, Types
    <3>2. CASE wire'[c] = wire[c] BY <2>1, <3>1, <3>2
    <3>3. CASE wire'[c] = Append(wire[c], new)
      <4>1. In(wire'[c]) = In(wire[c]) \cup {new} /\ OnceIn(wire'[c])
        BY <1>4, <2>1, <3>1, <3>3, OneFrameMore
      <4>2. QED BY <2>1, <2>2, <4>1
    <3>4. QED BY <1>1, <3>2, <3>3
  <2>4. QED BY <2>3 DEF Asking
<1>10. Owning' BY <1>1, <1>2, <1>5, <1>6 DEF Dialogue, Owning
<1>11. AcceptedOnce'
  <2>1. ASSUME NEW p \in Accepted PROVE about'[p[1]] # {}
    <3>1. p[1] \in Event BY <2>1, Elements DEF Accepted, Types
    <3>2. about[p[1]] # {} BY <2>1 DEF Dialogue, AcceptedOnce
    <3>3. QED BY <1>1, <1>5, <3>1, <3>2
  <2>2. QED BY <1>1, <1>2, <2>1 DEF Dialogue, AcceptedOnce
<1>12. Showing' BY <1>1, <1>2, <1>3 DEF Dialogue, Showing
<1>13. QED BY <1>9, <1>10, <1>11, <1>12 DEF Dialogue

(* The host has an answer: a withdrawal is no question.                    *)
LEMMA SettlesKept ==
  ASSUME Types, Dialogue, NEW e \in Event, Settles(e) PROVE Dialogue'
<1> USE DEF rights, carriers, hostVars, bounds, news, made
<1>1. PICK s \in about[e] :
        \A c \in Client : wire'[c] = wire[c] \/ wire'[c] = Append(wire[c], Frame("cancel", e, s))
  BY DEF Settles
<1> DEFINE new == Frame("cancel", e, s)
<1>2. /\ about' = about /\ own' = own /\ accepted' = accepted /\ late' = late /\ screen' = screen
  BY DEF Settles
<1>3. s \in Session BY <1>1 DEF Types
<1>4. new \in Notices /\ new.kind = "cancel" BY <1>3 DEF Frame, Notices
<1>5. Accepted' = Accepted BY <1>2 DEF Accepted
<1>6. \A x, d : Has(own', x, d) = Has(own, x, d) BY <1>2 DEF Has
<1> HIDE DEF new
<1>7. Asking'
  <2>1. ASSUME NEW c \in Client
        PROVE  OnceIn(wire'[c]) /\ \A f \in In(wire'[c]) : Asked(f) => f \in In(wire[c])
    <3>1. OnceIn(wire[c]) /\ wire[c] \in Seq(Notices) BY DEF Dialogue, Asking, Types
    <3>2. CASE wire'[c] = wire[c] BY <3>1, <3>2
    <3>3. CASE wire'[c] = Append(wire[c], new)
      <4>1. ~Asked(new) BY <1>4 DEF Asked
      <4>2. In(wire'[c]) = In(wire[c]) \cup {new} /\ OnceIn(wire'[c])
        BY <1>4, <3>1, <3>3, <4>1, OneFrameMore
      <4>3. QED BY <4>1, <4>2
    <3>4. QED BY <1>1, <3>2, <3>3 DEF new
  <2>2. QED BY <1>2, <1>5, <2>1 DEF Dialogue, Asking
<1>8. Owning' BY <1>2, <1>5 DEF Dialogue, Owning
<1>9. AcceptedOnce' BY <1>2, <1>5 DEF Dialogue, AcceptedOnce
<1>10. Showing' BY <1>2, <1>5, <1>6 DEF Dialogue, Showing
<1>11. QED BY <1>7, <1>8, <1>9, <1>10 DEF Dialogue

(* An answer that is passed on takes its entry with it.                    *)
LEMMA BodyReadKept ==
  ASSUME Types, Dialogue, NEW a \in Answer, BodyRead(a) PROVE Dialogue'
<1> USE DEF rights, carriers, hostVars, bounds, news, made
<1> DEFINE e == answer[a].event
           c == answer[a].client
           p == <<e, c>>
<1>1. about' = about /\ wire' = wire /\ late' = late /\ screen' = screen
  BY DEF BodyRead
<1>2. CASE ~\E o \in Held(e, c) : Answerable(answer[a], o)
  <2>1. own' = own /\ accepted' = accepted BY <1>2 DEF BodyRead
  <2>2. QED BY <1>1, <2>1, DialogueStays
<1>3. CASE \E o \in Held(e, c) : Answerable(answer[a], o)
  <2>1. own' = Without(e, c) /\ accepted' = Append(accepted, p)
    BY <1>3 DEF BodyRead, Consumed
  <2>2. PICK o \in own : o.event = e /\ o.client = c BY <1>3 DEF Held
  <2>3. p \in Event \X Client BY <2>2 DEF Types, Entries
  <2>4. about[e] = {o.session} /\ p \notin Accepted BY <2>2 DEF Dialogue, Owning
  <2>5. Has(own, e, c) # {} BY <2>2 DEF Has
  <2> HIDE DEF e, c
  <2>6. p[1] = e OBVIOUS
  <2>7. \A x, d : x # e \/ d # c => <<x, d>> # p OBVIOUS
  <2> HIDE DEF p
  <2>8. /\ Accepted' = Accepted \cup {p}
        /\ \A i, j \in 1..Len(accepted') : accepted'[i] = accepted'[j] => i = j
    BY <2>1, <2>3, <2>4, OneMore DEF Types, Dialogue, AcceptedOnce
  <2>9. \A x, d : Has(own', x, d) \subseteq Has(own, x, d) BY <2>1 DEF Has, Without
  <2>10. \A x, d : x # e \/ d # c => Has(own', x, d) = Has(own, x, d) BY <2>1 DEF Has, Without
  <2>11. Asking'
    <3>1. ASSUME NEW d \in Client, NEW f \in In(wire[d]), Asked(f)
          PROVE  New(f, d, about', own', Accepted')
      <4>1. New(f, d, about, own, Accepted) BY <3>1 DEF Dialogue, Asking
      <4>2. f.event # e \/ d # c BY <2>5, <4>1 DEF New
      <4>3. <<f.event, d>> # p BY <2>7, <4>2
      <4>4. Has(own', f.event, d) \subseteq Has(own, f.event, d) BY <2>9
      <4>5. QED BY <1>1, <2>8, <4>1, <4>3, <4>4 DEF New
    <3>2. QED BY <1>1, <3>1 DEF Dialogue, Asking
  <2>12. Owning'
    <3>1. ASSUME NEW x \in own' PROVE <<x.event, x.client>> \notin Accepted'
      <4>1. x \in own /\ (x.event # e \/ x.client # c) BY <2>1, <3>1 DEF Without
      <4>2. <<x.event, x.client>> # p BY <2>7, <4>1
      <4>3. QED BY <2>8, <4>1, <4>2 DEF Dialogue, Owning
    <3>2. own' \subseteq own BY <2>1 DEF Without
    <3>3. QED BY <1>1, <3>1, <3>2 DEF Dialogue, Owning
  <2>13. AcceptedOnce' BY <1>1, <2>4, <2>6, <2>8 DEF Dialogue, AcceptedOnce
  <2>14. Showing'
    <3>1. ASSUME NEW d \in Client, NEW x \in screen[d]
          PROVE  <<x, d>> \in late \/ <<x, d>> \in Accepted' \/ Has(own', x, d) # {}
      <4>1. CASE x = e /\ d = c BY <2>8, <4>1 DEF p
      <4>2. CASE x # e \/ d # c BY <2>8, <2>10, <4>2 DEF Dialogue, Showing
      <4>3. QED BY <4>1, <4>2
    <3>2. QED BY <1>1, <3>1 DEF Showing
  <2>15. QED BY <2>11, <2>12, <2>13, <2>14 DEF Dialogue
<1>4. QED BY <1>2, <1>3

LEMMA DialogueKept == ASSUME Types, Dialogue, [Next]_vars PROVE Dialogue'
<1> USE DEF rights, carriers, hostVars, bounds, news, made
<1>1. ASSUME UNCHANGED <<own, late, wire, screen, about, accepted>> PROVE Dialogue'
  BY <1>1, DialogueStays
<1>2. CASE UNCHANGED vars BY <1>1, <1>2 DEF vars
<1>3. ASSUME NEW c \in Client, OpenEvents(c) \/ Ready(c) PROVE Dialogue'
  BY <1>1, <1>3 DEF OpenEvents, Ready
<1>4. ASSUME NEW c \in Client, EndEvents(c) PROVE Dialogue'
  <2>1. \A d \in Client : wire'[d] = wire[d] \/ wire'[d] = <<>>
    BY <1>4 DEF EndEvents, Types
  <2>2. \A x, d : Has(own', x, d) = Has(own, x, d) BY <1>4 DEF EndEvents, Has
  <2>3. QED BY <1>4, <2>1, <2>2, EntriesGo DEF EndEvents
<1>5. ASSUME NEW c \in Client, ClientCloses(c) PROVE Dialogue'
  <2>1. \A d \in Client : wire'[d] = wire[d] \/ wire'[d] = <<>>
    BY <1>5 DEF ClientCloses, Types
  <2>2. own' = own \/ own' = {o \in own : o.client # c}
    BY <1>5 DEF ClientCloses, Purged
  <2>3. own' \subseteq own BY <2>2
  <2>4. \A d \in Client : \A x \in screen'[d] : x \in screen[d] /\ d # c
    BY <1>5 DEF ClientCloses, Types
  <2>5. \A x, d : d # c => Has(own', x, d) = Has(own, x, d) BY <2>2 DEF Has
  <2>6. /\ about' = about /\ accepted' = accepted /\ late' = late BY <1>5 DEF ClientCloses
  <2>7. QED BY <2>1, <2>3, <2>4, <2>5, <2>6, EntriesGo
<1>6. ASSUME NEW c \in Client, NEW e \in Event, NEW s \in Session, Emits(c, e, s) PROVE Dialogue'
  <2>1. /\ wire'[c] = <<Frame("emit", e, s)>> \/ wire'[c] = <<Frame("added", e, s)>>
        /\ \A d \in Client : d # c => wire'[d] = wire[d]
    BY <1>6 DEF Emits, Types
  <2>2. \A i \in 1..Len(wire'[c]) : wire'[c][i].kind # "waterfall"
    BY <2>1 DEF Frame
  <2>3. \A d \in Client : wire'[d] = wire[d] \/ \A i \in 1..Len(wire'[d]) : wire'[d][i].kind # "waterfall"
    BY <2>1, <2>2
  <2>4. QED BY <1>6, <2>3, DialogueStays DEF Emits
<1>7. ASSUME NEW o \in own, GrowsOld(o) PROVE Dialogue'
  BY <1>7, DialogueStays DEF GrowsOld
<1>8. ASSUME Sweep PROVE Dialogue'
  <2>1. /\ own' = {o \in own : <<o.event, o.client>> \notin late} /\ late' = late
        /\ wire' = wire /\ screen' = screen /\ about' = about /\ accepted' = accepted
    BY <1>8 DEF Sweep
  <2>2. \A x, d : <<x, d>> \in late \/ Has(own', x, d) = Has(own, x, d) BY <2>1 DEF Has
  <2>3. own' \subseteq own BY <2>1
  <2>4. QED BY <2>1, <2>2, <2>3, EntriesGo
<1>9. ASSUME NEW a \in Answer, NEW u \in User, NEW e \in Event, NEW c \in Client,
             PostAnswer(a, u, e, c)
      PROVE  Dialogue'
  BY <1>1, <1>9 DEF PostAnswer
<1>10. ASSUME NEW k \in Stream,
              \/ HostAnswers(k) \/ StreamCloses(k) \/ \E u \in User : AskStream(k, u)
              \/ \E s \in Session : Delivers(k, s)
       PROVE  Dialogue'
  BY <1>1, <1>10 DEF HostAnswers, StreamCloses, AskStream, Delivers
<1>11. ASSUME NEW u \in User,
              \/ Listed(u) \/ Logout(u) \/ (\E s \in Session : Forgets(u, s))
              \/ \E g, x, y \in SUBSET Session : SavePermissions(u, g, x, y)
       PROVE  Dialogue'
  BY <1>1, <1>11 DEF Listed, Logout, Forgets, SavePermissions
<1>12. ASSUME NEW k \in Creation,
              \/ CreateAnswered(k) \/ CreateEnds(k) \/ (\E u \in User : GateCreate(k, u))
              \/ (\E s \in Session : ForwardCreate(k, s))
       PROVE  Dialogue'
  BY <1>1, <1>12 DEF CreateAnswered, CreateEnds, GateCreate, ForwardCreate
<1>13. QED
  BY <1>2, <1>3, <1>4, <1>5, <1>6, <1>7, <1>8, <1>9, <1>10, <1>11, <1>12, ShowQuestionKept,
     CancelKept, NoticeKept, AsksKept, SettlesKept, BodyReadKept DEF Next

------------------------------------------------------------------------------
(* Every execution keeps the invariant.                                    *)
THEOREM EventsInvariance == Spec => []IInv
<1> USE DEF rights, carriers, hostVars, bounds, news, made
<1>1. Init => IInv
  <2> SUFFICES ASSUME Init PROVE IInv OBVIOUS
  <2>1. answer \in [Answer -> Requests] BY DEF Init, Requests
  <2>2. stream \in [Stream -> Streams] BY DEF Init, Streams, Nobody
  <2>3. /\ grants \in [User -> SUBSET Session] /\ off = [u \in User |-> {}]
        /\ access = [u \in User |-> {}] /\ heard = [u \in User |-> {}]
        /\ outside = [u \in User |-> {}] /\ announced = [u \in User |-> {}]
        /\ coming = [u \in User |-> {}] /\ born \subseteq Session
        /\ own = {} /\ about = [e \in Event |-> {}] /\ accepted = <<>>
        /\ wire = [c \in Client |-> <<>>] /\ screen = [c \in Client |-> {}]
    BY DEF Init
  <2>11. /\ creation \in [Creation -> Creations]
         /\ \A k \in Creation : creation[k].named = {}
    <3>1. PICK p \in {"idle", "over"} : creation = [k \in Creation |-> [NoCreation EXCEPT !.phase = p]]
      BY DEF Init
    <3>2. [NoCreation EXCEPT !.phase = p] \in Creations /\ [NoCreation EXCEPT !.phase = p].named = {}
      BY DEF NoCreation, Creations, Nobody
    <3>3. QED BY <3>1, <3>2
  <2>4. Types BY <2>1, <2>2, <2>3, <2>11 DEF Types
  <2>5. Hearing BY <2>3, <2>11 DEF Hearing, Snapshots, Pendings, HeardIsAllowed
  <2>6. Accepted = {} BY <2>3 DEF Accepted
  <2>7. Asking BY <2>3, Emptied DEF Asking
  <2>8. Len(<<>>) = 0 /\ \A i \in 1..0 : FALSE OBVIOUS
  <2>9. Owning /\ AcceptedOnce /\ Showing BY <2>3, <2>6, <2>8 DEF Owning, AcceptedOnce, Showing
  <2>10. QED BY <2>4, <2>5, <2>7, <2>9 DEF IInv, Dialogue
<1>2. IInv /\ [Next]_vars => IInv'
  BY TypesKept, HearingKept, DialogueKept DEF IInv
<1>3. QED BY <1>1, <1>2, PTL DEF Spec

(* No stream tells a user of a session outside the user's permissions,     *)
(* however old the stream and whenever they change.                        *)
THEOREM HeardAllowed == Spec => []HeardIsAllowed
<1>1. IInv => HeardIsAllowed BY DEF IInv, Hearing
<1>2. QED BY <1>1, EventsInvariance, PTL

(* Only reading the body of a request decides about it.                    *)
LEMMA OnlyBodyDecides ==
  ASSUME Types, [Next]_vars, NEW a \in Answer, answer[a].phase = "sent",
         answer'[a].phase \in {"forwarded", "refused"}
  PROVE  BodyRead(a)
<1> USE DEF rights, carriers, hostVars, bounds, news, made
<1>1. answer' # answer OBVIOUS
<1>2. CASE UNCHANGED vars BY <1>1, <1>2 DEF vars
<1>3. ASSUME NEW c \in Client,
             \/ OpenEvents(c) \/ Ready(c) \/ ShowQuestion(c) \/ Cancel(c)
             \/ Notice(c) \/ EndEvents(c) \/ ClientCloses(c)
      PROVE  FALSE
  BY <1>1, <1>3 DEF OpenEvents, Ready, ShowQuestion, Cancel, Notice, EndEvents, ClientCloses
<1>4. ASSUME \/ \E e \in Event, s \in Session : Asks(e, s) \/ \E c \in Client : Emits(c, e, s)
             \/ \E e \in Event : Settles(e)
             \/ Sweep \/ \E o \in own : GrowsOld(o)
      PROVE  FALSE
  BY <1>1, <1>4 DEF Asks, Emits, Settles, Sweep, GrowsOld
<1>5. ASSUME NEW k \in Stream,
             \/ HostAnswers(k) \/ StreamCloses(k) \/ (\E u \in User : AskStream(k, u))
             \/ (\E s \in Session : Delivers(k, s))
      PROVE  FALSE
  BY <1>1, <1>5 DEF HostAnswers, StreamCloses, AskStream, Delivers
<1>6. ASSUME NEW u \in User,
             \/ Listed(u) \/ Logout(u) \/ (\E s \in Session : Forgets(u, s))
             \/ \E g, x, y \in SUBSET Session : SavePermissions(u, g, x, y)
      PROVE  FALSE
  BY <1>1, <1>6 DEF Listed, Logout, Forgets, SavePermissions
<1>7. ASSUME NEW b \in Answer, NEW u \in User, NEW e \in Event, NEW c \in Client,
             PostAnswer(b, u, e, c)
      PROVE  FALSE
  <2>1. b # a /\ answer'[a] = answer[a] BY <1>7 DEF PostAnswer, Types
  <2>2. QED BY <2>1
<1>8. ASSUME NEW b \in Answer, b # a, BodyRead(b) PROVE FALSE
  <2>1. answer'[a] = answer[a] BY <1>8 DEF BodyRead, Types
  <2>2. QED BY <2>1
<1>9. ASSUME NEW k \in Creation,
             \/ CreateAnswered(k) \/ CreateEnds(k) \/ (\E u \in User : GateCreate(k, u))
             \/ (\E s \in Session : ForwardCreate(k, s))
      PROVE  FALSE
  BY <1>1, <1>9 DEF CreateAnswered, CreateEnds, GateCreate, ForwardCreate
<1>10. QED BY <1>2, <1>3, <1>4, <1>5, <1>6, <1>7, <1>8, <1>9 DEF Next

(* A request under way names a user, a question and a client.              *)
LEMMA SentNames ==
  ASSUME Types, NEW a \in Answer, answer[a].phase = "sent"
  PROVE  answer[a].user \in User /\ answer[a].event \in Event /\ answer[a].client \in Client
<1>1. answer[a] \in Requests BY DEF Types
<1>2. ASSUME NEW p \in {"idle", "forwarded", "refused"}, answer[a] = [NoAnswer EXCEPT !.phase = p]
      PROVE  FALSE
  <2>1. [NoAnswer EXCEPT !.phase = p].phase = p BY DEF NoAnswer
  <2>2. QED BY <1>2, <2>1
<1>3. QED BY <1>1, <1>2 DEF Requests

(* An answer reaches the host once from each client, only from the user    *)
(* whose client was shown the question, and only while that user may use   *)
(* the session that asks.                                                  *)
THEOREM AnsweredOnce == Spec => AnsweredOnceByItsReader
<1> DEFINE Once == \A i, j \in DOMAIN accepted' : accepted'[i] = accepted'[j] => i = j
           Fit(q) == /\ q.user = UserOf[q.client]
                     /\ about[q.event] \subseteq grants[q.user] \ off[q.user]
           Forwards(a) == answer[a].phase = "sent" /\ answer'[a].phase = "forwarded"
<1>1. ASSUME IInv, IInv', [Next]_vars PROVE Once /\ \A a \in Answer : Forwards(a) => Fit(answer[a])
  <2>1. Once
    <3>1. accepted' \in Seq(Event \X Client) BY <1>1 DEF IInv, Types
    <3>2. DOMAIN accepted' = 1..Len(accepted') BY <3>1
    <3>3. QED BY <1>1, <3>2 DEF IInv, Dialogue, AcceptedOnce
  <2>2. ASSUME NEW a \in Answer, Forwards(a) PROVE Fit(answer[a])
    <3> DEFINE q == answer[a]
    <3>1. BodyRead(a) BY <1>1, <2>2, OnlyBodyDecides DEF IInv
    <3>2. q.user \in User BY <1>1, <2>2, SentNames DEF IInv
    <3>3. PICK o \in Held(q.event, q.client) : Answerable(q, o)
      <4>1. ASSUME ~\E o \in Held(q.event, q.client) : Answerable(q, o) PROVE FALSE
        <5>1. answer' = [answer EXCEPT ![a] = [NoAnswer EXCEPT !.phase = "refused"]]
          BY <3>1, <4>1 DEF BodyRead
        <5>2. answer'[a] = [NoAnswer EXCEPT !.phase = "refused"] BY <1>1, <5>1 DEF IInv, Types
        <5>3. answer'[a].phase = "refused" BY <5>2 DEF NoAnswer
        <5>4. QED BY <2>2, <5>3
      <4>2. QED BY <4>1
    <3>4. /\ o.user = UserOf[o.client] /\ about[o.event] = {o.session}
          /\ o.event = q.event /\ o.client = q.client
      BY <1>1, <3>3 DEF Held, IInv, Dialogue, Owning
    <3>5. o.user = q.user /\ o.session \in access[q.user] /\ o.session \in grants[q.user]
      BY <3>3 DEF Answerable
    <3>6. o.session \notin off[q.user]
      BY <1>1, <3>2, <3>5 DEF IInv, Hearing, Snapshots, Authorized
    <3>7. QED BY <3>4, <3>5, <3>6
  <2>3. QED BY <2>1, <2>2
<1>2. IInv /\ IInv' /\ [Next]_vars =>
        [/\ \A i, j \in DOMAIN accepted' : accepted'[i] = accepted'[j] => i = j
         /\ \A a \in Answer : answer[a].phase = "sent" /\ answer'[a].phase = "forwarded" =>
              LET q == answer[a] IN
                /\ q.user = UserOf[q.client]
                /\ about[q.event] \subseteq grants[q.user] \ off[q.user]]_vars
  BY <1>1
<1>3. QED BY <1>2, EventsInvariance, PTL DEF Spec, AnsweredOnceByItsReader

(* Whoever sees a question, may use its session and has not answered it    *)
(* from there is not refused, whatever others answer.                      *)
THEOREM GrantedAnswer == Spec => GrantedMayAnswer
<1> DEFINE Granted(a) == about[answer[a].event] \subseteq grants[answer[a].user]
<1>1. ASSUME IInv, [Next]_vars, NEW a \in Answer, Owed(a), Granted(a) PROVE FALSE
  <2> DEFINE q == answer[a]
  <2>1. /\ q.phase = "sent" /\ answer'[a].phase = "refused"
        /\ q.user = UserOf[q.client] /\ q.event \in screen[q.client]
        /\ <<q.event, q.client>> \notin late
        /\ \A i \in DOMAIN accepted : accepted[i] # <<q.event, q.client>>
        /\ about[q.event] \subseteq access[q.user] \ (off[q.user] \cup q.off)
    BY <1>1 DEF Owed
  <2>2. BodyRead(a) BY <1>1, <2>1, OnlyBodyDecides DEF IInv
  <2>3. q.client \in Client BY <1>1, <2>1, SentNames DEF IInv
  <2>4. <<q.event, q.client>> \notin Accepted
    <3>1. accepted \in Seq(Event \X Client) BY <1>1 DEF IInv, Types
    <3>2. DOMAIN accepted = 1..Len(accepted) BY <3>1
    <3>3. QED BY <2>1, <3>2 DEF Accepted
  <2>5. PICK o : o \in Has(own, q.event, q.client)
    BY <1>1, <2>1, <2>3, <2>4 DEF IInv, Dialogue, Showing
  <2>6. o \in own /\ o.event = q.event /\ o.client = q.client BY <2>5 DEF Has
  <2>7. o.user = UserOf[o.client] /\ about[o.event] = {o.session}
    BY <1>1, <2>6 DEF IInv, Dialogue, Owning
  <2>8. Answerable(q, o) BY <1>1, <2>1, <2>6, <2>7 DEF Answerable
  <2>9. answer' = [answer EXCEPT ![a] = [NoAnswer EXCEPT !.phase = "forwarded"]]
    BY <2>2, <2>6, <2>8 DEF BodyRead, Held
  <2>10. answer'[a] = [NoAnswer EXCEPT !.phase = "forwarded"] BY <1>1, <2>9 DEF IInv, Types
  <2>11. answer'[a].phase = "forwarded" BY <2>10 DEF NoAnswer
  <2>12. QED BY <2>1, <2>11
<1>2. IInv /\ [Next]_vars => [\A a \in Answer : Owed(a) => ~Granted(a)]_vars
  BY <1>1
<1>3. QED BY <1>2, EventsInvariance, PTL DEF Spec, GrantedMayAnswer
==============================================================================
