--------------------------- MODULE AccountsChatProofs ---------------------------
(***************************************************************************)
(* Theorems about the accounts and about the modules of the suite MCChat,  *)
(* for every value of their constants.  The two share no state: they are   *)
(* neighbours here, the accounts first.                                    *)
(*                                                                         *)
(* Accounts: a token, and what a login has read, is either behind the      *)
(* version of its user or has the name and password in force; so a token   *)
(* that became void is void for ever, and a confirmed notice or a logout,  *)
(* which remove what was in use, need not fear it any more.                *)
(*                                                                         *)
(* Chat: the modules of the suite share no state either, so each           *)
(* invariant is of the form "if this behaviour is of that part, then ...", *)
(* and a step of another part leaves it true.                              *)
(***************************************************************************)
EXTENDS Accounts, MCChat, FiniteSetTheorems, WellFoundedInduction, TLAPS

ConnType == [kind : {"socket", "stream"}, phase : {"asked", "open"}, token : Token]
LoginType == [user : Id, seen : User, before : Id \cup {NoOne}]
OpType == [phase : {"idle", "body", "hashing", "adding", "notifying"},
           as : Name \cup {NoOne}, id : Id \cup {NoOne}, name : Name \cup {NoOne},
           cv : 0..MaxVersion + 1]

(* The types, one part per group of variables.                             *)
DbShape == used \subseteq Id /\ DOMAIN db \subseteq used /\ db \in [DOMAIN db -> User]
TokenShape == tokens \subseteq Token /\ stale \in [tokens -> Nat]
CacheShape ==
  /\ cache \in [DOMAIN cache -> 1..Ttl] /\ DOMAIN cache \subseteq tokens
  /\ revoked \subseteq tokens
ConnShape ==
  /\ conns \in [Conn -> {Free} \cup ConnType]
  /\ \A c \in Conn : conns[c] # Free =>
       /\ conns[c].token \in tokens
       /\ conns[c].kind = "socket" => conns[c].phase = "open"
LoginShape ==
  /\ logins \in [Login -> {NoLogin} \cup LoginType]
  /\ \A l \in Login : logins[l] # NoLogin =>
       logins[l].user \in used /\ logins[l].before \in used \cup {NoOne}
OpShape ==
  /\ ops \in [Op -> OpType]
  /\ \A o \in Op : /\ ops[o].id \in used \cup {NoOne}
                   /\ ops[o].phase \in {"hashing", "notifying"} => ops[o].id \in used
                   /\ ops[o].phase = "adding" => ops[o].name \in Name
ToldShape == told \in [Id -> 0..MaxVersion + 1]

Shape ==
  /\ DbShape /\ TokenShape /\ CacheShape /\ ConnShape
  /\ LoginShape /\ OpShape /\ ToldShape

(* What was read of user u is behind his version, or is in force.          *)
Fits(u, name, cv, pw) ==
  u \in DOMAIN db =>
    /\ cv <= db[u].cv
    /\ cv = db[u].cv => name = db[u].name /\ pw = db[u].pw

Faithful ==
  /\ \A t \in tokens : t.sub \in used /\ Fits(t.sub, t.name, t.cv, t.pw)
  /\ \A l \in Login : logins[l] # NoLogin =>
       Fits(logins[l].user, logins[l].seen.name, logins[l].seen.cv, logins[l].seen.pw)

(* Nobody was told of a version the row has not reached.                   *)
Informed ==
  /\ \A u \in Id : IF u \in used THEN told[u] <= VersionIn(db, u) ELSE told[u] = 0
  /\ \A o \in Op : ops[o].phase = "notifying" => ops[o].cv <= VersionIn(db, ops[o].id)

InForceIsFresh == \A t \in tokens : Current(t) => stale[t] = 0

IInv ==
  /\ Shape /\ Faithful /\ Informed /\ InForceIsFresh
  /\ NamesUnique /\ ConfirmedMeansGone /\ StaleWindowBounded /\ LogoutHolds

------------------------------------------------------------------------------
(* What a step may do to each group of variables. Every action is shown to *)
(* stay within these effects, and the invariant follows from them.         *)

(* Rows stay, or move on to a higher version, or go; ids are not reused.   *)
DbEffect ==
  /\ DbShape' /\ NamesUnique'
  /\ used \subseteq used'
  /\ \A u \in DOMAIN db' : u \in used =>
       u \in DOMAIN db /\ (db'[u] = db[u] \/ db[u].cv < db'[u].cv)

(* A new token is what a login has read.                                   *)
TokenEffect ==
  /\ TokenShape'
  /\ tokens \subseteq tokens'
  /\ \A t \in tokens' \ tokens :
       /\ stale'[t] = 0 /\ db' = db /\ used' = used
       /\ \E l \in Login : /\ logins[l] # NoLogin /\ t.sub = logins[l].user
                           /\ t.name = logins[l].seen.name
                           /\ t.cv = logins[l].seen.cv /\ t.pw = logins[l].seen.pw
  /\ \A t \in tokens : stale'[t] \in {stale[t], 0} \/ Old(t)

(* Only a token in force, and not logged out, enters the cache.            *)
CacheEffect ==
  /\ CacheShape'
  /\ \A t \in DOMAIN cache' :
       /\ \/ t \in DOMAIN cache /\ cache'[t] + stale'[t] <= cache[t] + stale[t]
          \/ t \notin revoked /\ Current(t)'
       /\ t \notin revoked' \ revoked

(* Only with such a token a socket is opened; logging out a token in force *)
(* closes its sockets.                                                     *)
ConnEffect ==
  /\ ConnShape'
  /\ \A c \in Conn : conns'[c].kind = "socket" =>
       \/ /\ conns'[c] = conns[c]
          /\ conns[c].token \in revoked' \ revoked => Old(conns[c].token)
       \/ \E t \in tokens \ revoked' : conns'[c].token = t /\ Current(t)'

LoginEffect ==
  /\ LoginShape'
  /\ \A l \in Login : logins'[l] # NoLogin =>
       \/ logins'[l] = logins[l]
       \/ logins'[l].user \in DOMAIN db' /\ logins'[l].seen = db'[logins'[l].user]

OpEffect ==
  /\ OpShape'
  /\ \A o \in Op : ops'[o].phase = "notifying" =>
       ops'[o] = ops[o] \/ ops'[o].cv = VersionIn(db', ops'[o].id)

(* The gateway is told of a version, and forgets the user.                 *)
ToldEffect ==
  /\ ToldShape'
  /\ \A u \in Id :
       \/ told'[u] = told[u]
       \/ /\ u \in used /\ told'[u] <= VersionIn(db, u)
          /\ \A t \in DOMAIN cache' : t.sub # u
          /\ \A c \in Conn : conns'[c].kind = "socket" => conns'[c].token.sub # u

Effect ==
  /\ DbEffect /\ TokenEffect /\ CacheEffect /\ ConnEffect
  /\ LoginEffect /\ OpEffect /\ ToldEffect

------------------------------------------------------------------------------
(* A group that is left alone keeps its part.                              *)

LEMMA DbKept ==
  ASSUME DbShape, NamesUnique, db' = db, used' = used
  PROVE  DbEffect
BY DEF DbEffect, DbShape, NamesUnique

LEMMA TokenKept ==
  ASSUME TokenShape, tokens' = tokens, stale' = stale
  PROVE  TokenEffect
BY DEF TokenEffect, TokenShape

LEMMA CacheKept ==
  ASSUME CacheShape, TokenShape, cache' = cache, revoked' = revoked, tokens \subseteq tokens',
         \A t \in tokens : stale'[t] = stale[t]
  PROVE  CacheEffect
<1>1. \A t \in DOMAIN cache : cache[t] + stale[t] <= cache[t] + stale[t]
  BY DEF CacheShape, TokenShape
<1>. QED  BY <1>1 DEF CacheEffect, CacheShape

LEMMA ConnKept ==
  ASSUME ConnShape, conns' = conns, revoked' = revoked, tokens \subseteq tokens'
  PROVE  ConnEffect
BY DEF ConnEffect, ConnShape

LEMMA LoginKept ==
  ASSUME LoginShape, logins' = logins, used \subseteq used'
  PROVE  LoginEffect
BY DEF LoginEffect, LoginShape

LEMMA OpKept ==
  ASSUME OpShape, ops' = ops, used \subseteq used'
  PROVE  OpEffect
BY DEF OpEffect, OpShape

LEMMA ToldKept ==
  ASSUME ToldShape, told' = told
  PROVE  ToldEffect
BY DEF ToldEffect, ToldShape

------------------------------------------------------------------------------
(* The operators several actions use.                                      *)

LEMMA RememberedEffect ==
  ASSUME CacheShape, TokenShape, NEW t \in tokens, Accepted(t), cache' = Remembered(t),
         revoked' = revoked, tokens' = tokens, stale' = stale, db' = db
  PROVE  CacheEffect
<1>1. CASE t \in DOMAIN cache
  BY <1>1, CacheKept DEF Remembered
<1>2. CASE t \notin DOMAIN cache
  <2>1. t \notin revoked /\ Current(t)'
    BY <1>2 DEF Accepted, Current
  <2>2. cache' = [s \in DOMAIN cache \cup {t} |-> IF s = t THEN Ttl ELSE cache[s]]
    BY <1>2 DEF Remembered
  <2>3. Ttl \in 1..Ttl
    BY AccountsAssumption
  <2>4. CacheShape'
    BY <2>2, <2>3 DEF CacheShape
  <2>5. \A s \in DOMAIN cache' : s # t => s \in DOMAIN cache /\ cache'[s] = cache[s]
    BY <2>2
  <2>6. \A s \in DOMAIN cache : cache[s] + stale'[s] <= cache[s] + stale[s]
    BY DEF CacheShape, TokenShape
  <2>. QED  BY <2>1, <2>4, <2>5, <2>6 DEF CacheEffect
<1>. QED  BY <1>1, <1>2

LEMMA ForgetEffect ==
  ASSUME CacheShape, TokenShape, NEW gone, cache' = Forget(gone),
         revoked' \subseteq revoked \cup gone, revoked' \subseteq tokens,
         tokens' = tokens, stale' = stale
  PROVE  CacheEffect
<1>1. DOMAIN cache' = DOMAIN cache \ gone /\ \A t \in DOMAIN cache' : cache'[t] = cache[t]
  BY DEF Forget
<1>2. \A t \in DOMAIN cache : cache[t] + stale'[t] <= cache[t] + stale[t]
  BY DEF CacheShape, TokenShape
<1>3. CacheShape'
  BY <1>1 DEF CacheShape, Forget
<1>. QED  BY <1>1, <1>2, <1>3 DEF CacheEffect

(* Closing leaves no socket of the user, and the others as they are.       *)
LEMMA ClosedConns ==
  ASSUME ConnShape, NEW u, conns' = Closed(u), tokens \subseteq tokens'
  PROVE  /\ ConnShape'
         /\ \A c \in Conn : conns'[c].kind = "socket" =>
              conns'[c] = conns[c] /\ conns[c].token.sub # u
<1>1. \A c \in Conn :
        conns'[c] = IF conns[c].phase = "open" /\ conns[c].token.sub = u THEN Free ELSE conns[c]
  BY DEF Closed
<1>2. Free.kind # "socket"
  BY DEF Free
<1>3. conns' \in [Conn -> {Free} \cup ConnType]
  BY <1>1 DEF ConnShape, Closed
<1>4. \A c \in Conn : conns[c].kind = "socket" => conns[c] # Free /\ conns[c].phase = "open"
  BY <1>2 DEF ConnShape
<1>. QED  BY <1>1, <1>2, <1>3, <1>4 DEF ConnShape

LEMMA ClosedEffect ==
  ASSUME ConnShape, NEW u, conns' = Closed(u), tokens \subseteq tokens', revoked' = revoked
  PROVE  ConnEffect
BY ClosedConns DEF ConnEffect

(* The gateway's steps.                                                    *)

LEMMA RequestEffect ==
  ASSUME IInv, NEW t \in tokens, Request(t)
  PROVE  Effect
<1>1. CacheEffect
  BY RememberedEffect DEF IInv, Shape, Request, Admitted, gateway, ghosts
<1>2. DbEffect /\ TokenEffect /\ ConnEffect /\ LoginEffect /\ OpEffect /\ ToldEffect
  BY DbKept, TokenKept, ConnKept, LoginKept, OpKept, ToldKept DEF IInv, Shape, Request, ghosts
<1>. QED  BY <1>1, <1>2 DEF Effect

LEMMA LogoutEffect ==
  ASSUME IInv, NEW t \in tokens, Logout(t)
  PROVE  Effect
<1>1. revoked' = revoked \cup {t} /\ tokens' = tokens /\ stale' = stale /\ t \notin revoked
  BY DEF Logout, ghosts
<1>2. CacheEffect
  BY <1>1, ForgetEffect DEF IInv, Shape, Logout, CacheShape
<1>3. DbEffect /\ TokenEffect /\ LoginEffect /\ OpEffect /\ ToldEffect
  BY DbKept, TokenKept, LoginKept, OpKept, ToldKept DEF IInv, Shape, Logout, ghosts
<1>4. CASE Accepted(t)
  <2>1. conns' = Closed(t.sub)
    BY <1>4 DEF Logout
  <2>2. /\ ConnShape'
        /\ \A c \in Conn : conns'[c].kind = "socket" =>
             conns'[c] = conns[c] /\ conns[c].token.sub # t.sub
    BY <2>1, <1>1, ClosedConns DEF IInv, Shape
  <2>3. ConnEffect
    BY <2>2, <1>1 DEF ConnEffect
  <2>. QED  BY <1>2, <1>3, <2>3 DEF Effect
<1>5. CASE ~Accepted(t)
  <2>1. Old(t)
    BY <1>1, <1>5 DEF Accepted, Old
  <2>2. conns' = conns
    BY <1>5 DEF Logout
  <2>3. ConnEffect
    BY <2>1, <2>2, <1>1 DEF ConnEffect, IInv, Shape, ConnShape
  <2>. QED  BY <1>2, <1>3, <2>3 DEF Effect
<1>. QED  BY <1>4, <1>5

LEMMA OpenSocketEffect ==
  ASSUME IInv, NEW c \in Conn, NEW t \in tokens, OpenSocket(c, t)
  PROVE  Effect
<1> DEFINE new == [kind |-> "socket", phase |-> "open", token |-> t]
<1>1. CacheEffect /\ DbEffect /\ TokenEffect /\ LoginEffect /\ OpEffect /\ ToldEffect
  BY CacheKept, DbKept, TokenKept, LoginKept, OpKept, ToldKept
     DEF IInv, Shape, OpenSocket, ghosts
<1>2. conns' = [conns EXCEPT ![c] = new] /\ t \notin revoked /\ Current(t)
      /\ db' = db /\ tokens' = tokens /\ revoked' = revoked
  BY DEF OpenSocket
<1>3. Current(t)'
  BY <1>2 DEF Current
<1>4. new \in ConnType /\ new.phase = "open" /\ new.token = t
  BY DEF ConnType, IInv, Shape, TokenShape
<1> HIDE DEF new
<1>5. ConnShape'
  BY <1>2, <1>4 DEF ConnShape, IInv, Shape
<1>6. \A d \in Conn : conns'[d] = IF d = c THEN new ELSE conns[d]
  BY <1>2 DEF ConnShape, IInv, Shape
<1>7. ConnEffect
  BY <1>2, <1>3, <1>4, <1>5, <1>6 DEF ConnEffect
<1>. QED  BY <1>1, <1>7 DEF Effect

LEMMA AskStreamEffect ==
  ASSUME IInv, NEW c \in Conn, NEW t \in tokens, AskStream(c, t)
  PROVE  Effect
<1> DEFINE new == [kind |-> "stream", phase |-> "asked", token |-> t]
<1>1. CacheEffect
  BY RememberedEffect DEF IInv, Shape, AskStream, Admitted, ghosts
<1>2. DbEffect /\ TokenEffect /\ LoginEffect /\ OpEffect /\ ToldEffect
  BY DbKept, TokenKept, LoginKept, OpKept, ToldKept DEF IInv, Shape, AskStream, ghosts
<1>3. conns' = [conns EXCEPT ![c] = new] /\ tokens' = tokens /\ revoked' = revoked
  BY DEF AskStream
<1>4. new \in ConnType /\ new.kind # "socket" /\ new.token = t
  BY DEF ConnType, IInv, Shape, TokenShape
<1> HIDE DEF new
<1>5. ConnShape'
  BY <1>3, <1>4 DEF ConnShape, IInv, Shape
<1>6. \A d \in Conn : conns'[d] = IF d = c THEN new ELSE conns[d]
  BY <1>3 DEF ConnShape, IInv, Shape
<1>7. ConnEffect
  BY <1>3, <1>4, <1>5, <1>6 DEF ConnEffect
<1>. QED  BY <1>1, <1>2, <1>7 DEF Effect

LEMMA StreamAnsweredEffect ==
  ASSUME IInv, NEW c \in Conn, StreamAnswered(c)
  PROVE  Effect
<1>1. CacheEffect /\ DbEffect /\ TokenEffect /\ LoginEffect /\ OpEffect /\ ToldEffect
  BY CacheKept, DbKept, TokenKept, LoginKept, OpKept, ToldKept
     DEF IInv, Shape, StreamAnswered, ghosts
<1> DEFINE new == [conns[c] EXCEPT !.phase = "open"]
<1>2. conns' = [conns EXCEPT ![c] = new] /\ tokens' = tokens /\ revoked' = revoked
  BY DEF StreamAnswered, IInv, Shape, ConnShape
<1>3. conns[c] \in ConnType /\ conns[c].kind # "socket"
  BY DEF StreamAnswered, IInv, Shape, ConnShape, Free
<1>4. new \in ConnType /\ new.kind = conns[c].kind /\ new.token = conns[c].token
  BY <1>3 DEF ConnType
<1>5. conns[c].token \in tokens
  BY <1>3 DEF IInv, Shape, ConnShape, StreamAnswered, Free
<1> HIDE DEF new
<1>6. ConnShape'
  BY <1>2, <1>3, <1>4, <1>5 DEF ConnShape, IInv, Shape
<1>7. \A d \in Conn : conns'[d] = IF d = c THEN new ELSE conns[d]
  BY <1>2 DEF ConnShape, IInv, Shape
<1>8. ConnEffect
  BY <1>2, <1>3, <1>4, <1>6, <1>7 DEF ConnEffect
<1>. QED  BY <1>1, <1>8 DEF Effect

LEMMA DisconnectEffect ==
  ASSUME IInv, NEW c \in Conn, Disconnect(c)
  PROVE  Effect
<1>1. CacheEffect /\ DbEffect /\ TokenEffect /\ LoginEffect /\ OpEffect /\ ToldEffect
  BY CacheKept, DbKept, TokenKept, LoginKept, OpKept, ToldKept
     DEF IInv, Shape, Disconnect, ghosts
<1>2. conns' = [conns EXCEPT ![c] = Free] /\ tokens' = tokens /\ revoked' = revoked
  BY DEF Disconnect
<1>3. ConnShape'
  BY <1>2 DEF ConnShape, IInv, Shape
<1>4. \A d \in Conn : conns'[d] = IF d = c THEN Free ELSE conns[d]
  BY <1>2 DEF ConnShape, IInv, Shape
<1>5. ConnEffect
  BY <1>2, <1>3, <1>4 DEF ConnEffect, Free
<1>. QED  BY <1>1, <1>5 DEF Effect

LEMMA LoginReadsEffect ==
  ASSUME IInv, NEW l \in Login, NEW u \in Id, NEW t \in tokens \cup {NoOne}, LoginReads(l, u, t)
  PROVE  Effect
<1> DEFINE known == t \in tokens /\ Accepted(t)
           new == [user |-> u, seen |-> db[u], before |-> IF known THEN t.sub ELSE NoOne]
<1>1. DbEffect /\ TokenEffect /\ ConnEffect /\ OpEffect /\ ToldEffect
  BY DbKept, TokenKept, ConnKept, OpKept, ToldKept DEF IInv, Shape, LoginReads, ghosts
<1>2. /\ u \in DOMAIN db /\ logins' = [logins EXCEPT ![l] = new]
      /\ cache' = IF known THEN Remembered(t) ELSE cache
      /\ db' = db /\ used' = used /\ tokens' = tokens /\ revoked' = revoked /\ stale' = stale
  BY DEF LoginReads, ghosts
<1>3. CacheEffect
  <2>1. CASE known
    BY <1>2, <2>1, RememberedEffect DEF IInv, Shape
  <2>2. CASE ~known
    BY <1>2, <2>2, CacheKept DEF IInv, Shape
  <2>. QED  BY <2>1, <2>2
<1>4. u \in used /\ db[u] \in User
  BY <1>2 DEF IInv, Shape, DbShape
<1>5. known => t.sub \in used
  BY DEF IInv, Faithful
<1>6. new \in LoginType /\ new.user = u /\ new.seen = db[u] /\ new.before \in used \cup {NoOne}
  BY <1>4, <1>5 DEF LoginType, IInv, Shape, DbShape
<1> HIDE DEF new, known
<1>7. LoginShape'
  BY <1>2, <1>4, <1>6 DEF LoginShape, IInv, Shape
<1>8. \A k \in Login : logins'[k] = IF k = l THEN new ELSE logins[k]
  BY <1>2 DEF LoginShape, IInv, Shape
<1>9. LoginEffect
  BY <1>2, <1>6, <1>7, <1>8 DEF LoginEffect
<1>. QED  BY <1>1, <1>3, <1>9 DEF Effect

LEMMA LoginIssuesEffect ==
  ASSUME IInv, NEW l \in Login, NEW n \in Serial, LoginIssues(l, n)
  PROVE  Effect
<1> DEFINE new == Issued(l, n)
<1>1. DbEffect /\ OpEffect /\ ToldEffect
  BY DbKept, OpKept, ToldKept DEF IInv, Shape, LoginIssues
<1>2. /\ logins[l] # NoLogin /\ logins' = [logins EXCEPT ![l] = NoLogin]
      /\ tokens' = tokens \cup {new}
      /\ stale' = [t \in tokens' |-> IF t \in tokens THEN stale[t] ELSE 0]
      /\ db' = db /\ used' = used /\ cache' = cache /\ revoked' = revoked
  BY DEF LoginIssues
<1>3. \E b \in {logins[l].before} : conns' = conns \/ conns' = Closed(b)
  BY DEF LoginIssues
<1>4. logins[l] \in LoginType
  BY <1>2 DEF IInv, Shape, LoginShape
<1>5. /\ new \in Token /\ new.sub = logins[l].user /\ new.name = logins[l].seen.name
      /\ new.cv = logins[l].seen.cv /\ new.pw = logins[l].seen.pw
  BY <1>4 DEF LoginType, User, Token, Issued
<1> HIDE DEF new
<1>6. \A t \in tokens' : stale'[t] = IF t \in tokens THEN stale[t] ELSE 0
  BY <1>2
<1>7. TokenShape'
  BY <1>2, <1>5 DEF TokenShape, IInv, Shape
<1>8. TokenEffect
  BY <1>2, <1>5, <1>6, <1>7 DEF TokenEffect
<1>9. CacheEffect
  BY <1>2, <1>6, CacheKept DEF IInv, Shape
<1>10. ConnEffect
  BY <1>2, <1>3, ConnKept, ClosedEffect DEF IInv, Shape
<1>11. LoginEffect
  BY <1>2 DEF LoginEffect, LoginShape, IInv, Shape
<1>. QED  BY <1>1, <1>8, <1>9, <1>10, <1>11 DEF Effect

LEMMA GatewayRestartEffect ==
  ASSUME IInv, GatewayRestart
  PROVE  Effect
<1>1. DbEffect /\ TokenEffect /\ OpEffect /\ ToldEffect
  BY DbKept, TokenKept, OpKept, ToldKept DEF IInv, Shape, GatewayRestart, ghosts
<1>2. CacheEffect
  BY DEF GatewayRestart, CacheEffect, CacheShape, ghosts
<1>3. ConnEffect
  BY DEF GatewayRestart, ConnEffect, ConnShape, Free
<1>4. LoginEffect
  BY DEF GatewayRestart, LoginEffect, LoginShape
<1>. QED  BY <1>1, <1>2, <1>3, <1>4 DEF Effect

LEMMA TickEffect ==
  ASSUME IInv, Tick
  PROVE  Effect
<1>1. DbEffect /\ ConnEffect /\ LoginEffect /\ OpEffect /\ ToldEffect
  BY DbKept, ConnKept, LoginKept, OpKept, ToldKept DEF IInv, Shape, Tick
<1>2. tokens' = tokens /\ revoked' = revoked /\ db' = db
  BY DEF Tick
<1>3. \A t \in tokens : stale'[t] = IF ~(Old(t) /\ InUse(t)) THEN 0
                                    ELSE IF stale[t] <= Ttl THEN stale[t] + 1 ELSE stale[t]
  BY DEF Tick
<1>4. /\ stale' \in [tokens -> Nat]
      /\ \A t \in tokens : stale'[t] <= stale[t] + 1 /\ (stale'[t] = 0 \/ Old(t))
  <2>1. stale' = [t \in tokens |-> stale'[t]]
    BY DEF Tick
  <2>2. \A t \in tokens : stale[t] \in Nat
    BY DEF IInv, Shape, TokenShape
  <2>3. \A t \in tokens : stale'[t] \in Nat /\ stale'[t] <= stale[t] + 1
                          /\ (stale'[t] = 0 \/ Old(t))
    BY <1>3, <2>2, AccountsAssumption
  <2>. QED  BY <2>1, <2>3
<1>5. TokenEffect
  BY <1>2, <1>4 DEF TokenEffect, TokenShape, IInv, Shape
<1>6. DOMAIN cache' = DOMAIN cache \ Expired(cache)
      /\ \A t \in DOMAIN cache' : cache'[t] = cache[t] - 1
  BY DEF Tick
<1>7. \A t \in DOMAIN cache' : t \in tokens /\ cache[t] \in 1..Ttl /\ cache[t] # 1
  BY <1>6 DEF Expired, IInv, Shape, CacheShape
<1>8. \A t \in DOMAIN cache' : /\ cache'[t] \in 1..Ttl
                               /\ cache'[t] + stale'[t] <= cache[t] + stale[t]
  <2>1. \A t \in tokens : stale[t] \in Nat /\ stale'[t] \in Nat
    BY <1>4 DEF IInv, Shape, TokenShape
  <2>. QED  BY <1>4, <1>6, <1>7, <2>1, AccountsAssumption
<1>9. cache' = [t \in DOMAIN cache' |-> cache'[t]]
  BY DEF Tick
<1>10. CacheShape'
  BY <1>2, <1>7, <1>8, <1>9 DEF CacheShape, IInv, Shape
<1>11. CacheEffect
  BY <1>2, <1>6, <1>8, <1>10 DEF CacheEffect
<1>. QED  BY <1>1, <1>5, <1>11 DEF Effect

------------------------------------------------------------------------------
(* The plugin's steps.                                                     *)

LEMMA CarryEffect ==
  ASSUME OpShape, NEW o \in Op, NEW what \in OpType, Carry(o, what), used \subseteq used',
         what.id \in used' \cup {NoOne},
         what.phase \in {"hashing", "notifying"} => what.id \in used',
         what.phase = "adding" => what.name \in Name,
         what.phase = "notifying" => what.cv = VersionIn(db', what.id)
  PROVE  OpEffect
<1>1. ops' = [ops EXCEPT ![o] = what]
  BY DEF Carry
<1>2. \A q \in Op : ops'[q] = IF q = o THEN what ELSE ops[q]
  BY <1>1 DEF OpShape
<1>3. ops' \in [Op -> OpType]
  BY <1>1 DEF OpShape
<1>. QED  BY <1>2, <1>3 DEF OpShape, OpEffect

LEMMA NoOpType == NoOp \in OpType
<1>1. 0 \in 0..MaxVersion + 1
  BY AccountsAssumption
<1>. QED  BY <1>1 DEF NoOp, OpType

LEMMA NoOpCarried ==
  ASSUME OpShape, NEW o \in Op, Carry(o, NoOp), used \subseteq used'
  PROVE  OpEffect
<1>1. NoOp \in OpType /\ NoOp.id = NoOne /\ NoOp.phase = "idle"
  BY NoOpType DEF NoOp, OpType
<1>. QED  BY <1>1, CarryEffect

LEMMA VersionType ==
  ASSUME NEW u, DbShape
  PROVE  VersionIn(db, u) \in 0..MaxVersion + 1
BY AccountsAssumption DEF DbShape, User, VersionIn

LEMMA NotifiesEffect ==
  ASSUME OpShape, NEW o \in Op, NEW u \in used, Notifies(o, u), DbShape', used' = used, used \subseteq Id
  PROVE  OpEffect
<1> DEFINE what == [NoOp EXCEPT !.phase = "notifying", !.id = u, !.cv = VersionIn(db', u)]
<1>1. VersionIn(db', u) \in 0..MaxVersion + 1
  BY AccountsAssumption DEF DbShape, User, VersionIn
<1>2. what \in OpType /\ what.id = u /\ what.phase = "notifying" /\ what.cv = VersionIn(db', u)
  BY <1>1 DEF NoOp, OpType
<1>3. Carry(o, what)
  BY DEF Notifies
<1> HIDE DEF what
<1>. QED  BY <1>2, <1>3, CarryEffect

LEMMA ArriveEffect ==
  ASSUME IInv, NEW o \in Op, NEW t \in tokens, Arrive(o, t)
  PROVE  Effect
<1>1. CacheEffect
  BY RememberedEffect DEF IInv, Shape, Arrive, Admitted, ghosts
<1>2. DbEffect /\ TokenEffect /\ ConnEffect /\ LoginEffect /\ ToldEffect
  BY DbKept, TokenKept, ConnKept, LoginKept, ToldKept DEF IInv, Shape, Arrive, ghosts
<1> DEFINE what == [NoOp EXCEPT !.phase = "body", !.as = db[t.sub].name]
<1>3. db[t.sub] \in User
  BY DEF Arrive, Admitted, IInv, Shape, DbShape
<1>4. what \in OpType /\ what.id = NoOne /\ what.phase = "body"
  BY <1>3, NoOpType DEF NoOp, OpType, User
<1>5. Carry(o, what) /\ used' = used
  BY DEF Arrive
<1> HIDE DEF what
<1>6. OpEffect
  BY <1>4, <1>5, CarryEffect DEF IInv, Shape
<1>. QED  BY <1>1, <1>2, <1>6 DEF Effect

LEMMA ReadForPasswordEffect ==
  ASSUME IInv, NEW o \in Op, NEW u \in Id, ReadForPassword(o, u)
  PROVE  Effect
<1>1. CacheEffect /\ DbEffect /\ TokenEffect /\ ConnEffect /\ LoginEffect /\ ToldEffect
  BY CacheKept, DbKept, TokenKept, ConnKept, LoginKept, ToldKept
     DEF IInv, Shape, ReadForPassword, gateway, ghosts
<1> DEFINE what == [NoOp EXCEPT !.phase = "hashing", !.id = u]
<1>2. u \in used /\ used' = used /\ Carry(o, what)
  BY DEF ReadForPassword, MayChange, IInv, Shape, DbShape
<1>3. what \in OpType /\ what.id = u /\ what.phase = "hashing"
  BY NoOpType DEF NoOp, OpType
<1> HIDE DEF what
<1>4. OpEffect
  BY <1>2, <1>3, CarryEffect DEF IInv, Shape
<1>. QED  BY <1>1, <1>4 DEF Effect

LEMMA ReadForAddEffect ==
  ASSUME IInv, NEW o \in Op, NEW n \in Name, ReadForAdd(o, n)
  PROVE  Effect
<1>1. CacheEffect /\ DbEffect /\ TokenEffect /\ ConnEffect /\ LoginEffect /\ ToldEffect
  BY CacheKept, DbKept, TokenKept, ConnKept, LoginKept, ToldKept
     DEF IInv, Shape, ReadForAdd, gateway, ghosts
<1> DEFINE what == [NoOp EXCEPT !.phase = "adding", !.name = n]
<1>2. used' = used /\ Carry(o, what)
  BY DEF ReadForAdd
<1>3. what \in OpType /\ what.id = NoOne /\ what.name = n /\ what.phase = "adding"
  BY NoOpType DEF NoOp, OpType
<1> HIDE DEF what
<1>4. OpEffect
  BY <1>2, <1>3, CarryEffect DEF IInv, Shape
<1>. QED  BY <1>1, <1>4 DEF Effect

(* A row that is rewritten under a higher version.                         *)
LEMMA RowRaised ==
  ASSUME DbShape, NamesUnique, used' = used, NEW u \in DOMAIN db, NEW row \in User,
         db' = [db EXCEPT ![u] = row], row.cv = db[u].cv + 1,
         row.name = db[u].name \/ Named(row.name) = {}
  PROVE  DbEffect
<1>1. DOMAIN db' = DOMAIN db /\ \A v \in DOMAIN db : db'[v] = IF v = u THEN row ELSE db[v]
  OBVIOUS
<1>2. DbShape'
  BY <1>1 DEF DbShape
<1>3. \A v \in DOMAIN db : v # u => db[v].name # row.name
  BY DEF NamesUnique, Named
<1>4. NamesUnique'
  BY <1>1, <1>3 DEF NamesUnique
<1>5. db[u].cv < row.cv
  BY DEF DbShape, User
<1>. QED  BY <1>1, <1>2, <1>4, <1>5 DEF DbEffect

LEMMA WritePasswordEffect ==
  ASSUME IInv, NEW o \in Op, NEW p \in Password, WritePassword(o, p)
  PROVE  Effect
<1> DEFINE u == ops[o].id
<1>1. CacheEffect /\ TokenEffect /\ ConnEffect /\ LoginEffect /\ ToldEffect
  BY CacheKept, TokenKept, ConnKept, LoginKept, ToldKept
     DEF IInv, Shape, WritePassword, gateway, ghosts
<1>2. u \in used /\ used' = used /\ Notifies(o, u)
  BY DEF WritePassword, IInv, Shape, OpShape
<1>3. DbEffect
  <2>1. CASE u \in DOMAIN db
    <3> DEFINE row == [db[u] EXCEPT !.pw = p, !.cv = db[u].cv + 1]
    <3>1. db[u] \in User /\ db[u].cv < MaxVersion
      BY <2>1 DEF WritePassword, IInv, Shape, DbShape
    <3>2. db' = [db EXCEPT ![u] = row]
      BY <2>1 DEF WritePassword, Rehashed
    <3>4. db[u].cv + 1 \in 0..MaxVersion
      BY <3>1, AccountsAssumption DEF User
    <3>3. row \in User /\ row.cv = db[u].cv + 1 /\ row.name = db[u].name
      BY <3>1, <3>4 DEF User
    <3> HIDE DEF row
    <3>. QED  BY <1>2, <2>1, <3>2, <3>3, RowRaised DEF IInv, Shape
  <2>2. CASE u \notin DOMAIN db
    BY <1>2, <2>2, DbKept DEF WritePassword, IInv, Shape
  <2>. QED  BY <2>1, <2>2
<1>4. OpEffect
  BY <1>2, <1>3, NotifiesEffect DEF IInv, Shape, DbShape, DbEffect
<1>. QED  BY <1>1, <1>3, <1>4 DEF Effect

LEMMA RenameEffect ==
  ASSUME IInv, NEW o \in Op, NEW u \in Id, NEW n \in Name, Rename(o, u, n)
  PROVE  Effect
<1>1. CacheEffect /\ TokenEffect /\ ConnEffect /\ LoginEffect /\ ToldEffect
  BY CacheKept, TokenKept, ConnKept, LoginKept, ToldKept
     DEF IInv, Shape, Rename, gateway, ghosts
<1>2. u \in DOMAIN db /\ u \in used /\ used' = used /\ Notifies(o, u)
      /\ Named(n) = {} /\ db[u].cv < MaxVersion
  BY DEF Rename, MayChange, IInv, Shape, DbShape
<1>3. DbEffect
  <2> DEFINE row == [db[u] EXCEPT !.name = n, !.cv = db[u].cv + 1]
  <2>1. db[u] \in User
    BY <1>2 DEF IInv, Shape, DbShape
  <2>2. db' = [db EXCEPT ![u] = row]
    BY DEF Rename, Renamed
  <2>4. db[u].cv + 1 \in 0..MaxVersion
    BY <1>2, <2>1, AccountsAssumption DEF User
  <2>3. row \in User /\ row.cv = db[u].cv + 1 /\ row.name = n
    BY <2>1, <2>4 DEF User
  <2> HIDE DEF row
  <2>. QED  BY <1>2, <2>2, <2>3, RowRaised DEF IInv, Shape
<1>4. OpEffect
  BY <1>2, <1>3, NotifiesEffect DEF IInv, Shape, DbShape, DbEffect
<1>. QED  BY <1>1, <1>3, <1>4 DEF Effect

LEMMA AddEffect ==
  ASSUME IInv, NEW o \in Op, NEW p \in Password, Add(o, p)
  PROVE  Effect
<1> DEFINE n == ops[o].name
<1>1. Carry(o, NoOp) /\ UNCHANGED <<tokens, gateway, logins, ghosts>> /\ n \in Name
  BY DEF Add, IInv, Shape, OpShape
<1>2. DbEffect
  <2>1. CASE Named(n) = {}
    <3>1. PICK u \in Id \ used :
            /\ db' = [v \in DOMAIN db \cup {u} |->
                        IF v = u THEN [name |-> n, pw |-> p, cv |-> 0] ELSE db[v]]
            /\ used' = used \cup {u}
      BY <2>1 DEF Add, MayInsert
    <3> DEFINE row == [name |-> n, pw |-> p, cv |-> 0]
    <3>2. row \in User /\ row.name = n
      BY <1>1, AccountsAssumption DEF User
    <3>3. u \notin DOMAIN db
      BY <3>1 DEF IInv, Shape, DbShape
    <3>4. db' = [v \in DOMAIN db \cup {u} |-> IF v = u THEN row ELSE db[v]]
      BY <3>1
    <3> HIDE DEF row
    <3>5. DbShape'
      BY <3>1, <3>2, <3>4 DEF IInv, Shape, DbShape
    <3>6. \A v \in DOMAIN db : db[v].name # n
      BY <2>1 DEF Named
    <3>7. NamesUnique'
      BY <3>2, <3>3, <3>4, <3>6 DEF NamesUnique, IInv
    <3>. QED  BY <3>1, <3>3, <3>4, <3>5, <3>7 DEF DbEffect
  <2>2. CASE Named(n) # {}
    BY <2>2, DbKept DEF Add, MayInsert, IInv, Shape
  <2>. QED  BY <2>1, <2>2
<1>3. used \subseteq used'
  BY <1>2 DEF DbEffect
<1>4. CacheEffect /\ TokenEffect /\ ConnEffect /\ LoginEffect /\ ToldEffect /\ OpEffect
  BY <1>1, <1>3, CacheKept, TokenKept, ConnKept, LoginKept, ToldKept, NoOpCarried
     DEF IInv, Shape, gateway, ghosts
<1>. QED  BY <1>2, <1>4 DEF Effect

LEMMA RemoveEffect ==
  ASSUME IInv, NEW o \in Op, NEW u \in Id, Remove(o, u)
  PROVE  Effect
<1>1. CacheEffect /\ TokenEffect /\ ConnEffect /\ LoginEffect /\ ToldEffect
  BY CacheKept, TokenKept, ConnKept, LoginKept, ToldKept
     DEF IInv, Shape, Remove, gateway, ghosts
<1>2. /\ u \in DOMAIN db /\ u \in used /\ used' = used /\ Notifies(o, u)
      /\ db' = [v \in DOMAIN db \ {u} |-> db[v]]
  BY DEF Remove, IInv, Shape, DbShape
<1>3. DbEffect
  <2>1. DbShape'
    BY <1>2 DEF IInv, Shape, DbShape
  <2>2. NamesUnique'
    BY <1>2 DEF IInv, NamesUnique
  <2>. QED  BY <1>2, <2>1, <2>2 DEF DbEffect
<1>4. OpEffect
  BY <1>2, <1>3, NotifiesEffect DEF IInv, Shape, DbShape, DbEffect
<1>. QED  BY <1>1, <1>3, <1>4 DEF Effect

LEMMA NotifiedEffect ==
  ASSUME IInv, NEW o \in Op, Notified(o)
  PROVE  Effect
<1> DEFINE u == ops[o].id
<1>1. DbEffect /\ TokenEffect /\ LoginEffect /\ OpEffect
  BY DbKept, TokenKept, LoginKept, NoOpCarried DEF IInv, Shape, Notified
<1>2. /\ ops[o].phase = "notifying" /\ u \in used /\ u \in Id
      /\ ops[o].cv \in 0..MaxVersion + 1 /\ ops[o].cv <= VersionIn(db, u)
  BY DEF Notified, IInv, Shape, DbShape, OpShape, OpType, Informed
<1>3. /\ cache' = Forget({t \in tokens : t.sub = u}) /\ conns' = Closed(u)
      /\ told' = [told EXCEPT ![u] = IF @ < ops[o].cv THEN ops[o].cv ELSE @]
      /\ tokens' = tokens /\ revoked' = revoked /\ stale' = stale
  BY DEF Notified
<1>4. CacheEffect
  BY <1>3, ForgetEffect DEF IInv, Shape, CacheShape
<1>5. ConnEffect
  BY <1>3, ClosedEffect DEF IInv, Shape
<1>6. \A t \in DOMAIN cache' : t.sub # u
  BY <1>3 DEF Forget, IInv, Shape, CacheShape
<1>7. \A c \in Conn : conns'[c].kind = "socket" => conns'[c].token.sub # u
  <2>1. \A c \in Conn : conns'[c].kind = "socket" =>
          conns'[c] = conns[c] /\ conns[c].token.sub # u
    BY <1>3, ClosedConns DEF IInv, Shape
  <2>. QED  BY <2>1
<1> DEFINE version == IF told[u] < ops[o].cv THEN ops[o].cv ELSE told[u]
<1>8. told' = [told EXCEPT ![u] = version] /\ version \in 0..MaxVersion + 1
  BY <1>2, <1>3 DEF IInv, Shape, ToldShape
<1>9. version <= VersionIn(db, u)
  BY <1>2 DEF IInv, Informed
<1> HIDE DEF version, u
<1>10. ToldShape'
  BY <1>2, <1>8 DEF IInv, Shape, ToldShape
<1>11. \A v \in Id : told'[v] = IF v = u THEN version ELSE told[v]
  BY <1>2, <1>8 DEF IInv, Shape, ToldShape
<1>12. ToldEffect
  BY <1>2, <1>6, <1>7, <1>9, <1>10, <1>11 DEF ToldEffect
<1>. QED  BY <1>1, <1>4, <1>5, <1>12 DEF Effect

LEMMA OpEndsEffect ==
  ASSUME IInv, NEW o \in Op, OpEnds(o)
  PROVE  Effect
BY CacheKept, DbKept, TokenKept, ConnKept, LoginKept, ToldKept, NoOpCarried
   DEF IInv, Shape, OpEnds, gateway, ghosts, Effect

------------------------------------------------------------------------------
(* The invariant follows from the effects.                                 *)

(* A token that is void stays void.                                        *)
LEMMA VoidForEver ==
  ASSUME IInv, DbEffect, NEW t \in tokens, Current(t)'
  PROVE  Current(t) /\ db'[t.sub] = db[t.sub]
<1>1. t.sub \in used /\ t.sub \in DOMAIN db' /\ db'[t.sub].cv = t.cv /\ db'[t.sub].name = t.name
  BY DEF IInv, Faithful, Current
<1>2. t.sub \in DOMAIN db /\ (db'[t.sub] = db[t.sub] \/ db[t.sub].cv < db'[t.sub].cv)
  BY <1>1 DEF DbEffect
<1>3. t.cv <= db[t.sub].cv
  BY <1>2 DEF IInv, Faithful, Fits
<1>4. db[t.sub].cv \in Nat /\ db'[t.sub].cv \in Nat
  BY <1>1, <1>2 DEF DbEffect, DbShape, User, IInv, Shape
<1>5. db'[t.sub] = db[t.sub]
  BY <1>1, <1>2, <1>3, <1>4
<1>. QED  BY <1>1, <1>2, <1>5 DEF Current

LEMMA FitsStill ==
  ASSUME IInv, DbEffect, NEW u \in used, NEW name, NEW cv \in Nat, NEW pw, Fits(u, name, cv, pw)
  PROVE  Fits(u, name, cv, pw)'
<1>1. CASE u \in DOMAIN db'
  <2>1. u \in DOMAIN db /\ (db'[u] = db[u] \/ db[u].cv < db'[u].cv)
    BY <1>1 DEF DbEffect
  <2>2. db[u].cv \in Nat /\ db'[u].cv \in Nat
    BY <1>1, <2>1 DEF DbEffect, DbShape, User, IInv, Shape
  <2>. QED  BY <2>1, <2>2 DEF Fits
<1>2. CASE u \notin DOMAIN db'
  BY <1>2 DEF Fits
<1>. QED  BY <1>1, <1>2

LEMMA FaithfulStill ==
  ASSUME IInv, Effect
  PROVE  Faithful'
<1>1. DbEffect /\ TokenEffect /\ LoginEffect
  BY DEF Effect
<1>2. \A t \in tokens : t.sub \in used' /\ Fits(t.sub, t.name, t.cv, t.pw)'
  <2> SUFFICES ASSUME NEW t \in tokens
               PROVE  t.sub \in used' /\ Fits(t.sub, t.name, t.cv, t.pw)'
    OBVIOUS
  <2>1. t.sub \in used /\ t.cv \in Nat /\ Fits(t.sub, t.name, t.cv, t.pw)
    BY DEF IInv, Faithful, Shape, TokenShape, Token
  <2>. QED  BY <1>1, <2>1, FitsStill DEF DbEffect
<1>3. \A l \in Login : \A k : k = logins[l] /\ k # NoLogin =>
        /\ k.user \in used
        /\ Fits(k.user, k.seen.name, k.seen.cv, k.seen.pw)'
  <2> SUFFICES ASSUME NEW l \in Login, NEW k, k = logins[l], k # NoLogin
               PROVE  /\ k.user \in used
                      /\ Fits(k.user, k.seen.name, k.seen.cv, k.seen.pw)'
    OBVIOUS
  <2>1. k.user \in used /\ k.seen.cv \in Nat
    BY DEF IInv, Shape, LoginShape, LoginType, User
  <2>2. Fits(k.user, k.seen.name, k.seen.cv, k.seen.pw)
    BY DEF IInv, Faithful
  <2>. QED  BY <1>1, <2>1, <2>2, FitsStill
<1>4. \A t \in tokens' : t.sub \in used' /\ Fits(t.sub, t.name, t.cv, t.pw)'
  <2> SUFFICES ASSUME NEW t \in tokens', t \notin tokens
               PROVE  t.sub \in used' /\ Fits(t.sub, t.name, t.cv, t.pw)'
    BY <1>2
  <2>1. PICK l \in Login : /\ logins[l] # NoLogin /\ t.sub = logins[l].user
                           /\ t.name = logins[l].seen.name
                           /\ t.cv = logins[l].seen.cv /\ t.pw = logins[l].seen.pw
    BY <1>1 DEF TokenEffect
  <2>2. PICK k : k = logins[l]
    OBVIOUS
  <2>3. k.user \in used /\ Fits(k.user, k.seen.name, k.seen.cv, k.seen.pw)'
    BY <1>3, <2>1, <2>2
  <2>. QED  BY <1>1, <2>1, <2>2, <2>3 DEF DbEffect
<1>5. \A l \in Login : \A k : k = logins'[l] /\ k # NoLogin =>
        Fits(k.user, k.seen.name, k.seen.cv, k.seen.pw)'
  <2> SUFFICES ASSUME NEW l \in Login, NEW k, k = logins'[l], k # NoLogin
               PROVE  Fits(k.user, k.seen.name, k.seen.cv, k.seen.pw)'
    OBVIOUS
  <2>1. CASE k = logins[l]
    BY <1>3, <2>1
  <2>2. CASE k.user \in DOMAIN db' /\ k.seen = db'[k.user]
    <3>1. db'[k.user].cv \in Nat
      BY <1>1, <2>2 DEF DbEffect, DbShape, User
    <3>. QED  BY <2>2, <3>1 DEF Fits
  <2>. QED  BY <1>1, <2>1, <2>2 DEF LoginEffect
<1>. QED  BY <1>4, <1>5 DEF Faithful

LEMMA VersionGrows ==
  ASSUME IInv, DbEffect, NEW u \in used
  PROVE  VersionIn(db, u) <= VersionIn(db', u)
<1>1. VersionIn(db, u) \in Nat /\ VersionIn(db, u) <= MaxVersion + 1
  BY VersionType, AccountsAssumption DEF IInv, Shape
<1>2. CASE u \in DOMAIN db'
  <2>1. u \in DOMAIN db /\ (db'[u] = db[u] \/ db[u].cv < db'[u].cv)
    BY <1>2 DEF DbEffect
  <2>2. db[u].cv \in Nat /\ db'[u].cv \in Nat
    BY <1>2, <2>1 DEF DbEffect, DbShape, User, IInv, Shape
  <2>. QED  BY <1>2, <2>1, <2>2 DEF VersionIn
<1>3. CASE u \notin DOMAIN db'
  BY <1>1, <1>3 DEF VersionIn
<1>. QED  BY <1>2, <1>3

LEMMA VersionNext ==
  ASSUME NEW u, DbShape'
  PROVE  VersionIn(db', u) \in Nat
BY AccountsAssumption DEF DbShape, User, VersionIn

LEMMA InformedStill ==
  ASSUME IInv, Effect
  PROVE  Informed'
<1>1. DbEffect /\ OpEffect /\ ToldEffect /\ DbShape' /\ DbShape
  BY DEF Effect, DbEffect, IInv, Shape
<1>2. \A u \in Id : IF u \in used' THEN told'[u] <= VersionIn(db', u) ELSE told'[u] = 0
  <2> SUFFICES ASSUME NEW u \in Id
               PROVE  IF u \in used' THEN told'[u] <= VersionIn(db', u) ELSE told'[u] = 0
    OBVIOUS
  <2>1. told[u] \in Nat /\ told'[u] \in Nat
    BY <1>1 DEF ToldEffect, ToldShape, IInv, Shape
  <2>2. VersionIn(db, u) \in Nat /\ VersionIn(db', u) \in Nat
    BY <1>1, VersionType, VersionNext, AccountsAssumption
  <2>3. used \subseteq used'
    BY <1>1 DEF DbEffect
  <2>4. CASE u \in used
    <3>1. VersionIn(db, u) <= VersionIn(db', u)
      BY <1>1, <2>4, VersionGrows
    <3>2. told'[u] <= VersionIn(db, u)
      BY <1>1, <2>4 DEF ToldEffect, IInv, Informed
    <3>. QED  BY <2>1, <2>2, <2>3, <2>4, <3>1, <3>2
  <2>5. CASE u \notin used
    <3>1. told'[u] = 0
      BY <1>1, <2>5 DEF ToldEffect, IInv, Informed
    <3>. QED  BY <2>2, <3>1
  <2>. QED  BY <2>4, <2>5
<1>3. \A o \in Op : ops'[o].phase = "notifying" => ops'[o].cv <= VersionIn(db', ops'[o].id)
  <2> SUFFICES ASSUME NEW o \in Op, NEW k, k = ops'[o], k.phase = "notifying"
               PROVE  k.cv <= VersionIn(db', k.id)
    OBVIOUS
  <2>1. VersionIn(db, k.id) \in Nat /\ VersionIn(db', k.id) \in Nat
    BY <1>1, VersionType, VersionNext, AccountsAssumption
  <2>2. CASE k = ops[o]
    <3>1. k.id \in used /\ k.cv \in Nat /\ k.cv <= VersionIn(db, k.id)
      BY <2>2 DEF IInv, Shape, OpShape, OpType, Informed
    <3>. QED  BY <1>1, <2>1, <3>1, VersionGrows
  <2>3. CASE k.cv = VersionIn(db', k.id)
    BY <2>1, <2>3
  <2>. QED  BY <1>1, <2>2, <2>3 DEF OpEffect
<1>. QED  BY <1>2, <1>3 DEF Informed, VersionIn

LEMMA InForceIsFreshStill ==
  ASSUME IInv, Effect
  PROVE  InForceIsFresh'
<1>1. DbEffect /\ TokenEffect
  BY DEF Effect
<1>2. SUFFICES ASSUME NEW t \in tokens', Current(t)'
               PROVE  stale'[t] = 0
  BY DEF InForceIsFresh
<1>3. CASE t \in tokens
  <2>1. Current(t) /\ stale[t] = 0
    BY <1>1, <1>2, <1>3, VoidForEver DEF IInv, InForceIsFresh
  <2>. QED  BY <1>1, <1>3, <2>1 DEF TokenEffect, Old
<1>4. CASE t \notin tokens
  BY <1>1, <1>4 DEF TokenEffect
<1>. QED  BY <1>3, <1>4

LEMMA ConfirmedStill ==
  ASSUME IInv, Effect
  PROVE  ConfirmedMeansGone'
<1>1. DbEffect /\ TokenEffect /\ CacheEffect /\ ConnEffect /\ ToldEffect /\ Informed' /\ Faithful'
  BY InformedStill, FaithfulStill DEF Effect
(* A token in force is level with the version, of which nobody is ahead.   *)
<1>2. ASSUME NEW t \in tokens', Current(t)'
      PROVE  t.cv >= told'[t.sub]
  <2>1. t.sub \in used' /\ t.sub \in Id /\ t.cv \in Nat
    BY <1>1 DEF Faithful, TokenEffect, TokenShape, Token
  <2>2. told'[t.sub] <= VersionIn(db', t.sub)
    BY <1>1, <2>1 DEF Informed
  <2>3. VersionIn(db', t.sub) = t.cv
    BY <1>2 DEF Current, VersionIn
  <2>4. told'[t.sub] \in Nat
    BY <1>1, <2>1 DEF ToldEffect, ToldShape
  <2>. QED  BY <2>1, <2>2, <2>3, <2>4
<1>3. \A t \in DOMAIN cache' : t.cv >= told'[t.sub]
  <2> SUFFICES ASSUME NEW t \in DOMAIN cache'
               PROVE  t.cv >= told'[t.sub]
    OBVIOUS
  <2>1. t \in tokens' /\ t.sub \in Id
    BY <1>1 DEF CacheEffect, CacheShape, TokenEffect, TokenShape, Token
  <2>2. CASE t \in DOMAIN cache
    <3>1. told'[t.sub] = told[t.sub]
      BY <1>1, <2>1 DEF ToldEffect
    <3>. QED  BY <2>2, <3>1 DEF IInv, ConfirmedMeansGone
  <2>3. CASE Current(t)'
    BY <1>2, <2>1, <2>3
  <2>. QED  BY <1>1, <2>2, <2>3 DEF CacheEffect
<1>4. \A c \in Conn : conns'[c].kind = "socket" =>
        conns'[c].token.cv >= told'[conns'[c].token.sub]
  <2> SUFFICES ASSUME NEW c \in Conn, conns'[c].kind = "socket",
                      NEW t, t = conns'[c].token
               PROVE  t.cv >= told'[t.sub]
    OBVIOUS
  <2>1. t \in tokens' /\ t.sub \in Id
    BY <1>1 DEF ConnEffect, ConnShape, TokenEffect, TokenShape, Token, Free
  <2>2. CASE conns'[c] = conns[c]
    <3>1. told'[t.sub] = told[t.sub]
      BY <1>1, <2>1 DEF ToldEffect
    <3>. QED  BY <2>2, <3>1 DEF IInv, ConfirmedMeansGone
  <2>3. CASE Current(t)'
    BY <1>2, <2>1, <2>3
  <2>4. conns'[c] = conns[c] \/ \E s \in tokens : s = t /\ Current(s)'
    BY <1>1 DEF ConnEffect
  <2>. QED  BY <2>2, <2>3, <2>4
<1>. QED  BY <1>3, <1>4 DEF ConfirmedMeansGone

LEMMA StaleWindowStill ==
  ASSUME IInv, Effect
  PROVE  StaleWindowBounded'
<1>1. DbEffect /\ TokenEffect /\ CacheEffect
  BY DEF Effect
<1>2. SUFFICES ASSUME NEW t \in DOMAIN cache', ~Current(t)'
               PROVE  stale'[t] + cache'[t] <= Ttl
  BY DEF StaleWindowBounded, Old
<1>3. t \in DOMAIN cache /\ cache'[t] + stale'[t] <= cache[t] + stale[t]
  BY <1>1, <1>2 DEF CacheEffect
<1>4. /\ t \in tokens /\ cache[t] \in 1..Ttl /\ stale[t] \in Nat
      /\ cache'[t] \in 1..Ttl /\ stale'[t] \in Nat
  BY <1>1, <1>3 DEF IInv, Shape, CacheShape, TokenShape, CacheEffect, TokenEffect
<1>5. stale[t] + cache[t] <= Ttl
  <2>1. CASE Old(t)
    BY <1>3, <2>1 DEF IInv, StaleWindowBounded
  <2>2. CASE Current(t)
    <3>1. stale[t] = 0
      BY <1>4, <2>2 DEF IInv, InForceIsFresh
    <3>. QED  BY <1>4, <3>1, AccountsAssumption
  <2>. QED  BY <2>1, <2>2 DEF Old
<1>. QED  BY <1>3, <1>4, <1>5, AccountsAssumption

LEMMA LogoutStill ==
  ASSUME IInv, Effect
  PROVE  LogoutHolds'
<1>1. DbEffect /\ CacheEffect /\ ConnEffect
  BY DEF Effect
<1>2. DOMAIN cache' \cap revoked' = {}
  BY <1>1 DEF CacheEffect, IInv, LogoutHolds
<1>3. \A c \in Conn : \A t : conns'[c].kind = "socket" /\ t = conns'[c].token /\ t \in revoked' =>
        ~Current(t)'
  <2> SUFFICES ASSUME NEW c \in Conn, NEW t, conns'[c].kind = "socket",
                      t = conns'[c].token, t \in revoked'
               PROVE  ~Current(t)'
    OBVIOUS
  <2>1. conns'[c] = conns[c] /\ (t \in revoked' \ revoked => Old(t))
    BY <1>1 DEF ConnEffect
  <2>2. Old(t)
    BY <2>1 DEF IInv, LogoutHolds
  <2>3. t \in tokens
    BY <2>1 DEF IInv, Shape, ConnShape, Free
  <2>. QED  BY <1>1, <2>2, <2>3, VoidForEver DEF Old
<1>. QED  BY <1>2, <1>3 DEF LogoutHolds, Old, Current

LEMMA EffectKeeps ==
  ASSUME IInv, Effect
  PROVE  IInv'
<1>1. Shape' /\ NamesUnique'
  BY DEF Effect, Shape, DbEffect, TokenEffect, CacheEffect, ConnEffect, LoginEffect,
         OpEffect, ToldEffect
<1>. QED  BY <1>1, FaithfulStill, InformedStill, InForceIsFreshStill, ConfirmedStill,
            StaleWindowStill, LogoutStill DEF IInv

------------------------------------------------------------------------------
LEMMA InitIInv ==
  ASSUME Init
  PROVE  IInv
<1>1. PICK u \in Id, n \in Name, p \in Password :
        /\ db = [v \in {u} |-> [name |-> n, pw |-> p, cv |-> 0]] /\ used = {u}
  BY DEF Init
<1>2. 0 \in 0..MaxVersion /\ 0 \in 0..MaxVersion + 1
  BY AccountsAssumption
<1> DEFINE row == [name |-> n, pw |-> p, cv |-> 0]
<1>3. row \in User /\ row.cv = 0
  BY <1>2 DEF User
<1>4. db = [v \in {u} |-> row]
  BY <1>1
<1> HIDE DEF row
<1>5. DbShape /\ NamesUnique
  BY <1>1, <1>3, <1>4 DEF DbShape, NamesUnique
<1>6. TokenShape /\ CacheShape /\ ConnShape /\ LoginShape
  BY DEF Init, TokenShape, CacheShape, ConnShape, LoginShape
<1>7. OpShape
  <2>1. ops = [o \in Op |-> NoOp] /\ NoOp.id = NoOne /\ NoOp.phase = "idle"
    BY DEF Init, NoOp
  <2>. QED  BY <2>1, NoOpType DEF OpShape
<1>8. ToldShape /\ told = [v \in Id |-> 0]
  BY <1>2 DEF Init, ToldShape
<1>9. Faithful /\ InForceIsFresh
  BY DEF Init, Faithful, InForceIsFresh
<1>10. Informed
  <2>1. \A v \in Id : 0 <= VersionIn(db, v)
    BY <1>5, VersionType, AccountsAssumption
  <2>2. \A o \in Op : ops[o].phase # "notifying"
    BY DEF Init, NoOp
  <2>. QED  BY <1>8, <2>1, <2>2 DEF Informed
<1>11. ConfirmedMeansGone /\ StaleWindowBounded /\ LogoutHolds
  BY DEF Init, ConfirmedMeansGone, StaleWindowBounded, LogoutHolds, Free
<1>. QED  BY <1>5, <1>6, <1>7, <1>8, <1>9, <1>10, <1>11 DEF IInv, Shape

LEMMA NextEffect ==
  ASSUME IInv, Next
  PROVE  Effect
<1>1. CASE GatewayStep
  <2>1. ASSUME NEW t \in tokens, Request(t) \/ Logout(t)
        PROVE  Effect
    BY <2>1, RequestEffect, LogoutEffect
  <2>2. ASSUME NEW c \in Conn, NEW t \in tokens, OpenSocket(c, t) \/ AskStream(c, t)
        PROVE  Effect
    BY <2>2, OpenSocketEffect, AskStreamEffect
  <2>3. ASSUME NEW c \in Conn, StreamAnswered(c) \/ Disconnect(c)
        PROVE  Effect
    BY <2>3, StreamAnsweredEffect, DisconnectEffect
  <2>4. ASSUME NEW l \in Login, NEW u \in Id, NEW t \in tokens \cup {NoOne}, LoginReads(l, u, t)
        PROVE  Effect
    BY <2>4, LoginReadsEffect
  <2>5. ASSUME NEW l \in Login, NEW n \in Serial, LoginIssues(l, n)
        PROVE  Effect
    BY <2>5, LoginIssuesEffect
  <2>. QED  BY <1>1, <2>1, <2>2, <2>3, <2>4, <2>5, GatewayRestartEffect DEF GatewayStep
<1>2. ASSUME NEW o \in Op, PluginStep(o)
      PROVE  Effect
  <2>1. ASSUME NEW t \in tokens, Arrive(o, t)
        PROVE  Effect
    BY <2>1, ArriveEffect
  <2>2. ASSUME NEW u \in Id, ReadForPassword(o, u) \/ Remove(o, u)
        PROVE  Effect
    BY <2>2, ReadForPasswordEffect, RemoveEffect
  <2>3. ASSUME NEW u \in Id, NEW n \in Name, Rename(o, u, n)
        PROVE  Effect
    BY <2>3, RenameEffect
  <2>4. ASSUME NEW n \in Name, ReadForAdd(o, n)
        PROVE  Effect
    BY <2>4, ReadForAddEffect
  <2>5. ASSUME NEW p \in Password, WritePassword(o, p) \/ Add(o, p)
        PROVE  Effect
    BY <2>5, WritePasswordEffect, AddEffect
  <2>. QED  BY <1>2, <2>1, <2>2, <2>3, <2>4, <2>5, NotifiedEffect, OpEndsEffect DEF PluginStep
<1>3. CASE Tick
  BY <1>3, TickEffect
<1>. QED  BY <1>1, <1>2, <1>3 DEF Next

LEMMA StutterEffect ==
  ASSUME IInv, UNCHANGED vars
  PROVE  Effect
BY CacheKept, DbKept, TokenKept, ConnKept, LoginKept, ToldKept, OpKept
   DEF IInv, Shape, vars, gateway, ghosts, Effect

(* The inductive invariant holds in every reachable state.                 *)
THEOREM Invariance == Spec => []IInv
<1>1. Init => IInv
  BY InitIInv
<1>2. IInv /\ [Next]_vars => IInv'
  BY NextEffect, StutterEffect, EffectKeeps
<1>. QED  BY <1>1, <1>2, PTL DEF Spec

(* Type correctness, for every value of the constants.                     *)
THEOREM TypeCorrect == Spec => []TypeOK
<1>1. IInv => TypeOK
  <2> SUFFICES ASSUME IInv PROVE TypeOK
    OBVIOUS
  <2>1. /\ DOMAIN db \subseteq used /\ used \subseteq Id
        /\ \A u \in DOMAIN db : db[u] \in User
        /\ tokens \subseteq Token /\ \A t \in tokens : t.sub \in used
        /\ DOMAIN cache \subseteq tokens /\ \A t \in DOMAIN cache : cache[t] \in 1..Ttl
        /\ revoked \subseteq tokens
        /\ DOMAIN stale = tokens /\ told \in [Id -> 0..(MaxVersion + 1)]
    BY DEF IInv, Shape, DbShape, TokenShape, CacheShape, ToldShape, Faithful
  <2>2. \A c \in Conn : conns[c] = Free \/
          conns[c] \in [kind : {"socket", "stream"}, phase : {"asked", "open"}, token : tokens]
    BY DEF IInv, Shape, ConnShape, ConnType
  <2>3. \A l \in Login : logins[l] = NoLogin \/
          logins[l] \in [user : used, seen : User, before : used \cup {NoOne}]
    BY DEF IInv, Shape, LoginShape, LoginType
  <2>4. \A o \in Op : ops[o].id \in used \cup {NoOne} /\ ops[o].cv \in 0..(MaxVersion + 1)
    BY DEF IInv, Shape, OpShape, OpType
  <2>. QED  BY <2>1, <2>2, <2>3, <2>4 DEF TypeOK
<1>. QED  BY <1>1, Invariance, PTL

(* No two users ever bear one name, whatever overlaps the insert.          *)
THEOREM NamesStayUnique == Spec => []NamesUnique
<1>1. IInv => NamesUnique
  BY DEF IInv
<1>. QED  BY <1>1, Invariance, PTL

(* Of any number of logins and changes that overlap, no token the database *)
(* bears out was given for a password that is not in force.                *)
THEOREM TokensProvePasswords == Spec => []TokenProvesPassword
<1>1. IInv => TokenProvesPassword
  BY DEF IInv, Faithful, Fits, Current, TokenProvesPassword
<1>. QED  BY <1>1, Invariance, PTL

(* A confirmed notice leaves nothing behind, now or later.                 *)
THEOREM ConfirmedNoticesHold == Spec => []ConfirmedMeansGone
<1>1. IInv => ConfirmedMeansGone
  BY DEF IInv
<1>. QED  BY <1>1, Invariance, PTL

(* The cache accepts a void token for less than its time to live.          *)
THEOREM StaleWindow == Spec => []StaleWindowBounded
<1>1. IInv => StaleWindowBounded
  BY DEF IInv
<1>. QED  BY <1>1, Invariance, PTL

(* A token that was logged out is out of the cache for good, and of the    *)
(* sockets that are in force.                                              *)
THEOREM LogoutsHold == Spec => []LogoutHolds
<1>1. IInv => LogoutHolds
  BY DEF IInv
<1>. QED  BY <1>1, Invariance, PTL

------------------------------------------------------------------------------
(* The suite MCChat.                                                       *)

(* The part is chosen once.                                                *)
LEMMA ChatPartStays == [ChatNext]_suiteVars => part' = part
  BY DEF ChatNext, suiteVars, MediaSteps, UploadsSteps, StreamsSteps, InboxSteps

------------------------------------------------------------------------------
(* ChatStream.                                                             *)

stream == x1
chatClients == x2
revocable == x3

StreamVars == <<x1, x2, x3, x4>>

Subscriber(s) ==
  /\ DOMAIN s = {"at", "buffered", "pending", "needDrain"}
  /\ s.buffered \in Nat /\ s.pending \in Nat

(* What waits for a subscriber is below the mark but for what is counted   *)
(* as pending, and that is bounded.                                        *)
Counted(s) == s.at = "open" => s.buffered < HighWater + s.pending /\ s.pending <= MaxPending
StreamsInv ==
  /\ DOMAIN stream = Client
  /\ \A c \in Client : Subscriber(stream[c]) /\ Counted(stream[c])
  /\ \A c \in Client : stream[c].at = "open" => c \in chatClients \cap revocable

LEMMA StreamConstants ==
  HighWater \in Nat /\ HighWater > 1 /\ MaxPending \in Nat /\ Frame \subseteq Nat
  BY StreamsFit DEF Streams!StreamAssumption

(* A stream that changes keeps the invariant if it may.                    *)
LEMMA OneChanges ==
  ASSUME StreamsInv, NEW c \in Client, NEW s, Subscriber(s), Counted(s),
         stream' = [stream EXCEPT ![c] = s], s.at = "open" => c \in chatClients' \cap revocable',
         chatClients \ {c} \subseteq chatClients', revocable \ {c} \subseteq revocable'
  PROVE  StreamsInv'
<1>1. DOMAIN stream' = Client /\ stream'[c] = s /\ \A d \in Client : d # c => stream'[d] = stream[d]
  BY DEF StreamsInv
<1>2. QED BY <1>1 DEF StreamsInv

(* What a frame may make of a subscriber.                                  *)
LEMMA PushedIs ==
  ASSUME NEW c, NEW n
  PROVE  \/ stream[c].at # "open" /\ Streams!Pushed(c, n) = stream[c]
         \/ /\ stream[c].at = "open" /\ Streams!Flushed(c, n)
            /\ Streams!Pushed(c, n) = [Streams!Wrote(c, n) EXCEPT !.pending = 0]
         \/ /\ stream[c].at = "open" /\ Streams!Fits(c, n)
            /\ Streams!Pushed(c, n) = [Streams!Wrote(c, n) EXCEPT !.pending = @ + n]
         \/ /\ stream[c].at = "open"
            /\ Streams!Pushed(c, n) = [Streams!Wrote(c, n) EXCEPT !.at = "destroyed", !.pending = @ + n]
  BY DEF Streams!Pushed, stream

LEMMA PushedCounts ==
  ASSUME StreamsInv, NEW c \in Client, NEW n \in Nat
  PROVE  /\ Subscriber(Streams!Pushed(c, n)) /\ Counted(Streams!Pushed(c, n))
         /\ Streams!Pushed(c, n).at = "open" => stream[c].at = "open"
<1> DEFINE s == stream[c]
<1>1. Subscriber(s) /\ Counted(s)
  BY DEF StreamsInv
<1>2. PICK w : w = Streams!Wrote(c, n)
  OBVIOUS
<1>3. Subscriber(w) /\ w.at = s.at /\ w.buffered = s.buffered + n /\ w.pending = s.pending
  BY <1>1, <1>2 DEF Streams!Wrote, stream, Subscriber
<1>4. PICK t : t = Streams!Pushed(c, n)
  OBVIOUS
<1>5. CASE s.at # "open" /\ t = s
  BY <1>1, <1>4, <1>5
<1>6. CASE s.at = "open" /\ Streams!Flushed(c, n) /\ t = [w EXCEPT !.pending = 0]
  <2>1. s.buffered + n < HighWater
    BY <1>6 DEF Streams!Flushed, stream
  <2>2. QED BY <2>1, <1>1, <1>3, <1>4, <1>6, StreamConstants DEF Subscriber, Counted
<1>7. CASE s.at = "open" /\ Streams!Fits(c, n) /\ t = [w EXCEPT !.pending = @ + n]
  <2>1. s.pending + n <= MaxPending
    BY <1>7 DEF Streams!Fits, stream
  <2>2. QED BY <2>1, <1>1, <1>3, <1>4, <1>7, StreamConstants DEF Subscriber, Counted
<1>8. CASE s.at = "open" /\ t = [w EXCEPT !.at = "destroyed", !.pending = @ + n]
  BY <1>1, <1>3, <1>4, <1>8 DEF Subscriber, Counted
<1>9. QED BY <1>2, <1>4, <1>5, <1>6, <1>7, <1>8, PushedIs

LEMMA WritesKeeps ==
  ASSUME StreamsInv, NEW S \in SUBSET Client, NEW n \in Nat, Streams!Writes(S, n)
  PROVE  StreamsInv'
<1>1. /\ stream' = [c \in Client |-> IF c \in S THEN Streams!Pushed(c, n) ELSE stream[c]]
      /\ chatClients' = {c \in chatClients : c \in S => Streams!Stays(c, n)} /\ revocable' = revocable
  BY DEF Streams!Writes, stream, chatClients, revocable
<1>2. SUFFICES ASSUME NEW c \in Client
               PROVE  /\ Subscriber(stream'[c]) /\ Counted(stream'[c])
                      /\ stream'[c].at = "open" => c \in chatClients' \cap revocable'
  BY <1>1 DEF StreamsInv
<1>3. CASE c \in S
  <2>1. PICK t : t = Streams!Pushed(c, n)
    OBVIOUS
  <2>2. Subscriber(t) /\ Counted(t) /\ (t.at = "open" => stream[c].at = "open")
    BY <2>1, PushedCounts
  <2>3. stream'[c] = t /\ (t.at = "open" /\ c \in chatClients => c \in chatClients') /\ revocable' = revocable
    BY <1>1, <1>3, <2>1 DEF Streams!Stays
  <2>4. t.at = "open" => c \in chatClients \cap revocable
    BY <2>2 DEF StreamsInv
  <2>5. QED BY <2>2, <2>3, <2>4
<1>4. CASE c \notin S
  <2>1. stream'[c] = stream[c] /\ (c \in chatClients' <=> c \in chatClients)
    BY <1>1, <1>4
  <2>2. QED BY <1>1, <2>1 DEF StreamsInv
<1>5. QED BY <1>3, <1>4

LEMMA ReadsKeeps ==
  ASSUME StreamsInv, NEW c \in Client, Streams!Reads(c) PROVE StreamsInv'
<1> DEFINE s == stream[c]
<1>1. Subscriber(s) /\ Counted(s) /\ s.at = "open" /\ UNCHANGED <<chatClients, revocable>>
  BY DEF StreamsInv, Streams!Reads, stream, chatClients, revocable
<1>2. PICK b \in 0 .. s.buffered - 1 :
        stream' = [stream EXCEPT ![c].buffered = b, ![c].needDrain = @ /\ b > 0,
                                 ![c].pending = IF b = 0 /\ stream[c].needDrain THEN 0 ELSE @]
  BY DEF Streams!Reads, stream
<1>3. PICK t : t = [s EXCEPT !.buffered = b, !.needDrain = @ /\ b > 0,
                             !.pending = IF b = 0 /\ s.needDrain THEN 0 ELSE @]
  OBVIOUS
<1>4. stream' = [stream EXCEPT ![c] = t]
  BY <1>2, <1>3 DEF StreamsInv
<1>5. t.at = s.at /\ t.buffered = b /\ (t.pending = s.pending \/ (b = 0 /\ t.pending = 0)) /\ Subscriber(t)
  BY <1>1, <1>3 DEF Subscriber
<1>6. Counted(t)
  BY <1>1, <1>5, StreamConstants DEF Counted, Subscriber
<1>7. c \in chatClients' \cap revocable'
  BY <1>1 DEF StreamsInv
<1>8. QED BY <1>1, <1>4, <1>5, <1>6, <1>7, OneChanges

LEMMA StreamsStep ==
  ASSUME StreamsInv, Streams!Next PROVE StreamsInv'
<1>1. CASE Streams!Broadcasts
  <2>1. PICK visible \in SUBSET Client, n \in Frame : Streams!Writes(visible \cap chatClients, n)
    BY <1>1 DEF Streams!Broadcasts, chatClients
  <2>2. QED BY <2>1, WritesKeeps, StreamConstants
<1>2. CASE \E c \in Client : Streams!Joins(c) \/ Streams!Beats(c) \/ Streams!Reads(c) \/ Streams!Revoke(c)
                             \/ Streams!PeerEnds(c) \/ Streams!Cleanup(c)
  <2>1. PICK c \in Client : Streams!Joins(c) \/ Streams!Beats(c) \/ Streams!Reads(c) \/ Streams!Revoke(c)
                            \/ Streams!PeerEnds(c) \/ Streams!Cleanup(c)
    BY <1>2
  <2>2. CASE Streams!Joins(c)
    <3>1. PICK e : e = Streams!None
      OBVIOUS
    <3>2. PICK s : s = [e EXCEPT !.at = "open", !.buffered = 1]
      OBVIOUS
    <3>3. Subscriber(s) /\ Counted(s)
      BY <3>1, <3>2, StreamConstants DEF Streams!None, Subscriber, Counted
    <3>4. /\ stream' = [stream EXCEPT ![c] = s]
          /\ chatClients' = chatClients \cup {c} /\ revocable' = revocable \cup {c}
      BY <2>2, <3>1, <3>2 DEF Streams!Joins, stream, chatClients, revocable
    <3>5. QED BY <3>3, <3>4, OneChanges
  <2>3. CASE Streams!Beats(c)
    BY <2>3, WritesKeeps DEF Streams!Beats
  <2>4. CASE Streams!Reads(c)
    BY <2>4, ReadsKeeps
  <2>5. CASE Streams!Revoke(c) \/ Streams!PeerEnds(c)
    <3>1. PICK s : s = [stream[c] EXCEPT !.at = "destroyed"]
      OBVIOUS
    <3>2. Subscriber(s) /\ Counted(s) /\ s.at = "destroyed"
      BY <3>1 DEF StreamsInv, Subscriber, Counted
    <3>3. stream' = [stream EXCEPT ![c] = s] /\ UNCHANGED <<chatClients, revocable>>
      BY <2>5, <3>1 DEF Streams!Revoke, Streams!PeerEnds, stream, chatClients, revocable
    <3>4. QED BY <3>2, <3>3, OneChanges
  <2>6. CASE Streams!Cleanup(c)
    <3>1. PICK s : s = [at |-> "none", buffered |-> 0, pending |-> 0, needDrain |-> FALSE]
      OBVIOUS
    <3>2. Subscriber(s) /\ Counted(s)
      BY <3>1 DEF Subscriber, Counted
    <3>3. /\ stream' = [stream EXCEPT ![c] = s]
          /\ chatClients' = chatClients \ {c} /\ revocable' = revocable \ {c}
      BY <2>6, <3>1 DEF Streams!Cleanup, Streams!None, stream, chatClients, revocable
    <3>4. QED BY <3>1, <3>2, <3>3, OneChanges
  <2>7. QED BY <2>1, <2>2, <2>3, <2>4, <2>5, <2>6
<1>3. QED BY <1>1, <1>2 DEF Streams!Next

LEMMA StreamsInit ==
  ASSUME Streams!Init PROVE StreamsInv
<1>1. stream = [c \in Client |-> [at |-> "none", buffered |-> 0, pending |-> 0, needDrain |-> FALSE]]
  BY DEF Streams!Init, Streams!None, stream
<1>2. QED BY <1>1 DEF StreamsInv, Subscriber, Counted

LEMMA StreamsBound ==
  ASSUME StreamsInv PROVE Streams!SlowOnesAreDropped
<1>1. ASSUME NEW c \in Client, stream[c].at = "open"
      PROVE  stream[c].buffered < HighWater + MaxPending /\ c \in chatClients \cap revocable
  <2>1. Subscriber(stream[c]) /\ Counted(stream[c])
    BY DEF StreamsInv
  <2>2. QED BY <1>1, <2>1, StreamConstants DEF StreamsInv, Subscriber, Counted
<1>2. QED BY <1>1 DEF Streams!SlowOnesAreDropped, stream, chatClients, revocable

------------------------------------------------------------------------------
(* Sets of natural numbers.                                                *)

LEMMA Smallest ==
  ASSUME NEW S, S \subseteq Nat, S # {}
  PROVE  \E x \in S : \A y \in S : x <= y
<1> DEFINE Lt == {p \in Nat \X Nat : p[1] < p[2]}
<1>1. Lt = OpToRel(<, Nat)
  BY DEF OpToRel
<1>2. IsWellFoundedOn(Lt, Nat)
  BY <1>1, NatLessThanWellFounded
<1> HIDE DEF Lt
<1>3. PICK x \in S : \A y \in S : ~(<<y, x>> \in Lt)
  BY <1>2, WFMin
<1>4. ASSUME NEW y \in S PROVE x <= y
  <2>1. x \in Nat /\ y \in Nat /\ <<y, x>> \in Nat \X Nat
    OBVIOUS
  <2>2. ~(y < x)
    BY <1>3, <2>1 DEF Lt
  <2>3. QED BY <2>1, <2>2
<1>5. QED BY <1>4

LEMMA Induction ==
  ASSUME NEW S, S \subseteq Nat, 0 \in S, \A n \in S : n + 1 \in S
  PROVE  S = Nat
<1>1. SUFFICES ASSUME Nat \ S # {} PROVE FALSE
  OBVIOUS
<1>2. PICK x \in Nat \ S : \A y \in Nat \ S : x <= y
  BY <1>1, Smallest
<1>3. x - 1 \in Nat /\ x - 1 \notin S
  BY <1>2
<1>4. QED BY <1>2, <1>3

LEMMA Greatest ==
  ASSUME NEW S, S \subseteq Nat, IsFiniteSet(S), S # {}
  PROVE  \E x \in S : \A y \in S : y <= x
<1> DEFINE Has(T) == \E x \in T : \A y \in T : y <= x
           Good == {n \in Nat : \A T \in SUBSET Nat : IsFiniteSet(T) /\ Cardinality(T) = n /\ T # {} => Has(T)}
<1>1. 0 \in Good
  BY FS_EmptySet
<1>2. ASSUME NEW n \in Good PROVE n + 1 \in Good
  <2>1. SUFFICES ASSUME NEW T \in SUBSET Nat, IsFiniteSet(T), Cardinality(T) = n + 1, T # {}
                 PROVE  Has(T)
    OBVIOUS
  <2>2. PICK x \in T : TRUE
    BY <2>1
  <2>3. IsFiniteSet(T \ {x}) /\ Cardinality(T \ {x}) = n
    <3>1. n \in Nat
      OBVIOUS
    <3>2. IsFiniteSet(T \ {x}) /\ Cardinality(T \ {x}) = Cardinality(T) - 1
      BY <2>1, <2>2, FS_RemoveElement
    <3>3. QED BY <2>1, <3>1, <3>2
  <2>4. CASE T \ {x} = {}
    BY <2>2, <2>4
  <2>5. CASE T \ {x} # {}
    <3>1. PICK m \in T \ {x} : \A y \in T \ {x} : y <= m
      BY <2>3, <2>5
    <3>2. CASE m <= x
      BY <2>2, <3>1, <3>2
    <3>3. CASE x < m
      BY <2>2, <3>1, <3>3
    <3>4. QED BY <2>2, <3>1, <3>2, <3>3
  <2>6. QED BY <2>4, <2>5
<1> HIDE DEF Good
<1>3. Good = Nat
  <2>1. Good \subseteq Nat
    BY DEF Good
  <2>2. QED BY <1>1, <1>2, <2>1, Induction
<1>4. QED BY <1>3, FS_CardinalityType DEF Good

(* Of the numbers of a set, those of rank k or less are k, or all of them. *)
RankIn(S, i) == Cardinality({j \in S : j <= i})

LEMMA RankTyped ==
  ASSUME NEW S, S \subseteq Nat, IsFiniteSet(S), NEW i \in S
  PROVE  /\ RankIn(S, i) \in Nat /\ RankIn(S, i) \in 1 .. Cardinality(S)
         /\ IsFiniteSet({j \in S : j <= i})
<1> DEFINE T == {j \in S : j <= i}
<1>1. T \in SUBSET S /\ i \in T
  OBVIOUS
<1>2. IsFiniteSet(T) /\ Cardinality(T) <= Cardinality(S) /\ Cardinality(T) \in Nat /\ Cardinality(S) \in Nat
  BY <1>1, FS_Subset, FS_CardinalityType
<1>3. Cardinality(T) # 0
  BY <1>1, <1>2, FS_EmptySet
<1>4. QED BY <1>2, <1>3 DEF RankIn

LEMMA Ranks ==
  ASSUME NEW S, S \subseteq Nat, IsFiniteSet(S), NEW k \in Nat
  PROVE  LET Low == {i \in S : RankIn(S, i) <= k}
         IN  /\ IsFiniteSet(Low) /\ Cardinality(Low) \in Nat /\ Cardinality(Low) <= k
             /\ Low # S => Cardinality(Low) = k
<1> DEFINE Low == {i \in S : RankIn(S, i) <= k}
<1>1. Low \in SUBSET S /\ Low \subseteq Nat
  OBVIOUS
<1>2. IsFiniteSet(Low) /\ Cardinality(Low) \in Nat
  BY <1>1, FS_Subset, FS_CardinalityType
<1>3. Cardinality(Low) <= k
  <2>1. CASE Low = {}
    BY <2>1, FS_EmptySet
  <2>2. CASE Low # {}
    <3>1. PICK m \in Low : \A y \in Low : y <= m
      BY <1>1, <1>2, <2>2, Greatest
    <3>2. Low \subseteq {j \in S : j <= m} /\ m \in S
      BY <3>1
    <3>3. IsFiniteSet({j \in S : j <= m}) /\ RankIn(S, m) \in Nat
      BY <3>2, RankTyped
    <3>4. Cardinality(Low) <= RankIn(S, m)
      BY <3>2, <3>3, FS_Subset DEF RankIn
    <3>5. QED BY <1>2, <3>1, <3>3, <3>4
  <2>3. QED BY <2>1, <2>2
<1>4. ASSUME Low # S PROVE Cardinality(Low) = k
  <2>1. PICK x \in S \ Low : \A y \in S \ Low : x <= y
    <3>1. S \ Low # {} /\ S \ Low \subseteq Nat
      BY <1>1, <1>4
    <3>2. QED BY <3>1, Smallest
  <2>2. {j \in S : j <= x} \subseteq Low \cup {x}
    <3>1. ASSUME NEW j \in S, j <= x PROVE j \in Low \cup {x}
      <4>1. j \notin Low => x <= j
        BY <2>1
      <4>2. x \in Nat /\ j \in Nat
        BY <2>1
      <4>3. QED BY <3>1, <4>1, <4>2
    <3>2. QED BY <3>1
  <2>3. IsFiniteSet(Low \cup {x}) /\ Cardinality(Low \cup {x}) = Cardinality(Low) + 1
    BY <1>2, <2>1, FS_AddElement
  <2>4. RankIn(S, x) <= Cardinality(Low) + 1
    BY <2>2, <2>3, FS_Subset DEF RankIn
  <2>5. RankIn(S, x) \in Nat /\ ~(RankIn(S, x) <= k)
    BY <2>1, RankTyped
  <2>6. QED BY <1>2, <1>3, <2>4, <2>5
<1>5. QED BY <1>2, <1>3, <1>4

LEMMA RankGrows ==
  ASSUME NEW S, S \subseteq Nat, IsFiniteSet(S), NEW a \in S, NEW b \in S, a < b
  PROVE  RankIn(S, a) < RankIn(S, b)
<1> DEFINE A == {j \in S : j <= a}
           B == {j \in S : j <= b}
<1>1. A \in SUBSET B /\ b \in B /\ b \notin A
  <2>1. a \in Nat /\ b \in Nat /\ \A j \in S : j \in Nat
    OBVIOUS
  <2>2. ASSUME NEW j \in A PROVE j \in B
    <3>1. j \in S /\ j \in Nat /\ j <= a
      BY <2>1
    <3>2. QED BY <2>1, <3>1
  <2>3. b \in B /\ b \notin A
    BY <2>1
  <2>4. QED BY <2>2, <2>3
<1>2. IsFiniteSet(A) /\ IsFiniteSet(B)
  BY RankTyped
<1>3. RankIn(S, a) = Cardinality(A) /\ RankIn(S, b) = Cardinality(B)
  BY DEF RankIn
<1> HIDE DEF A, B
<1>4. Cardinality(A) \in Nat /\ Cardinality(B) \in Nat
  BY <1>2, FS_CardinalityType
<1>5. Cardinality(A) <= Cardinality(B) /\ Cardinality(A) # Cardinality(B)
  BY <1>1, <1>2, FS_Subset
<1>6. QED BY <1>3, <1>4, <1>5

LEMMA RankOwn ==
  ASSUME NEW S, S \subseteq Nat, IsFiniteSet(S), NEW a \in S, NEW b \in S, RankIn(S, a) = RankIn(S, b)
  PROVE  a = b
<1>1. a \in Nat /\ b \in Nat /\ RankIn(S, a) \in Nat
  BY RankTyped
<1>2. ASSUME a < b PROVE FALSE
  <2>1. RankIn(S, a) < RankIn(S, b)
    BY <1>2, RankGrows
  <2>2. QED BY <1>1, <2>1
<1>3. ASSUME b < a PROVE FALSE
  <2>1. RankIn(S, b) < RankIn(S, a)
    BY <1>3, RankGrows
  <2>2. QED BY <1>1, <2>1
<1>4. QED BY <1>1, <1>2, <1>3

(* Every rank is somebody's.                                               *)
LEMMA RankTaken ==
  ASSUME NEW S, S \subseteq Nat, IsFiniteSet(S), NEW n \in 1 .. Cardinality(S)
  PROVE  \E i \in S : RankIn(S, i) = n
<1>0. Cardinality(S) \in Nat /\ n \in Nat /\ n <= Cardinality(S)
  BY FS_CardinalityType
<1> DEFINE Low == {i \in S : RankIn(S, i) <= n}
<1>1. IsFiniteSet(Low) /\ Cardinality(Low) \in Nat /\ Cardinality(Low) <= n /\ (Low # S => Cardinality(Low) = n)
  BY <1>0, Ranks
<1>2. Low \subseteq S /\ Low \subseteq Nat
  OBVIOUS
<1>3. Cardinality(Low) = n
  BY <1>0, <1>1
<1>4. PICK m \in Low : \A y \in Low : y <= m
  <2>1. Low # {}
    BY <1>3, FS_EmptySet
  <2>2. QED BY <1>1, <1>2, <2>1, Greatest
<1>5. m \in S /\ RankIn(S, m) <= n
  BY <1>4
<1>6. IsFiniteSet({j \in S : j <= m}) /\ RankIn(S, m) \in Nat
  BY <1>5, RankTyped
<1>7. Low \subseteq {j \in S : j <= m}
  BY <1>2, <1>4
<1>8. Cardinality(Low) <= RankIn(S, m)
  BY <1>6, <1>7, FS_Subset DEF RankIn
<1>9. QED BY <1>0, <1>3, <1>5, <1>6, <1>8

------------------------------------------------------------------------------
(* ChatUploads.                                                            *)

uploads == x1
runs == x2
files == x6

UploadsVars == <<x1, x2, x3, x4, x5, x6, x7, x8>>

UploadRow == [id : Nat, state : {"queued", "uploading", "ready", "failed", "canceled"}]
Positions(rows, s) == {i \in DOMAIN rows : rows[i].state = s}
Busy(rows) == Cardinality(Positions(rows, "uploading"))

(* Rows of which no more than allowed are under way, each with a transfer. *)
Carried(rows, others) ==
  /\ rows \in Seq(UploadRow)
  /\ \A r \in others : DOMAIN r = {"id", "stage", "aborted"}
  /\ \A i \in Positions(rows, "uploading") : \E r \in others : r.id = rows[i].id
Held(rows, others) == Carried(rows, others) /\ Busy(rows) <= MaxParallel
Full(rows) == Positions(rows, "queued") # {} => Busy(rows) = MaxParallel
UploadsInv == Held(uploads, runs) /\ Full(uploads) /\ files \in Nat

LEMMA UploadsSizes ==
  /\ \A S : Uploads!Cardinality(S) = Cardinality(S)
  /\ \A S, i : Uploads!Rank(S, i) = RankIn(S, i)
  /\ \A rows, s : Uploads!In(rows, s) = Positions(rows, s)
  /\ \A rows : Uploads!Running(rows) = Busy(rows)
  /\ MaxParallel \in Nat
<1>1. \A S : Uploads!Cardinality(S) = Cardinality(S)
  BY Zenon DEF Uploads!Cardinality, Cardinality
<1>2. \A S, i : Uploads!Rank(S, i) = RankIn(S, i)
  BY <1>1 DEF Uploads!Rank, RankIn
<1>3. \A rows, s : Uploads!In(rows, s) = Positions(rows, s)
  BY DEF Uploads!In, Positions
<1>4. \A rows : Uploads!Running(rows) = Busy(rows)
  BY <1>1, <1>3 DEF Uploads!Running, Busy
<1>5. QED BY <1>1, <1>2, <1>3, <1>4, UploadsFit DEF Uploads!UploadsAssumption

LEMMA PositionsFinite ==
  ASSUME NEW rows \in Seq(UploadRow), NEW s
  PROVE  /\ Positions(rows, s) \subseteq Nat /\ IsFiniteSet(Positions(rows, s))
         /\ Cardinality(Positions(rows, s)) \in Nat /\ Busy(rows) \in Nat
<1>1. ASSUME NEW t
      PROVE  /\ Positions(rows, t) \subseteq Nat /\ IsFiniteSet(Positions(rows, t))
             /\ Cardinality(Positions(rows, t)) \in Nat
  <2>1. Len(rows) \in Nat /\ Positions(rows, t) \subseteq 1 .. Len(rows)
    BY DEF Positions
  <2>2. IsFiniteSet(1 .. Len(rows))
    BY <2>1, FS_Interval
  <2>3. QED BY <2>1, <2>2, FS_Subset, FS_CardinalityType
<1>2. QED BY <1>1 DEF Busy

(* The queued that are chosen are as many as there are places, or all.     *)
LEMMA ChosenFill ==
  ASSUME NEW rows \in Seq(UploadRow), Busy(rows) <= MaxParallel
  PROVE  LET chosen == Uploads!Chosen(rows)
         IN  /\ chosen \subseteq Positions(rows, "queued")
             /\ IsFiniteSet(chosen) /\ Cardinality(chosen) \in Nat
             /\ Busy(rows) + Cardinality(chosen) <= MaxParallel
             /\ chosen # Positions(rows, "queued") => Busy(rows) + Cardinality(chosen) = MaxParallel
<1> DEFINE S == Positions(rows, "queued")
           k == MaxParallel - Busy(rows)
<1>1. S \subseteq Nat /\ IsFiniteSet(S) /\ Busy(rows) \in Nat /\ MaxParallel \in Nat
  BY PositionsFinite, UploadsSizes
<1>2. k \in Nat
  BY <1>1
<1>3. \A i \in S : RankIn(S, i) \in Nat
  BY <1>1, RankTyped
<1>4. Uploads!Chosen(rows) = {i \in S : Busy(rows) + RankIn(S, i) <= MaxParallel}
  BY UploadsSizes DEF Uploads!Chosen
<1>5. Uploads!Chosen(rows) = {i \in S : RankIn(S, i) <= k}
  <2> HIDE DEF S
  <2>1. \A i \in S : Busy(rows) + RankIn(S, i) <= MaxParallel <=> RankIn(S, i) <= k
    BY <1>1, <1>3
  <2>2. QED BY <1>4, <2>1
<1> HIDE DEF S
<1>6. PICK chosen : chosen = {i \in S : RankIn(S, i) <= k}
  OBVIOUS
<1>7. /\ chosen \subseteq S /\ IsFiniteSet(chosen) /\ Cardinality(chosen) \in Nat /\ Cardinality(chosen) <= k
      /\ chosen # S => Cardinality(chosen) = k
  <2> HIDE DEF k
  <2>1. QED BY <1>1, <1>2, <1>6, Ranks
<1>8. Busy(rows) + Cardinality(chosen) <= MaxParallel
      /\ (chosen # S => Busy(rows) + Cardinality(chosen) = MaxParallel)
  BY <1>1, <1>7
<1>9. QED BY <1>5, <1>6, <1>7, <1>8 DEF S

LEMMA PromoteKeeps ==
  ASSUME NEW rows, NEW others, Held(rows, others), Uploads!Promote(rows, others)
  PROVE  Held(uploads, runs)' /\ Full(uploads)'
<1> DEFINE on == Positions(rows, "uploading")
           S == Positions(rows, "queued")
<1>0. PICK chosen : chosen = Uploads!Chosen(rows)
  OBVIOUS
<1>1. rows \in Seq(UploadRow) /\ Busy(rows) <= MaxParallel
  BY DEF Held, Carried
<1>2. /\ chosen \subseteq S /\ IsFiniteSet(chosen) /\ Cardinality(chosen) \in Nat
      /\ Busy(rows) + Cardinality(chosen) <= MaxParallel
      /\ chosen # S => Busy(rows) + Cardinality(chosen) = MaxParallel
  BY <1>0, <1>1, ChosenFill
<1>3. /\ uploads' = [i \in DOMAIN rows |-> IF i \in chosen THEN [rows[i] EXCEPT !.state = "uploading"] ELSE rows[i]]
      /\ runs' = others \cup {[id |-> rows[i].id, stage |-> "init", aborted |-> FALSE] : i \in chosen}
  BY <1>0 DEF Uploads!Promote, Uploads!Begun, Uploads!Started, uploads, runs
<1>4. Len(rows) \in Nat /\ DOMAIN rows = 1 .. Len(rows) /\ \A i \in DOMAIN rows : rows[i] \in UploadRow
  BY <1>1
<1>5. /\ DOMAIN uploads' = 1 .. Len(rows)
      /\ \A i \in 1 .. Len(rows) :
           /\ uploads'[i] \in UploadRow /\ uploads'[i].id = rows[i].id
           /\ uploads'[i].state = IF i \in chosen THEN "uploading" ELSE rows[i].state
  <2> HIDE DEF S
  <2>1. QED BY <1>3, <1>4 DEF UploadRow
<1>6. uploads' \in Seq(UploadRow)
  <2>1. uploads' \in [1 .. Len(rows) -> UploadRow]
    BY <1>3, <1>4, <1>5
  <2>2. QED BY <1>4, <2>1
<1>7. Positions(uploads', "uploading") = on \cup chosen /\ Positions(uploads', "queued") = S \ chosen
  BY <1>2, <1>4, <1>5 DEF Positions
<1>8. Busy(uploads') = Busy(rows) + Cardinality(chosen)
  <2>1. on \cap chosen = {}
    BY <1>2 DEF Positions
  <2>2. IsFiniteSet(on) /\ Cardinality(on) = Busy(rows) /\ Busy(rows) \in Nat
    BY <1>1, PositionsFinite DEF Busy
  <2>3. Busy(uploads') = Cardinality(on \cup chosen)
    BY <1>7 DEF Busy
  <2> HIDE DEF on
  <2>4. Cardinality(on \cup chosen) = Cardinality(on) + Cardinality(chosen) - Cardinality(on \cap chosen)
    BY <1>2, <2>2, FS_Union
  <2>5. Cardinality(on \cap chosen) = 0
    BY <2>1, FS_EmptySet
  <2>6. QED BY <1>2, <2>2, <2>3, <2>4, <2>5
<1>9. \A i \in Positions(uploads', "uploading") : \E r \in runs' : r.id = uploads'[i].id
  <2>1. SUFFICES ASSUME NEW i \in on \cup chosen PROVE \E r \in runs' : r.id = rows[i].id
    BY <1>5, <1>7, <1>2, <1>4 DEF Positions
  <2>2. CASE i \in on
    BY <1>3, <2>2 DEF Held, Carried
  <2>3. CASE i \in chosen
    <3>1. PICK r : r = [id |-> rows[i].id, stage |-> "init", aborted |-> FALSE]
      OBVIOUS
    <3>2. r \in runs' /\ r.id = rows[i].id
      BY <1>3, <2>3, <3>1
    <3>3. QED BY <3>2
  <2>4. QED BY <2>2, <2>3
<1>10. \A r \in runs' : DOMAIN r = {"id", "stage", "aborted"}
  <2>1. SUFFICES ASSUME NEW r \in runs' PROVE DOMAIN r = {"id", "stage", "aborted"}
    OBVIOUS
  <2>2. CASE r \in others
    BY <2>2 DEF Held, Carried
  <2>3. CASE \E i \in chosen : r = [id |-> rows[i].id, stage |-> "init", aborted |-> FALSE]
    BY <2>3
  <2>4. QED BY <1>3, <2>2, <2>3
<1> HIDE DEF on, S
<1>11. Held(uploads', runs')
  BY <1>2, <1>6, <1>8, <1>9, <1>10 DEF Held, Carried
<1>12. Full(uploads')
  <2>1. SUFFICES ASSUME Positions(uploads', "queued") # {} PROVE Busy(uploads') = MaxParallel
    BY DEF Full
  <2>2. chosen # S
    BY <1>7, <2>1
  <2>3. QED BY <1>2, <1>8, <2>2
<1>13. QED BY <1>11, <1>12

LEMMA AddFilesKeeps ==
  ASSUME UploadsInv, Uploads!AddFiles PROVE UploadsInv'
<1>1. PICK n \in 1 .. 2, new \in Seq(UploadRow) :
        /\ new = [i \in 1 .. n |-> [id |-> files + i, state |-> "queued"]]
        /\ files' = files + n /\ Uploads!Promote(uploads \o new, runs)
  <2>1. PICK n \in 1 .. 2 :
          /\ files' = files + n
          /\ Uploads!Promote(uploads \o [i \in 1 .. n |-> [id |-> files + i, state |-> "queued"]], runs)
    BY DEF Uploads!AddFiles, files, uploads, runs
  <2>2. \A i \in 1 .. n : [id |-> files + i, state |-> "queued"] \in UploadRow
    BY DEF UploadsInv, UploadRow
  <2>3. [i \in 1 .. n |-> [id |-> files + i, state |-> "queued"]] \in Seq(UploadRow)
    BY <2>2
  <2>4. QED BY <2>1, <2>3
<1>2. uploads \in Seq(UploadRow) /\ Len(uploads) \in Nat /\ DOMAIN uploads = 1 .. Len(uploads)
  BY DEF UploadsInv, Held, Carried
<1>3. PICK rows : rows = uploads \o new
  OBVIOUS
<1>4. /\ rows \in Seq(UploadRow) /\ Len(rows) = Len(uploads) + n /\ DOMAIN rows = 1 .. Len(uploads) + n
      /\ \A i \in 1 .. Len(uploads) : rows[i] = uploads[i]
      /\ \A i \in Len(uploads) + 1 .. Len(uploads) + n : rows[i].state = "queued"
  <2>1. Len(new) = n
    BY <1>1
  <2>2. \A i \in Len(uploads) + 1 .. Len(uploads) + n : rows[i] = new[i - Len(uploads)] /\ i - Len(uploads) \in 1 .. n
    BY <1>2, <1>3, <2>1
  <2>3. \A j \in 1 .. n : new[j].state = "queued"
    BY <1>1
  <2>4. QED BY <1>1, <1>2, <1>3, <2>1, <2>2, <2>3
<1>5. Positions(rows, "uploading") = Positions(uploads, "uploading")
  <2>1. ASSUME NEW i \in 1 .. Len(uploads) + n
        PROVE  rows[i].state = "uploading" <=> i \in 1 .. Len(uploads) /\ uploads[i].state = "uploading"
    <3>1. i \in 1 .. Len(uploads) \/ i \in Len(uploads) + 1 .. Len(uploads) + n
      BY <1>2, <2>1
    <3>2. CASE i \in 1 .. Len(uploads)
      BY <1>4, <3>2
    <3>3. CASE i \in Len(uploads) + 1 .. Len(uploads) + n
      BY <1>2, <1>4, <3>3
    <3>4. QED BY <3>1, <3>2, <3>3
  <2>2. 1 .. Len(uploads) \subseteq 1 .. Len(uploads) + n
    BY <1>2
  <2>3. QED BY <1>2, <1>4, <2>1, <2>2 DEF Positions
<1>6. Held(rows, runs)
  BY <1>2, <1>4, <1>5 DEF UploadsInv, Held, Carried, Busy, Positions
<1>7. files' \in Nat
  BY <1>1 DEF UploadsInv
<1>8. QED BY <1>1, <1>3, <1>6, <1>7, PromoteKeeps DEF UploadsInv

(* A transfer that ends leaves no row under way without one.               *)
LEMMA EndsKeeps ==
  ASSUME UploadsInv, NEW r \in runs, Uploads!Ends(r) PROVE UploadsInv'
<1>1. PICK s \in {"failed", "canceled", "ready"} : Uploads!Promote(Uploads!With(r.id, s), runs \ {r})
  BY DEF Uploads!Ends, Uploads!Settle, Uploads!Outcomes, runs
<1>2. PICK rows : rows = Uploads!With(r.id, s)
  OBVIOUS
<1>3. uploads \in Seq(UploadRow) /\ Len(uploads) \in Nat /\ DOMAIN uploads = 1 .. Len(uploads)
      /\ \A i \in DOMAIN uploads : uploads[i] \in UploadRow
  BY DEF UploadsInv, Held, Carried
<1>4. rows = [i \in DOMAIN uploads |-> IF uploads[i].id = r.id THEN [uploads[i] EXCEPT !.state = s] ELSE uploads[i]]
  BY <1>2 DEF Uploads!With, uploads
<1>5. /\ DOMAIN rows = DOMAIN uploads
      /\ \A i \in DOMAIN uploads : /\ rows[i] \in UploadRow /\ rows[i].id = uploads[i].id
                                   /\ rows[i].state = IF uploads[i].id = r.id THEN s ELSE uploads[i].state
  BY <1>3, <1>4 DEF UploadRow
<1>6. rows \in Seq(UploadRow)
  <2>1. rows \in [1 .. Len(uploads) -> UploadRow]
    BY <1>3, <1>4, <1>5
  <2>2. QED BY <1>3, <2>1
<1>7. Positions(rows, "uploading") \subseteq Positions(uploads, "uploading")
      /\ \A i \in Positions(rows, "uploading") : uploads[i].id # r.id
  BY <1>5 DEF Positions
<1>8. Carried(rows, runs \ {r})
  BY <1>5, <1>6, <1>7 DEF UploadsInv, Held, Carried, Positions
<1>9. Busy(rows) <= MaxParallel
  <2>1. Busy(rows) <= Busy(uploads)
    BY <1>3, <1>7, PositionsFinite, FS_Subset DEF Busy
  <2>2. Busy(rows) \in Nat /\ Busy(uploads) \in Nat /\ MaxParallel \in Nat
    BY <1>3, <1>6, PositionsFinite, UploadsSizes
  <2>3. QED BY <2>1, <2>2 DEF UploadsInv, Held
<1>10. files' = files
  BY DEF Uploads!Ends, files
<1>11. QED BY <1>1, <1>2, <1>8, <1>9, <1>10, PromoteKeeps DEF UploadsInv, Held

(* Rows that stay, while the transfers keep their rows.                    *)
LEMMA RunsReplaced ==
  ASSUME UploadsInv, UNCHANGED uploads, files' = files,
         \A r \in runs' : DOMAIN r = {"id", "stage", "aborted"},
         \A r \in runs : \E q \in runs' : q.id = r.id
  PROVE  UploadsInv'
<1>1. \A i \in Positions(uploads, "uploading") : \E q \in runs' : q.id = uploads[i].id
  BY DEF UploadsInv, Held, Carried
<1>2. QED BY <1>1 DEF UploadsInv, Held, Carried, Full, Busy, Positions

LEMMA AbortKeepsIds ==
  ASSUME UploadsInv, NEW id
  PROVE  /\ \A r \in Uploads!Abort(id) : DOMAIN r = {"id", "stage", "aborted"}
         /\ \A r \in runs : \E q \in Uploads!Abort(id) : q.id = r.id
<1>1. Uploads!Abort(id) = {IF r.id = id THEN [r EXCEPT !.aborted = TRUE] ELSE r : r \in runs}
  BY DEF Uploads!Abort, runs
<1>2. \A r \in runs : DOMAIN r = {"id", "stage", "aborted"}
  BY DEF UploadsInv, Held, Carried
<1>3. ASSUME NEW r \in runs
      PROVE  \E q \in Uploads!Abort(id) : q.id = r.id
  <2>1. PICK q : q = IF r.id = id THEN [r EXCEPT !.aborted = TRUE] ELSE r
    OBVIOUS
  <2>2. q \in Uploads!Abort(id) /\ q.id = r.id
    BY <1>1, <1>2, <2>1
  <2>3. QED BY <2>2
<1>4. QED BY <1>1, <1>2, <1>3

LEMMA RetryKeeps ==
  ASSUME UploadsInv, NEW i \in DOMAIN uploads, Uploads!Retry(i) PROVE UploadsInv'
<1>1. PICK rows : rows = [uploads EXCEPT ![i].state = "queued"]
  OBVIOUS
<1>2. /\ uploads[i].state \in {"failed", "canceled"} /\ Uploads!Promote(rows, runs) /\ files' = files
  BY <1>1 DEF Uploads!Retry, uploads, runs, files
<1>3. uploads \in Seq(UploadRow) /\ \A j \in DOMAIN uploads : uploads[j] \in UploadRow
  BY DEF UploadsInv, Held, Carried
<1>4. /\ DOMAIN rows = DOMAIN uploads /\ rows \in Seq(UploadRow) /\ rows[i].state = "queued"
      /\ \A j \in DOMAIN uploads : j # i => rows[j] = uploads[j]
  <2>1. PICK u : u = [uploads[i] EXCEPT !.state = "queued"]
    OBVIOUS
  <2>2. u \in UploadRow /\ u.state = "queued" /\ rows = [uploads EXCEPT ![i] = u]
    BY <1>1, <1>3, <2>1 DEF UploadRow
  <2>3. QED BY <1>3, <2>2
<1>5. Positions(rows, "uploading") = Positions(uploads, "uploading")
  BY <1>2, <1>4 DEF Positions
<1>6. Held(rows, runs)
  BY <1>4, <1>5, <1>2 DEF UploadsInv, Held, Carried, Busy, Positions
<1>7. QED BY <1>2, <1>6, PromoteKeeps DEF UploadsInv

(* A row that is taken out moves the later ones up by one.                 *)
LEMMA RemovedIs ==
  ASSUME NEW rows \in Seq(UploadRow), NEW i \in DOMAIN rows
  PROVE  LET rest == Uploads!RemoveAt(rows, i)
             from(j) == IF j < i THEN j ELSE j + 1
         IN  /\ rest \in Seq(UploadRow) /\ Len(rest) = Len(rows) - 1
             /\ \A j \in 1 .. Len(rest) : from(j) \in DOMAIN rows /\ rest[j] = rows[from(j)]
<1>1. Len(rows) \in Nat /\ i \in 1 .. Len(rows) /\ DOMAIN rows = 1 .. Len(rows)
      /\ \A j \in 1 .. Len(rows) : rows[j] \in UploadRow
  OBVIOUS
<1>2. PICK before : before = SubSeq(rows, 1, i - 1)
  OBVIOUS
<1>3. PICK after : after = SubSeq(rows, i + 1, Len(rows))
  OBVIOUS
<1>4. Uploads!RemoveAt(rows, i) = before \o after
  BY <1>2, <1>3 DEF Uploads!RemoveAt
<1>5. before \in Seq(UploadRow) /\ Len(before) = i - 1 /\ \A j \in 1 .. i - 1 : before[j] = rows[j]
  BY <1>1, <1>2
<1>6. after \in Seq(UploadRow) /\ Len(after) = Len(rows) - i
      /\ \A j \in 1 .. Len(rows) - i : after[j] = rows[j + i]
  BY <1>1, <1>3
<1>7. PICK rest : rest = before \o after
  OBVIOUS
<1>8. rest \in Seq(UploadRow) /\ Len(rest) = Len(rows) - 1
      /\ \A j \in 1 .. Len(rest) : rest[j] = IF j <= Len(before) THEN before[j] ELSE after[j - Len(before)]
  <2>1. before \in Seq(UploadRow) /\ after \in Seq(UploadRow)
    BY <1>5, <1>6
  <2>2. rest \in Seq(UploadRow) /\ Len(rest) = Len(before) + Len(after)
        /\ \A j \in 1 .. Len(rest) : rest[j] = IF j <= Len(before) THEN before[j] ELSE after[j - Len(before)]
    BY <2>1, <1>7
  <2>3. QED BY <1>1, <1>5, <1>6, <2>2
<1>9. ASSUME NEW j \in 1 .. Len(rest)
      PROVE  LET f == IF j < i THEN j ELSE j + 1 IN f \in DOMAIN rows /\ rest[j] = rows[f]
  <2>1. CASE j < i
    BY <1>1, <1>5, <1>8, <1>9, <2>1
  <2>2. CASE ~(j < i)
    <3>1. j - (i - 1) \in 1 .. Len(rows) - i /\ (j - (i - 1)) + i = j + 1 /\ j + 1 \in 1 .. Len(rows)
      BY <1>1, <1>8, <1>9, <2>2
    <3>2. rest[j] = after[j - (i - 1)]
      BY <1>1, <1>5, <1>8, <1>9, <2>2
    <3>3. QED BY <1>1, <1>6, <2>2, <3>1, <3>2
  <2>3. QED BY <2>1, <2>2
<1>10. QED BY <1>4, <1>7, <1>8, <1>9

(* As many are under way as positions map to, one to one.                  *)
LEMMA NoBusier ==
  ASSUME NEW f, NEW S, NEW T, f \in [S -> T], IsFiniteSet(T),
         \A x, y \in S : f[x] = f[y] => x = y
  PROVE  IsFiniteSet(S) /\ Cardinality(S) <= Cardinality(T)
<1>1. f \in Injection(S, T)
  BY DEF Injection, IsInjective
<1>2. QED BY <1>1, FS_Injection

LEMMA RemovesKeeps ==
  ASSUME UploadsInv, NEW i \in DOMAIN uploads, Uploads!Removes(i) PROVE UploadsInv'
<1>1. PICK rest : rest = Uploads!RemoveAt(uploads, i)
  OBVIOUS
<1>2. PICK others : others = Uploads!Abort(uploads[i].id)
  OBVIOUS
<1>3. Uploads!Promote(rest, others) /\ files' = files
  BY <1>1, <1>2 DEF Uploads!Removes, uploads, files
<1>4. uploads \in Seq(UploadRow) /\ Len(uploads) \in Nat /\ DOMAIN uploads = 1 .. Len(uploads) /\ i \in Nat
  BY DEF UploadsInv, Held, Carried
<1> DEFINE from(j) == IF j < i THEN j ELSE j + 1
<1>5. /\ rest \in Seq(UploadRow) /\ Len(rest) = Len(uploads) - 1
      /\ \A j \in 1 .. Len(rest) : from(j) \in DOMAIN uploads /\ rest[j] = uploads[from(j)]
  BY <1>1, <1>4, RemovedIs
<1>6. DOMAIN rest = 1 .. Len(rest)
  BY <1>5
<1>7. \A j \in Positions(rest, "uploading") :
        /\ j \in Nat /\ from(j) \in Positions(uploads, "uploading") /\ rest[j].id = uploads[from(j)].id
  BY <1>4, <1>5, <1>6 DEF Positions
<1>8. /\ \A r \in others : DOMAIN r = {"id", "stage", "aborted"}
      /\ \A r \in runs : \E q \in others : q.id = r.id
  BY <1>2, AbortKeepsIds
<1>9. Carried(rest, others)
  <2>1. ASSUME NEW j \in Positions(rest, "uploading") PROVE \E q \in others : q.id = rest[j].id
    <3>1. PICK k : k = from(j)
      OBVIOUS
    <3>2. k \in Positions(uploads, "uploading") /\ rest[j].id = uploads[k].id
      BY <1>7, <2>1, <3>1
    <3>3. PICK r \in runs : r.id = uploads[k].id
      BY <3>2 DEF UploadsInv, Held, Carried
    <3>4. QED BY <1>8, <3>2, <3>3
  <2>2. QED BY <1>5, <1>8, <2>1 DEF Carried
<1>10. Busy(rest) <= MaxParallel
  <2> DEFINE S == Positions(rest, "uploading")
             T == Positions(uploads, "uploading")
             f == [j \in S |-> from(j)]
  <2>1. f \in [S -> T]
    BY <1>7
  <2>2. \A x, y \in S : f[x] = f[y] => x = y
    <3> HIDE DEF S
    <3>1. SUFFICES ASSUME NEW x \in S, NEW y \in S, from(x) = from(y) PROVE x = y
      OBVIOUS
    <3>2. x \in Nat /\ y \in Nat
      BY <1>7 DEF S
    <3>3. QED BY <1>4, <3>1, <3>2
  <2>3. Cardinality(S) <= Cardinality(T)
    <3>1. IsFiniteSet(T)
      BY <1>4, PositionsFinite
    <3> HIDE DEF f, S, T
    <3>2. QED BY <2>1, <2>2, <3>1, NoBusier
  <2>4. Busy(rest) <= Busy(uploads)
    BY <2>3 DEF Busy
  <2>5. Busy(rest) \in Nat /\ Busy(uploads) \in Nat /\ MaxParallel \in Nat
    BY <1>4, <1>5, PositionsFinite, UploadsSizes
  <2>6. QED BY <2>4, <2>5 DEF UploadsInv, Held
<1>11. QED BY <1>3, <1>9, <1>10, PromoteKeeps DEF UploadsInv, Held

(* Which position a row has after the ready ones have left.                *)
LEMMA RestIs ==
  ASSUME uploads \in Seq(UploadRow)
  PROVE  LET rest == Uploads!Rest
             kept == {i \in DOMAIN uploads : uploads[i].state # "ready"}
         IN  /\ rest \in Seq(UploadRow) /\ DOMAIN rest = 1 .. Cardinality(kept)
             /\ kept \subseteq Nat /\ IsFiniteSet(kept)
             /\ \A n \in DOMAIN rest : \E i \in kept : RankIn(kept, i) = n
             /\ \A i \in kept : RankIn(kept, i) \in DOMAIN rest /\ rest[RankIn(kept, i)] = uploads[i]
<1> DEFINE kept == {i \in DOMAIN uploads : uploads[i].state # "ready"}
<1>1. /\ Len(uploads) \in Nat /\ kept \subseteq 1 .. Len(uploads) /\ kept \subseteq Nat
      /\ \A i \in kept : uploads[i] \in UploadRow
  OBVIOUS
<1>2. IsFiniteSet(kept) /\ Cardinality(kept) \in Nat
  <2>1. IsFiniteSet(1 .. Len(uploads))
    BY <1>1, FS_Interval
  <2>2. QED BY <1>1, <2>1, FS_Subset, FS_CardinalityType
<1>3. PICK rest : rest = Uploads!Rest
  OBVIOUS
<1>4. rest = [n \in 1 .. Cardinality(kept) |-> uploads[CHOOSE i \in kept : Uploads!Rank(kept, i) = n]]
  <2>1. rest = [n \in 1 .. Uploads!Cardinality(kept) |-> uploads[CHOOSE i \in kept : Uploads!Rank(kept, i) = n]]
    BY <1>3 DEF Uploads!Rest, uploads
  <2>2. QED BY <2>1, UploadsSizes
<1> HIDE DEF kept
<1>5. \A n \in 1 .. Cardinality(kept) : \E i \in kept : RankIn(kept, i) = n
  BY <1>1, <1>2, RankTaken
<1>6. ASSUME NEW n \in 1 .. Cardinality(kept)
      PROVE  \E i \in kept : RankIn(kept, i) = n /\ rest[n] = uploads[i]
  <2>1. PICK i : i = CHOOSE j \in kept : Uploads!Rank(kept, j) = n
    OBVIOUS
  <2>2. i \in kept /\ RankIn(kept, i) = n
    BY <1>5, <2>1, UploadsSizes
  <2>3. QED BY <1>4, <2>1, <2>2
<1>7. ASSUME NEW i \in kept
      PROVE  RankIn(kept, i) \in 1 .. Cardinality(kept) /\ rest[RankIn(kept, i)] = uploads[i]
  <2>1. RankIn(kept, i) \in 1 .. Cardinality(kept)
    BY <1>1, <1>2, RankTyped
  <2>2. PICK j \in kept : RankIn(kept, j) = RankIn(kept, i) /\ rest[RankIn(kept, i)] = uploads[j]
    BY <1>6, <2>1
  <2>3. i = j
    BY <1>1, <1>2, <2>2, RankOwn
  <2>4. QED BY <2>1, <2>2, <2>3
<1>8. rest \in Seq(UploadRow) /\ DOMAIN rest = 1 .. Cardinality(kept)
  <2>1. \A n \in 1 .. Cardinality(kept) : rest[n] \in UploadRow
    BY <1>1, <1>6
  <2>2. rest \in [1 .. Cardinality(kept) -> UploadRow]
    BY <1>4, <2>1
  <2>3. PICK n \in Nat : n = Cardinality(kept)
    BY <1>2
  <2>4. rest \in [1 .. n -> UploadRow]
    BY <2>2, <2>3
  <2>5. rest \in Seq(UploadRow) /\ DOMAIN rest = 1 .. n
    BY <2>4
  <2>6. QED BY <2>3, <2>5
<1>9. QED BY <1>1, <1>2, <1>3, <1>4, <1>5, <1>7, <1>8 DEF kept

(* What is not ready is in the rest as it was in the list.                 *)
LEMMA SucceedsKeeps ==
  ASSUME UploadsInv, Uploads!Succeeds PROVE UploadsInv'
<1> DEFINE kept == {i \in DOMAIN uploads : uploads[i].state # "ready"}
<1>1. PICK rest : rest = Uploads!Rest
  OBVIOUS
<1>2. uploads' = rest /\ runs' = runs /\ files' = files
  BY <1>1 DEF Uploads!Succeeds, uploads, runs, files
<1>3. uploads \in Seq(UploadRow) /\ kept \subseteq DOMAIN uploads
  BY DEF UploadsInv, Held, Carried
<1>4. /\ rest \in Seq(UploadRow) /\ DOMAIN rest = 1 .. Cardinality(kept)
      /\ kept \subseteq Nat /\ IsFiniteSet(kept)
      /\ \A n \in DOMAIN rest : \E i \in kept : RankIn(kept, i) = n
      /\ \A i \in kept : RankIn(kept, i) \in DOMAIN rest /\ rest[RankIn(kept, i)] = uploads[i]
  BY <1>1, <1>3, RestIs
<1>5. \A s \in {"uploading", "queued"} : Positions(uploads, s) = {i \in kept : uploads[i].state = s}
  BY <1>3 DEF Positions
<1> HIDE DEF kept
<1>6. ASSUME NEW s \in {"uploading", "queued"}
      PROVE  \A i \in Positions(uploads, s) : RankIn(kept, i) \in Positions(rest, s)
  BY <1>4, <1>5 DEF Positions
<1>7. ASSUME NEW s \in {"uploading", "queued"}, NEW n \in Positions(rest, s)
      PROVE  \E i \in Positions(uploads, s) : RankIn(kept, i) = n /\ uploads[i] = rest[n]
  <2>1. n \in DOMAIN rest /\ rest[n].state = s
    BY DEF Positions
  <2>2. PICK i \in kept : RankIn(kept, i) = n
    BY <1>4, <2>1
  <2>3. uploads[i] = rest[n]
    BY <1>4, <2>2
  <2>4. QED BY <1>5, <2>1, <2>2, <2>3
<1>8. Busy(rest) = Busy(uploads)
  <2> DEFINE S == Positions(uploads, "uploading")
             T == Positions(rest, "uploading")
             f == [i \in S |-> RankIn(kept, i)]
  <2>1. f \in [S -> T]
    BY <1>6
  <2>2. \A x, y \in S : f[x] = f[y] => x = y
    <3>1. S \subseteq kept
      BY <1>5
    <3> HIDE DEF S
    <3>2. SUFFICES ASSUME NEW x \in S, NEW y \in S, RankIn(kept, x) = RankIn(kept, y) PROVE x = y
      OBVIOUS
    <3>3. QED BY <1>4, <3>1, <3>2, RankOwn
  <2>3. \A n \in T : \E i \in S : f[i] = n
    <3>1. SUFFICES ASSUME NEW n \in T PROVE \E i \in S : f[i] = n
      OBVIOUS
    <3>2. PICK i \in S : RankIn(kept, i) = n
      BY <1>7
    <3>3. QED BY <3>2
  <2>4. IsFiniteSet(S)
    BY <1>3, PositionsFinite
  <2>5. Cardinality(T) = Cardinality(S)
    <3> HIDE DEF S, T, f
    <3>1. f \in Bijection(S, T)
      BY <2>1, <2>2, <2>3 DEF Bijection, Injection, Surjection, IsInjective
    <3>2. QED BY <2>4, <3>1, FS_Bijection DEF ExistsBijection
  <2>6. QED BY <2>5 DEF Busy
<1>9. Carried(rest, runs)
  <2>1. ASSUME NEW n \in Positions(rest, "uploading") PROVE \E r \in runs : r.id = rest[n].id
    <3>1. PICK i \in Positions(uploads, "uploading") : uploads[i] = rest[n]
      BY <1>7
    <3>2. QED BY <3>1 DEF UploadsInv, Held, Carried
  <2>2. QED BY <1>4, <2>1 DEF UploadsInv, Held, Carried
<1>10. Full(rest)
  <2>1. SUFFICES ASSUME NEW n \in Positions(rest, "queued") PROVE Busy(rest) = MaxParallel
    BY DEF Full
  <2>2. Positions(uploads, "queued") # {}
    BY <1>7
  <2>3. QED BY <1>8, <2>2 DEF UploadsInv, Full
<1>11. QED BY <1>2, <1>8, <1>9, <1>10 DEF UploadsInv, Held

LEMMA UploadsStep ==
  ASSUME UploadsInv, Uploads!Next PROVE UploadsInv'
<1>1. CASE Uploads!AddFiles
  BY <1>1, AddFilesKeeps
<1>2. CASE Uploads!Send \/ Uploads!Stores \/ Uploads!Fails
  <2>1. UNCHANGED <<uploads, runs, files>>
    BY <1>2 DEF Uploads!Send, Uploads!Stores, Uploads!Fails, uploads, runs, files
  <2>2. QED BY <2>1 DEF UploadsInv, Held, Carried, Full, Busy, Positions
<1>3. CASE Uploads!Succeeds
  BY <1>3, SucceedsKeeps
<1>4. CASE \E r \in runs : Uploads!Announced(r) \/ Uploads!Ends(r)
  <2>1. PICK r \in runs : Uploads!Announced(r) \/ Uploads!Ends(r)
    BY <1>4
  <2>2. CASE Uploads!Announced(r)
    <3>1. PICK q : q = [r EXCEPT !.stage = "put"]
      OBVIOUS
    <3>2. runs' = (runs \ {r}) \cup {q} /\ UNCHANGED <<uploads, files>>
      BY <2>2, <3>1 DEF Uploads!Announced, uploads, runs, files
    <3>3. \A p \in runs : DOMAIN p = {"id", "stage", "aborted"}
      BY DEF UploadsInv, Held, Carried
    <3>4. DOMAIN q = {"id", "stage", "aborted"} /\ q.id = r.id
      BY <3>1, <3>3
    <3>5. QED BY <3>2, <3>3, <3>4, RunsReplaced
  <2>3. QED BY <2>1, <2>2, EndsKeeps
<1>5. CASE \E i \in DOMAIN uploads : Uploads!Cancel(i) \/ Uploads!Retry(i) \/ Uploads!Removes(i)
  <2>1. PICK i \in DOMAIN uploads : Uploads!Cancel(i) \/ Uploads!Retry(i) \/ Uploads!Removes(i)
    BY <1>5
  <2>2. CASE Uploads!Cancel(i)
    <3>1. runs' = Uploads!Abort(uploads[i].id) /\ UNCHANGED <<uploads, files>>
      BY <2>2 DEF Uploads!Cancel, uploads, runs, files
    <3>2. QED BY <3>1, AbortKeepsIds, RunsReplaced
  <2>3. QED BY <2>1, <2>2, RetryKeeps, RemovesKeeps
<1>6. QED BY <1>1, <1>2, <1>3, <1>4, <1>5 DEF Uploads!Next, uploads, runs

LEMMA UploadsInit ==
  ASSUME Uploads!Init PROVE UploadsInv
<1>1. uploads = <<>> /\ runs = {} /\ files = 0
  BY DEF Uploads!Init, uploads, runs, files
<1>2. \A s : Positions(uploads, s) = {}
  BY <1>1 DEF Positions
<1>3. Busy(uploads) = 0
  BY <1>2, FS_EmptySet DEF Busy
<1>4. QED BY <1>1, <1>2, <1>3, UploadsSizes DEF UploadsInv, Held, Carried, Full

LEMMA UploadsUsed ==
  ASSUME UploadsInv PROVE Uploads!PlacesAreUsed
  BY UploadsSizes DEF Uploads!PlacesAreUsed, UploadsInv, Held, Carried, Full, uploads, runs

------------------------------------------------------------------------------
(* A panel runs as many uploads as it may and no file waits forgotten; a   *)
(* subscriber that does not read is dropped before its backlog grows       *)
(* beyond the bound (chat.tsx, messages.ts).                               *)
THEOREM ChatIsLimited == ChatSpec => []ChatLimits
<1> DEFINE Inv == (part = "uploads" => UploadsInv) /\ (part = "stream" => StreamsInv)
<1>1. ChatInit => Inv
  <2>1. ASSUME ChatInit, part = "uploads" PROVE UploadsInv
    BY <2>1, UploadsInit DEF ChatInit
  <2>2. ASSUME ChatInit, part = "stream" PROVE StreamsInv
    BY <2>2, StreamsInit DEF ChatInit
  <2>3. QED BY <2>1, <2>2
<1>2. Inv /\ [ChatNext]_suiteVars => Inv'
  <2>1. SUFFICES ASSUME Inv, [ChatNext]_suiteVars PROVE Inv'
    OBVIOUS
  <2>2. part' = part
    BY <2>1, ChatPartStays
  <2>3. ASSUME part = "uploads" PROVE UploadsInv'
    <3>1. CASE Uploads!Next
      BY <2>1, <2>3, <3>1, UploadsStep
    <3>2. CASE UNCHANGED UploadsVars
      BY <2>1, <2>3, <3>2 DEF UploadsVars, UploadsInv, Held, Carried, Full, Busy, Positions, uploads, runs, files
    <3>3. QED
      BY <2>1, <2>3, <3>1, <3>2
         DEF ChatNext, suiteVars, UploadsVars, MediaSteps, UploadsSteps, StreamsSteps, InboxSteps
  <2>4. ASSUME part = "stream" PROVE StreamsInv'
    <3>1. CASE Streams!Next
      BY <2>1, <2>4, <3>1, StreamsStep
    <3>2. CASE UNCHANGED StreamVars
      BY <2>1, <2>4, <3>2 DEF StreamVars, StreamsInv, stream, chatClients, revocable
    <3>3. QED
      BY <2>1, <2>4, <3>1, <3>2
         DEF ChatNext, suiteVars, StreamVars, MediaSteps, UploadsSteps, StreamsSteps, InboxSteps
  <2>5. QED BY <2>2, <2>3, <2>4
<1>3. Inv => ChatLimits
  BY UploadsUsed, StreamsBound DEF ChatLimits
<1> HIDE DEF Inv
<1>4. QED BY <1>1, <1>2, <1>3, PTL DEF ChatSpec

------------------------------------------------------------------------------
(* MessageMedia.                                                           *)

row == x1
link == x2
message == x3
queue == x5
put == x6
objects == x8
step == x9
hand == x10
remove == x11
lost == x13

MediaVars == <<x1, x2, x3, x4, x5, x6, x7, x8, x9, x10, x11, x12, x13>>

Media1 == 1 .. MaxMedia
Puts == 1 .. MaxPuts
Messages == 1 .. MaxMessages
Keys == {row[m].key : m \in Media1}
Waiting == {queue[i] : i \in DOMAIN queue}

MediaTyped ==
  /\ DOMAIN row = Media1 /\ \A m \in Media1 : DOMAIN row[m] = {"state", "by", "key", "expired"}
  /\ link \in [Media1 -> Messages \cup {0}]
  /\ DOMAIN message = Messages /\ \A k \in Messages : DOMAIN message[k] = {"state", "from", "to"}
  /\ queue \in Seq(Puts) /\ objects \subseteq Puts
  /\ DOMAIN put = Puts /\ \A p \in Puts : DOMAIN put[p] = {"of", "by", "state"}
  /\ DOMAIN remove = {"state", "user", "keys"}

(* A key is that of a ready row, of one, and of a file nobody is about to  *)
(* unlink.                                                                 *)
KeysOwned ==
  /\ \A m \in Media1 : row[m].key # 0 <=> row[m].state = "ready"
  /\ \A m \in Media1 : row[m].state = "ready" =>
       /\ row[m].key \in Puts \cap objects
       /\ row[m].key \notin hand \cup Waiting
  /\ \A m, n \in Media1 : row[m].state = "ready" /\ row[m].key = row[n].key => m = n

(* What is not received has left no trace; what is renamed and not yet     *)
(* finalized is known to the gateway alone.                                *)
FilesOfPuts ==
  /\ \A p \in Puts : put[p].state # "over" => p \notin objects \cup Waiting \cup hand \cup remove.keys
  /\ \A p \in Puts : put[p].state # "new" => put[p].of \in Media1
  /\ step = "renamed" =>
       \E p \in Puts : hand = {p} /\ put[p].state = "over" /\ p \in objects /\ p \notin Waiting \cup remove.keys
  /\ step \in {"idle", "prune", "drain"} => hand = {}

(* The files a removal will unlink are those of the user's rows, and of no *)
(* row once these are gone.                                                *)
PeekedAreTheUsers ==
  /\ remove.state = "peeked" => \A m \in Media1 : row[m].state = "ready" /\ row[m].key \in remove.keys => row[m].by = remove.user
  /\ remove.state = "deleted" => \A m \in Media1 : row[m].state = "ready" => row[m].key \notin remove.keys

HeldAreSent ==
  \A m \in Media1 : link[m] # 0 =>
    /\ message[link[m]].state = "sent"
    /\ row[m].state = "ready" /\ row[m].by = message[link[m]].from

NoneForgotten == objects \subseteq Keys \cup Waiting \cup hand \cup lost

MediaInv ==
  /\ MediaTyped /\ KeysOwned /\ FilesOfPuts /\ PeekedAreTheUsers /\ HeldAreSent /\ NoneForgotten

LEMMA MediaConstants ==
  /\ MaxMedia \in Nat /\ MaxPuts \in Nat /\ MaxMessages \in Nat /\ MaxQueue \in Nat /\ DrainMax \in Nat
  /\ Media!Medium = Media1 /\ Media!Put = Puts /\ Media!Message = Messages
  /\ 0 \notin Puts /\ 0 \notin Messages /\ IsFiniteSet(Puts)
  /\ \A S : Media!Cardinality(S) = Cardinality(S)
  /\ \A s : Media!ToSet(s) = {s[i] : i \in DOMAIN s}
<1>1. MaxMedia \in Nat /\ MaxPuts \in Nat /\ MaxMessages \in Nat /\ MaxQueue \in Nat /\ DrainMax \in Nat
  BY MediaFit DEF Media!MediaAssumption
<1>2. Media!Medium = Media1 /\ Media!Put = Puts /\ Media!Message = Messages
  BY DEF Media!Medium, Media!Put, Media!Message, Media1, Puts, Messages
<1>3. 0 \notin Puts /\ 0 \notin Messages /\ IsFiniteSet(Puts)
  BY <1>1, FS_Interval DEF Puts, Messages
<1>4. \A S : Media!Cardinality(S) = Cardinality(S)
  BY Zenon DEF Media!Cardinality, Cardinality
<1>5. \A s : Media!ToSet(s) = {s[i] : i \in DOMAIN s}
  BY DEF Media!ToSet
<1>6. QED BY <1>1, <1>2, <1>3, <1>4, <1>5

(* A set as a sequence has the same elements.                              *)
LEMMA SetAsSeq ==
  ASSUME NEW S, IsFiniteSet(S), NEW s, s = Media!SetToSeq(S)
  PROVE  s \in Seq(S) /\ S = {s[i] : i \in DOMAIN s}
<1>1. Cardinality(S) \in Nat /\ ExistsBijection(1 .. Cardinality(S), S)
  BY FS_CardinalityType
<1>2. PICK n \in Nat : n = Cardinality(S)
  BY <1>1
<1>3. PICK f \in Bijection(1 .. n, S) : TRUE
  BY <1>1, <1>2 DEF ExistsBijection
<1>4. f \in [1 .. n -> S] /\ Media!IsInjective(f)
  BY <1>3 DEF Bijection, Injection, IsInjective, Media!IsInjective
<1>5. s = CHOOSE g \in [1 .. n -> S] : Media!IsInjective(g)
  <2>1. s = CHOOSE g \in [1 .. Media!Cardinality(S) -> S] : Media!IsInjective(g)
    BY DEF Media!SetToSeq
  <2>2. Media!Cardinality(S) = n
    BY <1>2, MediaConstants
  <2>3. QED BY <2>1, <2>2
<1>6. s \in [1 .. n -> S] /\ Media!IsInjective(s)
  BY <1>4, <1>5
<1>7. s \in Injection(1 .. n, S)
  BY <1>6 DEF Injection, IsInjective, Media!IsInjective
<1>8. s \in Surjection(1 .. n, S)
  <2>1. IsFiniteSet(1 .. n) /\ Cardinality(1 .. n) = n
    BY FS_Interval
  <2>2. QED BY <1>2, <1>7, <2>1, FS_Injection
<1>9. QED BY <1>6, <1>8 DEF Surjection

LEMMA FromOn ==
  ASSUME NEW T, NEW s \in Seq(T), NEW k \in 0 .. Len(s), NEW t, t = SubSeq(s, k + 1, Len(s))
  PROVE  t \in Seq(T) /\ Len(t) = Len(s) - k /\ \A i \in 1 .. Len(s) - k : t[i] = s[k + i]
<1>1. Len(s) \in Nat /\ k \in Nat /\ k <= Len(s) /\ \A i \in 1 .. Len(s) : s[i] \in T
  OBVIOUS
<1>2. Len(t) = Len(s) - k
  BY <1>1
<1>3. \A i \in 1 .. Len(s) - k : t[i] = s[k + i] /\ s[k + i] \in T
  BY <1>1
<1>4. t \in Seq(T)
  BY <1>1
<1>5. QED BY <1>2, <1>3, <1>4

(* What falls out of the queue is lost, and nothing else.                  *)
LEMMA EnqueuedIs ==
  ASSUME MediaInv, NEW media \in SUBSET Media1, Media!Enqueued(media)
  PROVE  /\ queue' \in Seq(Puts)
         /\ Waiting' \subseteq Waiting \cup {row[m].key : m \in {n \in media : row[n].state = "ready"}}
         /\ Waiting \cup lost \subseteq Waiting' \cup lost'
         /\ \A m \in media : row[m].state = "ready" => row[m].key \in Waiting' \cup lost'
<1> DEFINE S == {row[m].key : m \in media} \ ({0} \cup Waiting)
<1>1. S \subseteq Puts /\ S \subseteq {row[m].key : m \in {n \in media : row[n].state = "ready"}}
  BY DEF MediaInv, KeysOwned
<1>2. IsFiniteSet(S)
  BY <1>1, MediaConstants, FS_Subset
<1>3. PICK keys : keys = Media!SetToSeq(S)
  OBVIOUS
<1>4. keys \in Seq(S) /\ S = {keys[i] : i \in DOMAIN keys}
  <2> HIDE DEF S
  <2>1. QED BY <1>2, <1>3, SetAsSeq
<1>5. PICK all : all = queue \o keys
  OBVIOUS
<1>6. PICK over : over = IF Len(all) > MaxQueue THEN Len(all) - MaxQueue ELSE 0
  OBVIOUS
<1>7. queue' = SubSeq(all, over + 1, Len(all)) /\ lost' = lost \cup {all[i] : i \in 1 .. over}
  <2>1. S = {row[m].key : m \in media} \ ({Media!None} \cup Media!ToSet(queue))
    BY MediaConstants DEF Media!None, Waiting
  <2>2. QED BY <1>3, <1>5, <1>6, <2>1 DEF Media!Enqueued, row, queue, lost
<1> HIDE DEF S
<1>8. queue \in Seq(Puts) /\ keys \in Seq(Puts)
  BY <1>1, <1>4 DEF MediaInv, MediaTyped
<1>9. all \in Seq(Puts) /\ Len(all) = Len(queue) + Len(keys)
      /\ \A i \in 1 .. Len(all) : all[i] = IF i <= Len(queue) THEN queue[i] ELSE keys[i - Len(queue)]
  BY <1>5, <1>8
<1>10. Len(all) \in Nat /\ over \in 0 .. Len(all) /\ Len(queue) \in Nat /\ Len(keys) \in Nat
  BY <1>6, <1>8, <1>9, MediaConstants
<1>11. /\ queue' \in Seq(Puts) /\ Len(queue') = Len(all) - over
       /\ \A i \in 1 .. Len(all) - over : queue'[i] = all[over + i]
  <2>1. PICK t : t = SubSeq(all, over + 1, Len(all))
    OBVIOUS
  <2>2. t \in Seq(Puts) /\ Len(t) = Len(all) - over /\ \A i \in 1 .. Len(all) - over : t[i] = all[over + i]
    BY <1>9, <1>10, <2>1, FromOn
  <2>3. QED BY <1>7, <2>1, <2>2
<1>12. \A i \in 1 .. Len(all) : all[i] \in Waiting \cup S
  <2>1. SUFFICES ASSUME NEW i \in 1 .. Len(all) PROVE all[i] \in Waiting \cup S
    OBVIOUS
  <2>2. CASE i <= Len(queue)
    BY <1>8, <1>9, <1>10, <2>2 DEF Waiting
  <2>3. CASE ~(i <= Len(queue))
    <3>1. i - Len(queue) \in DOMAIN keys
      BY <1>8, <1>9, <1>10, <2>3
    <3>2. QED BY <1>4, <1>9, <2>3, <3>1
  <2>4. QED BY <2>2, <2>3
<1>13. \A x \in Waiting \cup S : \E i \in 1 .. Len(all) : all[i] = x
  <2>1. ASSUME NEW i \in DOMAIN queue PROVE i \in 1 .. Len(all) /\ all[i] = queue[i]
    BY <1>8, <1>9, <1>10
  <2>2. ASSUME NEW i \in DOMAIN keys PROVE Len(queue) + i \in 1 .. Len(all) /\ all[Len(queue) + i] = keys[i]
    BY <1>8, <1>9, <1>10
  <2>3. QED BY <1>4, <2>1, <2>2 DEF Waiting
<1>14. \A i \in 1 .. Len(all) : all[i] \in Waiting' \cup lost'
  <2>1. SUFFICES ASSUME NEW i \in 1 .. Len(all) PROVE all[i] \in Waiting' \cup lost'
    OBVIOUS
  <2>2. CASE i <= over
    BY <1>7, <1>10, <2>2
  <2>3. CASE ~(i <= over)
    <3>1. i - over \in DOMAIN queue' /\ queue'[i - over] = all[i]
      BY <1>10, <1>11, <2>3
    <3>2. QED BY <3>1 DEF Waiting
  <2>4. QED BY <2>2, <2>3
<1>15. Waiting' \subseteq Waiting \cup S
  <2>1. ASSUME NEW i \in DOMAIN queue' PROVE queue'[i] \in Waiting \cup S
    <3>1. over + i \in 1 .. Len(all) /\ queue'[i] = all[over + i]
      BY <1>10, <1>11
    <3>2. QED BY <1>12, <3>1
  <2>2. QED BY <2>1 DEF Waiting
<1>16. lost \subseteq lost'
  BY <1>7
<1>17. \A m \in media : row[m].state = "ready" => row[m].key \in S \cup Waiting
  BY MediaConstants DEF S, MediaInv, KeysOwned
<1>18. Waiting \cup S \subseteq Waiting' \cup lost'
  BY <1>13, <1>14
<1>19. QED BY <1>1, <1>11, <1>15, <1>16, <1>17, <1>18

(* Rows that are touched, transfers that go on and files that are not.     *)
LEMMA RowsTouched ==
  ASSUME MediaInv, UNCHANGED <<link, message, queue, objects, step, hand, remove, lost>>,
         DOMAIN row' = Media1, DOMAIN put' = Puts,
         \A m \in Media1 : /\ DOMAIN row'[m] = {"state", "by", "key", "expired"}
                           /\ row'[m].key = row[m].key /\ (row'[m].state = "ready" <=> row[m].state = "ready")
                           /\ row[m].state = "ready" => row'[m].by = row[m].by,
         \A p \in Puts : /\ DOMAIN put'[p] = {"of", "by", "state"}
                         /\ put[p].state = "over" => put'[p].state = "over"
                         /\ put'[p].state # "new" => put'[p].of \in Media1
  PROVE  MediaInv'
<1>1. MediaTyped'
  BY DEF MediaInv, MediaTyped
<1>2. Waiting' = Waiting /\ Keys' = Keys
  BY DEF Waiting, Keys
<1>3. KeysOwned'
  BY <1>2 DEF MediaInv, KeysOwned
<1>4. FilesOfPuts'
  BY <1>2 DEF MediaInv, FilesOfPuts
<1>5. PeekedAreTheUsers' /\ HeldAreSent'
  <2>1. PeekedAreTheUsers'
    BY DEF MediaInv, PeekedAreTheUsers
  <2>2. HeldAreSent'
    BY DEF MediaInv, HeldAreSent
  <2>3. QED BY <2>1, <2>2
<1>6. NoneForgotten'
  BY <1>2 DEF MediaInv, NoneForgotten
<1>7. QED BY <1>1, <1>3, <1>4, <1>5, <1>6 DEF MediaInv

(* A medium that is not ready has no key.                                  *)
LEMMA RowsKeep ==
  ASSUME MediaInv
  PROVE  /\ DOMAIN row = Media1 /\ DOMAIN put = Puts
         /\ \A m \in Media1 : /\ DOMAIN row[m] = {"state", "by", "key", "expired"}
                              /\ row[m].state # "ready" => row[m].key = 0
         /\ \A p \in Puts : DOMAIN put[p] = {"of", "by", "state"} /\ (put[p].state # "new" => put[p].of \in Media1)
  BY DEF MediaInv, MediaTyped, KeysOwned, FilesOfPuts

LEMMA FailedIs ==
  ASSUME MediaInv, NEW m \in Media1, row' = Media!Failed(m)
  PROVE  /\ DOMAIN row' = Media1
         /\ \A n \in Media1 : /\ DOMAIN row'[n] = {"state", "by", "key", "expired"}
                              /\ row'[n].key = row[n].key /\ (row'[n].state = "ready" <=> row[n].state = "ready")
                              /\ row[n].state = "ready" => row'[n].by = row[n].by
<1>1. CASE row[m].state = "pending"
  <2>1. PICK r : r = [row[m] EXCEPT !.state = "failed"]
    OBVIOUS
  <2>2. row' = [row EXCEPT ![m] = r]
    BY <1>1, <2>1 DEF Media!Failed, row
  <2>3. DOMAIN r = {"state", "by", "key", "expired"} /\ r.key = row[m].key /\ r.state = "failed"
    BY <2>1, RowsKeep
  <2>4. QED BY <1>1, <2>2, <2>3, RowsKeep
<1>2. CASE row[m].state # "pending"
  BY <1>2, RowsKeep DEF Media!Failed, row
<1>3. QED BY <1>1, <1>2

LEMMA PutIs ==
  ASSUME MediaInv, NEW p \in Puts, NEW q, DOMAIN q = {"of", "by", "state"}, put[p].state # "over",
         q.state # "new" => q.of \in Media1, put' = [put EXCEPT ![p] = q]
  PROVE  /\ DOMAIN put' = Puts
         /\ \A x \in Puts : /\ DOMAIN put'[x] = {"of", "by", "state"}
                            /\ put[x].state = "over" => put'[x].state = "over"
                            /\ put'[x].state # "new" => put'[x].of \in Media1
  BY RowsKeep

LEMMA AnnounceKeeps ==
  ASSUME MediaInv, NEW u, NEW m \in Media1, Media!Announce(u, m) PROVE MediaInv'
<1>1. PICK r : r = [Media!Nothing EXCEPT !.state = "pending", !.by = u]
  OBVIOUS
<1>2. /\ row[m].state = "none" /\ row' = [row EXCEPT ![m] = r]
      /\ UNCHANGED <<link, message, queue, put, objects, step, hand, remove, lost>>
  BY <1>1 DEF Media!Announce, Media!transfers, row, link, message, queue, put, objects, step, hand, remove, lost
<1>3. DOMAIN r = {"state", "by", "key", "expired"} /\ r.key = 0 /\ r.state = "pending"
  BY <1>1 DEF Media!Nothing, Media!None
<1>4. QED BY <1>2, <1>3, RowsKeep, RowsTouched

LEMMA ExpireKeeps ==
  ASSUME MediaInv, NEW m \in Media1, Media!Expire(m) PROVE MediaInv'
<1>1. PICK r : r = [row[m] EXCEPT !.expired = TRUE]
  OBVIOUS
<1>2. /\ row' = [row EXCEPT ![m] = r]
      /\ UNCHANGED <<link, message, queue, put, objects, step, hand, remove, lost>>
  BY <1>1 DEF Media!Expire, Media!transfers, row, link, message, queue, put, objects, step, hand, remove, lost
<1>3. DOMAIN r = {"state", "by", "key", "expired"} /\ r.key = row[m].key /\ r.state = row[m].state /\ r.by = row[m].by
  BY <1>1, RowsKeep
<1>4. QED BY <1>2, <1>3, RowsKeep, RowsTouched

LEMMA OpenKeeps ==
  ASSUME MediaInv, NEW p \in Puts, NEW m \in Media1, Media!Open(p, m) PROVE MediaInv'
<1>1. /\ put[p].state = "new" /\ UNCHANGED <<link, message, queue, objects, step, hand, remove, lost>>
      /\ \/ put' = [put EXCEPT ![p] = [of |-> m, by |-> row[m].by, state |-> "open"]] /\ row' = row
         \/ put' = [put EXCEPT ![p] = [of |-> m, by |-> Nobody, state |-> "over"]] /\ row' = Media!Failed(m)
  BY DEF Media!Open, row, link, message, queue, put, objects, step, hand, remove, lost
<1>2. PICK q : DOMAIN q = {"of", "by", "state"} /\ q.of = m /\ put' = [put EXCEPT ![p] = q]
               /\ (row' = row \/ row' = Media!Failed(m))
  BY <1>1
<1>3. /\ DOMAIN put' = Puts
      /\ \A x \in Puts : /\ DOMAIN put'[x] = {"of", "by", "state"}
                         /\ put[x].state = "over" => put'[x].state = "over"
                         /\ put'[x].state # "new" => put'[x].of \in Media1
  BY <1>1, <1>2, PutIs
<1>4. /\ DOMAIN row' = Media1
      /\ \A n \in Media1 : /\ DOMAIN row'[n] = {"state", "by", "key", "expired"}
                           /\ row'[n].key = row[n].key /\ (row'[n].state = "ready" <=> row[n].state = "ready")
                           /\ row[n].state = "ready" => row'[n].by = row[n].by
  BY <1>2, FailedIs, RowsKeep
<1>5. QED BY <1>1, <1>3, <1>4, RowsTouched

LEMMA FailKeeps ==
  ASSUME MediaInv, NEW p \in Puts, Media!Fail(p) PROVE MediaInv'
<1>1. PICK q : q = Media!Over(p)
  OBVIOUS
<1>2. /\ put[p].state = "open" /\ put' = [put EXCEPT ![p] = q] /\ row' = Media!Failed(put[p].of)
      /\ UNCHANGED <<link, message, queue, objects, step, hand, remove, lost>>
  BY <1>1 DEF Media!Fail, row, link, message, queue, put, objects, step, hand, remove, lost
<1>3. DOMAIN q = {"of", "by", "state"} /\ q.of = put[p].of /\ put[p].of \in Media1
  BY <1>1, <1>2, RowsKeep DEF Media!Over, put
<1>4. /\ DOMAIN put' = Puts
      /\ \A x \in Puts : /\ DOMAIN put'[x] = {"of", "by", "state"}
                         /\ put[x].state = "over" => put'[x].state = "over"
                         /\ put'[x].state # "new" => put'[x].of \in Media1
  BY <1>2, <1>3, PutIs
<1>5. QED BY <1>2, <1>3, <1>4, FailedIs, RowsTouched

(* A file gets its name: only the gateway knows of it.                     *)
LEMMA RenameKeeps ==
  ASSUME MediaInv, NEW p \in Puts, Media!Rename(p) PROVE MediaInv'
<1>1. PICK q : q = Media!Over(p)
  OBVIOUS
<1>2. /\ step = "idle" /\ put[p].state = "open" /\ put' = [put EXCEPT ![p] = q]
      /\ objects' = objects \cup {p} /\ step' = "renamed" /\ hand' = {p}
      /\ UNCHANGED <<row, link, message, queue, remove, lost>>
  BY <1>1 DEF Media!Rename, Media!Idle, Media!database, row, link, message, queue, put, objects, step, hand, remove, lost
<1>3. DOMAIN q = {"of", "by", "state"} /\ q.of = put[p].of /\ q.of \in Media1 /\ q.state = "over"
  BY <1>1, <1>2, RowsKeep DEF Media!Over, put
<1>4. /\ DOMAIN put' = Puts /\ put'[p].state = "over"
      /\ \A x \in Puts : /\ DOMAIN put'[x] = {"of", "by", "state"}
                         /\ x # p => put'[x] = put[x]
                         /\ put'[x].state # "new" => put'[x].of \in Media1
  BY <1>2, <1>3, RowsKeep
<1>5. p \notin objects \cup Waiting \cup remove.keys
  BY <1>2 DEF MediaInv, FilesOfPuts
<1>6. Waiting' = Waiting /\ Keys' = Keys
  BY <1>2 DEF Waiting, Keys
<1>7. MediaTyped'
  BY <1>2, <1>4 DEF MediaInv, MediaTyped
<1>8. KeysOwned'
  BY <1>2, <1>5, <1>6 DEF MediaInv, KeysOwned
<1>9. FilesOfPuts'
  BY <1>2, <1>4, <1>5, <1>6 DEF MediaInv, FilesOfPuts
<1>10. PeekedAreTheUsers' /\ HeldAreSent'
  BY <1>2 DEF MediaInv, PeekedAreTheUsers, HeldAreSent
<1>11. NoneForgotten'
  <2>1. hand = {}
    BY <1>2 DEF MediaInv, FilesOfPuts
  <2>2. QED BY <1>2, <1>6, <2>1 DEF MediaInv, NoneForgotten
<1>12. QED BY <1>7, <1>8, <1>9, <1>10, <1>11 DEF MediaInv

LEMMA FinalizeKeeps ==
  ASSUME MediaInv, NEW p \in Puts, Media!Finalize(p) PROVE MediaInv'
<1>1. PICK m : m = put[p].of
  OBVIOUS
<1>2. /\ step = "renamed" /\ hand = {p}
      /\ \/ /\ row[m].state = "pending" /\ step' = "idle" /\ hand' = {}
            /\ row' = [row EXCEPT ![m] = [state |-> "ready", by |-> row[m].by, key |-> p, expired |-> FALSE]]
         \/ step' = "unlink" /\ row' = row /\ hand' = hand
      /\ UNCHANGED <<link, message, queue, put, objects, remove, lost>>
  BY <1>1 DEF Media!Finalize, Media!MayFinalize, Media!transfers, row, link, message, queue, put, objects, step, hand,
     remove, lost
<1>3. put[p].state = "over" /\ p \in objects /\ p \notin Waiting \cup remove.keys /\ m \in Media1
  BY <1>1, <1>2 DEF MediaInv, FilesOfPuts
<1>4. Waiting' = Waiting
  BY <1>2 DEF Waiting
<1>5. CASE step' = "unlink" /\ row' = row /\ hand' = hand
  <2>1. KeysOwned' /\ Keys' = Keys
    BY <1>2, <1>4, <1>5 DEF MediaInv, KeysOwned, Keys
  <2>2. MediaTyped' /\ FilesOfPuts'
    BY <1>2, <1>4, <1>5 DEF MediaInv, MediaTyped, FilesOfPuts
  <2>3. PeekedAreTheUsers' /\ HeldAreSent' /\ NoneForgotten'
    BY <1>2, <1>4, <1>5, <2>1 DEF MediaInv, PeekedAreTheUsers, HeldAreSent, NoneForgotten
  <2>4. QED BY <2>1, <2>2, <2>3 DEF MediaInv
<1>6. CASE /\ row[m].state = "pending" /\ step' = "idle" /\ hand' = {}
           /\ row' = [row EXCEPT ![m] = [state |-> "ready", by |-> row[m].by, key |-> p, expired |-> FALSE]]
  <2>1. /\ DOMAIN row' = Media1 /\ DOMAIN row'[m] = {"state", "by", "key", "expired"}
        /\ row'[m].state = "ready" /\ row'[m].key = p /\ row'[m].by = row[m].by
        /\ \A n \in Media1 : n # m => row'[n] = row[n]
    BY <1>3, <1>6, RowsKeep
  <2>2. \A n \in Media1 : row[n].state = "ready" => row[n].key # p
    BY <1>2 DEF MediaInv, KeysOwned
  <2>3. MediaTyped'
    BY <1>2, <2>1 DEF MediaInv, MediaTyped
  <2>4. KeysOwned'
    BY <1>2, <1>3, <1>4, <1>6, <2>1, <2>2, MediaConstants DEF MediaInv, KeysOwned
  <2>5. FilesOfPuts'
    BY <1>2, <1>4, <1>6 DEF MediaInv, FilesOfPuts
  <2>6. PeekedAreTheUsers'
    BY <1>2, <1>3, <2>1 DEF MediaInv, PeekedAreTheUsers
  <2>7. HeldAreSent'
    BY <1>2, <1>6, <2>1 DEF MediaInv, HeldAreSent
  <2>8. NoneForgotten'
    <3>1. SUFFICES ASSUME NEW x \in objects PROVE x \in Keys' \cup Waiting' \cup hand' \cup lost'
      BY <1>2 DEF NoneForgotten
    <3>2. CASE x = p
      BY <1>3, <2>1, <3>2 DEF Keys
    <3>3. CASE x # p /\ x \in Keys
      <4>1. PICK n \in Media1 : row[n].key = x
        BY <3>3 DEF Keys
      <4>2. CASE n = m
        <5>1. x = 0 /\ x \in Puts
          BY <1>3, <1>6, <3>1, <4>1, <4>2, RowsKeep DEF MediaInv, MediaTyped
        <5>2. QED BY <5>1, MediaConstants
      <4>3. CASE n # m
        BY <2>1, <4>1, <4>3 DEF Keys
      <4>4. QED BY <4>2, <4>3
    <3>4. CASE x # p /\ x \notin Keys
      BY <1>2, <1>4, <3>1, <3>4 DEF MediaInv, NoneForgotten
    <3>5. QED BY <3>2, <3>3, <3>4
  <2>9. QED BY <2>3, <2>4, <2>5, <2>6, <2>7, <2>8 DEF MediaInv
<1>7. QED BY <1>2, <1>5, <1>6

LEMMA UnlinkKeeps ==
  ASSUME MediaInv, Media!Unlink PROVE MediaInv'
<1>1. /\ step \in {"unlink", "pruned"} /\ step' \in {"idle", "drain"} /\ hand' = {}
      /\ objects' \subseteq objects /\ objects \ objects' \subseteq hand
      /\ lost \subseteq lost' /\ hand \cap objects' \subseteq Waiting \cup lost'
      /\ UNCHANGED <<row, link, message, queue, put, remove>>
  <2>1. PICK kept \in SUBSET (hand \cap objects) :
          objects' = objects \ (hand \ kept) /\ lost' = lost \cup (kept \ Waiting)
    BY MediaConstants DEF Media!Unlink, Waiting, queue, objects, hand, lost
  <2>2. /\ step \in {"unlink", "pruned"} /\ step' \in {"idle", "drain"} /\ hand' = {}
        /\ UNCHANGED <<row, link, message, queue, put, remove>>
    BY DEF Media!Unlink, Media!database, row, link, message, queue, put, step, hand, remove
  <2>3. QED BY <2>1, <2>2
<1>2. Waiting' = Waiting /\ Keys' = Keys
  BY <1>1 DEF Waiting, Keys
<1>3. KeysOwned'
  BY <1>1, <1>2 DEF MediaInv, KeysOwned
<1>4. MediaTyped' /\ FilesOfPuts'
  BY <1>1, <1>2 DEF MediaInv, MediaTyped, FilesOfPuts
<1>5. PeekedAreTheUsers' /\ HeldAreSent' /\ NoneForgotten'
  BY <1>1, <1>2 DEF MediaInv, PeekedAreTheUsers, HeldAreSent, NoneForgotten
<1>6. QED BY <1>3, <1>4, <1>5 DEF MediaInv

LEMMA CrashKeeps ==
  ASSUME MediaInv, Media!Crash PROVE MediaInv'
<1>1. /\ put' = [p \in Puts |-> IF put[p].state = "open" THEN Media!Over(p) ELSE put[p]]
      /\ lost' = lost \cup hand /\ hand' = {} /\ step' = "idle"
      /\ UNCHANGED <<row, link, message, queue, objects, remove>>
  BY MediaConstants DEF Media!Crash, Media!database, row, link, message, queue, put, objects, step, hand, remove, lost
<1>2. /\ DOMAIN put' = Puts
      /\ \A p \in Puts : /\ DOMAIN put'[p] = {"of", "by", "state"}
                         /\ put'[p].state # "over" => put[p].state # "over"
                         /\ put'[p].state # "new" => put'[p].of \in Media1
  <2>1. ASSUME NEW p \in Puts
        PROVE  /\ DOMAIN put'[p] = {"of", "by", "state"} /\ (put'[p].state # "over" => put[p].state # "over")
               /\ put'[p].state # "new" => put'[p].of \in Media1
    <3>1. CASE put[p].state = "open"
      <4>1. put'[p] = Media!Over(p)
        BY <1>1, <3>1
      <4>2. QED BY <3>1, <4>1, RowsKeep DEF Media!Over, put
    <3>2. CASE put[p].state # "open"
      BY <1>1, <3>2, RowsKeep
    <3>3. QED BY <3>1, <3>2
  <2>2. QED BY <1>1, <2>1
<1>3. Waiting' = Waiting /\ Keys' = Keys
  BY <1>1 DEF Waiting, Keys
<1>4. KeysOwned'
  BY <1>1, <1>3 DEF MediaInv, KeysOwned
<1>5. MediaTyped'
  BY <1>1, <1>2 DEF MediaInv, MediaTyped
<1>6. FilesOfPuts'
  BY <1>1, <1>2, <1>3 DEF MediaInv, FilesOfPuts
<1>7. PeekedAreTheUsers' /\ HeldAreSent' /\ NoneForgotten'
  BY <1>1, <1>3 DEF MediaInv, PeekedAreTheUsers, HeldAreSent, NoneForgotten
<1>8. QED BY <1>4, <1>5, <1>6, <1>7 DEF MediaInv

(* Rows that leave the table: their keys are queued or lost.               *)
LEMMA DropIs ==
  ASSUME MediaInv, NEW media \in SUBSET Media1, NEW unlinked \in SUBSET Media1, Media!Drop(media, unlinked)
  PROVE  /\ DOMAIN row' = Media1
         /\ \A m \in Media1 : DOMAIN row'[m] = {"state", "by", "key", "expired"}
         /\ \A m \in media : row'[m].state = "gone" /\ row'[m].key = 0
         /\ \A m \in Media1 \ media : row'[m] = row[m]
         /\ link' = [m \in Media1 |-> IF m \in media \cup unlinked THEN 0 ELSE link[m]]
         /\ Media!Enqueued(media)
<1>1. PICK g : g = Media!Gone
  OBVIOUS
<1>2. DOMAIN g = {"state", "by", "key", "expired"} /\ g.state = "gone" /\ g.key = 0
  BY <1>1 DEF Media!Gone, Media!Nothing, Media!None
<1>3. /\ row' = [m \in Media1 |-> IF m \in media THEN g ELSE row[m]]
      /\ link' = [m \in Media1 |-> IF m \in media \cup unlinked THEN 0 ELSE link[m]]
      /\ Media!Enqueued(media)
  BY <1>1, MediaConstants DEF Media!Drop, Media!None, row, link
<1>4. QED BY <1>2, <1>3, RowsKeep

(* What such a step does to keys and files, when the gateway takes nothing *)
(* in hand but keys of theirs.                                             *)
LEMMA DropKeeps ==
  ASSUME MediaInv, NEW media \in SUBSET Media1, NEW unlinked \in SUBSET Media1, Media!Drop(media, unlinked),
         UNCHANGED <<put, objects>>, DOMAIN remove' = {"state", "user", "keys"}, remove'.keys = remove.keys,
         hand \subseteq hand', hand' \subseteq hand \cup {row[m].key : m \in {n \in media : row[n].state = "ready"}},
         step' \in {"idle", "prune", "drain"} => hand' = {}, step' = "renamed" => step = "renamed" /\ hand' = hand
  PROVE  /\ DOMAIN row' = Media1 /\ \A m \in Media1 : DOMAIN row'[m] = {"state", "by", "key", "expired"}
         /\ link' \in [Media1 -> Messages \cup {0}]
         /\ queue' \in Seq(Puts) /\ objects' \subseteq Puts
         /\ DOMAIN put' = Puts /\ \A p \in Puts : DOMAIN put'[p] = {"of", "by", "state"}
         /\ KeysOwned' /\ FilesOfPuts' /\ NoneForgotten'
<1> DEFINE Dropped == {row[m].key : m \in {n \in media : row[n].state = "ready"}}
<1>1. /\ DOMAIN row' = Media1
      /\ \A m \in Media1 : DOMAIN row'[m] = {"state", "by", "key", "expired"}
      /\ \A m \in media : row'[m].state = "gone" /\ row'[m].key = 0
      /\ \A m \in Media1 \ media : row'[m] = row[m]
      /\ link' = [m \in Media1 |-> IF m \in media \cup unlinked THEN 0 ELSE link[m]]
      /\ Media!Enqueued(media)
  BY DropIs
<1>2. /\ queue' \in Seq(Puts) /\ Waiting' \subseteq Waiting \cup Dropped
      /\ Waiting \cup lost \subseteq Waiting' \cup lost'
      /\ \A m \in media : row[m].state = "ready" => row[m].key \in Waiting' \cup lost'
  BY <1>1, EnqueuedIs
<1>3. link' \in [Media1 -> Messages \cup {0}]
  BY <1>1 DEF MediaInv, MediaTyped
<1>4. /\ objects' \subseteq Puts /\ DOMAIN put' = Puts /\ \A p \in Puts : DOMAIN put'[p] = {"of", "by", "state"}
      /\ Dropped \subseteq objects
  BY DEF MediaInv, MediaTyped, KeysOwned
<1>5. \A m \in Media1 : row'[m].state = "ready" => m \notin media /\ row'[m] = row[m] /\ row[m].key \notin Dropped
  BY <1>1 DEF MediaInv, KeysOwned
<1>6. KeysOwned'
  <2>1. \A m \in Media1 : row'[m].key # 0 <=> row'[m].state = "ready"
    BY <1>1 DEF MediaInv, KeysOwned
  <2>2. ASSUME NEW m \in Media1, row'[m].state = "ready"
        PROVE  row'[m].key \in Puts \cap objects' /\ row'[m].key \notin hand' \cup Waiting'
    <3>1. row'[m] = row[m] /\ row[m].key \notin Dropped /\ row[m].state = "ready"
      BY <1>5, <2>2
    <3>2. row[m].key \in Puts \cap objects /\ row[m].key \notin hand \cup Waiting
      BY <3>1 DEF MediaInv, KeysOwned
    <3> HIDE DEF Dropped
    <3>3. hand' \subseteq hand \cup Dropped
      BY DEF Dropped
    <3>4. QED BY <1>2, <3>1, <3>2, <3>3
  <2>3. ASSUME NEW m \in Media1, NEW n \in Media1, row'[m].state = "ready", row'[m].key = row'[n].key PROVE m = n
    <3>1. row'[n].state = "ready"
      BY <2>1, <2>3
    <3>2. row'[m] = row[m] /\ row'[n] = row[n]
      BY <1>5, <2>3, <3>1
    <3>3. QED BY <2>3, <3>2 DEF MediaInv, KeysOwned
  <2>4. QED BY <2>1, <2>2, <2>3 DEF KeysOwned
<1>7. FilesOfPuts'
  <2>1. ASSUME NEW p \in Puts, put[p].state # "over" PROVE p \notin objects \cup Waiting' \cup hand' \cup remove.keys
    <3>1. p \notin objects \cup Waiting \cup hand \cup remove.keys
      BY <2>1 DEF MediaInv, FilesOfPuts
    <3>2. hand' \subseteq hand \cup objects /\ Waiting' \subseteq Waiting \cup objects
      BY <1>2, <1>4
    <3>3. QED BY <3>1, <3>2
  <2>2. ASSUME step' = "renamed"
        PROVE  \E p \in Puts : hand' = {p} /\ put[p].state = "over" /\ p \in objects /\ p \notin Waiting' \cup remove.keys
    <3>1. PICK p \in Puts : hand = {p} /\ put[p].state = "over" /\ p \in objects /\ p \notin Waiting \cup remove.keys
      BY <2>2 DEF MediaInv, FilesOfPuts
    <3>2. p \notin Dropped
      BY <3>1 DEF MediaInv, KeysOwned
    <3> HIDE DEF Dropped
    <3>3. QED BY <1>2, <2>2, <3>1, <3>2
  <2>3. QED BY <2>1, <2>2 DEF MediaInv, FilesOfPuts
<1>8. NoneForgotten'
  <2>1. SUFFICES ASSUME NEW x \in objects PROVE x \in Keys' \cup Waiting' \cup hand' \cup lost'
    BY DEF NoneForgotten
  <2>2. CASE x \in Waiting \cup lost \cup hand
    BY <1>2, <2>2
  <2>3. CASE x \in Keys
    <3>1. PICK m \in Media1 : row[m].key = x
      BY <2>3 DEF Keys
    <3>2. row[m].state = "ready"
      BY <3>1, <2>1, MediaConstants, RowsKeep DEF MediaInv, MediaTyped
    <3>3. CASE m \in media
      BY <1>2, <3>1, <3>2, <3>3
    <3>4. CASE m \notin media
      BY <1>1, <3>1, <3>4 DEF Keys
    <3>5. QED BY <3>3, <3>4
  <2>4. QED BY <2>1, <2>2, <2>3 DEF MediaInv, NoneForgotten
<1>9. QED BY <1>1, <1>2, <1>3, <1>4, <1>6, <1>7, <1>8

(* A user's rows leave with what was peeked, or nobody's key is in it.     *)
LEMMA DropPeeked ==
  ASSUME MediaInv, NEW media \in SUBSET Media1, NEW unlinked \in SUBSET Media1, Media!Drop(media, unlinked),
         remove' = remove
  PROVE  PeekedAreTheUsers'
<1>1. \A m \in Media1 : row'[m].state = "ready" => row'[m] = row[m]
  BY DropIs
<1>2. QED BY <1>1 DEF MediaInv, PeekedAreTheUsers

(* Messages leave with what they hold.                                     *)
LEMMA PruneKeeps ==
  ASSUME MediaInv, Media!PruneMessages PROVE MediaInv'
<1>1. /\ step = "prune" /\ step' = "idle" /\ UNCHANGED <<put, objects, hand, remove>>
      /\ \/ Media!Discard(Media!Doomed({k \in Media!Message : Media!Sent(k)}))
         \/ UNCHANGED <<row, link, message, queue, lost>>
  BY DEF Media!PruneMessages, Media!transfers, Media!database, row, link, message, queue, put, objects, step, hand,
     remove, lost
<1>2. hand = {}
  BY <1>1 DEF MediaInv, FilesOfPuts
<1>3. CASE UNCHANGED <<row, link, message, queue, lost>>
  <2>1. Waiting' = Waiting /\ Keys' = Keys
    BY <1>3 DEF Waiting, Keys
  <2>2. KeysOwned'
    BY <1>1, <1>3, <2>1 DEF MediaInv, KeysOwned
  <2>3. MediaTyped' /\ FilesOfPuts'
    BY <1>1, <1>2, <1>3, <2>1 DEF MediaInv, MediaTyped, FilesOfPuts
  <2>4. PeekedAreTheUsers' /\ HeldAreSent' /\ NoneForgotten'
    BY <1>1, <1>3, <2>1 DEF MediaInv, PeekedAreTheUsers, HeldAreSent, NoneForgotten
  <2>5. QED BY <2>2, <2>3, <2>4 DEF MediaInv
<1>4. CASE Media!Discard(Media!Doomed({k \in Media!Message : Media!Sent(k)}))
  <2>1. PICK doomed : doomed = Media!Doomed({k \in Media!Message : Media!Sent(k)})
    OBVIOUS
  <2>2. doomed \subseteq Messages
    BY <2>1, MediaConstants DEF Media!Doomed
  <2>3. PICK media \in SUBSET Media1 :
          /\ media = {m \in Media1 : link[m] \in doomed} /\ Media!Drop(media, {})
          /\ message' = [k \in Messages |-> IF k \in doomed THEN Media!Deleted ELSE message[k]]
    BY <1>4, <2>1, MediaConstants DEF Media!Discard, link, message
  <2>4. /\ DOMAIN row' = Media1 /\ \A m \in Media1 : DOMAIN row'[m] = {"state", "by", "key", "expired"}
        /\ link' \in [Media1 -> Messages \cup {0}]
        /\ queue' \in Seq(Puts) /\ objects' \subseteq Puts
        /\ DOMAIN put' = Puts /\ \A p \in Puts : DOMAIN put'[p] = {"of", "by", "state"}
        /\ KeysOwned' /\ FilesOfPuts' /\ NoneForgotten'
    BY <1>1, <1>2, <2>3, DropKeeps DEF MediaInv, MediaTyped
  <2>5. DOMAIN message' = Messages /\ \A k \in Messages : DOMAIN message'[k] = {"state", "from", "to"}
    <3>1. PICK d : d = Media!Deleted
      OBVIOUS
    <3>2. DOMAIN d = {"state", "from", "to"}
      BY <3>1 DEF Media!Deleted, Media!Unsent
    <3>3. QED BY <2>3, <3>1, <3>2 DEF MediaInv, MediaTyped
  <2>6. MediaTyped'
    BY <1>1, <2>4, <2>5 DEF MediaInv, MediaTyped
  <2>7. PeekedAreTheUsers'
    BY <1>1, <2>3, DropPeeked
  <2>8. HeldAreSent'
    <3>0. /\ \A m \in Media1 \ media : row'[m] = row[m]
          /\ link' = [m \in Media1 |-> IF m \in media \cup {} THEN 0 ELSE link[m]]
      BY <2>3, DropIs
    <3>1. SUFFICES ASSUME NEW m \in Media1, link'[m] # 0
                   PROVE  /\ message'[link'[m]].state = "sent"
                          /\ row'[m].state = "ready" /\ row'[m].by = message'[link'[m]].from
      BY DEF HeldAreSent
    <3>2. m \notin media /\ link'[m] = link[m] /\ row'[m] = row[m]
      BY <3>0, <3>1
    <3>3. link[m] \in Messages /\ link[m] \notin doomed
      BY <2>3, <3>1, <3>2 DEF MediaInv, MediaTyped
    <3>4. message'[link[m]] = message[link[m]]
      BY <2>3, <3>3
    <3>5. QED BY <3>1, <3>2, <3>4 DEF MediaInv, HeldAreSent
  <2>9. QED BY <2>4, <2>6, <2>7, <2>8 DEF MediaInv
<1>5. QED BY <1>1, <1>3, <1>4

LEMMA SweepKeeps ==
  ASSUME MediaInv, Media!Sweep PROVE MediaInv'
<1>1. PICK media \in SUBSET Media1 : media = Media!Unwanted
  BY MediaConstants DEF Media!Unwanted
<1>2. /\ step = "idle" /\ step' = "pruned" /\ Media!Drop(media, {})
      /\ hand' = {row[m].key : m \in media} \ {0}
      /\ UNCHANGED <<message, put, objects, remove>>
  BY <1>1 DEF Media!Sweep, Media!Idle, Media!None, Media!transfers, row, message, put, objects, step, hand, remove
<1>3. hand = {}
  BY <1>2 DEF MediaInv, FilesOfPuts
<1>4. hand' \subseteq {row[m].key : m \in {n \in media : row[n].state = "ready"}}
  BY <1>2, RowsKeep
<1>5. /\ DOMAIN row' = Media1 /\ \A m \in Media1 : DOMAIN row'[m] = {"state", "by", "key", "expired"}
      /\ link' \in [Media1 -> Messages \cup {0}]
      /\ queue' \in Seq(Puts) /\ objects' \subseteq Puts
      /\ DOMAIN put' = Puts /\ \A p \in Puts : DOMAIN put'[p] = {"of", "by", "state"}
      /\ KeysOwned' /\ FilesOfPuts' /\ NoneForgotten'
  BY <1>2, <1>3, <1>4, DropKeeps DEF MediaInv, MediaTyped
<1>6. MediaTyped'
  BY <1>2, <1>5 DEF MediaInv, MediaTyped
<1>7. PeekedAreTheUsers'
  BY <1>2, DropPeeked
<1>8. HeldAreSent'
  <2>1. \A m \in Media1 : link'[m] # 0 => m \notin media /\ link'[m] = link[m] /\ row'[m] = row[m]
    BY <1>2, DropIs
  <2>2. QED BY <1>2, <2>1 DEF MediaInv, HeldAreSent
<1>9. QED BY <1>5, <1>6, <1>7, <1>8 DEF MediaInv

LEMMA DrainKeeps ==
  ASSUME MediaInv, Media!Drain PROVE MediaInv'
<1>1. PICK n : n = IF Len(queue) < DrainMax THEN Len(queue) ELSE DrainMax
  OBVIOUS
<1>2. /\ step = "drain" /\ step' = "unlink" /\ hand' = {queue[i] : i \in 1 .. n}
      /\ queue' = SubSeq(queue, n + 1, Len(queue))
      /\ UNCHANGED <<row, link, message, put, objects, remove, lost>>
  BY <1>1 DEF Media!Drain, Media!transfers, row, link, message, queue, put, objects, step, hand, remove, lost
<1>3. hand = {}
  BY <1>2 DEF MediaInv, FilesOfPuts
<1>4. queue \in Seq(Puts) /\ n \in 0 .. Len(queue) /\ Len(queue) \in Nat
  BY <1>1, MediaConstants DEF MediaInv, MediaTyped
<1>5. /\ queue' \in Seq(Puts) /\ Len(queue') = Len(queue) - n
      /\ \A i \in 1 .. Len(queue) - n : queue'[i] = queue[n + i]
  <2>1. PICK t : t = SubSeq(queue, n + 1, Len(queue))
    OBVIOUS
  <2>2. t \in Seq(Puts) /\ Len(t) = Len(queue) - n /\ \A i \in 1 .. Len(queue) - n : t[i] = queue[n + i]
    BY <1>4, <2>1, FromOn
  <2>3. QED BY <1>2, <2>1, <2>2
<1>6. Waiting = Waiting' \cup hand'
  <2>1. ASSUME NEW i \in DOMAIN queue PROVE queue[i] \in Waiting' \cup hand'
    <3>1. CASE i <= n
      BY <1>2, <1>4, <3>1
    <3>2. CASE ~(i <= n)
      <4>1. i - n \in DOMAIN queue' /\ queue'[i - n] = queue[i]
        BY <1>4, <1>5, <3>2
      <4>2. QED BY <4>1 DEF Waiting
    <3>3. QED BY <3>1, <3>2
  <2>2. ASSUME NEW i \in DOMAIN queue' PROVE queue'[i] \in Waiting
    <3>1. n + i \in DOMAIN queue /\ queue'[i] = queue[n + i]
      BY <1>4, <1>5
    <3>2. QED BY <3>1 DEF Waiting
  <2>3. hand' \subseteq Waiting
    BY <1>2, <1>4 DEF Waiting
  <2>4. QED BY <2>1, <2>2, <2>3 DEF Waiting
<1>7. Keys' = Keys
  BY <1>2 DEF Keys
<1>8. MediaTyped'
  BY <1>2, <1>5 DEF MediaInv, MediaTyped
<1>9. KeysOwned'
  BY <1>2, <1>6 DEF MediaInv, KeysOwned
<1>10. FilesOfPuts'
  BY <1>2, <1>6 DEF MediaInv, FilesOfPuts
<1>11. PeekedAreTheUsers' /\ HeldAreSent'
  BY <1>2 DEF MediaInv, PeekedAreTheUsers, HeldAreSent
<1>12. NoneForgotten'
  BY <1>2, <1>3, <1>6, <1>7 DEF MediaInv, NoneForgotten
<1>13. QED BY <1>8, <1>9, <1>10, <1>11, <1>12 DEF MediaInv

LEMMA PostKeeps ==
  ASSUME MediaInv, NEW u, NEW k \in Messages, NEW media \in SUBSET Media1, Media!Post(u, k, media)
  PROVE  MediaInv'
<1>1. PICK to : Media!Insert(u, to, k, media)
  BY DEF Media!Post
<1>2. /\ step = "idle" /\ message[k].state = "none"
      /\ UNCHANGED <<row, queue, put, objects, hand, remove, lost>>
  BY DEF Media!Post, Media!Idle, Media!transfers, row, message, queue, put, objects, step, hand, remove, lost
<1>3. PICK e : e = [state |-> "sent", from |-> u, to |-> to]
  OBVIOUS
<1>4. /\ message' = [message EXCEPT ![k] = e]
      /\ link' = [m \in Media1 |-> IF m \in media THEN k ELSE link[m]]
      /\ step' \in {"prune", "idle"}
      /\ \A m \in media : row[m].by = u /\ row[m].state = "ready"
  BY <1>1, <1>3, MediaConstants DEF Media!Insert, Media!Attachable, Media!AttachableAgain, row, link, message, step
<1>5. /\ DOMAIN message' = Messages /\ message'[k].state = "sent" /\ message'[k].from = u
      /\ \A n \in Messages : DOMAIN message'[n] = {"state", "from", "to"}
      /\ \A n \in Messages : n # k => message'[n] = message[n]
  BY <1>3, <1>4 DEF MediaInv, MediaTyped
<1>6. Waiting' = Waiting /\ Keys' = Keys /\ hand = {}
  BY <1>2 DEF Waiting, Keys, MediaInv, FilesOfPuts
<1>7. MediaTyped'
  BY <1>2, <1>4, <1>5 DEF MediaInv, MediaTyped
<1>8. KeysOwned'
  BY <1>2, <1>6 DEF MediaInv, KeysOwned
<1>9. FilesOfPuts'
  BY <1>2, <1>4, <1>6 DEF MediaInv, FilesOfPuts
<1>10. PeekedAreTheUsers' /\ NoneForgotten'
  BY <1>2, <1>6 DEF MediaInv, PeekedAreTheUsers, NoneForgotten
<1>11. HeldAreSent'
  <2>1. SUFFICES ASSUME NEW m \in Media1, link'[m] # 0
                 PROVE  /\ message'[link'[m]].state = "sent"
                        /\ row[m].state = "ready" /\ row[m].by = message'[link'[m]].from
    BY <1>2 DEF HeldAreSent
  <2>2. CASE m \in media
    BY <1>4, <1>5, <2>2
  <2>3. CASE m \notin media
    <3>1. link'[m] = link[m] /\ link[m] \in Messages /\ message[link[m]].state = "sent"
      BY <1>4, <2>1, <2>3 DEF MediaInv, MediaTyped, HeldAreSent
    <3>2. link[m] # k
      BY <1>2, <3>1
    <3>3. QED BY <1>5, <2>1, <3>1, <3>2 DEF MediaInv, HeldAreSent
  <2>4. QED BY <2>2, <2>3
<1>12. QED BY <1>7, <1>8, <1>9, <1>10, <1>11 DEF MediaInv

LEMMA PeekKeeps ==
  ASSUME MediaInv, NEW u, Media!Peek(u) PROVE MediaInv'
<1>1. PICK keys : keys = {row[m].key : m \in {n \in Media1 : row[n].by = u}} \ {0}
  OBVIOUS
<1>2. /\ remove' = [state |-> "peeked", user |-> u, keys |-> keys]
      /\ UNCHANGED <<row, link, message, queue, put, objects, step, hand, lost>>
  BY <1>1, MediaConstants DEF Media!Peek, Media!None, Media!transfers, Media!database, row, link, message, queue, put,
     objects, step, hand, remove, lost
<1>3. Waiting' = Waiting /\ Keys' = Keys
  BY <1>2 DEF Waiting, Keys
<1>4. DOMAIN remove' = {"state", "user", "keys"} /\ remove'.state = "peeked" /\ remove'.user = u /\ remove'.keys = keys
  BY <1>2
<1>5. keys \subseteq objects /\ keys \cap hand = {}
  BY <1>1, RowsKeep DEF MediaInv, KeysOwned
<1>6. MediaTyped' /\ KeysOwned'
  <2>1. MediaTyped'
    BY <1>2, <1>4 DEF MediaInv, MediaTyped
  <2>2. KeysOwned'
    BY <1>2, <1>3 DEF MediaInv, KeysOwned
  <2>3. QED BY <2>1, <2>2
<1>7. FilesOfPuts'
  BY <1>2, <1>3, <1>4, <1>5 DEF MediaInv, FilesOfPuts
<1>8. PeekedAreTheUsers'
  <2>1. ASSUME NEW m \in Media1, row[m].state = "ready", row[m].key \in keys PROVE row[m].by = u
    <3>1. PICK n \in Media1 : row[n].by = u /\ row[n].key = row[m].key
      BY <1>1, <2>1
    <3>2. QED BY <2>1, <3>1 DEF MediaInv, KeysOwned
  <2>2. QED BY <1>2, <1>4, <2>1 DEF PeekedAreTheUsers
<1>9. HeldAreSent' /\ NoneForgotten'
  BY <1>2, <1>3 DEF MediaInv, HeldAreSent, NoneForgotten
<1>10. QED BY <1>6, <1>7, <1>8, <1>9 DEF MediaInv

(* A removal that is over leaves nothing to be unlinked.                   *)
LEMMA RemovalOver ==
  ASSUME MediaInv, remove' = [state |-> "over", user |-> Nobody, keys |-> {}],
         UNCHANGED <<row, link, message, queue, put, step, hand, lost>>,
         objects' \subseteq objects, \A m \in Media1 : row[m].state = "ready" => row[m].key \in objects',
         objects \ objects' \subseteq remove.keys
  PROVE  MediaInv'
<1>1. Waiting' = Waiting /\ Keys' = Keys
  BY DEF Waiting, Keys
<1>2. DOMAIN remove' = {"state", "user", "keys"} /\ remove'.state = "over" /\ remove'.keys = {}
  OBVIOUS
<1>3. MediaTyped'
  BY <1>2 DEF MediaInv, MediaTyped
<1>4. KeysOwned'
  BY <1>1 DEF MediaInv, KeysOwned
<1>5. FilesOfPuts'
  BY <1>1, <1>2 DEF MediaInv, FilesOfPuts
<1>6. PeekedAreTheUsers' /\ HeldAreSent' /\ NoneForgotten'
  BY <1>1, <1>2 DEF MediaInv, PeekedAreTheUsers, HeldAreSent, NoneForgotten
<1>7. QED BY <1>3, <1>4, <1>5, <1>6 DEF MediaInv

LEMMA DeleteKeeps ==
  ASSUME MediaInv, Media!Delete PROVE MediaInv'
<1>1. /\ remove.state = "peeked" /\ UNCHANGED <<put, objects, step, hand>>
      /\ \/ /\ remove' = [remove EXCEPT !.state = "deleted"]
            /\ LET involved == {k \in Messages : message[k].state = "sent"
                                                 /\ remove.user \in {message[k].from, message[k].to}}
               IN  /\ message' = [k \in Messages |-> IF k \in involved THEN Media!Deleted ELSE message[k]]
                   /\ Media!Drop({m \in Media1 : row[m].by = remove.user}, {m \in Media1 : link[m] \in involved})
         \/ /\ remove' = [state |-> "over", user |-> Nobody, keys |-> {}]
            /\ UNCHANGED <<row, link, message, queue, lost>>
  BY MediaConstants DEF Media!Delete, Media!Sent, Media!Released, Media!transfers, Media!database, row, link, message,
     queue, put, objects, step, hand, remove, lost
<1>2. CASE /\ remove' = [state |-> "over", user |-> Nobody, keys |-> {}]
           /\ UNCHANGED <<row, link, message, queue, lost>>
  BY <1>1, <1>2, RemovalOver DEF MediaInv, KeysOwned
<1>3. ASSUME NEW involved, NEW media, NEW unlinked,
             involved = {k \in Messages : message[k].state = "sent" /\ remove.user \in {message[k].from, message[k].to}},
             media = {m \in Media1 : row[m].by = remove.user}, unlinked = {m \in Media1 : link[m] \in involved},
             remove' = [remove EXCEPT !.state = "deleted"],
             message' = [k \in Messages |-> IF k \in involved THEN Media!Deleted ELSE message[k]],
             Media!Drop(media, unlinked)
      PROVE  MediaInv'
  <2>1. DOMAIN remove' = {"state", "user", "keys"} /\ remove'.keys = remove.keys /\ remove'.state = "deleted"
    BY <1>3 DEF MediaInv, MediaTyped
  <2>2. media \in SUBSET Media1 /\ unlinked \in SUBSET Media1
    BY <1>3
  <2>3. /\ DOMAIN row' = Media1 /\ \A m \in Media1 : DOMAIN row'[m] = {"state", "by", "key", "expired"}
        /\ link' \in [Media1 -> Messages \cup {0}]
        /\ queue' \in Seq(Puts) /\ objects' \subseteq Puts
        /\ DOMAIN put' = Puts /\ \A p \in Puts : DOMAIN put'[p] = {"of", "by", "state"}
        /\ KeysOwned' /\ FilesOfPuts' /\ NoneForgotten'
    <3>1. step \in {"idle", "prune", "drain"} => hand = {}
      BY DEF MediaInv, FilesOfPuts
    <3>2. QED BY <1>1, <1>3, <2>1, <2>2, <3>1, DropKeeps
  <2>4. DOMAIN message' = Messages /\ \A k \in Messages : DOMAIN message'[k] = {"state", "from", "to"}
    <3>1. PICK d : d = Media!Deleted
      OBVIOUS
    <3>2. DOMAIN d = {"state", "from", "to"}
      BY <3>1 DEF Media!Deleted, Media!Unsent
    <3>3. QED BY <1>3, <3>1, <3>2 DEF MediaInv, MediaTyped
  <2>5. MediaTyped'
    BY <2>1, <2>3, <2>4 DEF MediaInv, MediaTyped
  <2>6. /\ \A m \in media : row'[m].state = "gone" /\ row'[m].key = 0
        /\ \A m \in Media1 \ media : row'[m] = row[m]
        /\ link' = [m \in Media1 |-> IF m \in media \cup unlinked THEN 0 ELSE link[m]]
    BY <1>3, <2>2, DropIs
  <2>7. PeekedAreTheUsers'
    <3>1. ASSUME NEW m \in Media1, row'[m].state = "ready" PROVE row'[m].key \notin remove.keys
      <4>1. m \notin media /\ row'[m] = row[m]
        BY <2>6, <3>1
      <4>2. row[m].by # remove.user /\ row[m].state = "ready"
        BY <1>3, <3>1, <4>1
      <4>3. QED BY <1>1, <4>1, <4>2 DEF MediaInv, PeekedAreTheUsers
    <3>2. QED BY <2>1, <3>1 DEF PeekedAreTheUsers
  <2>8. HeldAreSent'
    <3>1. SUFFICES ASSUME NEW m \in Media1, link'[m] # 0
                   PROVE  /\ message'[link'[m]].state = "sent"
                          /\ row'[m].state = "ready" /\ row'[m].by = message'[link'[m]].from
      BY DEF HeldAreSent
    <3>2. m \notin media /\ m \notin unlinked /\ link'[m] = link[m] /\ row'[m] = row[m]
      BY <2>6, <3>1
    <3>3. link[m] \in Messages /\ link[m] \notin involved
      BY <1>3, <3>1, <3>2 DEF MediaInv, MediaTyped
    <3>4. message'[link[m]] = message[link[m]]
      BY <1>3, <3>3
    <3>5. QED BY <3>1, <3>2, <3>4 DEF MediaInv, HeldAreSent
  <2>9. QED BY <2>3, <2>5, <2>7, <2>8 DEF MediaInv
<1>4. QED BY <1>1, <1>2, <1>3

LEMMA UnlinkPeekedKeeps ==
  ASSUME MediaInv, Media!UnlinkPeeked PROVE MediaInv'
<1>1. /\ remove.state = "deleted" /\ objects' \subseteq objects /\ objects \ objects' \subseteq remove.keys
      /\ remove' = [state |-> "over", user |-> Nobody, keys |-> {}]
      /\ UNCHANGED <<row, link, message, queue, put, step, hand, lost>>
  BY DEF Media!UnlinkPeeked, Media!database, row, link, message, queue, put, objects, step, hand, remove, lost
<1>2. \A m \in Media1 : row[m].state = "ready" => row[m].key \in objects'
  BY <1>1 DEF MediaInv, KeysOwned, PeekedAreTheUsers
<1>3. QED BY <1>1, <1>2, RemovalOver

LEMMA MediaRests ==
  ASSUME MediaInv, UNCHANGED <<row, link, message, queue, put, objects, step, hand, remove, lost>> PROVE MediaInv'
<1>1. \A m \in Media1 : row[m].state # "ready" => row[m].key = 0
  BY RowsKeep
<1>2. QED BY RowsTouched, RowsKeep

LEMMA MediaStep ==
  ASSUME MediaInv, Media!Next PROVE MediaInv'
<1>1. CASE \E u \in Users, m \in Media1 : Media!Announce(u, m)
  BY <1>1, AnnounceKeeps
<1>2. CASE \E m \in Media1 : Media!Expire(m)
  BY <1>2, ExpireKeeps
<1>3. CASE \E p \in Puts, m \in Media1 : Media!Open(p, m)
  BY <1>3, OpenKeeps
<1>4. CASE \E p \in Puts : Media!Fail(p) \/ Media!Rename(p) \/ Media!Finalize(p) \/ Media!PruneTemps(p)
  <2>1. PICK p \in Puts : Media!Fail(p) \/ Media!Rename(p) \/ Media!Finalize(p) \/ Media!PruneTemps(p)
    BY <1>4
  <2>2. CASE Media!PruneTemps(p)
    BY <2>2, MediaRests DEF Media!PruneTemps, Media!database, row, link, message, queue, put, objects, step, hand,
       remove, lost
  <2>3. QED BY <2>1, <2>2, FailKeeps, RenameKeeps, FinalizeKeeps
<1>5. CASE \E u \in Users, k \in Messages, media \in SUBSET Media1 : Media!Post(u, k, media)
  BY <1>5, PostKeeps
<1>6. CASE Media!PruneMessages \/ Media!Sweep \/ Media!Drain \/ Media!Unlink
  BY <1>6, PruneKeeps, SweepKeeps, DrainKeeps, UnlinkKeeps
<1>7. CASE (\E u \in Users : Media!Peek(u)) \/ Media!Delete \/ Media!UnlinkPeeked \/ Media!Crash
  BY <1>7, PeekKeeps, DeleteKeeps, UnlinkPeekedKeeps, CrashKeeps
<1>8. QED BY <1>1, <1>2, <1>3, <1>4, <1>5, <1>6, <1>7, MediaConstants DEF Media!Next

LEMMA MediaInit ==
  ASSUME Media!Init PROVE MediaInv
<1>1. PICK n : n = Media!Nothing
  OBVIOUS
<1>2. PICK e : e = Media!Unsent
  OBVIOUS
<1>3. PICK q : q = [of |-> Media!None, by |-> Nobody, state |-> "new"]
  OBVIOUS
<1>4. /\ row = [m \in Media1 |-> n] /\ link = [m \in Media1 |-> 0] /\ message = [k \in Messages |-> e]
      /\ queue = <<>> /\ lost = {} /\ put = [p \in Puts |-> q] /\ objects = {} /\ step = "idle" /\ hand = {}
      /\ remove = [state |-> "idle", user |-> Nobody, keys |-> {}]
  BY <1>1, <1>2, <1>3, MediaConstants DEF Media!Init, Media!None, row, link, message, queue, put, objects, step, hand,
     remove, lost
<1>5. DOMAIN n = {"state", "by", "key", "expired"} /\ n.key = 0 /\ n.state = "none"
  BY <1>1 DEF Media!Nothing, Media!None
<1>6. DOMAIN e = {"state", "from", "to"}
  BY <1>2 DEF Media!Unsent
<1>7. DOMAIN q = {"of", "by", "state"} /\ q.state = "new"
  BY <1>3
<1>8. DOMAIN remove = {"state", "user", "keys"} /\ remove.state = "idle" /\ remove.keys = {}
  BY <1>4
<1>9. MediaTyped
  BY <1>4, <1>5, <1>6, <1>7, <1>8 DEF MediaTyped
<1>10. KeysOwned
  BY <1>4, <1>5 DEF KeysOwned
<1>11. FilesOfPuts
  BY <1>4, <1>7, <1>8 DEF FilesOfPuts, Waiting
<1>12. PeekedAreTheUsers /\ HeldAreSent /\ NoneForgotten
  BY <1>4, <1>8 DEF PeekedAreTheUsers, HeldAreSent, NoneForgotten
<1>13. QED BY <1>9, <1>10, <1>11, <1>12 DEF MediaInv

LEMMA MediaShown ==
  ASSUME MediaInv PROVE Media!ShownIsServed /\ Media!NoFileForgotten
<1>1. Media!ShownIsServed
  <2>1. ASSUME NEW m \in Media1, NEW u, Media!Listed(u, m) PROVE Media!Served(u, m)
    BY <2>1 DEF Media!Served, Media!Listed, MediaInv, KeysOwned, row, objects
  <2>2. ASSUME NEW m \in Media1, Media!Holds(m)
        PROVE  Media!Sent(link[m]) /\ row[m].state = "ready" /\ row[m].by = message[link[m]].from
    BY <2>2 DEF Media!Holds, Media!Sent, Media!None, MediaInv, HeldAreSent, link, message
  <2>3. QED BY <2>1, <2>2, MediaConstants DEF Media!ShownIsServed, row, link, message
<1>2. Media!NoFileForgotten
  BY MediaConstants DEF MediaInv, NoneForgotten, Keys, Waiting, Media!NoFileForgotten, row, queue, objects, hand, lost
<1>3. QED BY <1>1, <1>2


(* The media keep the invariant, and a step of another part leaves it be.  *)
LEMMA MediaHolds ==
  ChatSpec => [](part = "media" => MediaInv)
<1> DEFINE Inv == part = "media" => MediaInv
<1>1. ChatInit => Inv
  BY MediaInit DEF ChatInit
<1>2. Inv /\ [ChatNext]_suiteVars => Inv'
  <2>1. SUFFICES ASSUME Inv, [ChatNext]_suiteVars, part' = "media" PROVE MediaInv'
    OBVIOUS
  <2>2. part = "media" /\ MediaInv
    BY <2>1, ChatPartStays
  <2>3. CASE MediaSteps
    BY <2>2, <2>3, MediaStep DEF MediaSteps
  <2>4. CASE UNCHANGED suiteVars
    BY <2>2, <2>4, MediaRests DEF suiteVars, row, link, message, queue, put, objects, step, hand, remove, lost
  <2>5. QED BY <2>1, <2>2, <2>3, <2>4 DEF ChatNext, UploadsSteps, StreamsSteps, InboxSteps
<1> HIDE DEF Inv
<1>3. ChatSpec => []Inv
  BY <1>1, <1>2, PTL DEF ChatSpec
<1>4. QED BY <1>3 DEF Inv

(* What a message shows can be fetched, and no file is forgotten but by a  *)
(* kill, a full queue or an unlink that fails when no queue holds the key, *)
(* however many users and uploads there are (media.ts, db.ts).             *)
THEOREM MediaIsWhole == ChatSpec => []MediaWhole
<1>1. (part = "media" => MediaInv) => MediaWhole
  BY MediaShown DEF MediaWhole
<1>2. QED BY <1>1, MediaHolds, PTL

------------------------------------------------------------------------------
(* What becomes of a medium that a message holds.                          *)
HeldStays(m) ==
  \/ link'[m] = link[m]
  \/ message'[link[m]].state = "gone"
  \/ remove.state = "peeked" /\ remove'.state = "deleted" /\ row[m].by = remove.user

LEMMA LinksDropped ==
  ASSUME NEW media, NEW unlinked, Media!Drop(media, unlinked)
  PROVE  link' = [m \in Media1 |-> IF m \in media \cup unlinked THEN 0 ELSE link[m]]
  BY MediaConstants DEF Media!Drop, Media!None, link

(* It leaves a message only with the message or with its owner.            *)
LEMMA MediaStayHeld ==
  ASSUME MediaInv, Media!Next, NEW m \in Media1, link[m] # 0 PROVE HeldStays(m)
<1>1. link[m] \in Messages /\ DOMAIN message = Messages
  BY DEF MediaInv, MediaTyped
<1>2. PICK d : d = Media!Deleted /\ d.state = "gone"
  <2>1. PICK d : d = Media!Deleted
    OBVIOUS
  <2>2. d.state = "gone"
    BY <2>1 DEF Media!Deleted, Media!Unsent
  <2>3. QED BY <2>1, <2>2
<1>3. CASE Media!PruneMessages
  <2>1. CASE UNCHANGED link
    BY <2>1 DEF HeldStays
  <2>2. CASE Media!Discard(Media!Doomed({k \in Media!Message : Media!Sent(k)}))
    <3>1. PICK doomed : doomed = Media!Doomed({k \in Media!Message : Media!Sent(k)})
      OBVIOUS
    <3>2. PICK media \in SUBSET Media1 :
            /\ media = {n \in Media1 : link[n] \in doomed} /\ Media!Drop(media, {})
            /\ message' = [k \in Messages |-> IF k \in doomed THEN d ELSE message[k]]
      BY <1>2, <2>2, <3>1, MediaConstants DEF Media!Discard, link, message
    <3>3. link' = [n \in Media1 |-> IF n \in media \cup {} THEN 0 ELSE link[n]]
      BY <3>2, LinksDropped
    <3>4. QED BY <1>1, <1>2, <3>2, <3>3 DEF HeldStays
  <2>3. QED BY <1>3, <2>1, <2>2 DEF Media!PruneMessages, Media!database, link
<1>4. CASE Media!Sweep
  <2>1. PICK media \in SUBSET Media1 : media = {n \in Media1 : row[n].expired /\ link[n] = 0} /\ Media!Drop(media, {})
    BY <1>4, MediaConstants DEF Media!Sweep, Media!Unwanted, Media!Holds, Media!None, row, link
  <2>2. link' = [n \in Media1 |-> IF n \in media \cup {} THEN 0 ELSE link[n]]
    BY <2>1, LinksDropped
  <2>3. QED BY <2>1, <2>2 DEF HeldStays
<1>5. CASE Media!Delete
  <2>1. CASE UNCHANGED link
    BY <2>1 DEF HeldStays
  <2>2. ASSUME NEW involved, NEW media, NEW unlinked,
               involved = {k \in Messages : message[k].state = "sent" /\ remove.user \in {message[k].from, message[k].to}},
               media = {n \in Media1 : row[n].by = remove.user}, unlinked = {n \in Media1 : link[n] \in involved},
               remove.state = "peeked", remove' = [remove EXCEPT !.state = "deleted"],
               message' = [k \in Messages |-> IF k \in involved THEN d ELSE message[k]],
               Media!Drop(media, unlinked)
        PROVE  HeldStays(m)
    <3>1. link' = [n \in Media1 |-> IF n \in media \cup unlinked THEN 0 ELSE link[n]]
      BY <2>2, LinksDropped
    <3>2. remove'.state = "deleted"
      BY <2>2 DEF MediaInv, MediaTyped
    <3>3. CASE m \in media
      BY <2>2, <3>2, <3>3 DEF HeldStays
    <3>4. CASE m \in unlinked
      BY <1>1, <1>2, <2>2, <3>4 DEF HeldStays
    <3>5. QED BY <3>1, <3>3, <3>4 DEF HeldStays
  <2>3. /\ remove.state = "peeked"
        /\ \/ /\ remove' = [remove EXCEPT !.state = "deleted"]
              /\ LET involved == {k \in Messages : message[k].state = "sent"
                                                   /\ remove.user \in {message[k].from, message[k].to}}
                 IN  /\ message' = [k \in Messages |-> IF k \in involved THEN d ELSE message[k]]
                     /\ Media!Drop({n \in Media1 : row[n].by = remove.user}, {n \in Media1 : link[n] \in involved})
           \/ UNCHANGED link
    BY <1>2, <1>5, MediaConstants DEF Media!Delete, Media!Sent, Media!Released, Media!database, row, link, message, remove
  <2>4. QED BY <2>1, <2>2, <2>3
<1>6. CASE \E u \in Users, k \in Messages, media \in SUBSET Media1 : Media!Post(u, k, media)
  <2>1. PICK u \in Users, k \in Messages, media \in SUBSET Media1 : Media!Post(u, k, media)
    BY <1>6
  <2>2. /\ \A n \in media : link[n] = 0
        /\ link' = [n \in Media1 |-> IF n \in media THEN k ELSE link[n]]
    BY <2>1, MediaConstants DEF Media!Post, Media!Insert, Media!Attachable, Media!Holds, Media!None, link
  <2>3. QED BY <2>2 DEF HeldStays
<1>7. CASE UNCHANGED link
  BY <1>7 DEF HeldStays
<1>8. CASE \/ \E u \in Users, n \in Media1 : Media!Announce(u, n)
           \/ \E n \in Media1 : Media!Expire(n)
           \/ \E p \in Puts, n \in Media1 : Media!Open(p, n)
           \/ \E p \in Puts : Media!Fail(p) \/ Media!Rename(p) \/ Media!Finalize(p) \/ Media!PruneTemps(p)
           \/ Media!Drain \/ Media!Unlink \/ (\E u \in Users : Media!Peek(u)) \/ Media!UnlinkPeeked \/ Media!Crash
  BY <1>7, <1>8 DEF Media!Announce, Media!Expire, Media!Open, Media!Fail, Media!Rename, Media!Finalize, Media!PruneTemps,
     Media!Drain, Media!Unlink, Media!Peek, Media!UnlinkPeeked, Media!Crash, Media!database, link
<1>9. QED BY <1>3, <1>4, <1>5, <1>6, <1>8, MediaConstants DEF Media!Next

(* A medium once in a message stays in it until message or user is         *)
(* deleted: it is neither given to another nor swept (db.ts).              *)
THEOREM MediaStayInMessages == ChatSpec => MediaStay
<1> DEFINE Inv == part = "media" => MediaInv
<1>1. Inv /\ [ChatNext]_suiteVars => [part = "media" => Media!StaysHeld]_suiteVars
  <2>1. SUFFICES ASSUME Inv, ChatNext, part = "media" PROVE Media!StaysHeld
    OBVIOUS
  <2>2. Media!Next /\ MediaInv
    BY <2>1 DEF ChatNext, MediaSteps, UploadsSteps, StreamsSteps, InboxSteps
  <2>3. \A m \in Media1 : link[m] # 0 => HeldStays(m)
    BY <2>2, MediaStayHeld
  <2>4. QED BY <2>3, MediaConstants DEF HeldStays, Media!StaysHeld, Media!Holds, Media!None, row, link, message, remove
<1>2. ChatSpec => []Inv
  BY MediaHolds
<1> HIDE DEF Inv
<1>3. QED BY <1>1, <1>2, PTL DEF ChatSpec, MediaStay

------------------------------------------------------------------------------
(* ChatInbox.                                                              *)

base == x1
lastId == x2
cursor == x3
list == x5
poll == x7
post == x8
noticed == x9
counted == x10
written == x11

InboxVars == <<x1, x2, x3, x4, x5, x6, x7, x8, x9, x10, x11, x12, x13>>

Asking == poll.at # "idle"
Answered == poll.at = "answered"
Got == poll.got

InboxTyped ==
  /\ IsFiniteSet(base) /\ IsFiniteSet(list) /\ IsFiniteSet(Got) /\ IsFiniteSet(post.msg)
  /\ lastId \in Nat /\ cursor \in Nat /\ written \in Nat
  /\ lastId <= written /\ written <= MaxIds
  /\ DOMAIN poll = {"at", "since", "got", "reset"}
  /\ DOMAIN counted = 1 .. MaxIds

(* A number belongs to one message, and the messages of one database are   *)
(* numbered in the order in which they were written.                       *)
Numbering ==
  /\ \A m \in base \cup Got \cup post.msg : m.id \in 1 .. lastId /\ m.uid = m.id + (written - lastId)
  /\ \A m \in base, y \in base \cup Got \cup post.msg : m.id = y.id => m = y
  /\ \A y \in post.msg : y.own
  /\ \A m \in list : m.id \in Nat

(* Either the cursor is within the database, or the panel has yet to be    *)
(* told that this is another one.                                          *)
CursorIsWithin == IF noticed THEN cursor <= lastId ELSE lastId < cursor

(* An answer is to the cursor, and whole between its first and its last.   *)
AnswerIsWhole ==
  /\ Asking => poll.since = cursor
  /\ ~Answered => Got = {}
  /\ Answered =>
       /\ (~noticed => poll.reset) /\ (poll.reset => poll.since > 0)
       /\ ~poll.reset /\ poll.since > 0 =>
            /\ \A y \in Got : y.id > poll.since
            /\ \A m \in base, y \in Got : poll.since < m.id /\ m.id <= y.id => m \in Got
       /\ poll.reset \/ poll.since = 0 =>
            \A m \in base, x \in Got, y \in Got : x.id < m.id /\ m.id <= y.id => m \in Got
       /\ poll.reset /\ noticed =>
            \A m \in base : m.id <= cursor => \E y \in Got : m.id <= y.id

(* Others' messages are shown up to the cursor, without a gap.             *)
ListIsWhole ==
  noticed =>
    /\ \A x \in list : ~x.own => 0 < x.id /\ x.id <= cursor
    /\ \A m \in base, x \in list : m.id <= cursor /\ ~x.own /\ x.id < m.id => m \in list

(* What has been counted is behind the cursor, or of an older database.    *)
CountedIsBehind ==
  /\ \A u \in 1 .. MaxIds : counted[u] \in {0, 1} /\ (u > written => counted[u] = 0)
  /\ \A m \in base : counted[m.uid] # 0 => noticed /\ m.id <= cursor
  /\ \A y \in Got : counted[y.uid] # 0 => poll.reset \/ y.id <= cursor

InboxInv ==
  /\ InboxTyped /\ Numbering /\ CursorIsWithin /\ AnswerIsWhole /\ ListIsWhole /\ CountedIsBehind

LEMMA InboxConstants ==
  /\ Limit \in Nat \ {0} /\ MaxShown \in Nat /\ MaxIds \in Nat /\ MaxId \in Nat /\ MaxIds < MaxId
  BY InboxFits DEF Inbox!InboxAssumption

LEMMA InboxCounts ==
  ASSUME NEW S PROVE Inbox!Cardinality(S) = Cardinality(S)
  BY Zenon DEF Inbox!Cardinality, Cardinality

(* The newest of some messages: none that is newer is left out, and if any *)
(* are wanted the newest of all is among them.                             *)
LEMMA NewestIs ==
  ASSUME NEW S, IsFiniteSet(S), \A m \in S : m.id \in Nat, NEW n \in Nat
  PROVE  /\ Inbox!Newest(S, n) \subseteq S /\ IsFiniteSet(Inbox!Newest(S, n))
         /\ \A x \in Inbox!Newest(S, n), m \in S : x.id < m.id => m \in Inbox!Newest(S, n)
         /\ \A m \in S : n > 0 /\ (\A x \in S : x.id <= m.id) => m \in Inbox!Newest(S, n)
<1> DEFINE Above(m) == {x \in S : x.id > m.id}
<1>1. Inbox!Newest(S, n) = {m \in S : Cardinality(Above(m)) < n}
  BY InboxCounts DEF Inbox!Newest
<1>2. ASSUME NEW m \in S PROVE IsFiniteSet(Above(m)) /\ Cardinality(Above(m)) \in Nat
  BY FS_Subset, FS_CardinalityType
<1>3. ASSUME NEW x \in S, NEW m \in S, x.id < m.id PROVE Cardinality(Above(m)) <= Cardinality(Above(x))
  <2>1. Above(m) \in SUBSET Above(x)
    BY <1>3
  <2>2. QED BY <1>2, <2>1, FS_Subset
<1>4. ASSUME NEW m \in S, \A x \in S : x.id <= m.id PROVE Cardinality(Above(m)) = 0
  <2>1. Above(m) = {}
    BY <1>4
  <2>2. QED BY <2>1, FS_EmptySet
<1> HIDE DEF Above
<1>5. IsFiniteSet({m \in S : Cardinality(Above(m)) < n})
  BY FS_Subset
<1>6. QED BY <1>1, <1>2, <1>3, <1>4, <1>5

(* The oldest of some messages: none that is older is left out.            *)
LEMMA OldestIs ==
  ASSUME NEW S, IsFiniteSet(S), \A m \in S : m.id \in Nat, NEW n \in Nat
  PROVE  /\ Inbox!Oldest(S, n) \subseteq S /\ IsFiniteSet(Inbox!Oldest(S, n))
         /\ \A x \in Inbox!Oldest(S, n), m \in S : m.id < x.id => m \in Inbox!Oldest(S, n)
<1> DEFINE Below(m) == {x \in S : x.id < m.id}
<1>1. Inbox!Oldest(S, n) = {m \in S : Cardinality(Below(m)) < n}
  BY InboxCounts DEF Inbox!Oldest
<1>2. ASSUME NEW m \in S PROVE IsFiniteSet(Below(m)) /\ Cardinality(Below(m)) \in Nat
  BY FS_Subset, FS_CardinalityType
<1>3. ASSUME NEW x \in S, NEW m \in S, m.id < x.id PROVE Cardinality(Below(m)) <= Cardinality(Below(x))
  <2>1. Below(m) \in SUBSET Below(x)
    BY <1>3
  <2>2. QED BY <1>2, <2>1, FS_Subset
<1> HIDE DEF Below
<1>4. IsFiniteSet({m \in S : Cardinality(Below(m)) < n})
  BY FS_Subset
<1>5. QED BY <1>1, <1>2, <1>3, <1>4

(* The number of the last of some messages.                                *)
LEMMA LastNumber ==
  ASSUME NEW S, NEW b \in Nat, \A m \in S : m.id \in 1 .. b, S # {}
  PROVE  /\ Inbox!Max(Inbox!IdsOf(S)) \in Nat
         /\ \E m \in S : m.id = Inbox!Max(Inbox!IdsOf(S))
         /\ \A m \in S : m.id <= Inbox!Max(Inbox!IdsOf(S))
<1>1. PICK I : I = {m.id : m \in S}
  OBVIOUS
<1>2. I \subseteq 1 .. b /\ I \subseteq Nat /\ I # {}
  BY <1>1
<1>3. IsFiniteSet(I)
  <2>1. IsFiniteSet(1 .. b)
    BY FS_Interval
  <2>2. I \in SUBSET (1 .. b)
    BY <1>2
  <2>3. QED BY <2>1, <2>2, FS_Subset
<1>4. \E x \in I : \A y \in I : y <= x
  BY <1>2, <1>3, Greatest
<1>5. \E x \in I : \A y \in I : x >= y
  BY <1>2, <1>4
<1>6. Inbox!Max(I) \in I /\ \A y \in I : Inbox!Max(I) >= y
  BY <1>5 DEF Inbox!Max
<1>7. Inbox!IdsOf(S) = I
  BY <1>1 DEF Inbox!IdsOf
<1>8. PICK top : top = Inbox!Max(I)
  OBVIOUS
<1>9. top \in I /\ top \in Nat /\ \A y \in I : y <= top
  BY <1>2, <1>6, <1>8
<1>10. (\E m \in S : m.id = top) /\ (\A m \in S : m.id <= top)
  BY <1>1, <1>9
<1>11. QED BY <1>7, <1>8, <1>9, <1>10

(* mergeById(): both lists are merged, but for the oldest.                 *)
LEMMA MergeIs ==
  ASSUME NEW old, NEW new, IsFiniteSet(old), IsFiniteSet(new), \A m \in old \cup new : m.id \in Nat
  PROVE  /\ IsFiniteSet(Inbox!Merge(old, new)) /\ Inbox!Merge(old, new) \subseteq old \cup new
         /\ \A x \in Inbox!Merge(old, new), m \in new : x.id < m.id => m \in Inbox!Merge(old, new)
         /\ \A x \in Inbox!Merge(old, new), m \in old :
              x.id < m.id /\ (\A y \in new : y.id # m.id) => m \in Inbox!Merge(old, new)
<1>1. PICK S : S = {m \in old : m.id \notin Inbox!IdsOf(new)} \cup new
  OBVIOUS
<1>2. S = {m \in old : \A y \in new : y.id # m.id} \cup new
  BY <1>1 DEF Inbox!IdsOf
<1>3. IsFiniteSet(S)
  BY <1>2, FS_Subset, FS_Union
<1>4. Inbox!Merge(old, new) = Inbox!Newest(S, MaxShown)
  BY <1>1 DEF Inbox!Merge
<1>5. \A m \in S : m.id \in Nat
  BY <1>2
<1>6. /\ Inbox!Newest(S, MaxShown) \subseteq S /\ IsFiniteSet(Inbox!Newest(S, MaxShown))
      /\ \A x \in Inbox!Newest(S, MaxShown), m \in S : x.id < m.id => m \in Inbox!Newest(S, MaxShown)
  BY <1>3, <1>5, InboxConstants, NewestIs
<1>7. QED BY <1>2, <1>4, <1>6

(* Nothing of the panel and its database changes.                          *)
LEMMA InboxRests ==
  ASSUME InboxInv, UNCHANGED <<base, lastId, cursor, list, poll, post, noticed, counted, written>> PROVE InboxInv'
  BY DEF InboxInv, InboxTyped, Numbering, CursorIsWithin, AnswerIsWhole, ListIsWhole, CountedIsBehind, Got, Asking,
     Answered

(* A message is written, to this user or to another; it may be the panel's *)
(* own.                                                                    *)
LEMMA WrittenKeeps ==
  ASSUME InboxInv, Inbox!Numbered, NEW n, n.id = lastId + 1, n.uid = written + 1,
         base' = base \cup {n} \/ base' = base, post'.msg \subseteq post.msg \/ (post'.msg = {n} /\ n.own /\ base' = base \cup {n}),
         UNCHANGED <<cursor, list, poll, noticed, counted>>
  PROVE  InboxInv'
<1>1. /\ noticed \/ lastId + 1 < cursor
      /\ written < MaxIds /\ written' = written + 1 /\ lastId' = lastId + 1
  BY DEF Inbox!Numbered, noticed, lastId, cursor, written
<1>2. lastId \in Nat /\ written \in Nat /\ cursor \in Nat /\ lastId <= written
  BY DEF InboxInv, InboxTyped
<1>3. InboxTyped'
  <2>1. IsFiniteSet(base')
    BY FS_AddElement DEF InboxInv, InboxTyped
  <2>2. IsFiniteSet(post'.msg)
    BY FS_Subset, FS_EmptySet, FS_AddElement DEF InboxInv, InboxTyped
  <2>3. QED BY <1>1, <1>2, <2>1, <2>2, InboxConstants DEF InboxInv, InboxTyped, Got
<1>4. Numbering'
  <2>1. \A m \in base \cup Got \cup post.msg : m.id \in 1 .. lastId /\ m.uid = m.id + (written - lastId)
    BY DEF InboxInv, Numbering
  <2>2. ASSUME NEW m \in base \cup Got \cup post.msg
        PROVE  m.id \in 1 .. lastId' /\ m.uid = m.id + (written' - lastId') /\ m.id # n.id
    BY <1>1, <1>2, <2>1
  <2>3. n.id \in 1 .. lastId' /\ n.uid = n.id + (written' - lastId')
    BY <1>1, <1>2
  <2>4. (base \cup Got \cup post.msg)' \subseteq base \cup Got \cup post.msg \cup {n}
    BY DEF Got
  <2>5. \A m \in base', y \in base' \cup Got' \cup post'.msg : m.id = y.id => m = y
    <3>1. \A m \in base, y \in base \cup Got \cup post.msg : m.id = y.id => m = y
      BY DEF InboxInv, Numbering
    <3>2. Got' = Got
      BY DEF Got
    <3>3. QED BY <2>2, <3>1, <3>2
  <2>6. \A y \in post'.msg : y.own
    BY DEF InboxInv, Numbering
  <2>7. QED BY <2>2, <2>3, <2>4, <2>5, <2>6 DEF InboxInv, Numbering
<1>5. CursorIsWithin'
  BY <1>1, <1>2 DEF InboxInv, CursorIsWithin
<1>6. AnswerIsWhole'
  <2>1. \A y \in Got : y.id < n.id
    BY <1>2 DEF InboxInv, Numbering
  <2>2. noticed => cursor < n.id
    BY <1>2 DEF InboxInv, CursorIsWithin
  <2>3. Got' = Got /\ Asking' = Asking /\ Answered' = Answered
    BY DEF Got, Asking, Answered
  <2>4. \A y \in Got : y.id \in Nat
    BY <1>2 DEF InboxInv, Numbering
  <2>5. n.id \in Nat
    BY <1>2
  <2>6. (\A y \in Got : ~(n.id <= y.id)) /\ (noticed => ~(n.id <= cursor))
    BY <1>2, <2>1, <2>2, <2>4, <2>5
  <2>7. \A m \in base' : m \in base \/ m = n
    OBVIOUS
  <2>8. QED BY <2>3, <2>6, <2>7 DEF InboxInv, AnswerIsWhole
<1>7. ListIsWhole'
  <2>1. noticed => ~(n.id <= cursor)
    BY <1>2 DEF InboxInv, CursorIsWithin
  <2>2. QED BY <2>1 DEF InboxInv, ListIsWhole
<1>8. CountedIsBehind'
  <2>1. \A u \in 1 .. MaxIds : counted[u] \in {0, 1} /\ (u > written => counted[u] = 0)
    BY DEF InboxInv, CountedIsBehind
  <2>2. n.uid \in 1 .. MaxIds /\ counted[n.uid] = 0
    BY <1>1, <1>2, <2>1, InboxConstants
  <2>3. \A m \in base' : counted'[m.uid] # 0 => noticed' /\ m.id <= cursor'
    BY <2>2 DEF InboxInv, CountedIsBehind
  <2>4. \A y \in Got' : counted'[y.uid] # 0 => poll'.reset \/ y.id <= cursor'
    BY DEF InboxInv, CountedIsBehind, Got
  <2>5. \A u \in 1 .. MaxIds : counted'[u] \in {0, 1} /\ (u > written' => counted'[u] = 0)
    BY <1>1, <1>2, <2>1, InboxConstants
  <2>6. QED BY <2>3, <2>4, <2>5 DEF CountedIsBehind
<1>9. QED BY <1>3, <1>4, <1>5, <1>6, <1>7, <1>8 DEF InboxInv

LEMMA WriteKeeps ==
  ASSUME InboxInv, Inbox!Arrives \/ Inbox!ArrivesElsewhere \/ Inbox!Stores PROVE InboxInv'
<1>1. CASE Inbox!Arrives
  <2>1. PICK n : n = [id |-> lastId + 1, uid |-> written + 1, own |-> FALSE]
    OBVIOUS
  <2>2. n.id = lastId + 1 /\ n.uid = written + 1
    BY <2>1
  <2>3. /\ Inbox!Numbered /\ base' = base \cup {n}
        /\ UNCHANGED <<cursor, list, poll, post, noticed, counted>>
    BY <1>1, <2>1 DEF Inbox!Arrives, base, lastId, cursor, list, poll, post, noticed, counted, written
  <2>4. QED BY <2>2, <2>3, WrittenKeeps
<1>2. CASE Inbox!ArrivesElsewhere
  <2>1. PICK n : n = [id |-> lastId + 1, uid |-> written + 1, own |-> FALSE]
    OBVIOUS
  <2>2. n.id = lastId + 1 /\ n.uid = written + 1
    BY <2>1
  <2>3. /\ Inbox!Numbered
        /\ UNCHANGED <<base, cursor, list, poll, post, noticed, counted>>
    BY <1>2 DEF Inbox!ArrivesElsewhere, base, cursor, list, poll, post, noticed, counted
  <2>4. QED BY <2>2, <2>3, WrittenKeeps
<1>3. CASE Inbox!Stores
  <2>1. PICK n : n = [id |-> lastId + 1, uid |-> written + 1, own |-> TRUE]
    OBVIOUS
  <2>2. n.id = lastId + 1 /\ n.uid = written + 1 /\ n.own
    BY <2>1
  <2>3. /\ Inbox!Numbered /\ post' = [at |-> "stored", msg |-> {n}] /\ base' = base \cup post'.msg
        /\ UNCHANGED <<cursor, list, poll, noticed, counted>>
    BY <1>3, <2>1 DEF Inbox!Stores, base, lastId, cursor, list, poll, post, noticed, counted, written
  <2>4. post'.msg = {n} /\ base' = base \cup {n}
    BY <2>3
  <2>5. QED BY <2>2, <2>3, <2>4, WrittenKeeps
<1>4. QED BY <1>1, <1>2, <1>3

(* Messages are removed.                                                   *)
LEMMA VanishesKeeps ==
  ASSUME InboxInv, Inbox!Vanishes PROVE InboxInv'
<1>1. /\ base' \subseteq base
      /\ UNCHANGED <<lastId, cursor, list, poll, post, noticed, counted, written>>
  BY DEF Inbox!Vanishes, base, lastId, cursor, list, poll, post, noticed, counted, written
<1>2. IsFiniteSet(base')
  BY <1>1, FS_Subset DEF InboxInv, InboxTyped
<1>3. InboxTyped' /\ CursorIsWithin'
  BY <1>1, <1>2 DEF InboxInv, InboxTyped, CursorIsWithin, Got
<1>4. Numbering'
  BY <1>1 DEF InboxInv, Numbering, Got
<1>5. AnswerIsWhole'
  BY <1>1 DEF InboxInv, AnswerIsWhole, Got, Asking, Answered
<1>6. ListIsWhole' /\ CountedIsBehind'
  BY <1>1 DEF InboxInv, ListIsWhole, CountedIsBehind, Got
<1>7. QED BY <1>3, <1>4, <1>5, <1>6 DEF InboxInv

(* A new database: nothing is known of it.                                 *)
LEMMA RebuiltKeeps ==
  ASSUME InboxInv, Inbox!Rebuilt PROVE InboxInv'
<1>1. /\ noticed /\ cursor > 0 /\ base' = {} /\ lastId' = 0 /\ ~noticed'
      /\ poll' = Inbox!NoPoll /\ post' = Inbox!NoPost /\ list' = list \ {Inbox!Temp}
      /\ UNCHANGED <<cursor, counted, written>>
  BY DEF Inbox!Rebuilt, base, lastId, cursor, list, poll, post, noticed, counted, written
<1>2. DOMAIN poll' = {"at", "since", "got", "reset"} /\ poll'.at = "idle" /\ poll'.got = {} /\ post'.msg = {}
  BY <1>1 DEF Inbox!NoPoll, Inbox!NoPost
<1>3. IsFiniteSet(list') /\ list' \subseteq list /\ IsFiniteSet({})
  BY <1>1, FS_Subset, FS_EmptySet DEF InboxInv, InboxTyped
<1>4. InboxTyped' /\ CursorIsWithin'
  BY <1>1, <1>2, <1>3 DEF InboxInv, InboxTyped, CursorIsWithin, Got
<1>5. Numbering' /\ AnswerIsWhole'
  BY <1>1, <1>2, <1>3 DEF InboxInv, Numbering, AnswerIsWhole, Got, Asking, Answered
<1>6. ListIsWhole' /\ CountedIsBehind'
  BY <1>1, <1>2 DEF InboxInv, ListIsWhole, CountedIsBehind, Got
<1>7. QED BY <1>4, <1>5, <1>6 DEF InboxInv

(* A question is asked, or nothing comes of it.                            *)
LEMMA PollKeeps ==
  ASSUME InboxInv, UNCHANGED <<base, lastId, cursor, list, post, noticed, counted, written>>,
         DOMAIN poll' = {"at", "since", "got", "reset"}, poll'.got = {},
         poll'.at = "idle" \/ (poll'.at = "asked" /\ poll'.since = cursor)
  PROVE  InboxInv'
<1>1. InboxTyped' /\ CursorIsWithin'
  BY FS_EmptySet DEF InboxInv, InboxTyped, CursorIsWithin, Got
<1>2. Numbering' /\ AnswerIsWhole'
  BY DEF InboxInv, Numbering, AnswerIsWhole, Got, Asking, Answered
<1>3. ListIsWhole' /\ CountedIsBehind'
  BY DEF InboxInv, ListIsWhole, CountedIsBehind, Got
<1>4. QED BY <1>1, <1>2, <1>3 DEF InboxInv

LEMMA AsksKeeps ==
  ASSUME InboxInv, Inbox!Asks \/ Inbox!Misses PROVE InboxInv'
<1>1. PICK q : q = Inbox!NoPoll
  OBVIOUS
<1>2. DOMAIN q = {"at", "since", "got", "reset"} /\ q.at = "idle" /\ q.got = {}
  BY <1>1 DEF Inbox!NoPoll
<1>3. /\ poll' = q \/ poll' = [q EXCEPT !.at = "asked", !.since = cursor]
      /\ UNCHANGED <<base, lastId, cursor, list, post, noticed, counted, written>>
  BY <1>1 DEF Inbox!Asks, Inbox!Misses, base, lastId, cursor, list, poll, post, noticed, counted, written
<1>4. DOMAIN poll' = {"at", "since", "got", "reset"} /\ poll'.got = {}
  BY <1>2, <1>3
<1>5. poll'.at = "idle" \/ (poll'.at = "asked" /\ poll'.since = cursor)
  BY <1>2, <1>3
<1>6. QED BY <1>3, <1>4, <1>5, PollKeeps

(* The answer: the oldest beyond the cursor, or the newest of all.         *)
LEMMA AnswersKeeps ==
  ASSUME InboxInv, Inbox!Answers PROVE InboxInv'
<1> DEFINE since == poll.since
<1>1. PICK got, reset : got = Inbox!Answer(poll.since) /\ reset = Inbox!Beyond(poll.since)
  OBVIOUS
<1>2. /\ poll.at = "asked" /\ poll' = [poll EXCEPT !.at = "answered", !.got = got, !.reset = reset]
      /\ UNCHANGED <<base, lastId, cursor, list, post, noticed, counted, written>>
  BY <1>1 DEF Inbox!Answers, base, lastId, cursor, list, poll, post, noticed, counted, written
<1>3. /\ DOMAIN poll' = {"at", "since", "got", "reset"} /\ poll'.at = "answered" /\ poll'.got = got
      /\ poll'.reset = reset /\ poll'.since = cursor /\ since = cursor
  <2>1. DOMAIN poll = {"at", "since", "got", "reset"} /\ since = cursor
    BY <1>2 DEF InboxInv, InboxTyped, AnswerIsWhole, Asking
  <2> HIDE DEF poll, cursor
  <2>2. QED BY <1>2, <2>1
<1>4. /\ IsFiniteSet(base) /\ cursor \in Nat /\ lastId \in Nat
      /\ \A m \in base : m.id \in 1 .. lastId /\ m.id \in Nat
      /\ IF noticed THEN cursor <= lastId ELSE lastId < cursor
  BY DEF InboxInv, InboxTyped, Numbering, CursorIsWithin
<1>5. PICK after : after = Inbox!After(since)
  OBVIOUS
<1>6. /\ after \subseteq {m \in base : m.id > cursor} /\ IsFiniteSet(after)
      /\ \A x \in after, m \in base : m.id > cursor /\ m.id < x.id => m \in after
  <2>1. PICK S : S = {m \in base : m.id > cursor}
    OBVIOUS
  <2>2. IsFiniteSet(S) /\ \A m \in S : m.id \in Nat
    BY <1>4, <2>1, FS_Subset
  <2>3. after = Inbox!Oldest(S, Limit)
    BY <1>3, <1>5, <2>1 DEF Inbox!After, base
  <2>4. Limit \in Nat
    BY InboxConstants
  <2>5. /\ Inbox!Oldest(S, Limit) \subseteq S /\ IsFiniteSet(Inbox!Oldest(S, Limit))
        /\ \A x \in Inbox!Oldest(S, Limit), m \in S : m.id < x.id => m \in Inbox!Oldest(S, Limit)
    BY <2>2, <2>4, OldestIs
  <2>6. QED BY <2>1, <2>3, <2>5
<1>7. PICK newest : newest = Inbox!Newest(base, Limit)
  OBVIOUS
<1>8. /\ newest \subseteq base /\ IsFiniteSet(newest)
      /\ \A x \in newest, m \in base : x.id < m.id => m \in newest
      /\ \A m \in base : (\A x \in base : x.id <= m.id) => m \in newest
  <2>1. Limit \in Nat /\ Limit > 0
    BY InboxConstants
  <2>2. QED BY <1>4, <1>7, <2>1, NewestIs
<1>9. PICK latest : latest = Inbox!Latest
  OBVIOUS
<1>10. /\ latest \in Nat /\ latest <= lastId /\ \A m \in base : m.id <= latest
       /\ base # {} => \E m \in newest : m.id = latest
  <2>1. CASE base = {}
    BY <1>4, <1>9, <2>1 DEF Inbox!Latest, base
  <2>2. CASE base # {}
    <3>1. latest = Inbox!Max(Inbox!IdsOf(base))
      BY <1>9, <2>2 DEF Inbox!Latest, base
    <3>2. latest \in Nat /\ (\E m \in base : m.id = latest) /\ \A m \in base : m.id <= latest
      BY <1>4, <2>2, <3>1, LastNumber
    <3>3. QED BY <1>4, <1>8, <3>2
  <2>3. QED BY <2>1, <2>2
<1>11. /\ reset <=> cursor > 0 /\ after = {} /\ cursor > latest
       /\ got = IF cursor = 0 \/ reset THEN newest ELSE after
  BY <1>1, <1>3, <1>5, <1>7, <1>9 DEF Inbox!Beyond, Inbox!Answer, base
<1>12. got \subseteq base /\ IsFiniteSet(got)
  BY <1>6, <1>8, <1>11
<1>13. InboxTyped' /\ CursorIsWithin'
  BY <1>2, <1>3, <1>12 DEF InboxInv, InboxTyped, CursorIsWithin, Got
<1>14. Numbering'
  <2>1. \A m, y \in base : m.id = y.id => m = y
    BY DEF InboxInv, Numbering
  <2>2. QED BY <1>2, <1>3, <1>12, <2>1 DEF InboxInv, Numbering, Got
<1>15. AnswerIsWhole'
  <2>1. ~noticed => reset
    BY <1>4, <1>6, <1>10, <1>11
  <2>2. ASSUME ~reset, cursor > 0
        PROVE  /\ \A y \in got : y.id > cursor
               /\ \A m \in base, y \in got : cursor < m.id /\ m.id <= y.id => m \in got
    <3>1. got = after
      BY <1>11, <2>2
    <3>2. \A m, y \in base : m.id = y.id => m = y
      BY DEF InboxInv, Numbering
    <3>3. ASSUME NEW m \in base, NEW y \in got, cursor < m.id, m.id <= y.id PROVE m \in got
      <4>1. m.id \in Nat /\ y.id \in Nat /\ y \in base /\ y \in after
        BY <1>4, <1>12, <3>1, <3>3
      <4>2. CASE m.id = y.id
        BY <3>2, <3>3, <4>1, <4>2
      <4>3. CASE m.id < y.id
        BY <1>4, <1>6, <3>1, <3>3, <4>1, <4>3
      <4>4. QED BY <3>3, <4>1, <4>2, <4>3
    <3>4. QED BY <1>6, <3>1, <3>3
  <2>3. ASSUME reset \/ cursor = 0
        PROVE  \A m \in base, x \in got, y \in got : x.id < m.id /\ m.id <= y.id => m \in got
    BY <1>8, <1>11, <2>3
  <2>4. ASSUME reset PROVE \A m \in base : m.id <= cursor => \E y \in got : m.id <= y.id
    BY <1>10, <1>11, <2>4
  <2>5. QED BY <1>2, <1>3, <1>11, <2>1, <2>2, <2>3, <2>4 DEF AnswerIsWhole, Asking, Answered, Got
<1>16. ListIsWhole'
  BY <1>2 DEF InboxInv, ListIsWhole
<1>17. CountedIsBehind'
  BY <1>2, <1>3, <1>12 DEF InboxInv, CountedIsBehind, Got
<1>18. QED BY <1>13, <1>14, <1>15, <1>16, <1>17 DEF InboxInv

(* A message of its own is shown, confirmed, or withdrawn.                 *)
LEMMA ListKeeps ==
  ASSUME InboxInv, UNCHANGED <<base, lastId, cursor, poll, noticed, counted, written>>, post'.msg \subseteq post.msg,
         IsFiniteSet(list'), \A m \in list' : m.id \in Nat,
         \A x \in list' : x \in list \/ x.own,
         \A m \in list, x \in list' : m \in base /\ x.id < m.id => m \in list'
  PROVE  InboxInv'
<1>1. InboxTyped' /\ CursorIsWithin'
  <2>1. IsFiniteSet(post'.msg)
    BY FS_Subset DEF InboxInv, InboxTyped
  <2>2. QED BY <2>1 DEF InboxInv, InboxTyped, CursorIsWithin, Got
<1>2. Numbering' /\ AnswerIsWhole'
  BY DEF InboxInv, Numbering, AnswerIsWhole, Got, Asking, Answered
<1>3. ListIsWhole' /\ CountedIsBehind'
  BY DEF InboxInv, ListIsWhole, CountedIsBehind, Got
<1>4. QED BY <1>1, <1>2, <1>3 DEF InboxInv

LEMMA PostsKeeps ==
  ASSUME InboxInv, Inbox!Posts \/ Inbox!Confirms \/ Inbox!Withdraws PROVE InboxInv'
<1>1. PICK t : t = Inbox!Temp
  OBVIOUS
<1>2. t.id = MaxId /\ t.own /\ t.id \in Nat /\ \A m \in base : m.id \in Nat /\ m.id < t.id
  <2>1. t.id = MaxId /\ t.own
    BY <1>1 DEF Inbox!Temp
  <2>2. \A m \in base : m.id \in Nat /\ m.id < MaxId
    BY InboxConstants DEF InboxInv, InboxTyped, Numbering
  <2>3. QED BY <2>1, <2>2, InboxConstants
<1>3. /\ IsFiniteSet(list) /\ IsFiniteSet({t}) /\ IsFiniteSet(list \ {t})
      /\ \A m \in list : m.id \in Nat
  BY FS_Subset, FS_EmptySet, FS_AddElement DEF InboxInv, InboxTyped, Numbering
<1>4. UNCHANGED <<base, lastId, cursor, poll, noticed, counted, written>>
  BY DEF Inbox!Posts, Inbox!Confirms, Inbox!Withdraws, base, lastId, cursor, poll, noticed, counted, written
<1>5. CASE Inbox!Posts
  <2>1. post = Inbox!NoPost /\ post' = [post EXCEPT !.at = "asked"] /\ list' = Inbox!Merge(list, {t})
    BY <1>1, <1>5 DEF Inbox!Posts, post, list
  <2>2. post'.msg = post.msg
    BY <2>1 DEF Inbox!NoPost
  <2>3. /\ IsFiniteSet(list') /\ list' \subseteq list \cup {t}
        /\ \A x \in list', m \in list : x.id < m.id /\ (\A y \in {t} : y.id # m.id) => m \in list'
    BY <1>2, <1>3, <2>1, MergeIs
  <2>4. \A m \in list, x \in list' : m \in base /\ x.id < m.id => m \in list'
    BY <1>2, <2>3
  <2>5. QED BY <1>2, <1>3, <1>4, <2>2, <2>3, <2>4, ListKeeps
<1>6. CASE Inbox!Withdraws
  <2>1. post' = Inbox!NoPost /\ list' = list \ {t}
    BY <1>1, <1>6 DEF Inbox!Withdraws, post, list
  <2>2. post'.msg = {}
    BY <2>1 DEF Inbox!NoPost
  <2>3. \A m \in list, x \in list' : m \in base /\ x.id < m.id => m \in list'
    BY <1>2, <2>1
  <2>4. QED BY <1>3, <1>4, <2>1, <2>2, <2>3, ListKeeps
<1>7. CASE Inbox!Confirms
  <2>1. post' = Inbox!NoPost /\ list' = Inbox!Merge(list \ {t}, post.msg) /\ post.at = "stored"
    BY <1>1, <1>7 DEF Inbox!Confirms, post, list
  <2>2. post'.msg = {}
    BY <2>1 DEF Inbox!NoPost
  <2>3. IsFiniteSet(post.msg)
    BY DEF InboxInv, InboxTyped
  <2>4. \A m \in post.msg : m.id \in Nat /\ m.own
    BY DEF InboxInv, InboxTyped, Numbering
  <2>5. /\ IsFiniteSet(list') /\ list' \subseteq (list \ {t}) \cup post.msg
        /\ \A x \in list', m \in post.msg : x.id < m.id => m \in list'
        /\ \A x \in list', m \in list \ {t} : x.id < m.id /\ (\A y \in post.msg : y.id # m.id) => m \in list'
    BY <1>3, <2>1, <2>3, <2>4, MergeIs
  <2>6. ASSUME NEW m \in list, NEW x \in list', m \in base, x.id < m.id PROVE m \in list'
    <3>1. m \in list \ {t}
      BY <1>2, <2>6
    <3>2. \A y \in post.msg : m.id = y.id => m = y
      BY <2>6 DEF InboxInv, Numbering
    <3>3. QED BY <2>5, <2>6, <3>1, <3>2
  <2>7. \A m \in list' : m.id \in Nat
    BY <1>3, <2>4, <2>5
  <2>8. \A x \in list' : x \in list \/ x.own
    BY <2>4, <2>5
  <2>9. QED BY <1>4, <2>2, <2>5, <2>6, <2>7, <2>8, ListKeeps
<1>8. QED BY <1>5, <1>6, <1>7

(* What taking an answer does: the cursor goes to the last number in it,   *)
(* backwards only after a reset, and only what is beyond it is counted.    *)
LEMMA TakesIs ==
  ASSUME InboxInv, Inbox!Takes
  PROVE  /\ Answered /\ UNCHANGED <<base, lastId, post, written>>
         /\ DOMAIN poll' = {"at", "since", "got", "reset"} /\ poll'.at = "idle" /\ poll'.got = {}
         /\ \E new \in SUBSET Got, top \in Nat :
              /\ \A y \in Got : y.id <= top
              /\ IF Got = {} THEN top = 0 ELSE \E y \in Got : y.id = top
              /\ \A y \in new : y.id > cursor /\ ~poll.reset
              /\ cursor' = IF poll.reset \/ top > cursor THEN top ELSE cursor
              /\ DOMAIN counted' = 1 .. MaxIds
              /\ \A u \in 1 .. MaxIds :
                   counted'[u] = counted[u] \/ (counted'[u] = counted[u] + 1 /\ \E y \in new : y.uid = u)
              /\ list' = IF poll.reset THEN Got ELSE Inbox!Merge(list, Got)
              /\ noticed' <=> noticed \/ poll.reset
<1>1. /\ poll.at = "answered" /\ poll' = Inbox!NoPoll
      /\ cursor' = Inbox!NextCursor
      /\ list' = IF Inbox!Reset THEN poll.got ELSE Inbox!Merge(list, poll.got)
      /\ noticed' = (noticed \/ Inbox!Reset)
      /\ UNCHANGED <<base, lastId, post, written>>
  BY DEF Inbox!Takes, base, lastId, cursor, list, poll, post, noticed, written
<1>2. counted' = [u \in DOMAIN counted |->
                    counted[u] + (IF ~x6 /\ u \in {m.uid : m \in Inbox!New} THEN 1 ELSE 0)]
  BY DEF Inbox!Takes, counted
<1>3. DOMAIN poll' = {"at", "since", "got", "reset"} /\ poll'.at = "idle" /\ poll'.got = {}
  BY <1>1 DEF Inbox!NoPoll
<1>4. lastId \in Nat /\ cursor \in Nat /\ \A y \in Got : y.id \in 1 .. lastId /\ y.id \in Nat
  BY DEF InboxInv, InboxTyped, Numbering
<1>5. Inbox!Reset <=> poll.reset
  <2>1. poll.since = cursor
    BY <1>1 DEF InboxInv, AnswerIsWhole, Asking
  <2>2. ~poll.reset /\ cursor > 0 => \A y \in Got : y.id > cursor
    BY <1>1, <2>1 DEF InboxInv, AnswerIsWhole, Answered
  <2>3. ~poll.reset /\ cursor > 0 => ~\E m \in Got : m.id <= cursor
    BY <1>4, <2>2
  <2>4. Inbox!Reset <=> poll.reset \/ (cursor > 0 /\ \E m \in Got : m.id <= cursor)
    BY DEF Inbox!Reset, poll, cursor, Got
  <2>5. QED BY <2>3, <2>4
<1>6. PICK top : top = Inbox!MaxGot
  OBVIOUS
<1>7. /\ top \in Nat /\ \A y \in Got : y.id <= top
      /\ IF Got = {} THEN top = 0 ELSE \E y \in Got : y.id = top
  <2>1. CASE Got = {}
    BY <1>6, <2>1 DEF Inbox!MaxGot, Got, poll
  <2>2. CASE Got # {}
    <3>1. top = Inbox!Max(Inbox!IdsOf(Got))
      BY <1>6, <2>2 DEF Inbox!MaxGot, Got, poll
    <3>2. QED BY <1>4, <2>2, <3>1, LastNumber
  <2>3. QED BY <2>1, <2>2
<1>8. PICK new : new = Inbox!New
  OBVIOUS
<1>9. new \in SUBSET Got /\ \A y \in new : y.id > cursor /\ ~poll.reset
  BY <1>5, <1>8 DEF Inbox!New, Got, poll, cursor
<1>10. cursor' = IF poll.reset \/ top > cursor THEN top ELSE cursor
  BY <1>1, <1>5, <1>6 DEF Inbox!NextCursor, cursor
<1>11. DOMAIN counted' = 1 .. MaxIds
  BY <1>2 DEF InboxInv, InboxTyped
<1>12. ASSUME NEW u \in 1 .. MaxIds
       PROVE  counted'[u] = counted[u] \/ (counted'[u] = counted[u] + 1 /\ \E y \in new : y.uid = u)
  <2>1. counted[u] \in {0, 1} /\ DOMAIN counted = 1 .. MaxIds
    BY DEF InboxInv, InboxTyped, CountedIsBehind
  <2>2. counted'[u] = counted[u] + (IF ~x6 /\ u \in {m.uid : m \in new} THEN 1 ELSE 0)
    BY <1>2, <1>8, <2>1
  <2>3. CASE ~x6 /\ u \in {m.uid : m \in new}
    BY <2>2, <2>3
  <2>4. CASE ~(~x6 /\ u \in {m.uid : m \in new})
    BY <2>1, <2>2, <2>4
  <2>5. QED BY <2>3, <2>4
<1>13. list' = IF poll.reset THEN Got ELSE Inbox!Merge(list, Got)
  BY <1>1, <1>5 DEF Got
<1>14. noticed' <=> noticed \/ poll.reset
  BY <1>1, <1>5
<1>15. QED BY <1>1, <1>3, <1>7, <1>9, <1>10, <1>11, <1>12, <1>13, <1>14 DEF Answered

(* The panel takes an answer.                                              *)
LEMMA TakesKeeps ==
  ASSUME InboxInv, Inbox!Takes PROVE InboxInv'
<1>1. /\ Answered /\ UNCHANGED <<base, lastId, post, written>>
      /\ DOMAIN poll' = {"at", "since", "got", "reset"} /\ poll'.at = "idle" /\ poll'.got = {}
  BY TakesIs
<1>2. PICK new \in SUBSET Got, top \in Nat :
        /\ \A y \in Got : y.id <= top
        /\ IF Got = {} THEN top = 0 ELSE \E y \in Got : y.id = top
        /\ \A y \in new : y.id > cursor /\ ~poll.reset
        /\ cursor' = IF poll.reset \/ top > cursor THEN top ELSE cursor
        /\ DOMAIN counted' = 1 .. MaxIds
        /\ \A u \in 1 .. MaxIds :
             counted'[u] = counted[u] \/ (counted'[u] = counted[u] + 1 /\ \E y \in new : y.uid = u)
        /\ list' = IF poll.reset THEN Got ELSE Inbox!Merge(list, Got)
        /\ noticed' <=> noticed \/ poll.reset
  BY TakesIs
<1>3. /\ lastId \in Nat /\ cursor \in Nat /\ written \in Nat /\ lastId <= written /\ written <= MaxIds
      /\ IsFiniteSet(list) /\ IsFiniteSet(Got)
      /\ \A m \in base \cup Got : m.id \in 1 .. lastId /\ m.id \in Nat /\ m.uid = m.id + (written - lastId)
      /\ \A m \in base, y \in Got : m.id = y.id => m = y
      /\ \A m \in list : m.id \in Nat
  BY DEF InboxInv, InboxTyped, Numbering
<1>4. /\ ~noticed => poll.reset
      /\ ~poll.reset => noticed /\ cursor <= cursor'
      /\ noticed'
  <2>1. ~noticed => poll.reset
    BY <1>1 DEF InboxInv, AnswerIsWhole
  <2>2. QED BY <1>2, <1>3, <2>1
<1>5. /\ cursor' \in Nat /\ cursor' <= lastId /\ \A y \in Got : y.id <= cursor'
  <2>1. top <= lastId
    BY <1>2, <1>3
  <2>2. noticed => cursor <= lastId
    BY DEF InboxInv, CursorIsWithin
  <2>3. QED BY <1>2, <1>3, <1>4, <2>1, <2>2
<1>6. /\ poll.reset => list' = Got
      /\ ~poll.reset => /\ list' \subseteq list \cup Got
                        /\ \A x \in list', m \in Got : x.id < m.id => m \in list'
                        /\ \A x \in list', m \in list : x.id < m.id /\ (\A y \in Got : y.id # m.id) => m \in list'
      /\ IsFiniteSet(list') /\ \A m \in list' : m.id \in Nat
  <2>1. CASE poll.reset
    BY <1>2, <1>3, <2>1
  <2>2. CASE ~poll.reset
    <3>1. list' = Inbox!Merge(list, Got)
      BY <1>2, <2>2
    <3>2. \A m \in list \cup Got : m.id \in Nat
      BY <1>3
    <3>3. /\ IsFiniteSet(list') /\ list' \subseteq list \cup Got
          /\ \A x \in list', m \in Got : x.id < m.id => m \in list'
          /\ \A x \in list', m \in list : x.id < m.id /\ (\A y \in Got : y.id # m.id) => m \in list'
      BY <1>3, <3>1, <3>2, MergeIs
    <3>4. QED BY <2>2, <3>2, <3>3
  <2>3. QED BY <2>1, <2>2
<1>7. InboxTyped' /\ CursorIsWithin'
  <2>1. IsFiniteSet(poll'.got)
    BY <1>1, FS_EmptySet
  <2>2. QED BY <1>1, <1>2, <1>4, <1>5, <1>6, <2>1 DEF InboxInv, InboxTyped, CursorIsWithin, Got
<1>8. Numbering' /\ AnswerIsWhole'
  BY <1>1, <1>6 DEF InboxInv, Numbering, AnswerIsWhole, Got, Asking, Answered
<1>9. ListIsWhole'
  <2>1. ASSUME NEW x \in list', ~x.own PROVE 0 < x.id /\ x.id <= cursor'
    <3>1. CASE x \in Got
      BY <1>3, <1>5, <3>1
    <3>2. CASE x \in list /\ ~poll.reset
      <4>1. 0 < x.id /\ x.id <= cursor /\ x.id \in Nat
        BY <1>3, <1>4, <2>1, <3>2 DEF InboxInv, ListIsWhole
      <4>2. QED BY <1>3, <1>4, <1>5, <3>2, <4>1
    <3>3. QED BY <1>6, <3>1, <3>2
  <2>2. ASSUME NEW m \in base, NEW x \in list', m.id <= cursor', ~x.own, x.id < m.id PROVE m \in list'
    <3>1. m.id \in Nat /\ x.id \in Nat
      BY <1>3, <1>6
    <3>2. CASE poll.reset
      <4>1. x \in Got /\ cursor' = top
        BY <1>2, <1>6, <2>2, <3>2
      <4>2. PICK y \in Got : y.id = top
        BY <1>2, <4>1
      <4>3. m \in Got
        BY <1>1, <2>2, <3>2, <4>1, <4>2 DEF InboxInv, AnswerIsWhole
      <4>4. QED BY <1>6, <3>2, <4>3
    <3>3. CASE ~poll.reset /\ m \in Got
      BY <1>6, <2>2, <3>3
    <3>4. CASE ~poll.reset /\ m \in list
      BY <1>3, <1>6, <2>2, <3>3, <3>4
    <3>5. CASE ~poll.reset /\ m.id <= cursor
      <4>1. x \in list
        <5>1. SUFFICES ASSUME x \in Got PROVE FALSE
          BY <1>6, <2>2, <3>5
        <5>2. poll.since = cursor /\ cursor > 0
          BY <1>1, <1>3, <2>2, <3>1, <3>5 DEF InboxInv, AnswerIsWhole, Asking, Answered
        <5>3. x.id > cursor
          BY <1>1, <3>5, <5>1, <5>2 DEF InboxInv, AnswerIsWhole
        <5>4. QED BY <1>3, <2>2, <3>1, <3>5, <5>3
      <4>2. m \in list
        BY <1>4, <2>2, <3>5, <4>1 DEF InboxInv, ListIsWhole
      <4>3. QED BY <3>4, <3>5, <4>2
    <3>6. CASE ~poll.reset /\ m.id > cursor
      <4>1. cursor' = top /\ top > 0 /\ Got # {}
        BY <1>2, <1>3, <2>2, <3>1, <3>6
      <4>2. PICK y \in Got : y.id = top
        BY <1>2, <4>1
      <4>3. poll.since = cursor
        BY <1>1 DEF InboxInv, AnswerIsWhole, Asking, Answered
      <4>4. CASE cursor > 0
        <5>1. m \in Got
          BY <1>1, <2>2, <3>6, <4>1, <4>2, <4>3, <4>4 DEF InboxInv, AnswerIsWhole
        <5>2. QED BY <3>3, <3>6, <5>1
      <4>5. CASE cursor = 0
        <5>1. x \in Got
          <6>1. SUFFICES ASSUME x \in list PROVE FALSE
            BY <1>6, <2>2, <3>6
          <6>2. 0 < x.id /\ x.id <= cursor
            BY <1>4, <2>2, <3>6, <6>1 DEF InboxInv, ListIsWhole
          <6>3. QED BY <3>1, <4>5, <6>2
        <5>2. m \in Got
          BY <1>1, <2>2, <4>1, <4>2, <4>3, <4>5, <5>1 DEF InboxInv, AnswerIsWhole
        <5>3. QED BY <3>3, <3>6, <5>2
      <4>6. QED BY <1>3, <4>4, <4>5
    <3>7. QED BY <1>3, <3>1, <3>2, <3>5, <3>6
  <2>3. QED BY <1>1, <2>1, <2>2 DEF ListIsWhole
<1>10. CountedIsBehind'
  <2>1. \A u \in 1 .. MaxIds : counted[u] \in {0, 1} /\ (u > written => counted[u] = 0)
    BY DEF InboxInv, CountedIsBehind
  <2>2. ASSUME NEW y \in new
        PROVE  y.uid \in 1 .. MaxIds /\ y.uid <= written /\ counted[y.uid] = 0
    <3>1. y \in Got /\ y.id > cursor /\ ~poll.reset /\ y.id \in Nat
      BY <1>2, <1>3
    <3>2. y.uid \in 1 .. MaxIds /\ y.uid <= written
      BY <1>3, <3>1, InboxConstants
    <3>3. counted[y.uid] # 0 => y.id <= cursor
      BY <3>1 DEF InboxInv, CountedIsBehind
    <3>4. QED BY <1>3, <3>1, <3>2, <3>3
  <2>3. ASSUME NEW u \in 1 .. MaxIds PROVE counted'[u] \in {0, 1} /\ (u > written => counted'[u] = 0)
    <3>1. CASE counted'[u] = counted[u]
      BY <2>1, <3>1
    <3>2. CASE counted'[u] = counted[u] + 1 /\ \E y \in new : y.uid = u
      <4>1. u <= written /\ counted[u] = 0
        BY <2>2, <3>2
      <4>2. QED BY <1>3, <3>2, <4>1
    <3>3. QED BY <1>2, <3>1, <3>2
  <2>4. ASSUME NEW m \in base, counted'[m.uid] # 0 PROVE m.id <= cursor'
    <3>1. m.uid \in 1 .. MaxIds /\ m.id \in Nat
      BY <1>3, InboxConstants
    <3>2. CASE counted[m.uid] # 0
      <4>1. noticed /\ m.id <= cursor
        BY <3>2 DEF InboxInv, CountedIsBehind
      <4>2. CASE poll.reset
        <5>1. PICK y \in Got : m.id <= y.id
          BY <1>1, <4>1, <4>2 DEF InboxInv, AnswerIsWhole
        <5>2. y.id <= cursor' /\ y.id \in Nat
          BY <1>3, <1>5
        <5>3. QED BY <1>5, <3>1, <5>1, <5>2
      <4>3. CASE ~poll.reset
        BY <1>3, <1>4, <1>5, <3>1, <4>1, <4>3
      <4>4. QED BY <4>2, <4>3
    <3>3. CASE counted[m.uid] = 0
      <4>1. PICK y \in new : y.uid = m.uid
        BY <1>2, <2>4, <3>1, <3>3
      <4>2. y.id = m.id
        <5>1. y \in Got
          BY <4>1
        <5>2. y.uid = y.id + (written - lastId) /\ m.uid = m.id + (written - lastId) /\ y.id \in Nat
          BY <1>3, <5>1
        <5>3. written - lastId \in Int
          BY <1>3
        <5>4. \A a, b \in Nat, d \in Int : a + d = b + d => a = b
          OBVIOUS
        <5>5. y.id + (written - lastId) = m.id + (written - lastId)
          BY <4>1, <5>2
        <5>6. QED BY <3>1, <5>2, <5>3, <5>4, <5>5
      <4>3. QED BY <1>5, <4>1, <4>2
    <3>4. QED BY <3>2, <3>3
  <2>5. QED BY <1>1, <1>4, <2>3, <2>4 DEF CountedIsBehind, Got
<1>11. QED BY <1>7, <1>8, <1>9, <1>10 DEF InboxInv

LEMMA InboxStep ==
  ASSUME InboxInv, Inbox!Next PROVE InboxInv'
<1>1. CASE Inbox!Opens \/ Inbox!Closes
  BY <1>1, InboxRests
     DEF Inbox!Opens, Inbox!Closes, base, lastId, cursor, list, poll, post, noticed, counted, written
<1>2. QED
  BY <1>1, WriteKeeps, VanishesKeeps, RebuiltKeeps, AsksKeeps, AnswersKeeps, TakesKeeps, PostsKeeps DEF Inbox!Next

LEMMA InboxInit ==
  ASSUME Inbox!Init PROVE InboxInv
<1>1. /\ base = {} /\ lastId = 0 /\ cursor = 0 /\ list = {} /\ noticed /\ written = 0
      /\ poll = Inbox!NoPoll /\ post = Inbox!NoPost /\ counted = [u \in 1 .. MaxIds |-> 0]
  BY DEF Inbox!Init, base, lastId, cursor, list, poll, post, noticed, counted, written
<1>2. DOMAIN poll = {"at", "since", "got", "reset"} /\ poll.at = "idle" /\ poll.got = {} /\ post.msg = {}
  BY <1>1 DEF Inbox!NoPoll, Inbox!NoPost
<1>3. InboxTyped
  BY <1>1, <1>2, FS_EmptySet, InboxConstants DEF InboxTyped, Got
<1>4. Numbering /\ CursorIsWithin /\ AnswerIsWhole
  BY <1>1, <1>2 DEF Numbering, CursorIsWithin, AnswerIsWhole, Got, Asking, Answered
<1>5. ListIsWhole /\ CountedIsBehind
  BY <1>1, <1>2 DEF ListIsWhole, CountedIsBehind, Got
<1>6. QED BY <1>3, <1>4, <1>5 DEF InboxInv

LEMMA InboxHolds ==
  ASSUME InboxInv PROVE Inbox!NoGap /\ Inbox!CountedOnce
<1>1. Inbox!NoGap
  BY DEF Inbox!NoGap, InboxInv, ListIsWhole, base, list, cursor, noticed
<1>2. Inbox!CountedOnce
  BY DEF Inbox!CountedOnce, InboxInv, InboxTyped, CountedIsBehind, counted
<1>3. QED BY <1>1, <1>2

(* A panel misses nothing behind its cursor and announces no message       *)
(* twice, however long the answers, the list and the numbers are           *)
(* (chat.tsx).                                                             *)
THEOREM InboxIsComplete == ChatSpec => []InboxIsWhole
<1> DEFINE Inv == part = "inbox" => InboxInv
<1>1. ChatInit => Inv
  BY InboxInit DEF ChatInit
<1>2. Inv /\ [ChatNext]_suiteVars => Inv'
  <2>1. SUFFICES ASSUME Inv, [ChatNext]_suiteVars, part' = "inbox" PROVE InboxInv'
    OBVIOUS
  <2>2. part = "inbox" /\ InboxInv
    BY <2>1, ChatPartStays
  <2>3. CASE InboxSteps
    BY <2>2, <2>3, InboxStep DEF InboxSteps
  <2>4. CASE UNCHANGED suiteVars
    BY <2>2, <2>4, InboxRests DEF suiteVars, base, lastId, cursor, list, poll, post, noticed, counted, written
  <2>5. QED BY <2>1, <2>2, <2>3, <2>4 DEF ChatNext, MediaSteps, UploadsSteps, StreamsSteps
<1>3. Inv => InboxIsWhole
  BY InboxHolds DEF InboxIsWhole
<1> HIDE DEF Inv
<1>4. QED BY <1>1, <1>2, <1>3, PTL DEF ChatSpec

==============================================================================
