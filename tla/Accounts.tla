------------------------------ MODULE Accounts ------------------------------
(***************************************************************************)
(* Accounts and the sessions that depend on them.  Two processes share the *)
(* database: the gateway logs users in, accepts their tokens through a     *)
(* cache, and keeps their long-lived connections; the plugin, in the host, *)
(* changes passwords and names, adds and removes users, and then tells the *)
(* gateway, which drops the user's cached tokens and connections.          *)
(*                                                                         *)
(* A token carries the name and the credential version read with the hash  *)
(* the password was compared to; a change of either raises the version.    *)
(* The administrator is always admitted and is no member of Id.  A handler *)
(* is one step from one await to the next; what a wrong password counts    *)
(* and the twelve hours of a token are left out.                           *)
(***************************************************************************)
EXTENDS Integers, FiniteSets

CONSTANTS
  Id,              \* user ids, never used twice (AUTOINCREMENT)
  Name, Password,
  Login,           \* login requests under way at the gateway
  Op,              \* requests under way at the plugin
  Conn,            \* long-lived connections
  Ttl,             \* SESSION_CACHE_TTL_MS, in ticks
  MaxVersion,      \* bound: changes of one user's credentials
  Serial,          \* bound: logins that succeed, one each
  NoOne            \* none of the values of a field


ASSUME AccountsAssumption ==
  /\ Ttl \in Nat \ {0} /\ MaxVersion \in Nat
  /\ NoOne \notin Id \cup Name \cup Password

VARIABLES
  db,              \* users: a function on the ids that exist
  used,            \* the ids given out so far
  tokens,          \* every token issued
  cache,           \* sessionCache: ticks left, a function on the tokens in it
  revoked,         \* revokedTokens
  conns,           \* [Conn -> the connection]
  logins, ops,     \* what each request carries across its awaits
  stale,           \* ghost: ticks for which the token, void, was in use
  told             \* ghost: the version of which the gateway was told, per id

gateway == <<cache, revoked, conns>>
ghosts == <<stale, told>>
vars == <<db, used, tokens, gateway, logins, ops, ghosts>>

User == [name : Name, pw : Password, cv : 0..MaxVersion]

(* pw, the password the token was given for, is a ghost.                   *)
Token == [sub : Id, name : Name, cv : 0..MaxVersion, pw : Password, n : Serial]

Named(n) == {u \in DOMAIN db : db[u].name = n}

(* The checks of a token against the row of its user.                      *)
Current(t) ==
  /\ t.sub \in DOMAIN db
  /\ db[t.sub].name = t.name
  /\ db[t.sub].cv = t.cv

Old(t) == ~Current(t)

------------------------------------------------------------------------------
(* sessionOf(): the cache first; then the signature, the blacklist and the *)
(* row, read and remembered in one go.                                     *)

Accepted(t) == t \in DOMAIN cache \/ (t \notin revoked /\ Current(t))

(* Slip: every use renews the entry.                                       *)
RememberedAnew(t) == [s \in DOMAIN cache \cup {t} |-> IF s = t THEN Ttl ELSE cache[s]]

Remembered(t) ==
  IF t \in DOMAIN cache
    THEN cache
    ELSE [s \in DOMAIN cache \cup {t} |-> IF s = t THEN Ttl ELSE cache[s]]

(* The gate: the row must exist, whatever the cache says.                  *)
Admitted(t) == Accepted(t) /\ t.sub \in DOMAIN db

Forget(gone) == [t \in DOMAIN cache \ gone |-> cache[t]]

(* A connection is a WebSocket, or a stream of events over HTTP, which is  *)
(* known to the gateway only from the host's answer on.                    *)
Free == [kind |-> "none", phase |-> "free", token |-> NoOne]

(* closeUserWebSocketClients() and closeUserRemoteMuxClients()             *)
Closed(u) ==
  [c \in Conn |-> IF conns[c].phase = "open" /\ conns[c].token.sub = u
                    THEN Free ELSE conns[c]]

Request(t) ==
  /\ t \in tokens /\ Admitted(t)
  /\ cache' = Remembered(t)
  /\ UNCHANGED <<db, used, tokens, revoked, conns, logins, ops, ghosts>>

(* An upgrade reads the row itself, and registers the socket at once.      *)
OpenSocket(c, t) ==
  /\ t \in tokens /\ conns[c] = Free
  /\ t \notin revoked /\ Current(t)
  /\ conns' = [conns EXCEPT ![c] = [kind |-> "socket", phase |-> "open", token |-> t]]
  /\ UNCHANGED <<db, used, tokens, cache, revoked, logins, ops, ghosts>>

AskStream(c, t) ==
  /\ t \in tokens /\ conns[c] = Free
  /\ Admitted(t)
  /\ cache' = Remembered(t)
  /\ conns' = [conns EXCEPT ![c] = [kind |-> "stream", phase |-> "asked", token |-> t]]
  /\ UNCHANGED <<db, used, tokens, revoked, logins, ops, ghosts>>

StreamAnswered(c) ==
  /\ conns[c].phase = "asked"
  /\ conns' = [conns EXCEPT ![c].phase = "open"]
  /\ UNCHANGED <<db, used, tokens, cache, revoked, logins, ops, ghosts>>

Disconnect(c) ==
  /\ conns[c] # Free
  /\ conns' = [conns EXCEPT ![c] = Free]
  /\ UNCHANGED <<db, used, tokens, cache, revoked, logins, ops, ghosts>>

(* Slip: the token is revoked before the session is looked up.             *)
LogoutRevokesFirst(t) ==
  /\ t \in tokens \ revoked
  /\ cache' = Forget({t})
  /\ revoked' = revoked \cup {t}
  /\ UNCHANGED <<db, used, tokens, conns, logins, ops, ghosts>>

(* POST /gateway/logout: the session first, for its connections.           *)
Logout(t) ==
  /\ t \in tokens \ revoked
  /\ conns' = IF Accepted(t) THEN Closed(t.sub) ELSE conns
  /\ cache' = Forget({t})
  /\ revoked' = revoked \cup {t}
  /\ UNCHANGED <<db, used, tokens, logins, ops, ghosts>>

------------------------------------------------------------------------------
(* POST /gateway/login, with the right password of the row it reads.       *)

NoLogin == [user |-> NoOne, seen |-> NoOne, before |-> NoOne]

LoginReads(l, u, t) ==
  /\ logins[l] = NoLogin
  /\ u \in DOMAIN db
  /\ t \in tokens \cup {NoOne}
  /\ LET known == t \in tokens /\ Accepted(t)
     IN  /\ cache' = IF known THEN Remembered(t) ELSE cache
         /\ logins' = [logins EXCEPT ![l] =
              [user |-> u, seen |-> db[u], before |-> IF known THEN t.sub ELSE NoOne]]
  /\ UNCHANGED <<db, used, tokens, revoked, conns, ops, ghosts>>

(* The token of what was read; another identity's connections are closed.  *)
(* Slip: the version is read when the token is signed.                     *)
IssuedAsOfNow(l, n) ==
  LET u == logins[l].user
  IN  [sub |-> u, name |-> logins[l].seen.name,
       cv |-> IF u \in DOMAIN db THEN db[u].cv ELSE logins[l].seen.cv,
       pw |-> logins[l].seen.pw, n |-> n]

Issued(l, n) ==
  [sub |-> logins[l].user, name |-> logins[l].seen.name, cv |-> logins[l].seen.cv,
   pw |-> logins[l].seen.pw, n |-> n]

LoginIssues(l, n) ==
  /\ logins[l] # NoLogin
  /\ n \notin {t.n : t \in tokens}
  /\ tokens' = tokens \cup {Issued(l, n)}
  /\ stale' = [t \in tokens' |-> IF t \in tokens THEN stale[t] ELSE 0]
  /\ LET before == logins[l].before
         row == Named(logins[l].seen.name)
     IN  conns' = IF before # NoOne /\ row # {} /\ before \notin row
                    THEN Closed(before) ELSE conns
  /\ logins' = [logins EXCEPT ![l] = NoLogin]
  /\ UNCHANGED <<db, used, cache, revoked, ops, told>>

------------------------------------------------------------------------------
(* The plugin's requests. A new password is chosen where it is written.    *)

NoOp == [phase |-> "idle", as |-> NoOne, id |-> NoOne, name |-> NoOne, cv |-> 0]

Carry(o, what) == ops' = [ops EXCEPT ![o] = what]

(* A user's body is awaited with his name known: by the gate and           *)
(* callerOf(), which reads the row again.                                  *)
Arrive(o, t) ==
  /\ ops[o] = NoOp
  /\ t \in tokens /\ Admitted(t) /\ db[t.sub].cv = t.cv
  /\ cache' = Remembered(t)
  /\ Carry(o, [NoOp EXCEPT !.phase = "body", !.as = db[t.sub].name])
  /\ UNCHANGED <<db, used, tokens, revoked, conns, logins, ghosts>>

(* The administrator may change any user, a user the one of his name. What *)
(* comes before is nothing but an idle request for the administrator.      *)
ByAdmin(o) == ops[o] = NoOp
Self(o, u) == ops[o].phase = "body" /\ ops[o].as = db[u].name
MayChange(o, u) == u \in DOMAIN db /\ (ByAdmin(o) \/ Self(o, u))

(* changePassword(), by a user with his right current one, up to the hash. *)
ReadForPassword(o, u) ==
  /\ MayChange(o, u)
  /\ Carry(o, [NoOp EXCEPT !.phase = "hashing", !.id = u])
  /\ UNCHANGED <<db, used, tokens, gateway, logins, ghosts>>

(* The row as updatePasswordHash() leaves it, if it still exists.          *)
Rehashed(u, p) == [db EXCEPT ![u] = [@ EXCEPT !.pw = p, !.cv = db[u].cv + 1]]

(* The gateway is to be told of the version the row has now.               *)
VersionIn(rows, u) == IF u \in DOMAIN rows THEN rows[u].cv ELSE MaxVersion + 1

Notifies(o, u) ==
  Carry(o, [NoOp EXCEPT !.phase = "notifying", !.id = u, !.cv = VersionIn(db', u)])

WritePassword(o, p) ==
  /\ ops[o].phase = "hashing"
  /\ LET u == ops[o].id
     IN  /\ u \in DOMAIN db => db[u].cv < MaxVersion
         /\ db' = IF u \in DOMAIN db THEN Rehashed(u, p) ELSE db
         /\ Notifies(o, u)
  /\ UNCHANGED <<used, tokens, gateway, logins, ghosts>>

(* renameUser(), without a real await.                                     *)
Renamed(u, n) == [db EXCEPT ![u] = [@ EXCEPT !.name = n, !.cv = db[u].cv + 1]]

Rename(o, u, n) ==
  /\ MayChange(o, u)
  /\ Named(n) = {} /\ db[u].cv < MaxVersion
  /\ db' = Renamed(u, n)
  /\ Notifies(o, u)
  /\ UNCHANGED <<used, tokens, gateway, logins, ghosts>>

(* addSubUser(): the name is looked up, the password hashed, and the       *)
(* unique index decides. Slip: there is no such index.                     *)
ReadForAdd(o, n) ==
  /\ ByAdmin(o)
  /\ Named(n) = {}
  /\ Carry(o, [NoOp EXCEPT !.phase = "adding", !.name = n])
  /\ UNCHANGED <<db, used, tokens, gateway, logins, ghosts>>

MayInsertAny(n) == TRUE
MayInsert(n) == Named(n) = {}

Add(o, p) ==
  /\ ops[o].phase = "adding"
  /\ IF MayInsert(ops[o].name)
       THEN \E u \in Id \ used :
              /\ db' = [v \in DOMAIN db \cup {u} |->
                   IF v = u THEN [name |-> ops[o].name, pw |-> p, cv |-> 0]
                            ELSE db[v]]
              /\ used' = used \cup {u}
       ELSE UNCHANGED <<db, used>>
  /\ Carry(o, NoOp)
  /\ UNCHANGED <<tokens, gateway, logins, ghosts>>

Remove(o, u) ==
  /\ ByAdmin(o)
  /\ u \in DOMAIN db
  /\ db' = [v \in DOMAIN db \ {u} |-> db[v]]
  /\ Notifies(o, u)
  /\ UNCHANGED <<used, tokens, gateway, logins, ghosts>>

(* /gateway/internal/session-invalidate, answered. Slip: the connections   *)
(* are left alone.                                                         *)
NotifiedCacheOnly(o) ==
  /\ ops[o].phase = "notifying"
  /\ LET u == ops[o].id
     IN  /\ cache' = Forget({t \in tokens : t.sub = u})
         /\ told' = [told EXCEPT ![u] = IF @ < ops[o].cv THEN ops[o].cv ELSE @]
  /\ Carry(o, NoOp)
  /\ UNCHANGED <<db, used, tokens, revoked, conns, logins, stale>>

Notified(o) ==
  /\ ops[o].phase = "notifying"
  /\ LET u == ops[o].id
     IN  /\ cache' = Forget({t \in tokens : t.sub = u})
         /\ conns' = Closed(u)
         /\ told' = [told EXCEPT ![u] = IF @ < ops[o].cv THEN ops[o].cv ELSE @]
  /\ Carry(o, NoOp)
  /\ UNCHANGED <<db, used, tokens, revoked, logins, stale>>

(* The notice is not confirmed, a check fails, or the host stops.          *)
OpEnds(o) ==
  /\ ops[o] # NoOp
  /\ Carry(o, NoOp)
  /\ UNCHANGED <<db, used, tokens, gateway, logins, ghosts>>

------------------------------------------------------------------------------
(* The gateway restarts: what it held in memory is gone.                   *)
GatewayRestart ==
  /\ cache' = [t \in {} |-> 0] /\ revoked' = {}
  /\ conns' = [c \in Conn |-> Free]
  /\ logins' = [l \in Login |-> NoLogin]
  /\ UNCHANGED <<db, used, tokens, ops, ghosts>>

(* Time passes; an entry that ran out is no longer used. Slip: it still is *)
(* in its last moment.                                                     *)
ExpiredLate(left) == {t \in DOMAIN left : left[t] = 0}
Expired(left) == {t \in DOMAIN left : left[t] = 1}

InUse(t) == t \in DOMAIN cache \/ \E c \in Conn : conns[c].token = t

Tick ==
  /\ cache' = [t \in DOMAIN cache \ Expired(cache) |-> cache[t] - 1]
  /\ stale' = [t \in tokens |->
       IF ~(Old(t) /\ InUse(t)) THEN 0 ELSE IF stale[t] <= Ttl THEN stale[t] + 1 ELSE stale[t]]
  /\ UNCHANGED <<db, used, tokens, revoked, conns, logins, ops, told>>

------------------------------------------------------------------------------
Init ==
  /\ \E u \in Id, n \in Name, p \in Password :
       /\ db = [v \in {u} |-> [name |-> n, pw |-> p, cv |-> 0]]
       /\ used = {u}
  /\ tokens = {} /\ cache = [t \in {} |-> 0] /\ revoked = {}
  /\ conns = [c \in Conn |-> Free]
  /\ logins = [l \in Login |-> NoLogin]
  /\ ops = [o \in Op |-> NoOp]
  /\ stale = [t \in {} |-> 0]
  /\ told = [u \in Id |-> 0]

GatewayStep ==
  \/ \E t \in tokens : Request(t) \/ Logout(t)
  \/ \E c \in Conn, t \in tokens : OpenSocket(c, t) \/ AskStream(c, t)
  \/ \E c \in Conn : StreamAnswered(c) \/ Disconnect(c)
  \/ \E l \in Login, u \in Id, t \in tokens \cup {NoOne} : LoginReads(l, u, t)
  \/ \E l \in Login, n \in Serial : LoginIssues(l, n)
  \/ GatewayRestart

PluginStep(o) ==
  \/ \E t \in tokens : Arrive(o, t)
  \/ \E u \in Id : ReadForPassword(o, u) \/ Remove(o, u)
  \/ \E u \in Id, n \in Name : Rename(o, u, n)
  \/ \E n \in Name : ReadForAdd(o, n)
  \/ \E p \in Password : WritePassword(o, p) \/ Add(o, p)
  \/ Notified(o) \/ OpEnds(o)

Next == GatewayStep \/ (\E o \in Op : PluginStep(o)) \/ Tick

Spec == Init /\ [][Next]_vars

------------------------------------------------------------------------------
(* Types.                                                                  *)
TypeOK ==
  /\ DOMAIN db \subseteq used /\ used \subseteq Id
  /\ \A u \in DOMAIN db : db[u] \in User
  /\ tokens \subseteq Token /\ \A t \in tokens : t.sub \in used
  /\ DOMAIN cache \subseteq tokens /\ \A t \in DOMAIN cache : cache[t] \in 1..Ttl
  /\ revoked \subseteq tokens
  /\ \A c \in Conn : conns[c] = Free \/
       conns[c] \in [kind : {"socket", "stream"}, phase : {"asked", "open"}, token : tokens]
  /\ \A l \in Login : logins[l] = NoLogin \/
       logins[l] \in [user : used, seen : User, before : used \cup {NoOne}]
  /\ \A o \in Op : ops[o].id \in used \cup {NoOne} /\ ops[o].cv \in 0..(MaxVersion + 1)
  /\ DOMAIN stale = tokens /\ told \in [Id -> 0..(MaxVersion + 1)]

(* No two users bear one name, although addSubUser() awaits the hash       *)
(* between the lookup of the name and the insert.                          *)
NamesUnique == \A u, v \in DOMAIN db : db[u].name = db[v].name => u = v

(* A token the database bears out was given for the password that is in    *)
(* force: a login that overlaps a change gets a token that is void.        *)
TokenProvesPassword == \A t \in tokens : Current(t) => t.pw = db[t.sub].pw

(* Once the gateway answered the notice of a change, none of the user's    *)
(* older tokens is in its cache, and no socket opened with one is left.    *)
ConfirmedMeansGone ==
  /\ \A t \in DOMAIN cache : t.cv >= told[t.sub]
  /\ \A c \in Conn : conns[c].kind = "socket" =>
       conns[c].token.cv >= told[conns[c].token.sub]

(* Notice or not, the cache accepts a void token for less than its time    *)
(* to live: no request prolongs an entry.                                  *)
StaleWindowBounded == \A t \in DOMAIN cache : Old(t) => stale[t] + cache[t] <= Ttl

(* A token that was logged out is never accepted again, and its sockets    *)
(* are closed, unless it was void and its change not yet confirmed.        *)
LogoutHolds ==
  /\ DOMAIN cache \cap revoked = {}
  /\ \A c \in Conn : conns[c].kind = "socket" /\ conns[c].token \in revoked =>
       Old(conns[c].token)

(* "old sessions stay valid for 30 seconds at most": no connection is open *)
(* longer than that after its token became void, unless its user is gone.  *)
OldSessionsEnd ==
  \A c \in Conn : conns[c].phase = "open" /\ conns[c].token.sub \in DOMAIN db =>
    stale[conns[c].token] <= Ttl

==============================================================================
