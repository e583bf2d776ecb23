---------------------------- MODULE LoginThrottle ----------------------------
(***************************************************************************)
(* What failed logins cost.  Failures are counted for each pair of a name  *)
(* and an address, for each address, and for each name over all addresses; *)
(* each count may lock.  A request looks at the locks, waits for the       *)
(* comparison of the password, and only then is counted: other requests    *)
(* come and go meanwhile.  A success forgets, but is itself limited.       *)
(***************************************************************************)
EXTENDS Integers, FiniteSets, FiniteSetsExt, Sequences

CONSTANTS
  User, Admin,   \* names; those of the main user
  Ip, Attempt,   \* addresses; requests at the same time
  MaxFailed, NameFactor, \* MAX_FAILED, and how many times it locks a name
  IpMaxFailed, IpWindow, IpLock, \* IP_MAX_FAILED, IP_WINDOW_MS, IP_THROTTLE_MINUTES
  Steps,         \* LOCK_STEPS, in ticks
  NameLock,      \* LOCK_MINUTES
  SuccessMax, Minute, \* LOGIN_SUCCESS_MAX_PER_MIN and its window
  MaxTime, MaxRuns, \* bounds: ticks, requests
  NoOne

VARIABLES
  now,
  attempts,      \* login_attempts: [User \X Ip -> [n, until]]; no row: 0, 0
  throttle,      \* ip_throttle: [Ip -> [n, since, until]]
  successes,     \* loginSuccessRate: [User -> times]
  req,           \* [Attempt -> [at, user, ip]]
  sessions,      \* [User -> cookies given out, with their times]
  freed,         \* ghost: times a lock of the pair has run out
  runs

(* There is something to lock with: MAX_FAILED, LOCK_STEPS, LOCK_MINUTES.  *)
ThrottleAssumption ==
  /\ IsFiniteSet(Attempt) /\ Admin \subseteq User
  /\ MaxFailed \in Nat \ {0} /\ NameLock \in Nat \ {0}
  /\ Steps \in Seq(Nat \ {0}) /\ Steps # <<>>
  /\ SuccessMax \in Nat /\ Minute \in Nat

vars == <<now, attempts, throttle, successes, req, sessions, freed, runs>>

NoRow == [n |-> 0, until |-> 0]
NoIpRow == [n |-> 0, since |-> 0, until |-> 0]
Free == [at |-> "idle", user |-> NoOne, ip |-> NoOne]
Least(a, b) == IF a < b THEN a ELSE b

------------------------------------------------------------------------------
(* getIpThrottle() and getLoginAttempt(): may it be tried at all.          *)
Throttled(i) == throttle[i].until > now
Locked(u, i) == attempts[u, i].until > now

(* Slip: only the address is looked at.                                    *)
MayTryAnyhow(u, i) == ~Throttled(i)
MayTry(u, i) == ~Throttled(i) /\ ~Locked(u, i)

Arrives(a) ==
  /\ req[a].at = "idle" /\ runs < MaxRuns
  /\ \E u \in User, i \in Ip :
       /\ MayTry(u, i)
       /\ req' = [req EXCEPT ![a] = [at |-> "comparing", user |-> u, ip |-> i]]
  /\ runs' = runs + 1
  /\ UNCHANGED <<now, attempts, throttle, successes, sessions, freed>>

(* recordIpFailure(): a window that is over, or a lock, begins anew.       *)
IpCounted(i) ==
  LET r == throttle[i]
  IN IF r.n = 0 \/ now - r.since > IpWindow \/ (r.until # 0 /\ r.until <= now)
       THEN [n |-> 1, since |-> now, until |-> 0]
       ELSE [r EXCEPT !.n = @ + 1]

(* recordLoginFailure(), and the lock that the count asks for: longer with *)
(* each round.                                                             *)
Round(n) == Steps[Least((n - 1) \div MaxFailed + 1, Len(Steps))]
Counted(r) ==
  LET n == r.n + 1
  IN [n |-> n, until |-> IF n >= MaxFailed THEN now + Round(n) ELSE r.until]

FailuresOf(u, table) == MapThenSumSet(LAMBDA i : table[u, i].n, Ip)

(* Slip: the main user's name is locked like any other.                    *)
NameLockedAnyhow(u, table) ==
  IF FailuresOf(u, table) >= MaxFailed * NameFactor
    THEN [p \in User \X Ip |-> IF p[1] = u /\ table[p].n > 0 THEN [table[p] EXCEPT !.until = now + NameLock] ELSE table[p]]
    ELSE table

(* lockAllAttemptsByUsername(): every row of the name; not the main user's.*)
NameLocked(u, table) ==
  IF u \notin Admin /\ FailuresOf(u, table) >= MaxFailed * NameFactor
    THEN [p \in User \X Ip |-> IF p[1] = u /\ table[p].n > 0 THEN [table[p] EXCEPT !.until = now + NameLock] ELSE table[p]]
    ELSE table

(* A wrong password: the pair is locked, or else the name.                 *)
Punished(u, i) ==
  LET r == Counted(attempts[u, i])
      table == [attempts EXCEPT ![<<u, i>>] = r]
  IN IF r.n >= MaxFailed THEN table ELSE NameLocked(u, table)

Fails(a) ==
  LET u == req[a].user
      i == req[a].ip
      row == IpCounted(i)
  IN /\ req[a].at = "comparing" /\ req' = [req EXCEPT ![a] = Free]
     /\ IF row.n >= IpMaxFailed
          THEN throttle' = [throttle EXCEPT ![i] = [row EXCEPT !.until = now + IpLock]] /\ UNCHANGED attempts
          ELSE throttle' = [throttle EXCEPT ![i] = row] /\ attempts' = Punished(u, i)
     /\ UNCHANGED <<now, successes, sessions, freed, runs>>

(* The times of a list that are less than a minute ago.                    *)
Kept(list, t, at) == IF at - t < Minute THEN Append(list, t) ELSE list
Within(times, at) ==
  LET kept[k \in 0 .. Len(times)] == IF k = 0 THEN <<>> ELSE Kept(kept[k - 1], times[k], at)
  IN kept[Len(times)]

(* The right password: resetLoginAttempts(), resetIpThrottle(). Then the   *)
(* gateway counts the successes of the minute; one too many gives none.    *)
Recent(u) == Within(successes[u], now)

(* Slip: successes are counted where the cookie is refused, too late.      *)
GivesAlways(u) == TRUE
Gives(u) == Len(Recent(u)) < SuccessMax

Succeeds(a) ==
  LET u == req[a].user
      i == req[a].ip
  IN /\ req[a].at = "comparing" /\ req' = [req EXCEPT ![a] = Free]
     /\ attempts' = [attempts EXCEPT ![<<u, i>>] = NoRow]
     /\ throttle' = [throttle EXCEPT ![i] = NoIpRow]
     /\ freed' = [freed EXCEPT ![<<u, i>>] = 0]
     /\ IF Gives(u)
          THEN /\ successes' = [successes EXCEPT ![u] = Append(Recent(u), now)]
               /\ sessions' = [sessions EXCEPT ![u] = Append(Within(@, now), now)]
          ELSE successes' = [successes EXCEPT ![u] = Recent(u)] /\ UNCHANGED sessions
     /\ UNCHANGED <<now, runs>>

(* clearLoginAttemptsOf(): the main user removes the user of that name.    *)
Cleared(u) ==
  /\ u \notin Admin /\ \E i \in Ip : attempts[u, i] # NoRow
  /\ attempts' = [p \in User \X Ip |-> IF p[1] = u THEN NoRow ELSE attempts[p]]
  /\ freed' = [p \in User \X Ip |-> IF p[1] = u THEN 0 ELSE freed[p]]
  /\ UNCHANGED <<now, throttle, successes, req, sessions, runs>>

(* The clock; the ghost counts what the tick frees.                        *)
Tick ==
  /\ now < MaxTime /\ now' = now + 1
  /\ freed' = [p \in User \X Ip |-> freed[p] + (IF attempts[p].until = now' THEN 1 ELSE 0)]
  /\ UNCHANGED <<attempts, throttle, successes, req, sessions, runs>>

Init ==
  /\ now = 0 /\ attempts = [p \in User \X Ip |-> NoRow] /\ throttle = [i \in Ip |-> NoIpRow]
  /\ successes = [u \in User |-> <<>>] /\ sessions = successes
  /\ req = [a \in Attempt |-> Free]
  /\ freed = [p \in User \X Ip |-> 0] /\ runs = 0

Next ==
  \/ \E a \in Attempt : Arrives(a) \/ Fails(a) \/ Succeeds(a)
  \/ \E u \in User : Cleared(u)
  \/ Tick

Spec == Init /\ [][Next]_vars

------------------------------------------------------------------------------
(* The main user is locked out of an address only by wrong passwords sent  *)
(* from that very address: nobody locks the main user from elsewhere, with *)
(* any number of addresses (auth.ts:217).                                  *)
AdminLockedOnlyFromHere ==
  \A u \in Admin, i \in Ip : Locked(u, i) => attempts[u, i].n >= MaxFailed

(* Failures of a pair are counted MaxFailed times before its first lock    *)
(* and once for each lock that runs out, and beyond these only as often as *)
(* requests passed the lock together (auth.ts:184).                        *)
GuessesAreSlowed ==
  \A u \in User, i \in Ip :
    attempts[u, i].n <= MaxFailed - 1 + (freed[u, i] + 1) * Cardinality(Attempt)

(* No name is given more than SuccessMax cookies in a minute, whichever    *)
(* requests succeed together (gateway.ts:3388).                            *)
CookiesPerMinute ==
  \A u \in User : Len(Within(sessions[u], now)) <= SuccessMax
==============================================================================
