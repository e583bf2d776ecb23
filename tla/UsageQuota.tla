----------------------------- MODULE UsageQuota -----------------------------
(***************************************************************************)
(* What a sub-user has used, of time and of tokens, and the limits on it.  *)
(* The gateway counts the time of the requests it sees, at most so often;  *)
(* the tokens are counted in the user's tabs and reported: a tab adds up   *)
(* what its session's total grows by, sends it now and then, and puts back *)
(* what was not taken.  Reports and their answers may be lost, tabs close, *)
(* the limits are changed, the day ends.                                   *)
(*                                                                         *)
(* One sub-user; a row of the database is a record, of today.  The clock   *)
(* counts milliseconds, the row whole seconds of use.                      *)
(***************************************************************************)
EXTENDS Integers, FiniteSets, FiniteSetsExt

CONSTANTS
  Tab,           \* tabs of the user, each on a session of its own
  TokenLimit, TimeLimit, \* the limits of the user, time in seconds
  Passing,       \* the spans of time between two things that happen
  Touch,         \* between two writes of the time: 15 s
  Cap,           \* what a write counts at most: 30 s
  Gap,           \* between two reports that are taken: 5 s
  Hour,          \* the window of the tokens
  \* bounds: the time, tokens of a session, losses, throttles forgotten
  MaxTime, MaxTokens, MaxLosses, MaxForgotten

QuotaAssumption == IsFiniteSet(Tab) /\ {Cap, Touch} \cup Passing \subseteq Nat

VARIABLES
  now,
  row,           \* user_usage: [is, first, last, active, window, tokens]
  touched, reported, \* usageThrottle, usageReportThrottle: since when they allow again
  total,         \* [Tab -> tokens of its session]
  tab,           \* [Tab -> "open", "closing", "closed"]
  seen,          \* [Tab -> lastTotal: -1 before the first look]
  pending,       \* [Tab -> tokens not yet sent]
  flight,        \* [Tab -> [at: "none", "sent", "ok", "bad"; n, counted]]
  refused,       \* did the gate refuse the last request, of now, for its tokens
  observed, charged, twice, dropped, losses, \* ghosts: tokens seen, charged, charged again, given up
  writes, forgot \* ghosts: writes of the time to this row, throttles forgotten meanwhile

use == <<row, touched, reported, writes, forgot>>
tabs == <<total, tab, seen, pending, flight>>
ghosts == <<observed, charged, twice, dropped, losses>>
vars == <<now, use, tabs, refused, ghosts>>

NoRow == [is |-> FALSE, first |-> 0, last |-> 0, active |-> 0, window |-> 0, tokens |-> 0]
NewRow(t) == [is |-> TRUE, first |-> now, last |-> now, active |-> 0, window |-> now, tokens |-> t]
NoFlight == [at |-> "none", n |-> 0, counted |-> FALSE]
Least(a, b) == IF a < b THEN a ELSE b
Rounded(d) == (d + 500) \div 1000   \* Math.round() of milliseconds to seconds

------------------------------------------------------------------------------
(* The gate.                                                               *)

(* Slip: the span is taken from the first use, not from the last.          *)
TouchedFromFirst(r) ==
  IF r.is THEN [r EXCEPT !.active = @ + Rounded(Least(now - r.first, Cap)), !.last = now] ELSE NewRow(0)

(* touchUsage(): the time since the last write, up to half a minute, in    *)
(* whole seconds.                                                          *)
Touched(r) ==
  IF r.is THEN [r EXCEPT !.active = @ + Rounded(Least(now - r.last, Cap)), !.last = now] ELSE NewRow(0)

(* touchUsageThrottled()                                                   *)
Looked == IF now >= touched THEN Touched(row) ELSE row

(* The limits, of what has been used so far.                               *)
Verdict(r) ==
  CASE r.is /\ r.active >= TimeLimit -> "time"
    [] r.is /\ r.active < TimeLimit /\ r.tokens >= TokenLimit -> "tokens"
    [] OTHER -> "passed"

(* Nothing is counted before the first prompt of the day.                  *)
Call(prompt) ==
  /\ IF row.is \/ prompt
       THEN /\ row' = Looked /\ touched' = (IF now >= touched THEN now + Touch ELSE touched)
            /\ refused' = (Verdict(Looked) = "tokens")
       ELSE refused' = FALSE /\ UNCHANGED <<row, touched>>
  /\ writes' = writes + (IF row.is /\ now >= touched THEN 1 ELSE 0)
  /\ UNCHANGED <<now, reported, tabs, ghosts, forgot>>

------------------------------------------------------------------------------
(* The reporter in a tab.                                                  *)

Spends(t) ==
  /\ tab[t] = "open" /\ total[t] < MaxTokens
  /\ total' = [total EXCEPT ![t] = @ + 1]
  /\ UNCHANGED <<now, use, tab, seen, pending, flight, refused, ghosts>>

(* The projection is looked at: its first value is where counting starts.  *)
Observes(t) ==
  /\ tab[t] = "open" /\ seen[t] # total[t]
  /\ seen' = [seen EXCEPT ![t] = total[t]]
  /\ LET grown == IF seen[t] = -1 THEN 0 ELSE total[t] - seen[t]
     IN pending' = [pending EXCEPT ![t] = @ + grown] /\ observed' = observed + grown
  /\ UNCHANGED <<now, use, total, tab, flight, refused, charged, twice, dropped, losses>>

Flies(t) == flight' = [flight EXCEPT ![t] = [at |-> "sent", n |-> pending[t], counted |-> FALSE]]

Flush(t) ==
  /\ tab[t] = "open" /\ flight[t].at = "none" /\ pending[t] > 0
  /\ Flies(t) /\ pending' = [pending EXCEPT ![t] = 0]
  /\ UNCHANGED <<now, use, total, tab, seen, refused, ghosts>>

(* Slip: what was not taken is put back, what was is as well.              *)
SettledAnyhow(t) == pending[t] + flight[t].n

(* What the gateway has not taken is put back.                             *)
Settled(t) == IF flight[t].at = "ok" THEN pending[t] ELSE pending[t] + flight[t].n

Answered(t) ==
  /\ flight[t].at \in {"ok", "bad"} /\ tab[t] # "closed"
  /\ pending' = [pending EXCEPT ![t] = Settled(t)]
  /\ twice' = twice + (IF flight[t].at = "bad" /\ flight[t].counted THEN flight[t].n ELSE 0)
  /\ flight' = [flight EXCEPT ![t] = NoFlight]
  /\ UNCHANGED <<now, use, total, tab, seen, refused, observed, charged, dropped, losses>>

(* The tab is left: a last flush, unless a report is under way.            *)
Unmounts(t) ==
  /\ tab[t] = "open" /\ tab' = [tab EXCEPT ![t] = "closing"]
  /\ IF flight[t].at = "none" /\ pending[t] > 0
       THEN Flies(t) /\ pending' = [pending EXCEPT ![t] = 0]
       ELSE UNCHANGED <<flight, pending>>
  /\ UNCHANGED <<now, use, total, seen, refused, ghosts>>

(* Once that one has ended, the rest is sent once more and then left.      *)
LastFlush(t) ==
  /\ tab[t] = "closing" /\ flight[t].at = "none"
  /\ tab' = [tab EXCEPT ![t] = "closed"]
  /\ IF pending[t] > 0 THEN Flies(t) ELSE UNCHANGED flight
  /\ pending' = [pending EXCEPT ![t] = 0]
  /\ UNCHANGED <<now, use, total, seen, refused, ghosts>>

LastEnds(t) ==
  /\ tab[t] = "closed" /\ flight[t].at \in {"ok", "bad"}
  /\ dropped' = dropped + (IF flight[t].counted THEN 0 ELSE flight[t].n)
  /\ flight' = [flight EXCEPT ![t] = NoFlight]
  /\ UNCHANGED <<now, use, total, tab, seen, pending, refused, observed, charged, twice, losses>>

(* The session is opened again: a new reporter, with nothing seen yet.     *)
Mounts(t) ==
  /\ tab[t] = "closed" /\ flight[t].at = "none"
  /\ tab' = [tab EXCEPT ![t] = "open"] /\ seen' = [seen EXCEPT ![t] = -1]
  /\ UNCHANGED <<now, use, total, pending, flight, refused, ghosts>>

------------------------------------------------------------------------------
(* The report at the gateway.                                              *)

(* addTokens(): an hour after its beginning the window begins anew.        *)
WithTokens(r, n) ==
  IF ~r.is THEN NewRow(n)
  ELSE IF now - r.window >= Hour THEN [r EXCEPT !.window = now, !.tokens = n]
  ELSE [r EXCEPT !.tokens = @ + n]

Report(t) ==
  /\ flight[t].at = "sent"
  /\ IF now < reported
       THEN flight' = [flight EXCEPT ![t].at = "bad"] /\ UNCHANGED <<row, reported, charged>>
       ELSE /\ flight' = [flight EXCEPT ![t].at = "ok", ![t].counted = TRUE]
            /\ reported' = now + Gap
            /\ row' = WithTokens(row, flight[t].n) /\ charged' = charged + flight[t].n
  /\ UNCHANGED <<now, touched, writes, forgot, total, tab, seen, pending, refused, observed, twice, dropped, losses>>

(* The report is lost, or its answer is.                                   *)
Lost(t) ==
  /\ losses < MaxLosses /\ losses' = losses + 1
  /\ flight[t].at = "sent" \/ (flight[t].at = "ok" /\ flight[t].counted)
  /\ flight' = [flight EXCEPT ![t].at = "bad"]
  /\ UNCHANGED <<now, use, total, tab, seen, pending, refused, observed, charged, twice, dropped>>

NothingUsed == row' = NoRow /\ writes' = 0 /\ forgot' = 0 /\ refused' = FALSE

(* The main user changes a limit: used is nothing, the throttles forget.   *)
QuotaChanged ==
  /\ row.is /\ NothingUsed
  /\ touched' = 0 /\ reported' = 0
  /\ UNCHANGED <<now, tabs, ghosts>>

(* Another day has another row.                                            *)
Midnight == row.is /\ NothingUsed /\ UNCHANGED <<now, touched, reported, tabs, ghosts>>

(* The throttles are in memory: a gateway that starts again has neither,   *)
(* and one with too many users drops those it has had for longest.         *)
Forgets ==
  /\ forgot < MaxForgotten /\ forgot' = forgot + (IF row.is THEN 1 ELSE 0)
  /\ touched' \in {touched, 0} /\ reported' \in {reported, 0}
  /\ touched' # touched \/ reported' # reported
  /\ UNCHANGED <<now, row, writes, tabs, refused, ghosts>>

Tick ==
  /\ \E d \in Passing : now + d <= MaxTime /\ now' = now + d
  /\ refused' = FALSE
  /\ UNCHANGED <<use, tabs, ghosts>>

Init ==
  /\ now = 0 /\ row = NoRow /\ touched = 0 /\ reported = 0
  /\ total = [t \in Tab |-> 0] /\ tab = [t \in Tab |-> "open"] /\ seen = [t \in Tab |-> -1]
  /\ pending = [t \in Tab |-> 0] /\ flight = [t \in Tab |-> NoFlight] /\ refused = FALSE
  /\ observed = 0 /\ charged = 0 /\ twice = 0 /\ dropped = 0 /\ losses = 0 /\ writes = 0 /\ forgot = 0

Next ==
  \/ \E prompt \in BOOLEAN : Call(prompt)
  \/ \E t \in Tab : \/ Spends(t) \/ Observes(t) \/ Flush(t) \/ Answered(t) \/ Unmounts(t)
                    \/ LastFlush(t) \/ LastEnds(t) \/ Mounts(t) \/ Report(t) \/ Lost(t)
  \/ QuotaChanged \/ Midnight \/ Forgets \/ Tick

Spec == Init /\ [][Next]_vars

------------------------------------------------------------------------------
SumOf(f) == MapThenSumSet(LAMBDA t : f[t], Tab)
Uncounted == [t \in Tab |-> IF flight[t].counted THEN 0 ELSE flight[t].n]
Waiting == SumOf(pending)
Flying == SumOf(Uncounted)

(* Every token a tab has seen is waiting there, on its way, charged, or    *)
(* given up with the tab; none is charged again unless the answer to its   *)
(* report was lost: refused reports, closing tabs and new days do neither  *)
(* (token.tsx:66).                                                         *)
TokensAreCounted == charged + Waiting + Flying + dropped = observed + twice

(* The time counted is what has passed since the first prompt but for half *)
(* a second a write, and the writes are as far apart as the throttle says  *)
(* but when it was forgotten: the error stays small however requests, days *)
(* and changes of the limits fall (the comment at db.ts:2111).             *)
TimeWasSpent ==
  row.is => /\ 1000 * row.active <= (row.last - row.first) + 500 * writes
            /\ Touch * (writes - 1 - forgot) <= row.last - row.first
            /\ row.last <= now

(* The limit of tokens is one per hour (README.md:63): who is refused for  *)
(* it has used them in the last hour.                                      *)
RefusedForThisHour == refused => now - row.window < Hour
=============================================================================
