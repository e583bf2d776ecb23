--------------------------- MODULE ProgressProofs ---------------------------
(***************************************************************************)
(* Theorems about two modules of the suite MCProgress, for every value of  *)
(* their constants.  The modules share no state, so each invariant is of   *)
(* the form "if this behaviour is of that part, then ...", and a step of   *)
(* another part leaves it true.                                            *)
(***************************************************************************)
EXTENDS MCProgress, TLAPS

(* The part is chosen once.                                                *)
LEMMA PartStays == [Next]_vars => part' = part
  BY DEF Next, vars, SenderSteps, CarrierSteps, HeartbeatSteps, SupervisorSteps, PurgeSteps, LinkSteps, InboxSteps

------------------------------------------------------------------------------
(* MuxHeartbeat.  Its handlers work on a draft h of the heartbeat.         *)

Timers == {"interval", "stall", "probeWrite", "pong"}
Nonce == Heartbeat!Nonce
Horizon == Heartbeat!Horizon
Period == Heartbeat!Period

Probes == [nonce : Nat, flushed : BOOLEAN]
Sources == {"none", "ping-send-failed", "ping-timeout", "write-stall"}
Watches ==
  [disposed : BOOLEAN, busy : BOOLEAN, probe : Probes \cup {NoProbe}, timer : [Timers -> Nat \cup {Off}],
   source : Sources, closes : Nat, quiet : 0..Horizon, waiting : 0..Horizon, confirmed : SUBSET Nonce]

InPeriod(h) == \A t \in Timers : h.timer[t] # Off => h.timer[t] <= Period[t] + Lateness

Resting(h) ==
  h.disposed => ~h.busy /\ h.probe = NoProbe /\ \A t \in Timers : h.timer[t] = Off

(* The stall timer shows how long nothing has moved.                       *)
Stalling(h) == IF h.busy THEN h.timer["stall"] = h.quiet ELSE h.timer["stall"] = Off

(* One of the two deadlines of a probe shows how long it has waited.       *)
Deadlines(h) ==
  /\ h.probe = NoProbe => h.timer["probeWrite"] = Off /\ h.timer["pong"] = Off
  /\ h.probe # NoProbe /\ h.probe.flushed => h.timer["probeWrite"] = Off /\ h.timer["pong"] = h.waiting
  /\ h.probe # NoProbe /\ ~h.probe.flushed => h.timer["probeWrite"] = h.waiting /\ h.timer["pong"] = Off

(* A report is the last thing a heartbeat does.                            *)
Reported(h) ==
  /\ h.source # "none" => h.disposed
  /\ h.source = "write-stall" => h.quiet >= WriteStall \/ h.waiting >= WriteStall
  /\ h.source = "ping-timeout" => h.waiting >= PongTimeout

(* Only the last probe may be undecided.                                   *)
Decided(h, next) ==
  /\ h.probe # NoProbe => h.probe.nonce = next - 1 /\ next > 0
  /\ \A n \in 0..next - 1 : n \in h.confirmed \/ (n = next - 1 /\ (h.disposed \/ h.probe # NoProbe))

Watched(h) == h \in Watches /\ InPeriod(h) /\ Resting(h) /\ Stalling(h) /\ Deadlines(h) /\ Reported(h)

Sound(h, next, returned) == Watched(h) /\ Decided(h, next) /\ h.confirmed \subseteq returned

WireTyped ==
  /\ x7 \in BOOLEAN /\ x8 \subseteq Nonce /\ x9 \in 0..MaxProbes /\ x10 \subseteq Nonce

HeartbeatInv == WireTyped /\ Sound(Heartbeat!Watch, x9, x10)

(* What is assumed of the periods, and what follows of them.               *)
LEMMA Sizes ==
  /\ PingInterval \in Nat \ {0} /\ PongTimeout \in Nat \ {0} /\ WriteStall \in Nat \ {0}
  /\ Lateness \in Nat /\ MaxProbes \in Nat /\ Off \notin Nat /\ NoProbe \notin Probes /\ Foreign \notin Nonce
  /\ Nonce = 0..MaxProbes - 1
  /\ Horizon \in Nat /\ PongTimeout + Lateness < Horizon /\ WriteStall + Lateness < Horizon
  /\ \A t \in Timers : Period[t] \in Nat \ {0}
  /\ Period["stall"] = WriteStall /\ Period["probeWrite"] = WriteStall /\ Period["pong"] = PongTimeout
  BY ProbesAreTimed
     DEF Heartbeat!HeartbeatAssumption, Nonce, Heartbeat!Nonce, Probes, Horizon, Heartbeat!Horizon,
         Heartbeat!MaxOf2, Period, Heartbeat!Period, Timers

LEMMA WatchFields ==
  /\ Heartbeat!Watch.disposed = x1 /\ Heartbeat!Watch.busy = x2 /\ Heartbeat!Watch.probe = x3
  /\ Heartbeat!Watch.timer = x4 /\ Heartbeat!Watch.source = x5 /\ Heartbeat!Watch.closes = x6
  /\ Heartbeat!Watch.confirmed = x11 /\ Heartbeat!Watch.quiet = x12 /\ Heartbeat!Watch.waiting = x13
  BY DEF Heartbeat!Watch

(* What a handler leaves is the next state.                                *)
LEMMA Turned ==
  ASSUME NEW h \in Watches, Heartbeat!Turn(h)
  PROVE  Heartbeat!Watch' = h
<1>1. h = [disposed |-> h.disposed, busy |-> h.busy, probe |-> h.probe, timer |-> h.timer,
           source |-> h.source, closes |-> h.closes, quiet |-> h.quiet, waiting |-> h.waiting,
           confirmed |-> h.confirmed]
  BY DEF Watches
<1>2. QED BY <1>1 DEF Heartbeat!Turn, Heartbeat!Watch

LEMMA TeardownWatched ==
  ASSUME NEW h, Watched(h)
  PROVE  /\ Watched(Heartbeat!Teardown(h)) /\ Heartbeat!Teardown(h).disposed
         /\ Heartbeat!Teardown(h).confirmed = h.confirmed /\ Heartbeat!Teardown(h).probe = NoProbe
<1>1. CASE h.disposed
  BY <1>1 DEF Watched, Heartbeat!Teardown, Resting
<1>2. CASE ~h.disposed
  <2> DEFINE e == Heartbeat!Teardown(h)
  <2>1. h \in Watches
    BY DEF Watched
  <2>2. e = [h EXCEPT !.disposed = TRUE, !.busy = FALSE, !.probe = NoProbe, !.timer = [t \in Timers |-> Off]]
    BY <1>2 DEF Heartbeat!Teardown, Timers, Heartbeat!Timers
  <2> HIDE DEF e
  <2>3. /\ e \in Watches /\ e.disposed /\ ~e.busy /\ e.probe = NoProbe /\ e.timer = [t \in Timers |-> Off]
        /\ e.source = h.source /\ e.closes = h.closes /\ e.quiet = h.quiet /\ e.waiting = h.waiting
        /\ e.confirmed = h.confirmed
    BY <2>1, <2>2 DEF Watches
  <2>4. /\ \A t \in Timers : e.timer[t] = Off
        /\ "stall" \in Timers /\ "pong" \in Timers /\ "probeWrite" \in Timers
    BY <2>3 DEF Timers
  <2>5. InPeriod(e) /\ Resting(e) /\ Stalling(e) /\ Deadlines(e)
    BY <2>3, <2>4 DEF InPeriod, Resting, Stalling, Deadlines
  <2>6. Reported(e)
    BY <2>3 DEF Watched, Reported
  <2>7. QED BY <2>3, <2>5, <2>6 DEF Watched, e
<1>3. QED BY <1>1, <1>2

(* A report that is true ends it.                                          *)
LEMMA FailWatched ==
  ASSUME NEW h, Watched(h), NEW why \in Sources,
         why = "write-stall" => h.quiet >= WriteStall \/ h.waiting >= WriteStall,
         why = "ping-timeout" => h.waiting >= PongTimeout
  PROVE  /\ Watched(Heartbeat!FailAs(h, why)) /\ Heartbeat!FailAs(h, why).disposed
         /\ Heartbeat!FailAs(h, why).confirmed = h.confirmed /\ Heartbeat!FailAs(h, why).probe = NoProbe
<1>1. CASE h.disposed
  BY <1>1 DEF Watched, Heartbeat!FailAs, Resting
<1>2. CASE ~h.disposed
  <2> DEFINE d == Heartbeat!Teardown(h)
             e == Heartbeat!FailAs(h, why)
  <2>1. /\ Watched(d) /\ d.disposed /\ d.confirmed = h.confirmed /\ d.probe = NoProbe
    BY TeardownWatched
  <2>2. d.quiet = h.quiet /\ d.waiting = h.waiting
    BY DEF Watched, Watches, Heartbeat!Teardown
  <2>3. e = [d EXCEPT !.source = why, !.closes = @ + 1]
    BY <1>2 DEF Heartbeat!FailAs
  <2> HIDE DEF d, e
  <2>4. /\ e \in Watches /\ e.disposed /\ e.busy = d.busy /\ e.probe = d.probe /\ e.timer = d.timer
        /\ e.source = why /\ e.quiet = h.quiet /\ e.waiting = h.waiting /\ e.confirmed = h.confirmed
    <3>1. d \in Watches
      BY <2>1 DEF Watched
    <3>2. d.closes + 1 \in Nat
      BY <3>1 DEF Watches
    <3>3. e \in Watches
      BY <2>3, <3>1, <3>2 DEF Watches
    <3>4. /\ e.disposed = d.disposed /\ e.busy = d.busy /\ e.probe = d.probe /\ e.timer = d.timer
          /\ e.source = why /\ e.quiet = d.quiet /\ e.waiting = d.waiting /\ e.confirmed = d.confirmed
      BY <2>3, <3>1 DEF Watches
    <3>5. QED BY <2>1, <2>2, <3>3, <3>4
  <2>5. InPeriod(e) /\ Resting(e) /\ Stalling(e) /\ Deadlines(e)
    BY <2>1, <2>2, <2>4 DEF Watched, InPeriod, Resting, Stalling, Deadlines
  <2>6. Reported(e)
    BY <2>4 DEF Reported
  <2>7. QED BY <2>1, <2>4, <2>5, <2>6 DEF Watched, e
<1>3. QED BY <1>1, <1>2

(* What the sender tells the heartbeat.                                    *)
LEMMA BusyWatched ==
  ASSUME NEW h, Watched(h)
  PROVE  LET e == Heartbeat!MarkBusy(h)
         IN  Watched(e) /\ e.confirmed = h.confirmed /\ e.probe = h.probe /\ e.disposed = h.disposed
<1>1. CASE h.disposed \/ h.busy
  BY <1>1 DEF Heartbeat!MarkBusy
<1>2. CASE ~(h.disposed \/ h.busy)
  <2> DEFINE e == Heartbeat!MarkBusy(h)
  <2>1. e = [h EXCEPT !.busy = TRUE, !.timer = [h.timer EXCEPT !["stall"] = 0], !.quiet = 0]
    BY <1>2 DEF Heartbeat!MarkBusy, Watched, Watches
  <2> HIDE DEF e
  <2>2. h \in Watches /\ 0 \in 0..Horizon /\ h.timer \in [Timers -> Nat \cup {Off}]
    BY Sizes DEF Watched, Watches
  <2>3. /\ e \in Watches /\ e.disposed = h.disposed /\ e.busy /\ e.probe = h.probe
        /\ e.timer = [h.timer EXCEPT !["stall"] = 0] /\ e.source = h.source /\ e.quiet = 0
        /\ e.waiting = h.waiting /\ e.confirmed = h.confirmed
    BY <2>1, <2>2 DEF Watches
  <2>4. /\ e.timer["stall"] = 0 /\ e.timer["pong"] = h.timer["pong"]
        /\ e.timer["probeWrite"] = h.timer["probeWrite"]
        /\ \A t \in Timers : e.timer[t] = h.timer[t] \/ e.timer[t] = 0
    BY <2>2, <2>3 DEF Timers
  <2>5. InPeriod(e)
    BY <2>4, Sizes DEF InPeriod, Watched
  <2>6. Resting(e) /\ Stalling(e) /\ Deadlines(e) /\ Reported(e)
    BY <1>2, <2>3, <2>4 DEF Watched, Resting, Stalling, Deadlines, Reported
  <2>7. QED BY <2>3, <2>5, <2>6 DEF Watched, e
<1>3. QED BY <1>1, <1>2

LEMMA IdleWatched ==
  ASSUME NEW h, Watched(h)
  PROVE  LET e == Heartbeat!MarkIdle(h)
         IN  Watched(e) /\ e.confirmed = h.confirmed /\ e.probe = h.probe /\ e.disposed = h.disposed
<1>1. CASE h.disposed
  BY <1>1 DEF Heartbeat!MarkIdle
<1>2. CASE ~h.disposed
  <2> DEFINE e == Heartbeat!MarkIdle(h)
  <2>1. e = [h EXCEPT !.busy = FALSE, !.timer = [h.timer EXCEPT !["stall"] = Off]]
    BY <1>2 DEF Heartbeat!MarkIdle, Watched, Watches
  <2> HIDE DEF e
  <2>2. h \in Watches /\ h.timer \in [Timers -> Nat \cup {Off}]
    BY DEF Watched, Watches
  <2>3. /\ e \in Watches /\ e.disposed = h.disposed /\ ~e.busy /\ e.probe = h.probe
        /\ e.timer = [h.timer EXCEPT !["stall"] = Off] /\ e.source = h.source /\ e.quiet = h.quiet
        /\ e.waiting = h.waiting /\ e.confirmed = h.confirmed
    BY <2>1, <2>2 DEF Watches
  <2>4. /\ e.timer["stall"] = Off /\ e.timer["pong"] = h.timer["pong"]
        /\ e.timer["probeWrite"] = h.timer["probeWrite"]
        /\ \A t \in Timers : e.timer[t] = h.timer[t] \/ e.timer[t] = Off
    BY <2>2, <2>3 DEF Timers
  <2>5. InPeriod(e)
    BY <2>4, Sizes DEF InPeriod, Watched
  <2>6. Resting(e) /\ Stalling(e) /\ Deadlines(e) /\ Reported(e)
    BY <1>2, <2>3, <2>4 DEF Watched, Resting, Stalling, Deadlines, Reported
  <2>7. QED BY <2>3, <2>5, <2>6 DEF Watched, e
<1>3. QED BY <1>1, <1>2

LEMMA ProgressWatched ==
  ASSUME NEW h, Watched(h)
  PROVE  LET e == Heartbeat!NoteWriteProgress(h)
         IN  Watched(e) /\ e.confirmed = h.confirmed /\ e.probe = h.probe /\ e.disposed = h.disposed
<1>1. CASE h.disposed
  BY <1>1 DEF Heartbeat!NoteWriteProgress
<1>2. CASE ~h.disposed
  <2> DEFINE e == Heartbeat!NoteWriteProgress(h)
             un == Heartbeat!Unflushed(h)
             tm == [h.timer EXCEPT !["probeWrite"] = IF un THEN 0 ELSE h.timer["probeWrite"],
                                   !["stall"] = IF h.busy THEN 0 ELSE h.timer["stall"]]
             wt == IF un THEN 0 ELSE h.waiting
  <2>2. h \in Watches /\ h.timer \in [Timers -> Nat \cup {Off}] /\ 0 \in 0..Horizon /\ wt \in 0..Horizon
    BY Sizes DEF Watched, Watches
  <2>1. e = [h EXCEPT !.timer = tm, !.quiet = 0, !.waiting = wt]
    BY <1>2, <2>2 DEF Heartbeat!NoteWriteProgress, Watches, Timers
  <2>4. /\ tm \in [Timers -> Nat \cup {Off}]
        /\ tm["stall"] = IF h.busy THEN 0 ELSE h.timer["stall"]
        /\ tm["pong"] = h.timer["pong"]
        /\ tm["probeWrite"] = IF un THEN 0 ELSE h.timer["probeWrite"]
        /\ \A t \in Timers : tm[t] = h.timer[t] \/ tm[t] = 0
    BY <2>2 DEF Timers
  <2>0. un <=> h.probe # NoProbe /\ ~h.probe.flushed
    BY DEF Heartbeat!Unflushed
  <2>a. wt = IF un THEN 0 ELSE h.waiting
    OBVIOUS
  <2> HIDE DEF e, tm, wt, un
  <2>3. /\ e \in Watches /\ e.disposed = h.disposed /\ e.busy = h.busy /\ e.probe = h.probe
        /\ e.timer = tm /\ e.source = h.source /\ e.quiet = 0
        /\ e.waiting = wt /\ e.confirmed = h.confirmed
    BY <2>1, <2>2, <2>4 DEF Watches
  <2>5. InPeriod(e)
    BY <2>3, <2>4, Sizes DEF InPeriod, Watched
  <2>6. Resting(e) /\ Reported(e)
    BY <1>2, <2>3 DEF Watched, Resting, Reported
  <2>8. Stalling(e)
    BY <2>3, <2>4 DEF Watched, Stalling
  <2>9. Deadlines(e)
    BY <2>0, <2>a, <2>3, <2>4 DEF Watched, Deadlines
  <2>7. QED BY <2>3, <2>5, <2>6, <2>8, <2>9 DEF Watched, e
<1>3. QED BY <1>1, <1>2

(* The interval.                                                           *)
LEMMA TickWatched ==
  ASSUME NEW closesCarrier \in BOOLEAN, Watched(Heartbeat!Watch), ~x1
  PROVE  LET e == Heartbeat!Ticked(closesCarrier)
         IN  /\ Watched(e) /\ e.confirmed = x11
             /\ e.disposed \/ e.probe = x3
<1>1. CASE closesCarrier
  BY <1>1, TeardownWatched, WatchFields DEF Heartbeat!Ticked
<1>2. CASE ~closesCarrier
  <2> DEFINE h == Heartbeat!Watch
             e == Heartbeat!Ticked(closesCarrier)
  <2>0. /\ Watched(h) /\ ~h.disposed /\ h.confirmed = x11 /\ h.probe = x3
    BY WatchFields
  <2>a. e = [h EXCEPT !.timer["interval"] = 0]
    BY <1>2 DEF Heartbeat!Ticked
  <2> HIDE DEF h, e
  <2>2. h \in Watches /\ h.timer \in [Timers -> Nat \cup {Off}]
    BY <2>0 DEF Watched, Watches
  <2>1. e = [h EXCEPT !.timer = [h.timer EXCEPT !["interval"] = 0]]
    BY <2>a, <2>2 DEF Watches
  <2>3. /\ e \in Watches /\ e.disposed = h.disposed /\ e.busy = h.busy /\ e.probe = h.probe
        /\ e.timer = [h.timer EXCEPT !["interval"] = 0] /\ e.source = h.source /\ e.quiet = h.quiet
        /\ e.waiting = h.waiting /\ e.confirmed = h.confirmed
    BY <2>1, <2>2 DEF Watches
  <2>4. /\ e.timer["stall"] = h.timer["stall"] /\ e.timer["pong"] = h.timer["pong"]
        /\ e.timer["probeWrite"] = h.timer["probeWrite"]
        /\ \A t \in Timers : e.timer[t] = h.timer[t] \/ e.timer[t] = 0
    BY <2>2, <2>3 DEF Timers
  <2>5. InPeriod(e)
    BY <2>0, <2>4, Sizes DEF InPeriod, Watched
  <2>6. Resting(e) /\ Stalling(e) /\ Deadlines(e) /\ Reported(e)
    BY <2>0, <2>3, <2>4 DEF Watched, Resting, Stalling, Deadlines, Reported
  <2>7. QED BY <2>0, <2>3, <2>5, <2>6 DEF Watched, e
<1>3. QED BY <1>1, <1>2

(* A new probe is the only one.                                            *)
LEMMA ProbingWatched ==
  ASSUME NEW h, Watched(h), ~h.disposed, h.probe = NoProbe, x9 \in Nat
  PROVE  LET e == Heartbeat!Probing(h)
         IN  Watched(e) /\ e.confirmed = h.confirmed /\ e.disposed = h.disposed
             /\ e.probe # NoProbe /\ e.probe.nonce = x9 /\ e.quiet = h.quiet
<1> DEFINE p == [nonce |-> x9, flushed |-> FALSE]
           e == Heartbeat!Probing(h)
<1>2. /\ h \in Watches /\ h.timer \in [Timers -> Nat \cup {Off}] /\ 0 \in 0..Horizon
      /\ p \in Probes /\ p # NoProbe /\ ~p.flushed /\ p.nonce = x9
  <2>1. p \in Probes
    BY DEF Probes
  <2>2. p # NoProbe
    BY <2>1, Sizes
  <2>3. QED BY <2>1, <2>2, Sizes DEF Watched, Watches
<1>1. e = [h EXCEPT !.probe = p, !.timer = [h.timer EXCEPT !["probeWrite"] = 0], !.waiting = 0]
  BY <1>2 DEF Heartbeat!Probing, Watches
<1> HIDE DEF e, p
<1>3. /\ e \in Watches /\ e.disposed = h.disposed /\ e.busy = h.busy /\ e.probe = p
      /\ e.timer = [h.timer EXCEPT !["probeWrite"] = 0] /\ e.source = h.source /\ e.quiet = h.quiet
      /\ e.waiting = 0 /\ e.confirmed = h.confirmed
  BY <1>1, <1>2 DEF Watches
<1>4. /\ e.timer["stall"] = h.timer["stall"] /\ e.timer["pong"] = h.timer["pong"]
      /\ e.timer["probeWrite"] = 0
      /\ \A t \in Timers : e.timer[t] = h.timer[t] \/ e.timer[t] = 0
  BY <1>2, <1>3 DEF Timers
<1>5. InPeriod(e)
  BY <1>4, Sizes DEF InPeriod, Watched
<1>6. Resting(e) /\ Stalling(e) /\ Reported(e)
  BY <1>3, <1>4 DEF Watched, Resting, Stalling, Reported
<1>7. Deadlines(e)
  BY <1>2, <1>3, <1>4 DEF Watched, Deadlines
<1>8. QED BY <1>2, <1>3, <1>5, <1>6, <1>7 DEF Watched, e

(* The probe is written.                                                   *)
LEMMA HandedOverWatched ==
  ASSUME NEW h, Watched(h), h.probe # NoProbe
  PROVE  LET e == Heartbeat!HandedOver(h)
         IN  Watched(e) /\ e.confirmed = h.confirmed /\ e.disposed = h.disposed
             /\ e.probe # NoProbe /\ e.probe.nonce = h.probe.nonce
<1> DEFINE e == Heartbeat!HandedOver(h)
           p == [h.probe EXCEPT !.flushed = TRUE]
           tm == [h.timer EXCEPT !["probeWrite"] = Off, !["pong"] = 0]
<1>0. h \in Watches /\ h.probe \in Probes /\ ~h.disposed
  BY DEF Watched, Watches, Resting
<1>2. /\ h.timer \in [Timers -> Nat \cup {Off}] /\ 0 \in 0..Horizon
      /\ p \in Probes /\ p # NoProbe /\ p.flushed /\ p.nonce = h.probe.nonce
  <2>1. p \in Probes /\ p.flushed /\ p.nonce = h.probe.nonce
    BY <1>0 DEF Probes
  <2>2. p # NoProbe
    BY <2>1, Sizes
  <2>3. QED BY <1>0, <2>1, <2>2, Sizes DEF Watches
<1>1. e = [h EXCEPT !.probe = p, !.timer = tm, !.waiting = 0]
  BY <1>0, <1>2 DEF Heartbeat!HandedOver, Watches, Timers, Probes
<1>4. /\ tm["stall"] = h.timer["stall"] /\ tm["pong"] = 0 /\ tm["probeWrite"] = Off
      /\ \A t \in Timers : tm[t] = h.timer[t] \/ tm[t] = 0 \/ tm[t] = Off
      /\ tm \in [Timers -> Nat \cup {Off}]
  BY <1>2 DEF Timers
<1> HIDE DEF e, p, tm
<1>3. /\ e \in Watches /\ e.disposed = h.disposed /\ e.busy = h.busy /\ e.probe = p
      /\ e.timer = tm /\ e.source = h.source /\ e.quiet = h.quiet
      /\ e.waiting = 0 /\ e.confirmed = h.confirmed
  BY <1>0, <1>1, <1>2, <1>4 DEF Watches
<1>5. InPeriod(e)
  BY <1>3, <1>4, Sizes DEF InPeriod, Watched
<1>6. Resting(e) /\ Stalling(e) /\ Reported(e)
  BY <1>0, <1>3, <1>4 DEF Watched, Resting, Stalling, Reported
<1>7. Deadlines(e)
  BY <1>2, <1>3, <1>4 DEF Watched, Deadlines
<1>8. QED BY <1>2, <1>3, <1>5, <1>6, <1>7 DEF Watched, e

(* The probe is answered.                                                  *)
Answered(h, payload) ==
  [h EXCEPT !.timer["pong"] = Off, !.timer["probeWrite"] = Off, !.probe = NoProbe, !.confirmed = @ \cup {payload}]

LEMMA AnsweredWatched ==
  ASSUME NEW h, Watched(h), ~h.disposed, NEW n \in Nonce
  PROVE  LET e == Answered(h, n)
         IN  Watched(e) /\ e.confirmed = h.confirmed \cup {n} /\ e.disposed = h.disposed /\ e.probe = NoProbe
<1> DEFINE e == Answered(h, n)
           tm == [h.timer EXCEPT !["pong"] = Off, !["probeWrite"] = Off]
           cf == h.confirmed \cup {n}
<1>0. h \in Watches /\ h.timer \in [Timers -> Nat \cup {Off}] /\ cf \in SUBSET Nonce
  BY DEF Watched, Watches
<1>1. e = [h EXCEPT !.timer = tm, !.probe = NoProbe, !.confirmed = cf]
  BY <1>0 DEF Answered, Watches, Timers
<1>4. /\ tm["stall"] = h.timer["stall"] /\ tm["pong"] = Off /\ tm["probeWrite"] = Off
      /\ \A t \in Timers : tm[t] = h.timer[t] \/ tm[t] = Off
      /\ tm \in [Timers -> Nat \cup {Off}]
  BY <1>0 DEF Timers
<1> HIDE DEF e, tm, cf
<1>3. /\ e \in Watches /\ e.disposed = h.disposed /\ e.busy = h.busy /\ e.probe = NoProbe
      /\ e.timer = tm /\ e.source = h.source /\ e.quiet = h.quiet
      /\ e.waiting = h.waiting /\ e.confirmed = cf
  BY <1>0, <1>1, <1>4 DEF Watches
<1>5. InPeriod(e)
  BY <1>3, <1>4, Sizes DEF InPeriod, Watched
<1>6. Resting(e) /\ Stalling(e) /\ Reported(e) /\ Deadlines(e)
  BY <1>3, <1>4 DEF Watched, Resting, Stalling, Reported, Deadlines
<1>8. QED BY <1>3, <1>5, <1>6 DEF Watched, e, cf

(* Nothing is decided by a step that keeps the probe, or ends the heartbeat.*)
LEMMA DecidedStays ==
  ASSUME NEW h, NEW e, NEW next, Decided(h, next), e.confirmed = h.confirmed, h.disposed => e.disposed,
         \/ e.probe = h.probe
         \/ e.probe = NoProbe /\ e.disposed
         \/ h.probe # NoProbe /\ e.probe # NoProbe /\ e.probe.nonce = h.probe.nonce
  PROVE  Decided(e, next)
<1>1. e.probe # NoProbe => e.probe.nonce = next - 1 /\ next > 0
  BY DEF Decided
<1>2. ASSUME NEW n \in 0..next - 1
      PROVE  n \in e.confirmed \/ (n = next - 1 /\ (e.disposed \/ e.probe # NoProbe))
  BY DEF Decided
<1>3. QED BY <1>1, <1>2 DEF Decided

(* A handler that leaves a sound draft keeps the invariant.                *)
LEMMA HandlerKeeps ==
  ASSUME NEW e, WireTyped', Heartbeat!Turn(e), Sound(e, x9', x10')
  PROVE  HeartbeatInv'
<1>1. Heartbeat!Watch' = e
  BY Turned DEF Sound, Watched
<1>2. QED BY <1>1 DEF HeartbeatInv

(* Time passes, but no timer is run later than Lateness allows.            *)
LEMMA ElapseKeeps ==
  ASSUME HeartbeatInv, Heartbeat!Elapse
  PROVE  HeartbeatInv'
<1> DEFINE h == Heartbeat!Watch
           tm == [t \in Timers |-> IF x4[t] = Off THEN Off ELSE x4[t] + 1]
           e == [h EXCEPT !.timer = tm, !.quiet = Heartbeat!Older(x12), !.waiting = Heartbeat!Older(x13)]
<1>1. /\ Watched(h) /\ Decided(h, x9) /\ h.confirmed \subseteq x10 /\ WireTyped
      /\ h \in Watches /\ h.timer \in [Timers -> Nat \cup {Off}]
  BY DEF HeartbeatInv, Sound, Watched, Watches
<1>2. /\ h.timer = x4 /\ h.quiet = x12 /\ h.waiting = x13 /\ x12 \in 0..Horizon /\ x13 \in 0..Horizon
  BY <1>1, WatchFields DEF Watches
<1>3. /\ \A t \in Timers : x4[t] # Off => x4[t] < Period[t] + Lateness
      /\ x4' = tm /\ x12' = Heartbeat!Older(x12) /\ x13' = Heartbeat!Older(x13)
      /\ x1' = x1 /\ x2' = x2 /\ x3' = x3 /\ x5' = x5 /\ x6' = x6 /\ x11' = x11
      /\ x7' = x7 /\ x8' = x8 /\ x9' = x9 /\ x10' = x10
  BY DEF Heartbeat!Elapse, Heartbeat!wireVars, Period, Timers, Heartbeat!Timers
<1>4. /\ Heartbeat!Older(x12) \in 0..Horizon /\ Heartbeat!Older(x13) \in 0..Horizon
      /\ Heartbeat!Older(x12) >= x12 /\ Heartbeat!Older(x13) >= x13
      /\ x12 < Horizon => Heartbeat!Older(x12) = x12 + 1
      /\ x13 < Horizon => Heartbeat!Older(x13) = x13 + 1
  BY <1>2, Sizes DEF Heartbeat!Older, Horizon
<1>5. /\ tm \in [Timers -> Nat \cup {Off}]
      /\ \A t \in Timers : /\ tm[t] = Off <=> x4[t] = Off
                           /\ tm[t] # Off => tm[t] = x4[t] + 1 /\ tm[t] <= Period[t] + Lateness
  <2>1. x4 \in [Timers -> Nat \cup {Off}]
    BY <1>1, <1>2
  <2>2. ASSUME NEW t \in Timers
        PROVE  /\ tm[t] = IF x4[t] = Off THEN Off ELSE x4[t] + 1
               /\ x4[t] = Off \/ (x4[t] \in Nat /\ x4[t] + 1 # Off)
               /\ x4[t] # Off => x4[t] + 1 <= Period[t] + Lateness
    <3>1. x4[t] = Off \/ x4[t] \in Nat
      BY <2>1
    <3>2. Period[t] \in Nat /\ Lateness \in Nat /\ Off \notin Nat
      BY Sizes
    <3>3. x4[t] # Off => x4[t] < Period[t] + Lateness
      BY <1>3
    <3>4. QED BY <3>1, <3>2, <3>3
  <2>3. tm \in [Timers -> Nat \cup {Off}]
    BY <2>2
  <2> HIDE DEF tm
  <2>4. QED BY <2>2, <2>3
<1> HIDE DEF tm
<1>6. /\ e \in Watches /\ e.disposed = h.disposed /\ e.busy = h.busy /\ e.probe = h.probe
      /\ e.timer = tm /\ e.source = h.source /\ e.quiet = Heartbeat!Older(x12)
      /\ e.waiting = Heartbeat!Older(x13) /\ e.confirmed = h.confirmed /\ e.closes = h.closes
  BY <1>1, <1>4, <1>5 DEF Watches
<1>7. Heartbeat!Turn(e)
  BY <1>3, <1>6, WatchFields DEF Heartbeat!Turn
<1> HIDE DEF e
<1>8. "stall" \in Timers /\ "pong" \in Timers /\ "probeWrite" \in Timers
  BY DEF Timers
<1>9. InPeriod(e) /\ Resting(e)
  BY <1>1, <1>2, <1>5, <1>6 DEF InPeriod, Watched, Resting
<1>10. Stalling(e)
  <2>1. CASE h.busy
    <3>1. x4["stall"] = x12 /\ x4["stall"] # Off
      BY <1>1, <1>2, <2>1, Sizes DEF Watched, Stalling
    <3>2. x12 < WriteStall + Lateness
      BY <1>3, <1>8, <3>1, Sizes
    <3>3. QED BY <1>2, <1>4, <1>5, <1>6, <1>8, <2>1, <3>1, <3>2, Sizes DEF Stalling
  <2>2. CASE ~h.busy
    BY <1>1, <1>2, <1>5, <1>6, <1>8, <2>2 DEF Watched, Stalling
  <2>3. QED BY <2>1, <2>2
<1>11. Deadlines(e)
  <2>1. CASE h.probe = NoProbe
    BY <1>1, <1>2, <1>5, <1>6, <1>8, <2>1 DEF Watched, Deadlines
  <2>2. CASE h.probe # NoProbe /\ h.probe.flushed
    <3>1. x4["pong"] = x13 /\ x4["pong"] # Off /\ x4["probeWrite"] = Off
      BY <1>1, <1>2, <2>2, Sizes DEF Watched, Deadlines
    <3>2. x13 < PongTimeout + Lateness
      BY <1>3, <1>8, <3>1, Sizes
    <3>3. tm["pong"] = Heartbeat!Older(x13) /\ tm["probeWrite"] = Off
      BY <1>2, <1>4, <1>5, <1>8, <3>1, <3>2, Sizes
    <3>4. QED BY <1>6, <2>2, <3>3 DEF Deadlines
  <2>3. CASE h.probe # NoProbe /\ ~h.probe.flushed
    <3>1. x4["probeWrite"] = x13 /\ x4["probeWrite"] # Off /\ x4["pong"] = Off
      BY <1>1, <1>2, <2>3, Sizes DEF Watched, Deadlines
    <3>2. x13 < WriteStall + Lateness
      BY <1>3, <1>8, <3>1, Sizes
    <3>3. tm["probeWrite"] = Heartbeat!Older(x13) /\ tm["pong"] = Off
      BY <1>2, <1>4, <1>5, <1>8, <3>1, <3>2, Sizes
    <3>4. QED BY <1>6, <2>3, <3>3 DEF Deadlines
  <2>4. QED BY <2>1, <2>2, <2>3
<1>12. Reported(e)
  <2>1. /\ h.quiet \in Nat /\ h.waiting \in Nat /\ e.quiet \in Nat /\ e.waiting \in Nat
        /\ e.quiet >= h.quiet /\ e.waiting >= h.waiting
    BY <1>2, <1>4, <1>6
  <2>2. Reported(h) /\ WriteStall \in Nat /\ PongTimeout \in Nat
    BY <1>1, Sizes DEF Watched
  <2>3. QED BY <1>6, <2>1, <2>2 DEF Reported
<1>13. Decided(e, x9)
  BY <1>1, <1>6, DecidedStays
<1>14. Sound(e, x9', x10')
  BY <1>1, <1>3, <1>6, <1>9, <1>10, <1>11, <1>12, <1>13 DEF Sound, Watched
<1>15. QED BY <1>1, <1>3, <1>7, <1>14, HandlerKeeps DEF WireTyped

HeartbeatVars == <<x1, x2, x3, x4, x5, x6, x7, x8, x9, x10, x11, x12, x13>>

LEMMA HeartbeatStep ==
  ASSUME HeartbeatInv, [Heartbeat!Next]_HeartbeatVars
  PROVE  HeartbeatInv'
<1> DEFINE h == Heartbeat!Watch
<1>0. /\ Watched(h) /\ h \in Watches /\ Decided(h, x9) /\ h.confirmed \subseteq x10 /\ WireTyped
  BY DEF HeartbeatInv, Sound, Watched
<1>f. /\ h.disposed = x1 /\ h.busy = x2 /\ h.probe = x3 /\ h.timer = x4 /\ h.source = x5 /\ h.closes = x6
      /\ h.confirmed = x11 /\ h.quiet = x12 /\ h.waiting = x13
  BY WatchFields
<1> HIDE DEF h
<1>1. CASE UNCHANGED HeartbeatVars
  BY <1>1 DEF HeartbeatVars, HeartbeatInv, WireTyped, Sound, Watched, Decided, Heartbeat!Watch
<1>2. CASE Heartbeat!Start
  <2> DEFINE e == [h EXCEPT !.timer = [h.timer EXCEPT !["interval"] = 0]]
  <2>1. h.timer \in [Timers -> Nat \cup {Off}] /\ ~h.disposed
    BY <1>0, <1>2, <1>f DEF Watches, Heartbeat!Start
  <2>2. /\ e \in Watches /\ e.disposed = h.disposed /\ e.busy = h.busy /\ e.probe = h.probe
        /\ e.timer = [h.timer EXCEPT !["interval"] = 0] /\ e.source = h.source /\ e.quiet = h.quiet
        /\ e.waiting = h.waiting /\ e.confirmed = h.confirmed /\ e.closes = h.closes
    BY <1>0, <2>1 DEF Watches
  <2> HIDE DEF e
  <2>3. /\ e.timer["stall"] = h.timer["stall"] /\ e.timer["pong"] = h.timer["pong"]
        /\ e.timer["probeWrite"] = h.timer["probeWrite"]
        /\ \A t \in Timers : e.timer[t] = h.timer[t] \/ e.timer[t] = 0
    BY <2>1, <2>2 DEF Timers
  <2>4. InPeriod(e)
    BY <1>0, <2>3, Sizes DEF InPeriod, Watched
  <2>5. Resting(e) /\ Stalling(e) /\ Deadlines(e) /\ Reported(e)
    BY <1>0, <2>1, <2>2, <2>3 DEF Watched, Resting, Stalling, Deadlines, Reported
  <2>6. Decided(e, x9)
    BY <1>0, <2>2, DecidedStays
  <2>7. x7' = x7 /\ x8' = x8 /\ x9' = x9 /\ x10' = x10 /\ Heartbeat!Turn(e)
    BY <1>2, <1>f, <2>2 DEF Heartbeat!Start, Heartbeat!wireVars, Heartbeat!Turn
  <2>8. QED BY <1>0, <2>2, <2>4, <2>5, <2>6, <2>7, HandlerKeeps DEF Sound, Watched, WireTyped
<1>3. ASSUME NEW closesCarrier \in BOOLEAN, Heartbeat!IntervalTick(closesCarrier)
      PROVE  HeartbeatInv'
  <2> DEFINE e == Heartbeat!Ticked(closesCarrier)
  <2>0. ~x1
    <3>1. "interval" \in Timers /\ x4["interval"] # Off
      BY <1>3 DEF Heartbeat!IntervalTick, Heartbeat!Due, Timers
    <3>2. QED BY <1>0, <1>f, <3>1 DEF Watched, Resting
  <2>1. Watched(e) /\ e.confirmed = x11 /\ (e.disposed \/ e.probe = x3) /\ e \in Watches
    BY <1>0, <2>0, TickWatched DEF Watched, h
  <2>a. /\ e.probe = h.probe \/ (e.probe = NoProbe /\ e.disposed)
    BY <1>f, <2>1 DEF Watched, Resting
  <2>2. Decided(e, x9)
    BY <1>0, <1>f, <2>0, <2>1, <2>a, DecidedStays
  <2>3. CASE ~Heartbeat!MayProbe(e) /\ Heartbeat!Turn(e) /\ UNCHANGED Heartbeat!wireVars
    BY <1>0, <1>f, <2>1, <2>2, <2>3, HandlerKeeps DEF Sound, Heartbeat!wireVars, WireTyped
  <2>4. CASE /\ Heartbeat!MayProbe(e) /\ x9 < MaxProbes /\ Heartbeat!Turn(Heartbeat!Probing(e))
             /\ x8' = x8 \cup {x9} /\ x9' = x9 + 1 /\ UNCHANGED <<x7, x10>>
    <3> DEFINE f == Heartbeat!Probing(e)
    <3>1. x9 \in Nonce /\ x9 \in Nat /\ x9 + 1 \in 0..MaxProbes
      BY <1>0, <2>4, Sizes DEF WireTyped
    <3>2. ~e.disposed /\ e.probe = NoProbe
      BY <2>4 DEF Heartbeat!MayProbe
    <3>3. Watched(f) /\ f.confirmed = e.confirmed /\ f.probe # NoProbe /\ f.probe.nonce = x9
      BY <2>1, <3>1, <3>2, ProbingWatched
    <3> HIDE DEF f, e
    <3>4. Decided(f, x9 + 1)
      <4> DEFINE next == x9 + 1
      <4>1. next - 1 = x9 /\ next > 0
        BY <3>1
      <4> HIDE DEF next
      <4>2. ASSUME NEW n \in 0..next - 1 PROVE n \in f.confirmed \/ n = x9
        <5>1. n = x9 \/ n \in 0..x9 - 1
          BY <3>1, <4>1
        <5>2. QED BY <2>2, <3>2, <3>3, <5>1 DEF Decided
      <4>3. f.probe # NoProbe => f.probe.nonce = next - 1 /\ next > 0
        BY <3>3, <4>1
      <4>4. \A n \in 0..next - 1 : n \in f.confirmed \/ (n = next - 1 /\ (f.disposed \/ f.probe # NoProbe))
        BY <3>3, <4>1, <4>2
      <4>5. Decided(f, next)
        BY <4>3, <4>4 DEF Decided
      <4>6. QED BY <4>5 DEF next
    <3>5. WireTyped'
      BY <1>0, <2>4, <3>1 DEF WireTyped, Nonce, Heartbeat!Nonce
    <3>6. Sound(f, x9', x10')
      BY <1>0, <1>f, <2>1, <2>4, <3>3, <3>4 DEF Sound
    <3>7. QED BY <2>4, <3>5, <3>6, HandlerKeeps DEF f
  <2>5. CASE /\ Heartbeat!MayProbe(e) /\ Heartbeat!Turn(Heartbeat!FailAs(Heartbeat!Probing(e), "ping-send-failed"))
             /\ UNCHANGED Heartbeat!wireVars
    <3> DEFINE f == Heartbeat!Probing(e)
               g == Heartbeat!FailAs(f, "ping-send-failed")
    <3>2. ~e.disposed /\ e.probe = NoProbe
      BY <2>5 DEF Heartbeat!MayProbe
    <3>1. x9 \in Nat
      BY <1>0, Sizes DEF WireTyped
    <3>3. Watched(f) /\ f.confirmed = e.confirmed /\ f.disposed = e.disposed
      BY <2>1, <3>1, <3>2, ProbingWatched
    <3>4. Watched(g) /\ g.disposed /\ g.confirmed = f.confirmed /\ g.probe = NoProbe
      BY <3>3, FailWatched DEF Sources
    <3> HIDE DEF f, g, e
    <3>5. Decided(g, x9)
      BY <2>2, <3>3, <3>4, DecidedStays
    <3>6. QED BY <1>0, <1>f, <2>1, <2>5, <3>3, <3>4, <3>5, HandlerKeeps DEF Sound, Heartbeat!wireVars, WireTyped, f, g
  <2>6. QED BY <1>3, <2>3, <2>4, <2>5 DEF Heartbeat!IntervalTick
<1>4. ASSUME NEW payload \in Heartbeat!Nonce \cup {Foreign}, Heartbeat!NotePong(payload)
      PROVE  HeartbeatInv'
  <2> DEFINE e == Answered(h, payload)
  <2>1. /\ payload \in x10 \cup {Foreign} /\ ~h.disposed /\ h.probe # NoProbe /\ payload = h.probe.nonce
        /\ Heartbeat!Turn(e) /\ UNCHANGED Heartbeat!wireVars
    BY <1>4 DEF Heartbeat!NotePong, Heartbeat!Confirms, Answered, h
  <2>2. x9 \in 0..MaxProbes /\ MaxProbes \in Nat /\ Foreign \notin Nonce /\ Nonce = 0..MaxProbes - 1
    BY <1>0, Sizes DEF WireTyped
  <2>3. payload = x9 - 1 /\ x9 > 0
    BY <1>0, <2>1 DEF Decided
  <2>4. payload \in Nonce /\ payload \in x10
    BY <2>1, <2>2, <2>3
  <2>5. Watched(e) /\ e.confirmed = h.confirmed \cup {payload} /\ e.disposed = h.disposed /\ e.probe = NoProbe
    BY <1>0, <2>1, <2>4, AnsweredWatched
  <2> HIDE DEF e
  <2>6. \A n \in 0..x9 - 1 : n \in e.confirmed
    BY <1>0, <2>3, <2>5 DEF Decided
  <2>7. Decided(e, x9)
    BY <2>5, <2>6 DEF Decided
  <2>8. x7' = x7 /\ x8' = x8 /\ x9' = x9 /\ x10' = x10
    BY <2>1 DEF Heartbeat!wireVars
  <2>9. Sound(e, x9', x10')
    BY <1>0, <2>4, <2>5, <2>7, <2>8 DEF Sound
  <2>10. QED BY <1>0, <2>1, <2>8, <2>9, HandlerKeeps DEF WireTyped
<1>5. ASSUME NEW nonce \in Heartbeat!Nonce, NEW error \in BOOLEAN, Heartbeat!PingFlushed(nonce, error)
      PROVE  HeartbeatInv'
  <2>1. x8' \subseteq Nonce /\ x7' = x7 /\ x9' = x9 /\ x10' = x10
    BY <1>0, <1>5 DEF Heartbeat!PingFlushed, WireTyped
  <2>2. WireTyped'
    BY <1>0, <2>1 DEF WireTyped, Nonce, Heartbeat!Nonce
  <2>3. ASSUME NEW e, Watched(e), e.confirmed = h.confirmed, h.disposed => e.disposed, Heartbeat!Turn(e),
               \/ e.probe = h.probe
               \/ e.probe = NoProbe /\ e.disposed
               \/ h.probe # NoProbe /\ e.probe # NoProbe /\ e.probe.nonce = h.probe.nonce
        PROVE  HeartbeatInv'
    <3>1. Decided(e, x9)
      BY <1>0, <2>3, DecidedStays
    <3>2. Sound(e, x9', x10')
      BY <1>0, <2>1, <2>3, <3>1 DEF Sound
    <3>3. QED BY <2>2, <2>3, <3>2, HandlerKeeps
  <2>4. CASE ~Heartbeat!IsProbe(nonce)
    <3>1. Heartbeat!Turn(h)
      BY <1>5, <2>4 DEF Heartbeat!PingFlushed, h
    <3>2. QED BY <1>0, <2>3, <3>1
  <2>5. CASE Heartbeat!IsProbe(nonce) /\ error
    <3> DEFINE e == Heartbeat!FailAs(h, "ping-send-failed")
    <3>1. Heartbeat!Turn(e)
      BY <1>5, <2>5 DEF Heartbeat!PingFlushed, h
    <3>2. Watched(e) /\ e.disposed /\ e.confirmed = h.confirmed /\ e.probe = NoProbe
      BY <1>0, FailWatched DEF Sources
    <3> HIDE DEF e
    <3>3. QED BY <2>3, <3>1, <3>2
  <2>6. CASE Heartbeat!IsProbe(nonce) /\ ~error
    <3> DEFINE e == Heartbeat!HandedOver(h)
    <3>1. Heartbeat!Turn(e) /\ h.probe # NoProbe
      BY <1>5, <1>f, <2>6 DEF Heartbeat!PingFlushed, Heartbeat!IsProbe, h
    <3>2. /\ Watched(e) /\ e.confirmed = h.confirmed /\ e.disposed = h.disposed
          /\ e.probe # NoProbe /\ e.probe.nonce = h.probe.nonce
      BY <1>0, <3>1, HandedOverWatched
    <3> HIDE DEF e
    <3>3. QED BY <2>3, <3>1, <3>2
  <2>7. QED BY <2>4, <2>5, <2>6
<1>6. ASSUME NEW e, Watched(e), e.confirmed = h.confirmed, h.disposed => e.disposed, Heartbeat!Turn(e),
             UNCHANGED Heartbeat!wireVars, e.probe = h.probe \/ (e.probe = NoProbe /\ e.disposed)
      PROVE  HeartbeatInv'
  <2>1. Decided(e, x9)
    BY <1>0, <1>6, DecidedStays
  <2>2. x7' = x7 /\ x8' = x8 /\ x9' = x9 /\ x10' = x10
    BY <1>6 DEF Heartbeat!wireVars
  <2>3. Sound(e, x9', x10')
    BY <1>0, <1>6, <2>1, <2>2 DEF Sound
  <2>4. QED BY <1>0, <1>6, <2>2, <2>3, HandlerKeeps DEF WireTyped
<1>7. ASSUME NEW why \in Sources, Heartbeat!Turn(Heartbeat!FailAs(h, why)), UNCHANGED Heartbeat!wireVars,
             why = "write-stall" => h.quiet >= WriteStall \/ h.waiting >= WriteStall,
             why = "ping-timeout" => h.waiting >= PongTimeout
      PROVE  HeartbeatInv'
  <2> DEFINE e == Heartbeat!FailAs(h, why)
  <2>1. Watched(e) /\ e.disposed /\ e.confirmed = h.confirmed /\ e.probe = NoProbe
    BY <1>0, <1>7, FailWatched
  <2> HIDE DEF e
  <2>2. QED BY <1>6, <1>7, <2>1 DEF e
<1>d. /\ Heartbeat!Due("pong") => x4["pong"] # Off /\ x4["pong"] >= PongTimeout
      /\ Heartbeat!Due("stall") => x4["stall"] # Off /\ x4["stall"] >= WriteStall
      /\ Heartbeat!Due("probeWrite") => x4["probeWrite"] # Off /\ x4["probeWrite"] >= WriteStall
  BY Sizes DEF Heartbeat!Due, Period
<1>8. CASE Heartbeat!OnPongTimeout
  <2>1. /\ h.timer["pong"] # Off /\ h.timer["pong"] >= PongTimeout /\ h.probe # NoProbe
        /\ Heartbeat!Turn(Heartbeat!FailAs(h, "ping-timeout")) /\ UNCHANGED Heartbeat!wireVars
    BY <1>8, <1>d, <1>f DEF Heartbeat!OnPongTimeout, Heartbeat!Timeout, h
  <2>2. h.waiting >= PongTimeout
    BY <1>0, <2>1 DEF Watched, Deadlines
  <2>3. QED BY <1>7, <2>1, <2>2 DEF Sources
<1>9. CASE Heartbeat!OnStallTimeout
  <2>1. /\ h.timer["stall"] # Off /\ h.timer["stall"] >= WriteStall /\ h.busy
        /\ Heartbeat!Turn(Heartbeat!FailAs(h, "write-stall")) /\ UNCHANGED Heartbeat!wireVars
    BY <1>9, <1>d, <1>f DEF Heartbeat!OnStallTimeout, Heartbeat!Timeout, h
  <2>2. h.quiet >= WriteStall
    BY <1>0, <2>1 DEF Watched, Stalling
  <2>3. QED BY <1>7, <2>1, <2>2 DEF Sources
<1>10. CASE Heartbeat!OnProbeWriteTimeout
  <2>1. /\ h.timer["probeWrite"] # Off /\ h.timer["probeWrite"] >= WriteStall /\ h.probe # NoProbe
        /\ Heartbeat!Turn(Heartbeat!FailAs(h, "write-stall")) /\ UNCHANGED Heartbeat!wireVars
    BY <1>10, <1>d, <1>f DEF Heartbeat!OnProbeWriteTimeout, Heartbeat!Timeout, h
  <2>2. h.waiting >= WriteStall
    BY <1>0, <2>1 DEF Watched, Deadlines
  <2>3. QED BY <1>7, <2>1, <2>2 DEF Sources
<1>11. CASE Heartbeat!Dispose
  <2>1. Heartbeat!Turn(Heartbeat!Teardown(h)) /\ UNCHANGED Heartbeat!wireVars
    BY <1>11 DEF Heartbeat!Dispose, h
  <2>2. QED BY <1>0, <1>6, <2>1, TeardownWatched
<1>12. CASE Heartbeat!OnBusy
  <2>1. Heartbeat!Turn(Heartbeat!MarkBusy(h)) /\ UNCHANGED Heartbeat!wireVars
    BY <1>12 DEF Heartbeat!OnBusy, h
  <2>2. QED BY <1>0, <1>6, <2>1, BusyWatched
<1>13. CASE Heartbeat!OnIdle
  <2>1. Heartbeat!Turn(Heartbeat!MarkIdle(h)) /\ UNCHANGED Heartbeat!wireVars
    BY <1>13 DEF Heartbeat!OnIdle, h
  <2>2. QED BY <1>0, <1>6, <2>1, IdleWatched
<1>14. CASE Heartbeat!OnProgress
  <2>1. Heartbeat!Turn(Heartbeat!NoteWriteProgress(h)) /\ UNCHANGED Heartbeat!wireVars
    BY <1>14 DEF Heartbeat!OnProgress, h
  <2>2. QED BY <1>0, <1>6, <2>1, ProgressWatched
<1>15. ASSUME NEW nonce \in Heartbeat!Nonce, Heartbeat!PeerPong(nonce) PROVE HeartbeatInv'
  <2>1. /\ x7' = x7 /\ x8' = x8 /\ x9' = x9 /\ x10' = x10 \cup {nonce} /\ UNCHANGED Heartbeat!watchVars
    BY <1>15 DEF Heartbeat!PeerPong
  <2>2. Heartbeat!Turn(h)
    BY <1>f, <2>1 DEF Heartbeat!watchVars, Heartbeat!Turn
  <2>3. Sound(h, x9', x10')
    BY <1>0, <2>1 DEF Sound
  <2>4. WireTyped'
    BY <1>0, <2>1 DEF WireTyped, Nonce, Heartbeat!Nonce
  <2>5. QED BY <2>2, <2>3, <2>4, HandlerKeeps
<1>16. CASE Heartbeat!SocketCloses
  <2>1. /\ x7' = FALSE /\ x8' = x8 /\ x9' = x9 /\ x10' = x10 /\ UNCHANGED Heartbeat!watchVars
    BY <1>16 DEF Heartbeat!SocketCloses
  <2>2. Heartbeat!Turn(h)
    BY <1>f, <2>1 DEF Heartbeat!watchVars, Heartbeat!Turn
  <2>3. Sound(h, x9', x10')
    BY <1>0, <2>1 DEF Sound
  <2>4. WireTyped'
    BY <1>0, <2>1 DEF WireTyped, Nonce, Heartbeat!Nonce
  <2>5. QED BY <2>2, <2>3, <2>4, HandlerKeeps
<1>17. CASE Heartbeat!Elapse
  BY <1>17, ElapseKeeps
<1>18. QED BY <1>1, <1>2, <1>3, <1>4, <1>5, <1>8, <1>9, <1>10, <1>11, <1>12, <1>13, <1>14, <1>15, <1>16, <1>17
           DEF Heartbeat!Next

(* Silence of the peer is noticed within its period and never reported     *)
(* before, and a probe is settled by its own answer before the next one is *)
(* sent (remote-mux-heartbeat.ts).                                         *)
THEOREM SilenceNoticed == Spec => []SilenceIsTimed
<1> DEFINE Inv == part = "heartbeat" => HeartbeatInv
<1>1. Init => Inv
  <2>1. SUFFICES ASSUME Heartbeat!Init PROVE HeartbeatInv
    BY DEF Init
  <2> DEFINE h == Heartbeat!Watch
  <2>2. /\ h.disposed = FALSE /\ h.busy = FALSE /\ h.probe = NoProbe /\ h.timer = [t \in Timers |-> Off]
        /\ h.source = "none" /\ h.closes = 0 /\ h.confirmed = {} /\ h.quiet = 0 /\ h.waiting = 0
        /\ x7 = TRUE /\ x8 = {} /\ x9 = 0 /\ x10 = {}
    BY <2>1, WatchFields DEF Heartbeat!Init, Timers, Heartbeat!Timers
  <2>3. WireTyped
    BY <2>2, Sizes DEF WireTyped
  <2>4. h \in Watches
    <3>1. h = [disposed |-> FALSE, busy |-> FALSE, probe |-> NoProbe, timer |-> [t \in Timers |-> Off],
               source |-> "none", closes |-> 0, confirmed |-> {}, quiet |-> 0, waiting |-> 0]
      BY <2>1 DEF Heartbeat!Init, Heartbeat!Watch, Timers, Heartbeat!Timers
    <3>2. QED BY <3>1, Sizes DEF Watches, Sources
  <2> HIDE DEF h
  <2>5. \A t \in Timers : h.timer[t] = Off
    BY <2>2
  <2>6. Watched(h)
    BY <2>2, <2>4, <2>5 DEF Watched, InPeriod, Resting, Stalling, Deadlines, Reported, Timers
  <2>7. Decided(h, x9)
    BY <2>2 DEF Decided
  <2>8. QED BY <2>2, <2>3, <2>6, <2>7 DEF HeartbeatInv, Sound, h
<1>2. Inv /\ [Next]_vars => Inv'
  <2>1. SUFFICES ASSUME HeartbeatInv, [Next]_vars, part = "heartbeat" PROVE HeartbeatInv'
    BY PartStays
  <2>2. [Heartbeat!Next]_HeartbeatVars
    BY <2>1 DEF Next, vars, HeartbeatVars, SenderSteps, CarrierSteps, HeartbeatSteps, SupervisorSteps, PurgeSteps,
       LinkSteps, InboxSteps
  <2>3. QED BY <2>1, <2>2, HeartbeatStep
<1>3. Inv => SilenceIsTimed
  <2> DEFINE h == Heartbeat!Watch
  <2>1. SUFFICES ASSUME HeartbeatInv
                 PROVE  /\ Heartbeat!TypeOK /\ Heartbeat!NoticedInTime /\ Heartbeat!NoFalseAlarm
                        /\ Heartbeat!ConfirmedIfAnswered /\ Heartbeat!OneProbeAtATime
    BY DEF SilenceIsTimed
  <2>2. /\ Watched(h) /\ h \in Watches /\ Decided(h, x9) /\ h.confirmed \subseteq x10 /\ WireTyped
    BY <2>1 DEF HeartbeatInv, Sound, Watched
  <2>f. /\ h.disposed = x1 /\ h.busy = x2 /\ h.probe = x3 /\ h.timer = x4 /\ h.source = x5 /\ h.closes = x6
        /\ h.confirmed = x11 /\ h.quiet = x12 /\ h.waiting = x13
    BY WatchFields
  <2> HIDE DEF h
  <2>3. /\ x1 \in BOOLEAN /\ x2 \in BOOLEAN /\ x3 \in Probes \cup {NoProbe} /\ x4 \in [Timers -> Nat \cup {Off}]
        /\ x5 \in Sources /\ x6 \in Nat /\ x11 \subseteq Nonce /\ x12 \in 0..Horizon /\ x13 \in 0..Horizon
    BY <2>2, <2>f DEF Watches
  <2>4. x3 # NoProbe => x3.nonce \in Nonce
    BY <2>2, <2>f, Sizes DEF Decided, WireTyped
  <2>5. x3 \in [nonce : Nonce, flushed : BOOLEAN] \cup {NoProbe}
    BY <2>3, <2>4 DEF Probes
  <2>6. \A t \in Timers : x4[t] \in Heartbeat!Age(t) \cup {Off}
    <3>1. ASSUME NEW t \in Timers, x4[t] # Off PROVE x4[t] \in 0..Period[t] + Lateness
      BY <2>2, <2>3, <2>f, <3>1, Sizes DEF Watched, InPeriod
    <3>2. QED BY <3>1 DEF Heartbeat!Age, Period
  <2>7. Heartbeat!TypeOK
    BY <2>2, <2>3, <2>5, <2>6
       DEF Heartbeat!TypeOK, WireTyped, Sources, Timers, Heartbeat!Timers, Horizon, Nonce
  <2>8. Heartbeat!NoticedInTime
    <3>1. x2 => x12 <= WriteStall + Lateness
      BY <2>2, <2>3, <2>f, Sizes DEF Watched, Stalling, InPeriod, Timers
    <3>2. x3 # NoProbe /\ ~x3.flushed => x13 <= WriteStall + Lateness
      BY <2>2, <2>3, <2>f, Sizes DEF Watched, Deadlines, InPeriod, Timers
    <3>3. x3 # NoProbe /\ x3.flushed => x13 <= PongTimeout + Lateness
      BY <2>2, <2>3, <2>f, Sizes DEF Watched, Deadlines, InPeriod, Timers
    <3>4. QED BY <3>1, <3>2, <3>3, WatchFields DEF Heartbeat!NoticedInTime, Heartbeat!Unflushed
  <2>9. Heartbeat!NoFalseAlarm
    BY <2>2, <2>f DEF Watched, Reported, Heartbeat!NoFalseAlarm
  <2>10. Heartbeat!ConfirmedIfAnswered
    BY <2>2, <2>f DEF Heartbeat!ConfirmedIfAnswered
  <2>11. Heartbeat!OneProbeAtATime
    <3>1. ASSUME NEW n \in 0..x9 - 1, n + 1 < x9 PROVE n \in x11
      BY <2>2, <2>f, <3>1 DEF Decided, WireTyped
    <3>2. QED BY <3>1 DEF Heartbeat!OneProbeAtATime
  <2>12. QED BY <2>7, <2>8, <2>9, <2>10, <2>11
<1> HIDE DEF Inv
<1>4. QED BY <1>1, <1>2, <1>3, PTL DEF Spec

------------------------------------------------------------------------------
(* EmergencyPurge.                                                         *)

req == x2
busy == x3
unknown == x5
watch == x6
fails == x7
locked == x8
receipt == x11
signal == x12
helper == x13
born == x14
gateway == x15
host == x16
told == x17
guesses == x18
expiries == x19
crashes == x20

Phases == {"idle", "proving", "comparing", "launching", "awaiting", "answering", "over", "failed"}

PurgeTyped ==
  /\ req \in [Tx -> Phases] /\ watch \in [Tx -> {"off", "on", "late"}]
  /\ receipt \in [Tx -> {"none", "begun", "ready", "failed", "partial", "ok"}]
  /\ helper \in [Tx -> {"none", "starting", "begun", "ready", "stopping", "deleting", "over"}]
  /\ born \subseteq Tx
  /\ fails \in Nat /\ guesses \in Nat /\ expiries \in Nat /\ crashes \in Nat

(* The signal follows the answer, and deleting follows the signal.         *)
ToldFirst ==
  /\ signal \subseteq told
  /\ \A t \in Tx :
       /\ helper[t] \in {"stopping", "deleting"} => t \in told
       /\ receipt[t] \in {"partial", "ok"} => t \in told

(* A helper that reported its end is over.                                 *)
LastWords == \A t \in Tx : receipt[t] \in Purge!Final => helper[t] = "over"

(* Of a request under way the gateway knows what may have become of its    *)
(* helper, and one of an earlier process is not under way.                 *)
Launching ==
  \A t \in Tx :
    /\ req[t] \in {"idle", "proving", "comparing"} => helper[t] = "none"
    /\ req[t] \in {"idle", "proving", "comparing", "launching", "awaiting"} => watch[t] = "off"
    /\ req[t] = "awaiting" => t \in unknown
    /\ t \notin born => req[t] \in {"idle", "over"} /\ watch[t] = "off"

(* Who holds the lock: one at a time, and who may have a helper.           *)
Working(t) == req[t] \in {"proving", "comparing", "launching", "awaiting"} \/ watch[t] = "on"
Alive(t) == helper[t] \notin {"none", "over"}
OneWorks ==
  /\ \A t \in Tx : Working(t) => busy
  /\ \A t, u \in Tx : Working(t) /\ Working(u) => t = u
  /\ \A t \in born \cap Tx : Alive(t) => Working(t)

(* A comparison that is under way or was lost in a crash is one more than  *)
(* the failures recorded; once the host is down none follows.              *)
Comparing == \E t \in Tx : req[t] = "comparing"
Counting ==
  /\ locked => fails >= MaxFailed /\ ~Comparing /\ fails <= MaxFailed + expiries
  /\ ~locked => fails + 1 <= MaxFailed + expiries
  /\ Comparing => guesses <= fails + 1 + crashes
  /\ ~Comparing /\ (gateway \/ host) => guesses <= fails + crashes
  /\ guesses <= MaxFailed + expiries + crashes

PurgeInv == PurgeTyped /\ ToldFirst /\ LastWords /\ Launching /\ OneWorks /\ Counting

LEMMA TypedStep ==
  ASSUME PurgeTyped, Purge!Next
  PROVE  PurgeTyped'
<1> USE DEF PurgeTyped, Phases, req, busy, watch, born, fails, locked, receipt, helper, gateway, host, guesses, expiries, crashes,
    Purge!request, Purge!password, Purge!files, Purge!processes, Purge!Goto, Purge!Writes, Purge!Helper
<1>1. ASSUME NEW t \in Tx, Purge!Request(t) PROVE PurgeTyped'
  BY <1>1 DEF Purge!Request
<1>2. ASSUME NEW t \in Tx, Purge!HandlerSteps(t) PROVE PurgeTyped'
  <2>1. CASE Purge!LockedOut(t)
    BY <2>1 DEF Purge!LockedOut
  <2>2. CASE Purge!Compares(t)
    BY <2>2 DEF Purge!Compares
  <2>3. CASE Purge!WrongPassword(t)
    BY <2>3 DEF Purge!WrongPassword
  <2>4. CASE Purge!RightPassword(t)
    BY <2>4 DEF Purge!RightPassword, Purge!Proved
  <2>5. CASE Purge!LaunchConfirmed(t)
    BY <2>5 DEF Purge!LaunchConfirmed
  <2>6. CASE Purge!LaunchRefused(t)
    BY <2>6 DEF Purge!LaunchRefused, Purge!Failed
  <2>7. CASE Purge!LaunchTimesOut(t)
    BY <2>7 DEF Purge!LaunchTimesOut, Purge!Failed
  <2>8. CASE Purge!SeesReady(t)
    BY <2>8 DEF Purge!SeesReady
  <2>9. CASE Purge!SeesNoHelper(t) \/ Purge!ReadyComesLate(t)
    BY <2>9 DEF Purge!SeesNoHelper, Purge!ReadyComesLate, Purge!Failed
  <2>10. CASE Purge!AnswerFinishes(t) \/ Purge!ClientLeaves(t)
    BY <2>10 DEF Purge!AnswerFinishes, Purge!ClientLeaves
  <2>11. QED BY <1>2, <2>1, <2>2, <2>3, <2>4, <2>5, <2>6, <2>7, <2>8, <2>9, <2>10 DEF Purge!HandlerSteps
<1>3. ASSUME NEW t \in Tx, Purge!UnitStarts(t) \/ Purge!MonitorSees(t) \/ Purge!MonitorGivesUp(t) PROVE PurgeTyped'
  BY <1>3 DEF Purge!UnitStarts, Purge!MonitorSees, Purge!MonitorGivesUp
<1>4. ASSUME Purge!GatewayDies PROVE born' = {} /\ req' \in [Tx -> Phases] /\ watch' \in [Tx -> {"off", "on", "late"}]
  BY <1>4 DEF Purge!GatewayDies
<1>5. ASSUME NEW t \in Tx, Purge!HelperSteps(t) PROVE PurgeTyped'
  <2>1. CASE Purge!HelperBegins(t) \/ Purge!HelperReady(t)
    BY <2>1 DEF Purge!HelperBegins, Purge!HelperReady
  <2>2. CASE Purge!HelperRefuses(t) \/ Purge!HelperUnsignalled(t) \/ Purge!StopFails(t)
    BY <2>2 DEF Purge!HelperRefuses, Purge!HelperUnsignalled, Purge!StopFails, Purge!Ends
  <2>3. CASE Purge!HelperSignalled(t) \/ Purge!Stopped(t)
    BY <2>3 DEF Purge!HelperSignalled, Purge!Stopped
  <2>4. CASE Purge!HostStops(t)
    BY <1>4, <2>4 DEF Purge!HostStops
  <2>5. CASE Purge!GatewayStopped(t)
    BY <1>4, <2>5 DEF Purge!GatewayStopped
  <2>6. CASE Purge!Deletes(t)
    BY <2>6 DEF Purge!Deletes, Purge!Ends
  <2>7. QED BY <1>5, <2>1, <2>2, <2>3, <2>4, <2>5, <2>6 DEF Purge!HelperSteps
<1>6. CASE Purge!LockExpires \/ Purge!GatewayReturns
  BY <1>6 DEF Purge!LockExpires, Purge!GatewayReturns
<1>7. CASE Purge!GatewayCrashes \/ Purge!ParentGone
  BY <1>4, <1>7 DEF Purge!GatewayCrashes, Purge!ParentGone
<1>8. ASSUME NEW t \in Tx, Purge!NoDirectory(t) PROVE PurgeTyped'
  BY <1>4, <1>8 DEF Purge!NoDirectory, Purge!Proved
<1>9. QED BY <1>1, <1>2, <1>3, <1>5, <1>6, <1>7, <1>8 DEF Purge!Next

LEMMA TellingStep ==
  ASSUME PurgeTyped, ToldFirst, LastWords, Purge!Next
  PROVE  ToldFirst' /\ LastWords'
<1> USE DEF ToldFirst, LastWords, receipt, signal, helper, told, Purge!Final,
    Purge!request, Purge!password, Purge!files, Purge!processes, Purge!Goto, Purge!Writes, Purge!Helper
<1>t. receipt \in [Tx -> {"none", "begun", "ready", "failed", "partial", "ok"}] /\ DOMAIN helper = Tx
  BY DEF PurgeTyped
<1>1. ASSUME UNCHANGED <<x11, x12, x13, x17>> PROVE ToldFirst' /\ LastWords'
  BY <1>1
<1>2. ASSUME NEW t \in Tx, helper[t] = "none", x13' \in {x13, [x13 EXCEPT ![t] = "starting"]}, UNCHANGED <<x11, x12, x17>>
      PROVE  ToldFirst' /\ LastWords'
  BY <1>t, <1>2
<1>3. ASSUME NEW t \in Tx, Purge!HandlerSteps(t) PROVE ToldFirst' /\ LastWords'
  <2>1. CASE Purge!LockedOut(t) \/ Purge!Compares(t) \/ Purge!WrongPassword(t) \/ Purge!RightPassword(t)
    BY <1>1, <2>1 DEF Purge!LockedOut, Purge!Compares, Purge!WrongPassword, Purge!RightPassword
  <2>2. CASE Purge!LaunchConfirmed(t)
    BY <1>1, <1>2, <2>2 DEF Purge!LaunchConfirmed
  <2>3. CASE Purge!LaunchTimesOut(t)
    <3>1. UNCHANGED <<x11, x12, x17>> /\ (UNCHANGED x13 \/ (helper[t] = "none" /\ x13' = [x13 EXCEPT ![t] = "starting"]))
      <4>1. [x13 EXCEPT ![t] = x13[t]] = x13
        BY DEF PurgeTyped
      <4>2. QED BY <2>3, <4>1 DEF Purge!LaunchTimesOut, Purge!Failed
    <3>2. QED BY <1>1, <1>2, <3>1
  <2>4. CASE Purge!LaunchRefused(t) \/ Purge!SeesReady(t) \/ Purge!SeesNoHelper(t) \/ Purge!ReadyComesLate(t)
    BY <1>1, <2>4 DEF Purge!LaunchRefused, Purge!SeesReady, Purge!SeesNoHelper, Purge!ReadyComesLate, Purge!Failed
  <2>5. CASE Purge!AnswerFinishes(t)
    BY <2>5 DEF Purge!AnswerFinishes, Purge!Signals
  <2>6. CASE Purge!ClientLeaves(t)
    BY <1>1, <2>6 DEF Purge!ClientLeaves
  <2>7. QED BY <1>3, <2>1, <2>2, <2>3, <2>4, <2>5, <2>6 DEF Purge!HandlerSteps
<1>4. ASSUME NEW t \in Tx, Purge!HelperSteps(t) PROVE ToldFirst' /\ LastWords'
  <2>1. CASE Purge!HelperBegins(t)
    BY <1>t, <2>1 DEF Purge!HelperBegins
  <2>2. CASE Purge!HelperReady(t)
    BY <1>t, <2>2 DEF Purge!HelperReady
  <2>3. CASE Purge!HelperRefuses(t) \/ Purge!HelperUnsignalled(t) \/ Purge!StopFails(t)
    BY <1>t, <2>3 DEF Purge!HelperRefuses, Purge!HelperUnsignalled, Purge!StopFails, Purge!Ends
  <2>4. CASE Purge!HelperSignalled(t)
    BY <1>t, <2>4 DEF Purge!HelperSignalled
  <2>5. CASE Purge!Stopped(t)
    BY <1>t, <2>5 DEF Purge!Stopped
  <2>6. CASE Purge!HostStops(t) \/ Purge!GatewayStopped(t)
    BY <1>1, <2>6 DEF Purge!HostStops, Purge!GatewayStopped, Purge!GatewayDies
  <2>7. CASE Purge!Deletes(t)
    BY <1>t, <2>7 DEF Purge!Deletes, Purge!Ends
  <2>8. QED BY <1>4, <2>1, <2>2, <2>3, <2>4, <2>5, <2>6, <2>7 DEF Purge!HelperSteps
<1>5. ASSUME NEW t \in Tx, Purge!Request(t) \/ Purge!MonitorSees(t) \/ Purge!MonitorGivesUp(t)
      PROVE  ToldFirst' /\ LastWords'
  BY <1>1, <1>5 DEF Purge!Request, Purge!MonitorSees, Purge!MonitorGivesUp
<1>6. ASSUME NEW t \in Tx, Purge!UnitStarts(t) PROVE ToldFirst' /\ LastWords'
  BY <1>2, <1>6 DEF Purge!UnitStarts
<1>7. CASE Purge!LockExpires \/ Purge!GatewayCrashes \/ Purge!GatewayReturns \/ Purge!ParentGone
  BY <1>1, <1>7 DEF Purge!LockExpires, Purge!GatewayCrashes, Purge!GatewayReturns, Purge!ParentGone, Purge!GatewayDies
<1>8. ASSUME NEW t \in Tx, Purge!NoDirectory(t) PROVE ToldFirst' /\ LastWords'
  BY <1>1, <1>8 DEF Purge!NoDirectory, Purge!GatewayDies
<1>9. QED BY <1>3, <1>4, <1>5, <1>6, <1>7, <1>8 DEF Purge!Next

(* The gateway is gone, and with it all that it was doing.                 *)
LEMMA DiesQuietly ==
  ASSUME PurgeTyped, Launching, Purge!GatewayDies, UNCHANGED x13
  PROVE  /\ Launching' /\ OneWorks' /\ ~Comparing'
<1> USE DEF Launching, OneWorks, Working, Alive, Comparing, req, busy, unknown, watch, helper, born
<1>1. \A t \in Tx : req'[t] = (IF req[t] = "idle" THEN "idle" ELSE "over") /\ watch'[t] = "off"
  BY DEF Purge!GatewayDies
<1>2. born' = {}
  BY DEF Purge!GatewayDies
<1>3. QED BY <1>1, <1>2

LEMMA LaunchingStep ==
  ASSUME PurgeTyped, Launching, Purge!Next
  PROVE  Launching'
<1> USE DEF Launching, req, busy, unknown, watch, helper, born,
    Purge!request, Purge!password, Purge!files, Purge!processes, Purge!Goto, Purge!Writes, Purge!Helper
<1>t. DOMAIN req = Tx /\ DOMAIN helper = Tx /\ DOMAIN watch = Tx
  BY DEF PurgeTyped
<1>0. ASSUME UNCHANGED <<x2, x5, x6, x13, x14>> PROVE Launching'
  BY <1>0
<1>1. ASSUME NEW t \in Tx, Purge!Request(t) PROVE Launching'
  BY <1>t, <1>1 DEF Purge!Request
<1>2. ASSUME NEW t \in Tx, Purge!HandlerSteps(t) PROVE Launching'
  <2>1. CASE Purge!LockedOut(t)
    BY <1>t, <2>1 DEF Purge!LockedOut
  <2>2. CASE Purge!Compares(t)
    BY <1>t, <2>2 DEF Purge!Compares
  <2>3. CASE Purge!WrongPassword(t)
    BY <1>t, <2>3 DEF Purge!WrongPassword
  <2>4. CASE Purge!RightPassword(t)
    BY <1>t, <2>4 DEF Purge!RightPassword, Purge!Proved
  <2>5. CASE Purge!LaunchConfirmed(t)
    BY <1>t, <2>5 DEF Purge!LaunchConfirmed
  <2>6. CASE Purge!LaunchRefused(t)
    BY <1>t, <2>6 DEF Purge!LaunchRefused, Purge!Failed
  <2>7. CASE Purge!LaunchTimesOut(t)
    BY <1>t, <2>7 DEF Purge!LaunchTimesOut, Purge!Failed
  <2>8. CASE Purge!SeesReady(t)
    BY <1>t, <2>8 DEF Purge!SeesReady
  <2>9. CASE Purge!SeesNoHelper(t) \/ Purge!ReadyComesLate(t)
    BY <1>t, <2>9 DEF Purge!SeesNoHelper, Purge!ReadyComesLate, Purge!Failed
  <2>10. CASE Purge!AnswerFinishes(t) \/ Purge!ClientLeaves(t)
    BY <1>t, <2>10 DEF Purge!AnswerFinishes, Purge!ClientLeaves
  <2>11. QED BY <1>2, <2>1, <2>2, <2>3, <2>4, <2>5, <2>6, <2>7, <2>8, <2>9, <2>10 DEF Purge!HandlerSteps
<1>3. ASSUME NEW t \in Tx, Purge!UnitStarts(t) PROVE Launching'
  BY <1>t, <1>3 DEF Purge!UnitStarts
<1>4. ASSUME NEW t \in Tx, Purge!MonitorSees(t) PROVE Launching'
  BY <1>t, <1>4 DEF Purge!MonitorSees
<1>5. ASSUME NEW t \in Tx, Purge!MonitorGivesUp(t) PROVE Launching'
  BY <1>t, <1>5 DEF Purge!MonitorGivesUp
<1>6. ASSUME NEW t \in Tx, Purge!HelperSteps(t) PROVE Launching'
  <2>1. ASSUME NEW phase, helper[t] # "none", x13' = [x13 EXCEPT ![t] = phase], UNCHANGED <<x2, x5, x6, x14>>
        PROVE  Launching'
    BY <1>t, <2>1
  <2>2. CASE Purge!HelperBegins(t) \/ Purge!HelperReady(t)
    BY <2>1, <2>2 DEF Purge!HelperBegins, Purge!HelperReady
  <2>3. CASE Purge!HelperRefuses(t) \/ Purge!HelperUnsignalled(t) \/ Purge!StopFails(t)
    BY <2>1, <2>3 DEF Purge!HelperRefuses, Purge!HelperUnsignalled, Purge!StopFails, Purge!Ends
  <2>4. CASE Purge!HelperSignalled(t) \/ Purge!Stopped(t)
    BY <2>1, <2>4 DEF Purge!HelperSignalled, Purge!Stopped
  <2>5. CASE Purge!HostStops(t)
    BY <1>0, <2>5, DiesQuietly DEF Purge!HostStops
  <2>6. CASE Purge!GatewayStopped(t)
    BY <2>6, DiesQuietly DEF Purge!GatewayStopped
  <2>7. CASE Purge!Deletes(t)
    BY <2>1, <2>7 DEF Purge!Deletes, Purge!Ends
  <2>8. QED BY <1>6, <2>2, <2>3, <2>4, <2>5, <2>6, <2>7 DEF Purge!HelperSteps
<1>7. CASE Purge!LockExpires \/ Purge!GatewayReturns
  BY <1>0, <1>7 DEF Purge!LockExpires, Purge!GatewayReturns
<1>8. CASE Purge!GatewayCrashes \/ Purge!ParentGone
  BY <1>8, DiesQuietly DEF Purge!GatewayCrashes, Purge!ParentGone
<1>9. ASSUME NEW t \in Tx, Purge!NoDirectory(t) PROVE Launching'
  BY <1>9, DiesQuietly DEF Purge!NoDirectory
<1>10. QED BY <1>1, <1>2, <1>3, <1>4, <1>5, <1>6, <1>7, <1>8, <1>9 DEF Purge!Next

LEMMA OneWorksStep ==
  ASSUME PurgeTyped, LastWords, Launching, OneWorks, Purge!Next
  PROVE  OneWorks'
<1> USE DEF Launching, OneWorks, Working, Alive, req, busy, unknown, watch, helper, born,
    Purge!request, Purge!password, Purge!files, Purge!processes, Purge!Goto, Purge!Writes, Purge!Helper
<1>t. DOMAIN req = Tx /\ DOMAIN helper = Tx /\ DOMAIN watch = Tx
  BY DEF PurgeTyped
<1>0. ASSUME UNCHANGED <<x2, x3, x6, x13, x14>> PROVE OneWorks'
  BY <1>0
<1>1. ASSUME NEW t \in Tx, Purge!Request(t) PROVE OneWorks'
  <2>1. /\ \A u \in Tx : ~Working(u)
        /\ \A u \in Tx : Working(u)' <=> u = t
        /\ busy' /\ ~Alive(t) /\ x13' = x13 /\ born' = born \cup {t}
    BY <1>t, <1>1 DEF Purge!Request, Purge!Accepts
  <2>2. QED BY <2>1
(* A request gives its lock up.                                            *)
<1>2. ASSUME NEW t \in Tx, Working(t), \A u \in Tx \ {t} : req'[u] = req[u] /\ watch'[u] = watch[u],
             ~Working(t)', x13' = x13, born' = born, ~Alive(t)
      PROVE  OneWorks'
  BY <1>2
(* A request goes on with it.                                              *)
<1>3. ASSUME NEW t \in Tx, Working(t), \A u \in Tx \ {t} : /\ req'[u] = req[u] /\ watch'[u] = watch[u]
                                                           /\ helper'[u] = helper[u],
             Working(t)', busy', born' = born
      PROVE  OneWorks'
  BY <1>3
<1>4. ASSUME NEW t \in Tx, Purge!HandlerSteps(t) PROVE OneWorks'
  <2>1. CASE Purge!LockedOut(t)
    BY <1>t, <1>2, <2>1 DEF Purge!LockedOut
  <2>2. CASE Purge!Compares(t)
    BY <1>t, <1>3, <2>2 DEF Purge!Compares
  <2>3. CASE Purge!WrongPassword(t)
    BY <1>t, <1>2, <2>3 DEF Purge!WrongPassword
  <2>4. CASE Purge!RightPassword(t)
    BY <1>t, <1>2, <1>3, <2>4 DEF Purge!RightPassword, Purge!Proved
  <2>5. CASE Purge!LaunchConfirmed(t)
    BY <1>t, <1>3, <2>5 DEF Purge!LaunchConfirmed
  <2>6. CASE Purge!LaunchRefused(t)
    BY <1>t, <1>2, <1>3, <2>6 DEF Purge!LaunchRefused, Purge!Failed
  <2>7. CASE Purge!LaunchTimesOut(t)
    BY <1>t, <1>3, <2>7 DEF Purge!LaunchTimesOut, Purge!Failed
  <2>8. CASE Purge!SeesReady(t)
    BY <1>t, <1>3, <2>8 DEF Purge!SeesReady
  <2>9. CASE Purge!SeesNoHelper(t) \/ Purge!ReadyComesLate(t)
    BY <1>t, <1>3, <2>9 DEF Purge!SeesNoHelper, Purge!ReadyComesLate, Purge!Failed
  <2>10. CASE Purge!AnswerFinishes(t) \/ Purge!ClientLeaves(t)
    BY <1>t, <2>10 DEF Purge!AnswerFinishes, Purge!ClientLeaves
  <2>11. QED BY <1>4, <2>1, <2>2, <2>3, <2>4, <2>5, <2>6, <2>7, <2>8, <2>9, <2>10 DEF Purge!HandlerSteps
<1>5. ASSUME NEW t \in Tx, Purge!UnitStarts(t) PROVE OneWorks'
  BY <1>t, <1>3, <1>5 DEF Purge!UnitStarts
<1>6. ASSUME NEW t \in Tx, Purge!MonitorSees(t) PROVE OneWorks'
  <2>1. helper[t] = "over"
    BY <1>6 DEF Purge!MonitorSees, LastWords, receipt
  <2>2. req[t] \notin {"proving", "comparing", "launching", "awaiting"}
    BY <1>6 DEF Purge!MonitorSees
  <2>3. QED BY <1>t, <1>2, <1>6, <2>1, <2>2 DEF Purge!MonitorSees
<1>7. ASSUME NEW t \in Tx, Purge!MonitorGivesUp(t) PROVE OneWorks'
  BY <1>t, <1>7 DEF Purge!MonitorGivesUp
<1>8. ASSUME NEW t \in Tx, Purge!HelperSteps(t) PROVE OneWorks'
  <2>1. ASSUME NEW phase, Alive(t), x13' = [x13 EXCEPT ![t] = phase], UNCHANGED <<x2, x3, x6, x14>>
        PROVE  OneWorks'
    BY <1>t, <2>1
  <2>2. CASE Purge!HelperBegins(t) \/ Purge!HelperReady(t)
    BY <2>1, <2>2 DEF Purge!HelperBegins, Purge!HelperReady
  <2>3. CASE Purge!HelperRefuses(t) \/ Purge!HelperUnsignalled(t) \/ Purge!StopFails(t)
    BY <2>1, <2>3 DEF Purge!HelperRefuses, Purge!HelperUnsignalled, Purge!StopFails, Purge!Ends
  <2>4. CASE Purge!HelperSignalled(t) \/ Purge!Stopped(t)
    BY <2>1, <2>4 DEF Purge!HelperSignalled, Purge!Stopped
  <2>5. CASE Purge!HostStops(t)
    BY <1>0, <2>5, DiesQuietly DEF Purge!HostStops
  <2>6. CASE Purge!GatewayStopped(t)
    BY <2>6, DiesQuietly DEF Purge!GatewayStopped
  <2>7. CASE Purge!Deletes(t)
    BY <2>1, <2>7 DEF Purge!Deletes, Purge!Ends
  <2>8. QED BY <1>8, <2>2, <2>3, <2>4, <2>5, <2>6, <2>7 DEF Purge!HelperSteps
<1>9. CASE Purge!LockExpires \/ Purge!GatewayReturns
  BY <1>0, <1>9 DEF Purge!LockExpires, Purge!GatewayReturns
<1>10. CASE Purge!GatewayCrashes \/ Purge!ParentGone
  BY <1>10, DiesQuietly DEF Purge!GatewayCrashes, Purge!ParentGone
<1>11. ASSUME NEW t \in Tx, Purge!NoDirectory(t) PROVE OneWorks'
  BY <1>11, DiesQuietly DEF Purge!NoDirectory
<1>12. QED BY <1>1, <1>4, <1>5, <1>6, <1>7, <1>8, <1>9, <1>10, <1>11 DEF Purge!Next

LEMMA CountingStep ==
  ASSUME PurgeTyped, Launching, OneWorks, Counting, Purge!Next
  PROVE  Counting'
<1> USE DEF req, fails, locked, guesses, expiries, crashes, gateway, host,
    Purge!request, Purge!password, Purge!files, Purge!processes, Purge!Goto
<1>t. /\ fails \in Nat /\ guesses \in Nat /\ expiries \in Nat /\ crashes \in Nat /\ MaxFailed \in Nat \ {0}
      /\ DOMAIN req = Tx
  BY GuessesAreLimited DEF PurgeTyped, Purge!PurgeAssumption
<1>0. ASSUME Comparing' <=> Comparing, UNCHANGED <<x7, x8, x18, x19, x20>>, gateway' \/ host' => gateway \/ host
      PROVE  Counting'
  BY <1>0 DEF Counting
<1>1. ASSUME NEW t \in Tx, NEW phase, req[t] # "comparing", phase # "comparing", x2' = [x2 EXCEPT ![t] = phase]
      PROVE  Comparing' <=> Comparing
  BY <1>t, <1>1 DEF Comparing
<1>2. ASSUME NEW t \in Tx, NEW phase, req[t] = "comparing", phase # "comparing", x2' = [x2 EXCEPT ![t] = phase]
      PROVE  Comparing /\ ~Comparing'
  BY <1>t, <1>2 DEF Comparing, OneWorks, Working
<1>3. ASSUME Purge!GatewayDies, UNCHANGED <<x7, x8, x18, x19, x20>>, ~host' PROVE Counting'
  <2>1. ~Comparing' /\ ~gateway'
    BY <1>3, <1>t DEF Comparing, Purge!GatewayDies
  <2>2. QED BY <1>3, <2>1 DEF Counting
<1>4. ASSUME NEW t \in Tx, Purge!HandlerSteps(t) PROVE Counting'
  <2>1. CASE Purge!LockedOut(t)
    BY <1>0, <1>1, <2>1 DEF Purge!LockedOut
  <2>2. CASE Purge!Compares(t)
    <3>1. ~Comparing /\ Comparing'
      BY <1>t, <2>2 DEF Purge!Compares, Comparing, OneWorks, Working
    <3>2. /\ gateway /\ ~(locked /\ fails >= MaxFailed) /\ guesses' = guesses + 1
          /\ UNCHANGED <<x7, x8, x19, x20>>
      BY <2>2 DEF Purge!Compares
    <3>3. ~locked /\ guesses <= fails + crashes /\ fails + 1 <= MaxFailed + expiries
      BY <3>1, <3>2 DEF Counting
    <3>4. guesses' <= fails + 1 + crashes /\ guesses' <= MaxFailed + expiries + crashes
      BY <1>t, <3>2, <3>3
    <3>5. QED BY <3>1, <3>2, <3>3, <3>4 DEF Counting
  <2>3. CASE Purge!WrongPassword(t)
    <3>1. Comparing /\ ~Comparing'
      BY <1>2, <2>3 DEF Purge!WrongPassword
    <3>2. /\ fails' = fails + 1 /\ (locked' <=> locked \/ fails + 1 >= MaxFailed)
          /\ UNCHANGED <<x18, x19, x20>>
      BY <2>3 DEF Purge!WrongPassword
    <3>3. ~locked /\ guesses <= fails + 1 + crashes /\ fails + 1 <= MaxFailed + expiries
          /\ guesses <= MaxFailed + expiries + crashes
      BY <3>1 DEF Counting
    <3>4. /\ guesses' <= fails' + crashes'
          /\ locked' => fails' >= MaxFailed' /\ fails' <= MaxFailed' + expiries'
          /\ ~locked' => fails' + 1 <= MaxFailed' + expiries'
          /\ guesses' <= MaxFailed' + expiries' + crashes'
      BY <1>t, <3>2, <3>3
    <3>5. QED BY <3>1, <3>4 DEF Counting
  <2>4. CASE Purge!RightPassword(t)
    <3>1. ~Comparing'
      BY <1>2, <2>4 DEF Purge!RightPassword, Purge!Proved
    <3>2. fails' = 0 /\ ~locked' /\ guesses' = 0 /\ UNCHANGED <<x19, x20>>
      BY <2>4 DEF Purge!RightPassword, Purge!Proved
    <3>3. 0 + 1 <= MaxFailed + expiries /\ 0 <= 0 + crashes /\ 0 <= MaxFailed + expiries + crashes
      BY <1>t
    <3>4. QED BY <3>1, <3>2, <3>3 DEF Counting
  <2>5. CASE Purge!LaunchConfirmed(t)
    BY <1>0, <1>1, <2>5 DEF Purge!LaunchConfirmed
  <2>6. CASE Purge!LaunchRefused(t) \/ Purge!LaunchTimesOut(t)
    BY <1>0, <1>1, <2>6 DEF Purge!LaunchRefused, Purge!LaunchTimesOut, Purge!Failed
  <2>7. CASE Purge!SeesReady(t)
    BY <1>0, <1>1, <2>7 DEF Purge!SeesReady
  <2>8. CASE Purge!SeesNoHelper(t) \/ Purge!ReadyComesLate(t)
    BY <1>0, <1>1, <2>8 DEF Purge!SeesNoHelper, Purge!ReadyComesLate, Purge!Failed
  <2>9. CASE Purge!AnswerFinishes(t) \/ Purge!ClientLeaves(t)
    BY <1>0, <1>1, <2>9 DEF Purge!AnswerFinishes, Purge!ClientLeaves
  <2>10. QED BY <1>4, <2>1, <2>2, <2>3, <2>4, <2>5, <2>6, <2>7, <2>8, <2>9 DEF Purge!HandlerSteps
<1>5. ASSUME NEW t \in Tx, Purge!Request(t) PROVE Counting'
  BY <1>0, <1>1, <1>5 DEF Purge!Request
<1>6. ASSUME UNCHANGED <<x2, x7, x8, x18, x19, x20>>, gateway' \/ host' => gateway \/ host PROVE Counting'
  BY <1>0, <1>6 DEF Comparing
<1>7. ASSUME NEW t \in Tx, Purge!UnitStarts(t) \/ Purge!MonitorSees(t) \/ Purge!MonitorGivesUp(t) PROVE Counting'
  BY <1>6, <1>7 DEF Purge!UnitStarts, Purge!MonitorSees, Purge!MonitorGivesUp
<1>8. ASSUME NEW t \in Tx, Purge!HelperSteps(t) PROVE Counting'
  <2>1. CASE Purge!HelperBegins(t) \/ Purge!HelperReady(t) \/ Purge!HelperSignalled(t) \/ Purge!Stopped(t)
    BY <1>6, <2>1 DEF Purge!HelperBegins, Purge!HelperReady, Purge!HelperSignalled, Purge!Stopped
  <2>2. CASE Purge!HelperRefuses(t) \/ Purge!HelperUnsignalled(t) \/ Purge!StopFails(t) \/ Purge!Deletes(t)
    BY <1>6, <2>2 DEF Purge!HelperRefuses, Purge!HelperUnsignalled, Purge!StopFails, Purge!Deletes, Purge!Ends
  <2>3. CASE Purge!HostStops(t)
    BY <1>3, <1>6, <2>3 DEF Purge!HostStops, Purge!StopTargetMatches
  <2>4. CASE Purge!GatewayStopped(t)
    BY <1>3, <2>4 DEF Purge!GatewayStopped
  <2>5. QED BY <1>8, <2>1, <2>2, <2>3, <2>4 DEF Purge!HelperSteps
<1>9. CASE Purge!LockExpires
  <2>1. (Comparing' <=> Comparing) /\ locked /\ ~locked' /\ expiries' = expiries + 1
        /\ UNCHANGED <<x7, x18, x20, x15, x16>>
    BY <1>9 DEF Purge!LockExpires, Comparing
  <2>2. ~Comparing /\ fails <= MaxFailed + expiries /\ guesses <= MaxFailed + expiries + crashes
        /\ (gateway \/ host => guesses <= fails + crashes)
    BY <2>1 DEF Counting
  <2>3. fails + 1 <= MaxFailed + expiries' /\ guesses <= MaxFailed + expiries' + crashes
    BY <1>t, <2>1, <2>2
  <2>4. QED BY <2>1, <2>2, <2>3 DEF Counting
<1>10. CASE Purge!GatewayCrashes
  <2>1. ~Comparing' /\ gateway /\ crashes' = crashes + 1 /\ UNCHANGED <<x7, x8, x18, x19>>
    BY <1>10, <1>t DEF Purge!GatewayCrashes, Purge!GatewayDies, Comparing
  <2>2. guesses <= fails + 1 + crashes \/ guesses <= fails + crashes
    BY <2>1 DEF Counting
  <2>3. guesses <= fails + crashes' /\ (guesses <= MaxFailed + expiries + crashes => guesses <= MaxFailed + expiries + crashes')
    BY <1>t, <2>1, <2>2
  <2>4. QED BY <2>1, <2>3 DEF Counting
<1>11. CASE Purge!GatewayReturns
  BY <1>6, <1>11 DEF Purge!GatewayReturns
<1>12. CASE Purge!ParentGone
  BY <1>3, <1>12 DEF Purge!ParentGone
<1>13. ASSUME NEW t \in Tx, Purge!NoDirectory(t) PROVE Counting'
  <2>1. ~Comparing' /\ fails' = 0 /\ ~locked' /\ guesses' = 0 /\ crashes' = crashes + 1 /\ UNCHANGED x19
    BY <1>13, <1>t DEF Purge!NoDirectory, Purge!Proved, Purge!GatewayDies, Comparing
  <2>2. 0 + 1 <= MaxFailed + expiries /\ 0 <= 0 + (crashes + 1) /\ 0 <= MaxFailed + expiries + (crashes + 1)
    BY <1>t
  <2>3. QED BY <2>1, <2>2 DEF Counting
<1>14. QED BY <1>4, <1>5, <1>7, <1>8, <1>9, <1>10, <1>11, <1>12, <1>13 DEF Purge!Next

PurgeState == <<x1, x2, x3, x4, x5, x6, x7, x8, x9, x10, x11, x12, x13, x14, x15, x16, x17, x18, x19, x20>>

(* The purge deletes only what it announced, is locked while a helper may  *)
(* come, and counts the passwords tried (admin.ts:448, 639, 655).          *)
THEOREM PurgeHolds == Spec => []PurgeIsSafe
<1> DEFINE Inv == part = "purge" => PurgeInv
<1>1. Init => Inv
  <2>1. SUFFICES ASSUME Purge!Init PROVE PurgeInv
    BY DEF Init
  <2> USE DEF Purge!Init, req, busy, unknown, watch, fails, locked, receipt, signal, helper, born, gateway, host, told,
      guesses, expiries, crashes
  <2>2. PurgeTyped
    BY <2>1 DEF PurgeTyped, Phases
  <2>3. ToldFirst /\ LastWords /\ Launching
    BY <2>1 DEF ToldFirst, LastWords, Launching, Purge!Final
  <2>4. OneWorks
    BY <2>1 DEF OneWorks, Working, Alive
  <2>5. Counting
    BY <2>1, GuessesAreLimited DEF Counting, Comparing, Purge!PurgeAssumption
  <2>6. QED BY <2>2, <2>3, <2>4, <2>5 DEF PurgeInv
<1>2. Inv /\ [Next]_vars => Inv'
  <2>1. SUFFICES ASSUME PurgeInv, [Next]_vars, part = "purge" PROVE PurgeInv'
    BY PartStays
  <2>2. [Purge!Next]_PurgeState
    BY <2>1 DEF Next, vars, PurgeState, SenderSteps, CarrierSteps, HeartbeatSteps, SupervisorSteps, PurgeSteps,
       LinkSteps, InboxSteps
  <2>3. CASE Purge!Next
    BY <2>1, <2>3, TypedStep, TellingStep, LaunchingStep, OneWorksStep, CountingStep DEF PurgeInv
  <2>4. CASE UNCHANGED PurgeState
    BY <2>1, <2>4
       DEF PurgeState, PurgeInv, PurgeTyped, ToldFirst, LastWords, Launching, OneWorks, Working, Alive, Counting,
           Comparing, req, busy, unknown, watch, fails, locked, receipt, signal, helper, born, gateway, host, told,
           guesses, expiries, crashes
  <2>5. QED BY <2>2, <2>3, <2>4
<1>3. Inv => PurgeIsSafe
  <2>1. SUFFICES ASSUME PurgeInv
                 PROVE  Purge!DeletesOnlyIfTold /\ Purge!LockCoversHelper /\ Purge!GuessesAreCounted
    BY DEF PurgeIsSafe
  <2>2. Purge!DeletesOnlyIfTold
    BY <2>1 DEF PurgeInv, ToldFirst, helper, receipt, told, Purge!DeletesOnlyIfTold
  <2>3. Purge!LockCoversHelper
    <3>1. born \subseteq Tx
      BY <2>1 DEF PurgeInv, PurgeTyped
    <3>2. QED BY <2>1, <3>1 DEF PurgeInv, OneWorks, Alive, Purge!LockCoversHelper, helper, born, busy
  <2>4. Purge!GuessesAreCounted
    BY <2>1 DEF PurgeInv, Counting, guesses, expiries, crashes, Purge!GuessesAreCounted
  <2>5. QED BY <2>2, <2>3, <2>4
<1> HIDE DEF Inv
<1>4. QED BY <1>1, <1>2, <1>3, PTL DEF Spec

=============================================================================
