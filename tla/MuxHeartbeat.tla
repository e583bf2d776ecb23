---------------------------- MODULE MuxHeartbeat -----------------------------
(***************************************************************************)
(* The watchdog of one direction of the carrier: class MuxHeartbeat of     *)
(* src/src/remote-mux-heartbeat.ts.  It closes the carrier when a Ping     *)
(* cannot be written, when its Pong does not come, or when accepted data   *)
(* makes no write progress.                                                *)
(*                                                                         *)
(* Time is discrete.  A timer is Off or the time since it was armed; it is *)
(* due after its period and the event loop runs it at most Lateness units  *)
(* later.  As in MuxSender, a handler is built as a draft and is one step. *)
(***************************************************************************)
EXTENDS Integers, FiniteSets

CONSTANTS
  PingInterval, PongTimeout, WriteStall,   \* periods, in time units
  Lateness,                                \* how late a due timer may run
  Off,                                     \* a timer that is not armed
  NoProbe,                                 \* `probe === null'
  Foreign,                                 \* a Pong payload that is no nonce
  MaxProbes                                \* BOUND: probes in a behaviour

Timers == {"interval", "stall", "probeWrite", "pong"}
Period == [interval |-> PingInterval, stall |-> WriteStall,
           probeWrite |-> WriteStall, pong |-> PongTimeout]
Nonce == 0..MaxProbes - 1
MaxOf2(a, b) == IF a >= b THEN a ELSE b
Horizon == MaxOf2(PongTimeout, WriteStall) + Lateness + 1
                                           \* BOUND: ages are counted up to it

HeartbeatAssumption ==
  /\ {PingInterval, PongTimeout, WriteStall} \subseteq Nat \ {0}
  /\ {Lateness, MaxProbes} \subseteq Nat
  /\ Off \notin Nat
  /\ NoProbe \notin [nonce : Nat, flushed : BOOLEAN]
  /\ Foreign \notin Nonce

VARIABLES
  disposed, busy,
  probe,        \* NoProbe, or the probe waiting for its Pong
  timer,        \* [Timers -> Off or age]
  source,       \* what onClose was called with, "none" before
  closes,       \* how often onClose was called
  socketOpen,
  owed,         \* nonces whose ping() callback has not fired
  nextNonce,    \* nonces below it have been sent
  answered,     \* nonces the peer has returned in a Pong
  confirmed,    \* nonces accepted as answered
  quiet,        \* time since data was last known to move: progress or the
                \* busy edge
  waiting       \* time the probe has been waiting in its present state

watchVars == <<disposed, busy, probe, timer, source, closes, confirmed, quiet,
               waiting>>
wireVars  == <<socketOpen, owed, nextNonce, answered>>
hbVars    == <<watchVars, wireVars>>

------------------------------------------------------------------------------
Watch ==
  [disposed |-> disposed, busy |-> busy, probe |-> probe, timer |-> timer,
   source |-> source, closes |-> closes, confirmed |-> confirmed,
   quiet |-> quiet, waiting |-> waiting]

Turn(h) ==
  /\ disposed' = h.disposed /\ busy' = h.busy /\ probe' = h.probe
  /\ timer' = h.timer /\ source' = h.source /\ closes' = h.closes
  /\ confirmed' = h.confirmed /\ quiet' = h.quiet /\ waiting' = h.waiting

(* teardown(): every timer is cancelled.                                   *)
Teardown(h) ==
  IF h.disposed THEN h
  ELSE [h EXCEPT !.disposed = TRUE, !.busy = FALSE, !.probe = NoProbe,
                 !.timer = [t \in Timers |-> Off]]

(* fail(source): converge first, then notify once.                         *)
FailAs(h, why) ==
  IF h.disposed THEN h
  ELSE [Teardown(h) EXCEPT !.source = why, !.closes = @ + 1]

Unflushed(h) == h.probe # NoProbe /\ ~h.probe.flushed

(* Slip: being busy already restarts the stall period.                     *)
MarkBusyEachTime(h) ==
  IF h.disposed THEN h
  ELSE [h EXCEPT !.busy = TRUE, !.timer["stall"] = 0,
                 !.quiet = IF h.busy THEN @ ELSE 0]

(* markBusy(): edge-triggered, it does not restart a running stall period. *)
MarkBusy(h) ==
  IF h.disposed \/ h.busy THEN h
  ELSE [h EXCEPT !.busy = TRUE, !.timer["stall"] = 0, !.quiet = 0]

MarkIdle(h) ==
  IF h.disposed THEN h
  ELSE [h EXCEPT !.busy = FALSE, !.timer["stall"] = Off]

(* noteWriteProgress(): restarts the stall period, and the write deadline  *)
(* of a Ping still queued behind the data; never the deadline of its Pong. *)
NoteWriteProgress(h) ==
  IF h.disposed THEN h
  ELSE [h EXCEPT
         !.timer["probeWrite"] = IF Unflushed(h) THEN 0 ELSE @,
         !.timer["stall"] = IF h.busy THEN 0 ELSE @,
         !.quiet = 0,
         !.waiting = IF Unflushed(h) THEN 0 ELSE @]

------------------------------------------------------------------------------
Start ==
  /\ ~disposed /\ timer["interval"] = Off
  /\ timer' = [timer EXCEPT !["interval"] = 0]
  /\ UNCHANGED <<disposed, busy, probe, source, closes, confirmed, quiet,
                 waiting, wireVars>>

(* Slip: a deadline fires one unit early.                                   *)
DueEarly(t) == timer[t] # Off /\ timer[t] >= Period[t] - 1

Due(t) == timer[t] # Off /\ timer[t] >= Period[t]

(* The owner's onTick() may dispose this heartbeat.                        *)
Ticked(closesCarrier) ==
  IF closesCarrier THEN Teardown(Watch) ELSE [Watch EXCEPT !.timer["interval"] = 0]

(* beginProbe(): registered before the Ping is handed over.                *)
Probing(h) ==
  [h EXCEPT !.probe = [nonce |-> nextNonce, flushed |-> FALSE],
            !.timer["probeWrite"] = 0, !.waiting = 0]

(* Slip: an undecided probe does not keep a new one from being sent.       *)
MayProbeAgain(h) == ~h.disposed /\ socketOpen

MayProbe(h) == ~h.disposed /\ h.probe = NoProbe /\ socketOpen

(* The interval: tick(), then arm the next one.                            *)
IntervalTick(closesCarrier) ==
  /\ Due("interval")
  /\ LET h == Ticked(closesCarrier)
     IN  \/ /\ ~MayProbe(h)
            /\ Turn(h)
            /\ UNCHANGED wireVars
         \/ /\ MayProbe(h)
            /\ nextNonce < MaxProbes
            /\ Turn(Probing(h))
            /\ owed' = owed \cup {nextNonce}
            /\ nextNonce' = nextNonce + 1
            /\ UNCHANGED <<socketOpen, answered>>
         \/ /\ MayProbe(h)                   \* ping() throws
            /\ Turn(FailAs(Probing(h), "ping-send-failed"))
            /\ UNCHANGED wireVars

(* Slip: any Pong counts.                                                  *)
ConfirmsAny(h, payload) == ~h.disposed /\ h.probe # NoProbe

Confirms(h, payload) ==
  ~h.disposed /\ h.probe # NoProbe /\ payload = h.probe.nonce

(* notePong(payload): late, repeated and foreign Pongs are ignored.        *)
NotePong(payload) ==
  /\ payload \in answered \cup {Foreign}
  /\ Confirms(Watch, payload)
  /\ Turn([Watch EXCEPT !.timer["pong"] = Off, !.timer["probeWrite"] = Off,
                        !.probe = NoProbe,
                        !.confirmed = @ \cup {payload}])
  /\ UNCHANGED wireVars

IsProbe(nonce) == ~disposed /\ probe # NoProbe /\ probe.nonce = nonce

(* The Ping is written: its Pong's deadline takes over from the deadline   *)
(* of its write.                                                           *)
HandedOver(h) ==
  [h EXCEPT !.probe.flushed = TRUE, !.timer["probeWrite"] = Off,
            !.timer["pong"] = 0, !.waiting = 0]

(* onPingFlushed(probe, error); a callback that comes after the Pong, or   *)
(* after disposal, is a no-op.                                             *)
PingFlushed(nonce, error) ==
  /\ nonce \in owed
  /\ owed' = owed \ {nonce}
  /\ Turn(IF ~IsProbe(nonce) THEN Watch
          ELSE IF error THEN FailAs(Watch, "ping-send-failed")
          ELSE HandedOver(Watch))
  /\ UNCHANGED <<socketOpen, nextNonce, answered>>

Timeout(t, why) ==
  /\ Due(t)
  /\ Turn(FailAs(Watch, why))
  /\ UNCHANGED wireVars

OnPongTimeout       == probe # NoProbe /\ Timeout("pong", "ping-timeout")
OnStallTimeout      == busy /\ Timeout("stall", "write-stall")
OnProbeWriteTimeout == probe # NoProbe /\ Timeout("probeWrite", "write-stall")

Dispose ==
  /\ ~disposed
  /\ Turn(Teardown(Watch))
  /\ UNCHANGED wireVars

(* The sender this heartbeat watches.                                      *)
OnBusy     == Turn(MarkBusy(Watch)) /\ UNCHANGED wireVars
OnIdle     == Turn(MarkIdle(Watch)) /\ UNCHANGED wireVars
OnProgress == Turn(NoteWriteProgress(Watch)) /\ UNCHANGED wireVars

------------------------------------------------------------------------------
(* The peer returns the payload of a Ping it received, the socket leaves   *)
(* OPEN, and time passes.                                                  *)
PeerPong(nonce) ==
  /\ nonce < nextNonce /\ nonce \notin answered
  /\ answered' = answered \cup {nonce}
  /\ UNCHANGED <<watchVars, socketOpen, owed, nextNonce>>

SocketCloses ==
  /\ socketOpen
  /\ socketOpen' = FALSE
  /\ UNCHANGED <<watchVars, owed, nextNonce, answered>>

Older(age) == IF age < Horizon THEN age + 1 ELSE age

Elapse ==
  /\ \A t \in Timers : timer[t] # Off => timer[t] < Period[t] + Lateness
  /\ timer' = [t \in Timers |-> IF timer[t] = Off THEN Off ELSE timer[t] + 1]
  /\ quiet' = Older(quiet)
  /\ waiting' = Older(waiting)
  /\ UNCHANGED <<disposed, busy, probe, source, closes, confirmed, wireVars>>

Init ==
  /\ disposed = FALSE /\ busy = FALSE /\ probe = NoProbe
  /\ timer = [t \in Timers |-> Off]
  /\ source = "none" /\ closes = 0
  /\ socketOpen = TRUE /\ owed = {} /\ nextNonce = 0
  /\ answered = {} /\ confirmed = {}
  /\ quiet = 0 /\ waiting = 0

Next ==
  \/ Start
  \/ \E closesCarrier \in BOOLEAN : IntervalTick(closesCarrier)
  \/ \E payload \in Nonce \cup {Foreign} : NotePong(payload)
  \/ \E nonce \in Nonce, error \in BOOLEAN : PingFlushed(nonce, error)
  \/ OnPongTimeout \/ OnStallTimeout \/ OnProbeWriteTimeout
  \/ Dispose
  \/ OnBusy \/ OnIdle \/ OnProgress
  \/ \E nonce \in Nonce : PeerPong(nonce)
  \/ SocketCloses
  \/ Elapse

Spec == Init /\ [][Next]_hbVars

------------------------------------------------------------------------------
Age(t) == 0..Period[t] + Lateness

(* Every variable keeps its type.                                          *)
TypeOK ==
  /\ disposed \in BOOLEAN /\ busy \in BOOLEAN /\ socketOpen \in BOOLEAN
  /\ probe \in [nonce : Nonce, flushed : BOOLEAN] \cup {NoProbe}
  /\ DOMAIN timer = Timers
  /\ \A t \in Timers : timer[t] \in Age(t) \cup {Off}
  /\ source \in {"none", "ping-send-failed", "ping-timeout", "write-stall"}
  /\ closes \in Nat /\ nextNonce \in 0..MaxProbes
  /\ owed \subseteq Nonce /\ answered \subseteq Nonce /\ confirmed \subseteq Nonce
  /\ quiet \in 0..Horizon /\ waiting \in 0..Horizon

(* A live carrier never outlives its deadlines: whatever else happens,     *)
(* data that does not move, a Ping that is not written and a Ping that is  *)
(* not answered are each noticed within their period.                      *)
NoticedInTime ==
  /\ busy => quiet <= WriteStall + Lateness
  /\ Unflushed(Watch) => waiting <= WriteStall + Lateness
  /\ probe # NoProbe /\ probe.flushed => waiting <= PongTimeout + Lateness

(* And it is never closed early: a write-stall is reported only after a    *)
(* whole period without progress, a ping-timeout only after a whole period *)
(* in which a written Ping was not answered.                               *)
NoFalseAlarm ==
  /\ source = "write-stall" => quiet >= WriteStall \/ waiting >= WriteStall
  /\ source = "ping-timeout" => waiting >= PongTimeout

(* A probe is only confirmed by a Pong the peer sent for that very probe,  *)
(* so a peer that answered once and then died is still noticed.            *)
ConfirmedIfAnswered == confirmed \subseteq answered

(* At most one probe is undecided at a time: a new Ping is only sent when  *)
(* the one before it was confirmed.                                        *)
OneProbeAtATime == \A n \in 0..nextNonce - 1 : n + 1 < nextNonce => n \in confirmed
==============================================================================
