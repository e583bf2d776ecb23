---------------------------- MODULE MCProgress ----------------------------
(***************************************************************************)
(* Instances of the modules with something that must happen in the end.    *)
(* They share no state and are checked side by side: a behaviour is one of *)
(* the module that `part' names, x1 .. x20 stand for its variables, and it *)
(* runs under the fairness that the module itself states.                  *)
(***************************************************************************)
EXTENDS Naturals, Sequences, FiniteSets, TLC

CONSTANTS
  Tag, NoMessage, NoLevel, Size, Level, FragmentBytes, HighWater, LowWater,
  MaxMessageBytes, AcceptBudget, MaxQueueMessages, MaxQueueBytes, SharedMax,
  MaxAccepted, Stream, NoStream, Subuser, IdReuse, MaxStreams, MaxPending,
  Capacity, MaxOpens, MaxHostOut, PingInterval, PongTimeout, WriteStall,
  Lateness, Off, NoProbe, Foreign, MaxProbes, MaxEffects, MaxSpawns,
  MaxFaults, MaxDrift, Tx, MaxFailed, MaxTries, MaxExpiries, MaxCrashes,
  Plugin, Official, HostPath, Bridge, MaxLinkFaults, Limit, Kept, MaxMessages,
  MaxLosses, MaxRebuilds, MaxId

VARIABLES
  part,  \* which of them this behaviour is of
  x1, x2, x3, x4, x5, x6, x7, x8, x9, x10, x11, x12, x13, x14, x15, x16,
  x17, x18, x19, x20

vars == <<part, x1, x2, x3, x4, x5, x6, x7, x8, x9, x10, x11, x12, x13, x14,
         x15, x16, x17, x18, x19, x20>>

Sender == INSTANCE MuxSender WITH
  disposed <- x1, busy <- x2, queue <- x3, queueBytes <- x4,
  acceptedBytes <- x5, current <- x6, fragmentOffset <- x7,
  awaitingFlush <- x8, draining <- x9, drainLastBuffered <- x10,
  reservedBytes <- x11, othersBytes <- x12, readyState <- x13,
  buffered <- x14, callbacks <- x15, wire <- x16, completed <- x17,
  nextId <- x18, emitted <- x19
Carrier == INSTANCE MuxCarrier WITH
  active <- x1, deferred <- x2, forwarded <- x3, pending <- x4,
  pendingBytes <- x5, up <- x6, down <- x7, disposed <- x8,
  closeIssued <- x9, grace <- x10, client <- x11, upstream <- x12,
  registered <- x13, baseline <- x14, granted <- x15, opens <- x16,
  hostOpen <- x17, hostOut <- x18, ended <- x19, cancelled <- x20
Heartbeat == INSTANCE MuxHeartbeat WITH
  disposed <- x1, busy <- x2, probe <- x3, timer <- x4, source <- x5,
  closes <- x6, socketOpen <- x7, owed <- x8, nextNonce <- x9,
  answered <- x10, confirmed <- x11, quiet <- x12, waiting <- x13
Supervisor == INSTANCE GatewaySupervisor WITH
  current <- x1, pid <- x2, of <- x3, disposed <- x4, at <- x5, child <- x6,
  adopted <- x7, retry <- x8, drift <- x9, drifts <- x10, stopped <- x11,
  gate <- x12, parent <- x13, config <- x14, foreign <- x15, faults <- x16
Purge == INSTANCE EmergencyPurge WITH
  service <- x1, req <- x2, busy <- x3, launched <- x4, unknown <- x5,
  watch <- x6, fails <- x7, locked <- x8, tries <- x9, planned <- x10,
  receipt <- x11, signal <- x12, helper <- x13, born <- x14, gateway <- x15,
  host <- x16, told <- x17, guesses <- x18, expiries <- x19, crashes <- x20
Link == INSTANCE PluginLink WITH
  pid <- x1, secret <- x2, loaded <- x3, mounted <- x4, gate <- x5,
  posts <- x6, polls <- x7, check <- x8, faults <- x9,
  MaxFaults <- MaxLinkFaults
Inbox == INSTANCE ChatInbox WITH
  db <- x1, lastId <- x2, cursor <- x3, begun <- x4, list <- x5, open <- x6,
  poll <- x7, post <- x8, noticed <- x9, counted <- x10, written <- x11,
  losses <- x12, rebuilds <- x13

ASSUME ProbesAreTimed == Heartbeat!HeartbeatAssumption
ASSUME GuessesAreLimited == Purge!PurgeAssumption

------------------------------------------------------------------------------
Init ==
  \/ part = "sender" /\ Sender!Init /\ x20 = 0
  \/ part = "carrier" /\ Carrier!Init
  \/ part = "heartbeat" /\ Heartbeat!Init /\ x14 = 0 /\ x15 = 0 /\ x16 = 0
       /\ x17 = 0 /\ x18 = 0 /\ x19 = 0 /\ x20 = 0
  \/ part = "supervisor" /\ Supervisor!Init /\ x17 = 0 /\ x18 = 0 /\ x19 = 0
       /\ x20 = 0
  \/ part = "purge" /\ Purge!Init
  \/ part = "link" /\ Link!Init /\ x10 = 0 /\ x11 = 0 /\ x12 = 0 /\ x13 = 0
       /\ x14 = 0 /\ x15 = 0 /\ x16 = 0 /\ x17 = 0 /\ x18 = 0 /\ x19 = 0
       /\ x20 = 0
  \/ part = "inbox" /\ Inbox!Init /\ x14 = 0 /\ x15 = 0 /\ x16 = 0 /\ x17 = 0
       /\ x18 = 0 /\ x19 = 0 /\ x20 = 0

SenderSteps == part = "sender" /\ Sender!Next /\ UNCHANGED <<part, x20>>
CarrierSteps == part = "carrier" /\ Carrier!Next /\ UNCHANGED part
HeartbeatSteps == part = "heartbeat" /\ Heartbeat!Next /\ UNCHANGED <<part,
        x14, x15, x16, x17, x18, x19, x20>>
SupervisorSteps == part = "supervisor" /\ Supervisor!Next /\ UNCHANGED <<part,
        x17, x18, x19, x20>>
PurgeSteps == part = "purge" /\ Purge!Next /\ UNCHANGED part
LinkSteps == part = "link" /\ Link!Next /\ UNCHANGED <<part, x10, x11, x12,
        x13, x14, x15, x16, x17, x18, x19, x20>>
InboxSteps == part = "inbox" /\ Inbox!Next /\ UNCHANGED <<part, x14, x15, x16,
        x17, x18, x19, x20>>

Next ==
  \/ SenderSteps
  \/ CarrierSteps
  \/ HeartbeatSteps
  \/ SupervisorSteps
  \/ PurgeSteps
  \/ LinkSteps
  \/ InboxSteps

------------------------------------------------------------------------------
SenderVars == Sender!vars
CarrierVars == Carrier!vars
SupervisorVars == Supervisor!vars
PurgeVars == Purge!vars
LinkVars == Link!vars
InboxVars == Inbox!vars

SenderRuns ==
  /\ WF_SenderVars(part = "sender" /\ Sender!Flush)
  /\ WF_SenderVars(part = "sender" /\ Sender!DrainPoll)
  /\ SF_SenderVars(part = "sender" /\ Sender!DrainPollLow)
  /\ SF_SenderVars(part = "sender" /\ Sender!DrainsWhileWaiting)
CarrierRuns ==
  /\ WF_CarrierVars(part = "carrier" /\ Carrier!GraceFires)
  /\ WF_CarrierVars(part = "carrier" /\ Carrier!ClientIsGone)
  /\ WF_CarrierVars(part = "carrier" /\ Carrier!UpstreamIsGone)
  /\ WF_CarrierVars(part = "carrier" /\ Carrier!HeartbeatTick)
  /\ WF_CarrierVars(part = "carrier" /\ Carrier!TtlPasses)
SupervisorRuns ==
  /\ \A e \in Supervisor!Effect : WF_SupervisorVars(part = "supervisor" /\ Supervisor!Step(e))
  /\ \A g \in Supervisor!Gateway :
       /\ WF_SupervisorVars(part = "supervisor" /\ Supervisor!Listen(g))
       /\ WF_SupervisorVars(part = "supervisor" /\ Supervisor!Stop(g))
  /\ WF_SupervisorVars(part = "supervisor" /\ Supervisor!Leave)
PurgeRuns ==
  \A t \in Tx :
    /\ WF_PurgeVars(part = "purge" /\ Purge!HandlerSteps(t))
    /\ WF_PurgeVars(part = "purge" /\ Purge!HelperSteps(t))
    /\ WF_PurgeVars(part = "purge" /\ Purge!MonitorSees(t))
LinkRuns ==
  /\ WF_LinkVars(part = "link" /\ Link!Publish)
  /\ WF_LinkVars(part = "link" /\ Link!ManifestArrives)
  /\ WF_LinkVars(part = "link" /\ Link!Launched)
  /\ WF_LinkVars(part = "link" /\ Link!Reuses)
  /\ WF_LinkVars(part = "link" /\ Link!Probe)
  /\ WF_LinkVars(part = "link" /\ Link!Probed)
  /\ WF_LinkVars(part = "link" /\ Link!CookieArrives)
  /\ WF_LinkVars(part = "link" /\ Link!OldGatewayGoes)
InboxRuns == WF_InboxVars(part = "inbox" /\ Inbox!Polls)

Spec ==
  /\ Init /\ [][Next]_vars
  /\ SenderRuns /\ CarrierRuns /\ SupervisorRuns /\ PurgeRuns /\ LinkRuns /\ InboxRuns

------------------------------------------------------------------------------
(* Every accepted message is written to its last byte, withdrawn or lost   *)
(* with the whole sender (remote-mux-sender.ts).                           *)
EveryMessageEnds ==
  \A id \in 0 .. MaxAccepted - 1 :
    (part = "sender" /\ Sender!Pending(id)) ~> (part = "sender" => ~Sender!Pending(id))

(* A carrier that came down ends with both legs closed, and a deferred     *)
(* stream is let through or refused (proxy.ts).                            *)
CarrierEnds ==
  /\ (part = "carrier" /\ Carrier!Fallen) ~> (part = "carrier" => Carrier!BothClosed)
  /\ \A s \in Stream :
       (part = "carrier" /\ Carrier!Waits(s)) ~> (part = "carrier" => ~Carrier!Waits(s) \/ Carrier!Fallen)

(* Silence of the peer is noticed within its period and never reported     *)
(* before, and a probe is settled by its own answer before the next one is *)
(* sent (remote-mux-heartbeat.ts).                                         *)
SilenceIsTimed ==
  part = "heartbeat" =>
    /\ Heartbeat!TypeOK
    /\ Heartbeat!NoticedInTime /\ Heartbeat!NoFalseAlarm
    /\ Heartbeat!ConfirmedIfAnswered /\ Heartbeat!OneProbeAtATime

(* The purge deletes only what it announced, is locked while a helper may  *)
(* come, and counts the passwords tried (admin.ts).                        *)
PurgeIsSafe ==
  part = "purge" => Purge!DeletesOnlyIfTold /\ Purge!LockCoversHelper /\ Purge!GuessesAreCounted

(* Once everything under way is reported, the purge's lock is free again   *)
(* (admin.ts).                                                             *)
LockIsFreed == (part = "purge" /\ Purge!AllReported) ~> (part = "purge" => Purge!Freed)

(* Once faults are over a gateway serves, or it was reported that none     *)
(* does, and the gateway knows the plugins and the cookie of its host      *)
(* (plugin.ts).                                                            *)
ServedInTheEnd ==
  <>[](/\ part = "supervisor" => Supervisor!Served
       /\ part = "link" => Link!Linked)

(* A panel whose cursor is beyond everything learns of a rebuilt database  *)
(* (chat.tsx).                                                             *)
RebuildIsNoticed == (part = "inbox" /\ ~Inbox!Noticed) ~> (part = "inbox" => Inbox!Noticed)
==============================================================================
