------------------------------ MODULE MuxSender ------------------------------
(***************************************************************************)
(* One direction of the /api/remote.mux carrier: the serial fragmenting    *)
(* sender of src/src/remote-mux-sender.ts (class MuxSender) together with  *)
(* the process-wide byte budget it shares with the senders of every other  *)
(* carrier (class MuxSenderBudget).                                        *)
(*                                                                         *)
(* JavaScript runs every handler to completion, so each action below is a  *)
(* whole handler: enqueue() and onFlush() include the pump(), the          *)
(* submitFragment() and the commit() they end in.  What can happen between *)
(* two handlers is the socket's: write callbacks, changes of               *)
(* bufferedAmount, the socket leaving OPEN; and the other senders', which  *)
(* reserve and release bytes of the same budget.                           *)
(***************************************************************************)
EXTENDS ByteQueue

CONSTANTS
  Tag,               \* logical stream ids messages are tagged with
  NoMessage,         \* `current === null'
  NoLevel,           \* `drainLastBuffered === null'
  Size,              \* byte lengths of the messages callers submit
  Level,             \* values bufferedAmount may be observed at
  FragmentBytes,     \* 0: single-frame mode, no draining
  HighWater, LowWater,
  MaxMessageBytes, AcceptBudget, MaxQueueMessages, MaxQueueBytes,
  SharedMax,         \* MuxSenderBudget.maxBytes
  MaxAccepted        \* BOUND: number of messages accepted in a behaviour

Message == [id : 0..MaxAccepted - 1, tag : Tag, size : Size]

ASSUME SenderAssumption ==
  /\ Size \subseteq Nat
  /\ Level \subseteq Nat
  /\ 0 \in Level
  /\ {FragmentBytes, HighWater, LowWater, MaxMessageBytes, AcceptBudget,
      MaxQueueMessages, MaxQueueBytes, SharedMax, MaxAccepted} \subseteq Nat
  /\ NoMessage \notin Message
  /\ NoLevel \notin Level

VARIABLES
  disposed, busy,
  queue, queueBytes,          \* accepted, not started
  acceptedBytes,              \* accepted, last fragment not yet written
  current, fragmentOffset,    \* the message being fragmented
  awaitingFlush,              \* a fragment was submitted, callback pending
  draining,                   \* the drain poll timer is armed
  drainLastBuffered,
  reservedBytes,              \* the shared budget's counter
  othersBytes,                \* what the other senders hold of it
  readyState, buffered,       \* the socket
  callbacks,                  \* write callbacks the socket still owes
  wire,                       \* every fragment handed to the socket
  completed,                  \* messages whose last fragment was written
  nextId,
  emitted                     \* onBusy/onIdle/onProgress/onFailure calls of
                              \* the latest handler, in order

senderVars == <<disposed, busy, queue, queueBytes, acceptedBytes, current,
                fragmentOffset, awaitingFlush, draining, drainLastBuffered>>
vars == <<senderVars, reservedBytes, othersBytes, readyState, buffered,
          callbacks, wire, completed, nextId, emitted>>

Min2(a, b) == IF a <= b THEN a ELSE b

------------------------------------------------------------------------------
(* MuxSenderBudget                                                         *)

TryReserve(bytes) == reservedBytes + bytes <= SharedMax

Released(reserved, bytes) == IF reserved - bytes < 0 THEN 0 ELSE reserved - bytes

------------------------------------------------------------------------------
(* A handler runs in several steps of the code and one step of the model:  *)
(* a draft is the part of the state it may update, as updated so far.      *)

Now ==
  [disposed |-> disposed, busy |-> busy, queue |-> queue,
   queueBytes |-> queueBytes, acceptedBytes |-> acceptedBytes,
   current |-> current, fragmentOffset |-> fragmentOffset,
   awaitingFlush |-> awaitingFlush, draining |-> draining,
   drainLastBuffered |-> drainLastBuffered, reservedBytes |-> reservedBytes,
   callbacks |-> callbacks, wire |-> wire, completed |-> completed,
   emitted |-> <<>>]

Become(d) ==
  /\ disposed' = d.disposed
  /\ busy' = d.busy
  /\ queue' = d.queue
  /\ queueBytes' = d.queueBytes
  /\ acceptedBytes' = d.acceptedBytes
  /\ current' = d.current
  /\ fragmentOffset' = d.fragmentOffset
  /\ awaitingFlush' = d.awaitingFlush
  /\ draining' = d.draining
  /\ drainLastBuffered' = d.drainLastBuffered
  /\ reservedBytes' = d.reservedBytes
  /\ callbacks' = d.callbacks
  /\ wire' = d.wire
  /\ completed' = d.completed
  /\ emitted' = d.emitted
  /\ UNCHANGED othersBytes

(* refreshBusy(): edge-triggered onBusy / onIdle.                          *)
RefreshBusy(d) ==
  LET active == d.acceptedBytes > 0
  IN  IF active = d.busy THEN d
      ELSE [d EXCEPT !.busy = active,
                     !.emitted = Append(@, IF active THEN "busy" ELSE "idle")]

(* Slip: the poll timer survives disposal.                                 *)
DisposedTimerKept(d) ==
  [d EXCEPT !.disposed = TRUE, !.busy = FALSE, !.queue = <<>>,
            !.queueBytes = 0, !.acceptedBytes = 0, !.current = NoMessage,
            !.fragmentOffset = 0, !.awaitingFlush = FALSE,
            !.drainLastBuffered = NoLevel,
            !.reservedBytes = Released(@, d.acceptedBytes)]

(* dispose(): give the bytes back, forget every message, stop the timer.   *)
Disposed(d) ==
  [d EXCEPT !.disposed = TRUE, !.busy = FALSE, !.queue = <<>>,
            !.queueBytes = 0, !.acceptedBytes = 0, !.current = NoMessage,
            !.fragmentOffset = 0, !.awaitingFlush = FALSE, !.draining = FALSE,
            !.drainLastBuffered = NoLevel,
            !.reservedBytes = Released(@, d.acceptedBytes)]

(* fail(): converge first, then tell the carrier once.                     *)
Fail(d) == [Disposed(d) EXCEPT !.emitted = Append(@, "failure")]

(* submitFragment(): where the next fragment of message m ends.            *)
FragmentEnd(m, offset) ==
  IF FragmentBytes = 0 THEN m.size ELSE Min2(offset + FragmentBytes, m.size)

(* send(): hand one fragment to the socket and wait for its callback.      *)
Submit(d, end) ==
  LET isLast == end >= d.current.size
  IN  [d EXCEPT
         !.awaitingFlush = TRUE,
         !.callbacks = Append(@, [message |-> d.current,
                                  bytes |-> end - d.fragmentOffset,
                                  isLast |-> isLast]),
         !.wire = Append(@, [message |-> d.current, from |-> d.fragmentOffset,
                             to |-> end, fin |-> isLast])]

(* Slip: the water level is remembered but no poll is scheduled.           *)
CommitNoPoll(d, throws) ==
  IF FragmentBytes > 0 /\ buffered > HighWater
    THEN [d EXCEPT !.drainLastBuffered = buffered]
  ELSE IF readyState # "open" \/ throws THEN Fail(d)
  ELSE Submit(d, FragmentEnd(d.current, d.fragmentOffset))

(* commit(): wait for the socket to drain, fail, or submit one fragment.   *)
(* `throws': send() throws synchronously.                                  *)
Commit(d, throws) ==
  IF FragmentBytes > 0 /\ buffered > HighWater
    THEN [d EXCEPT !.drainLastBuffered = buffered, !.draining = TRUE]
  ELSE IF readyState # "open" \/ throws THEN Fail(d)
  ELSE Submit(d, FragmentEnd(d.current, d.fragmentOffset))

(* The head of the queue becomes the message in flight.                    *)
Shifted(d) ==
  [d EXCEPT !.current = Head(d.queue), !.fragmentOffset = 0,
            !.queue = Tail(@), !.queueBytes = @ - Head(d.queue).size]

(* Slip: pump() does not look at the poll timer, or at the callback owed.  *)
PumpWhileDraining(d, throws) ==
  IF d.disposed \/ d.awaitingFlush THEN d
  ELSE IF d.current # NoMessage THEN Commit(d, throws)
  ELSE IF d.queue = <<>> THEN d
  ELSE Commit(Shifted(d), throws)

PumpWhileAwaiting(d, throws) ==
  IF d.disposed \/ d.draining THEN d
  ELSE IF d.current # NoMessage THEN Commit(d, throws)
  ELSE IF d.queue = <<>> THEN d
  ELSE Commit(Shifted(d), throws)

Pump(d, throws) ==
  IF d.disposed \/ d.awaitingFlush \/ d.draining THEN d
  ELSE IF d.current # NoMessage THEN Commit(d, throws)
  ELSE IF d.queue = <<>> THEN d
  ELSE Commit(Shifted(d), throws)

------------------------------------------------------------------------------
(* enqueue(text, {tag})                                                    *)

(* The outcome of enqueue(), by the first limit that refuses the message.  *)
(* The queue's own limits only bind a message that has to wait.            *)
Verdict(size) ==
  IF disposed THEN "closed"
  ELSE IF size > MaxMessageBytes THEN "message-bytes"
  ELSE IF acceptedBytes + size > AcceptBudget THEN "accepted-bytes"
  ELSE IF current # NoMessage /\ Len(queue) + 1 > MaxQueueMessages THEN "queue-count"
  ELSE IF current # NoMessage /\ queueBytes + size > MaxQueueBytes THEN "queue-bytes"
  ELSE IF ~TryReserve(size) THEN "shared-budget"
  ELSE "accepted"

(* Slips: the queue's bytes are not counted; no edge is reported.          *)
AcceptedUncounted(item) ==
  RefreshBusy([Now EXCEPT !.queue = Append(@, item),
                          !.acceptedBytes = @ + item.size,
                          !.reservedBytes = @ + item.size])

Accepted(item) ==
  RefreshBusy([Now EXCEPT !.queue = Append(@, item),
                          !.queueBytes = @ + item.size,
                          !.acceptedBytes = @ + item.size,
                          !.reservedBytes = @ + item.size])

(* A rejected message changes nothing.                                     *)
Enqueue(tag, size) ==
  /\ nextId < MaxAccepted
  /\ Verdict(size) = "accepted"
  /\ \E throws \in BOOLEAN :
       Become(Pump(Accepted([id |-> nextId, tag |-> tag, size |-> size]), throws))
  /\ nextId' = nextId + 1
  /\ UNCHANGED <<readyState, buffered>>

(* cancel(tag): only what has not started; the message being fragmented    *)
(* is left to reach its FIN.                                               *)
Cancel(tag) ==
  /\ ~disposed
  /\ LET scan == CancelScan(queue, tag)
     IN  Become(RefreshBusy(
           [Now EXCEPT !.queue = scan.kept,
                       !.queueBytes = @ - scan.removedBytes,
                       !.acceptedBytes = @ - scan.removedBytes,
                       !.reservedBytes = Released(@, scan.removedBytes)]))
  /\ UNCHANGED <<readyState, buffered, nextId>>

(* dispose() by the carrier.                                               *)
Dispose ==
  /\ ~disposed
  /\ Become(Disposed(Now))
  /\ UNCHANGED <<readyState, buffered, nextId>>

------------------------------------------------------------------------------
(* onFlush(): the socket reports the outcome of the oldest write.          *)

Identified(cb) == ~disposed /\ current = cb.message

Flushed == [Now EXCEPT !.callbacks = Tail(@), !.awaitingFlush = FALSE]

(* The sender was disposed in the meantime: the callback is a no-op.       *)
LateFlush ==
  /\ callbacks # <<>>
  /\ ~Identified(Head(callbacks))
  /\ Become([Now EXCEPT !.callbacks = Tail(@)])
  /\ UNCHANGED <<readyState, buffered, nextId>>

FlushFailed ==
  /\ callbacks # <<>>
  /\ Identified(Head(callbacks))
  /\ Become(Fail(Flushed))
  /\ UNCHANGED <<readyState, buffered, nextId>>

FlushPart ==
  /\ callbacks # <<>>
  /\ Identified(Head(callbacks))
  /\ ~Head(callbacks).isLast
  /\ \E throws \in BOOLEAN :
       Become(Pump([Flushed EXCEPT !.emitted = <<"progress">>,
                                   !.fragmentOffset = @ + Head(callbacks).bytes],
                   throws))
  /\ UNCHANGED <<readyState, buffered, nextId>>

(* Slip: the shared budget is not given back.                              *)
FinishedNoRelease(m) ==
  RefreshBusy([Flushed EXCEPT !.emitted = <<"progress">>,
                              !.current = NoMessage, !.fragmentOffset = 0,
                              !.acceptedBytes = @ - m.size,
                              !.completed = Append(@, m)])

Finished(m) ==
  RefreshBusy([Flushed EXCEPT !.emitted = <<"progress">>,
                              !.current = NoMessage, !.fragmentOffset = 0,
                              !.acceptedBytes = @ - m.size,
                              !.reservedBytes = Released(@, m.size),
                              !.completed = Append(@, m)])

FlushLast ==
  /\ callbacks # <<>>
  /\ Identified(Head(callbacks))
  /\ Head(callbacks).isLast
  /\ \E throws \in BOOLEAN :
       Become(Pump(Finished(Head(callbacks).message), throws))
  /\ UNCHANGED <<readyState, buffered, nextId>>

------------------------------------------------------------------------------
(* awaitDrain(): the poll timer.                                           *)

Drained == buffered <= LowWater

DrainPoll ==
  /\ draining
  /\ LET fell == drainLastBuffered # NoLevel /\ buffered < drainLastBuffered
         d == [Now EXCEPT !.draining = FALSE, !.drainLastBuffered = buffered,
                          !.emitted = IF fell THEN <<"progress">> ELSE <<>>]
     IN  \/ /\ readyState # "open"
            /\ Become(Fail([Now EXCEPT !.draining = FALSE]))
         \/ /\ readyState = "open"
            /\ ~Drained
            /\ Become([d EXCEPT !.draining = TRUE])
         \/ /\ readyState = "open"
            /\ Drained
            /\ \E throws \in BOOLEAN :
                 Become(Pump([d EXCEPT !.drainLastBuffered = NoLevel], throws))
  /\ UNCHANGED <<readyState, buffered, nextId>>

------------------------------------------------------------------------------
(* The socket and the other senders.                                       *)

(* bufferedAmount moves with what the peer reads and what ping, pong and   *)
(* the fragments of this sender add.                                       *)
SocketLevel(level) ==
  /\ level # buffered
  /\ buffered' = level
  /\ emitted' = <<>>
  /\ UNCHANGED <<senderVars, reservedBytes, othersBytes, readyState, callbacks,
                 wire, completed, nextId>>

SocketLeavesOpen ==
  /\ readyState = "open"
  /\ readyState' = "closed"
  /\ emitted' = <<>>
  /\ UNCHANGED <<senderVars, reservedBytes, othersBytes, buffered, callbacks,
                 wire, completed, nextId>>

OthersReserve(bytes) ==
  /\ TryReserve(bytes)
  /\ reservedBytes' = reservedBytes + bytes
  /\ othersBytes' = othersBytes + bytes
  /\ emitted' = <<>>
  /\ UNCHANGED <<senderVars, readyState, buffered, callbacks, wire, completed,
                 nextId>>

OthersRelease(bytes) ==
  /\ bytes <= othersBytes
  /\ reservedBytes' = Released(reservedBytes, bytes)
  /\ othersBytes' = othersBytes - bytes
  /\ emitted' = <<>>
  /\ UNCHANGED <<senderVars, readyState, buffered, callbacks, wire, completed,
                 nextId>>

------------------------------------------------------------------------------
Init ==
  /\ disposed = FALSE /\ busy = FALSE
  /\ queue = <<>> /\ queueBytes = 0 /\ acceptedBytes = 0
  /\ current = NoMessage /\ fragmentOffset = 0
  /\ awaitingFlush = FALSE
  /\ draining = FALSE /\ drainLastBuffered = NoLevel
  /\ reservedBytes = 0 /\ othersBytes = 0
  /\ readyState = "open" /\ buffered = 0
  /\ callbacks = <<>> /\ wire = <<>> /\ completed = <<>>
  /\ nextId = 0 /\ emitted = <<>>

Next ==
  \/ \E tag \in Tag, size \in Size : Enqueue(tag, size)
  \/ \E tag \in Tag : Cancel(tag)
  \/ Dispose
  \/ LateFlush \/ FlushFailed \/ FlushPart \/ FlushLast
  \/ DrainPoll
  \/ \E level \in Level : SocketLevel(level)
  \/ SocketLeavesOpen
  \/ \E bytes \in Size : OthersReserve(bytes) \/ OthersRelease(bytes)

Spec == Init /\ [][Next]_vars

(* The write callback of an outstanding fragment fires, with an error once *)
(* the socket is gone; the poll timer fires; a socket that is still read   *)
(* drains below LOW again and again and some poll sees it there.           *)
Flush == FlushFailed \/ FlushPart \/ FlushLast
DrainPollLow == Drained /\ DrainPoll
DrainsWhileWaiting == draining /\ \E level \in Level : level <= LowWater /\ SocketLevel(level)

FairSpec ==
  /\ Spec
  /\ WF_vars(Flush)
  /\ WF_vars(DrainPoll)
  /\ SF_vars(DrainPollLow)
  /\ SF_vars(DrainsWhileWaiting)

------------------------------------------------------------------------------
Callback == [message : Message, bytes : Nat, isLast : BOOLEAN]
Fragment == [message : Message, from : Nat, to : Nat, fin : BOOLEAN]
Signal == {"busy", "idle", "progress", "failure"}

(* Every variable keeps the type the class declares for it.                *)
TypeOK ==
  /\ disposed \in BOOLEAN /\ busy \in BOOLEAN
  /\ queue \in Seq(Message) /\ queueBytes \in Nat /\ acceptedBytes \in Nat
  /\ current \in Message \cup {NoMessage} /\ fragmentOffset \in Nat
  /\ awaitingFlush \in BOOLEAN /\ draining \in BOOLEAN
  /\ drainLastBuffered \in Level \cup {NoLevel}
  /\ reservedBytes \in Nat /\ othersBytes \in Nat
  /\ readyState \in {"open", "closed"} /\ buffered \in Level
  /\ callbacks \in Seq(Callback)
  /\ wire \in Seq(Fragment)
  /\ completed \in Seq(Message)
  /\ nextId \in Nat
  /\ emitted \in Seq(Signal)

InFlightBytes == IF current = NoMessage THEN 0 ELSE current.size

(* The three counters never drift from the messages they count, through    *)
(* completion, cancellation and disposal at any point of a transmission:   *)
(* queueBytes counts the waiting messages, acceptedBytes those and the one *)
(* in flight, and the shared budget all of it and what the other senders   *)
(* hold; it is never exceeded, and its clamp at 0 never hides a double     *)
(* release.                                                                *)
Accounting ==
  /\ queueBytes = SumSizes(queue)
  /\ acceptedBytes = queueBytes + InFlightBytes
  /\ reservedBytes = othersBytes + acceptedBytes
  /\ reservedBytes <= SharedMax

(* enqueue()'s limits hold at every later moment too: a message that       *)
(* bypassed the queue limits because nothing was in flight never stays in  *)
(* the queue.                                                              *)
WithinLimits ==
  /\ acceptedBytes <= AcceptBudget
  /\ queueBytes <= MaxQueueBytes
  /\ Len(queue) <= MaxQueueMessages

(* No lost wake-up: a sender that still has something to send always has   *)
(* exactly one event ahead of it, the callback of the one fragment it      *)
(* submitted or the poll timer, and a waiting message always has a message *)
(* in flight before it.                                                    *)
Owed == {i \in 1..Len(callbacks) : Identified(callbacks[i])}
NoLostWakeup ==
  /\ ~(awaitingFlush /\ draining)
  /\ current # NoMessage <=> awaitingFlush \/ draining
  /\ awaitingFlush <=> Owed # {}
  /\ \A i, j \in Owed : i = j
  /\ queue # <<>> => current # NoMessage

(* onBusy/onIdle are edges of `there are accepted bytes not yet written':  *)
(* the heartbeat's stall timer depends on them.                            *)
BusyMatchesWork == busy <=> acceptedBytes > 0

(* One message of the caller is one WebSocket message: its fragments are   *)
(* contiguous, start at 0, end with FIN exactly at its last byte, are      *)
(* never mixed with another message's, and messages leave in the order     *)
(* they were accepted.                                                     *)
WireWellFormed ==
  \A i \in 1..Len(wire) :
    LET f == wire[i]
        starts == i = 1 \/ wire[i - 1].fin
    IN  /\ f.fin <=> f.to = f.message.size
        /\ f.from < f.to \/ f.message.size = 0
        /\ starts => /\ f.from = 0
                     /\ \A j \in 1..i - 1 : wire[j].message.id < f.message.id
        /\ ~starts => /\ f.message = wire[i - 1].message
                      /\ f.from = wire[i - 1].to

(* proxy.ts gives the queue the same byte limit as the whole direction so  *)
(* that `any acceptable legal message can wait behind the one in flight':  *)
(* the queue's byte limit never rejects what the accept budget admits.     *)
QueueBytesNeverReject ==
  \A size \in Size : Verdict(size) # "queue-bytes"

(* Disposal is terminal: no late callback, poll or call writes a fragment, *)
(* charges a byte or notifies the carrier again, and a failure is reported *)
(* only by the step that disposes.                                         *)
TerminalSilence ==
  [][/\ disposed => /\ disposed' /\ emitted' = <<>>
                    /\ UNCHANGED <<wire, completed, acceptedBytes, busy>>
     /\ (\E i \in 1..Len(emitted') : emitted'[i] = "failure") => disposed' /\ ~disposed
    ]_vars

Waiting == {queue[i].id : i \in 1..Len(queue)}
Pending(id) == id \in Waiting \/ (current # NoMessage /\ current.id = id)

(* Every accepted message is eventually written to its last byte, withdrawn*)
(* or lost with the whole sender: none waits forever.                      *)
EveryMessageEnds ==
  \A id \in 0..MaxAccepted - 1 : Pending(id) ~> ~Pending(id)

(* The sender keeps the promise of MessagePipe: what is in flight is the   *)
(* head of what is pending.                                                *)
Pipe == INSTANCE MessagePipe WITH
          open <- ~disposed,
          pending <- (IF current = NoMessage THEN <<>> ELSE <<current>>) \o queue,
          delivered <- completed
PipeSpec == Pipe!Spec
==============================================================================
