----------------------------- MODULE ChatStream ------------------------------
(***************************************************************************)
(* The event stream of the chat.  A frame is written to every subscriber   *)
(* it concerns; a slow one is dropped when too much was written to it      *)
(* since its socket last took everything.  Frames, heartbeats, the drain   *)
(* of the socket, a revocation and the peer's end come in any order.       *)
(***************************************************************************)
EXTENDS Naturals, FiniteSets

CONSTANTS
  Client,        \* connections
  HighWater,     \* the socket's high-water mark
  MaxPending,    \* CHAT_SSE_MAX_PENDING_BYTES
  Frame,         \* sizes of frames
  MaxFrames      \* bound

VARIABLES
  stream,        \* [Client -> [at, buffered, pending, needDrain]]
  chatClients,   \* who is broadcast to
  revocable,     \* the gateway's table: who is closed on a revocation
  frames

vars == <<stream, chatClients, revocable, frames>>

(* More than a first frame fits below the mark.                            *)
StreamAssumption ==
  HighWater \in Nat /\ HighWater > 1 /\ MaxPending \in Nat /\ Frame \subseteq Nat

None == [at |-> "none", buffered |-> 0, pending |-> 0, needDrain |-> FALSE]

(* res.write(): takes it all, and says whether the buffer is below the     *)
(* mark.                                                                   *)
Wrote(c, n) ==
  LET b == stream[c].buffered + n
  IN [stream[c] EXCEPT !.buffered = b, !.needDrain = @ \/ b >= HighWater]
Flushed(c, n) == stream[c].buffered + n < HighWater

(* pushChatSseFrame(). Slip: the frame itself is not counted.              *)
FitsBefore(c, n) == stream[c].pending <= MaxPending
Fits(c, n) == stream[c].pending + n <= MaxPending
Pushed(c, n) ==
  IF stream[c].at # "open" THEN stream[c]
  ELSE IF Flushed(c, n) THEN [Wrote(c, n) EXCEPT !.pending = 0]
  ELSE IF Fits(c, n) THEN [Wrote(c, n) EXCEPT !.pending = @ + n]
  ELSE [Wrote(c, n) EXCEPT !.at = "destroyed", !.pending = @ + n]
Stays(c, n) == Pushed(c, n).at = "open"

------------------------------------------------------------------------------
(* GET /gateway/api/messages/stream: its first frame is not counted.       *)
Joins(c) ==
  /\ stream[c].at = "none" /\ c \notin chatClients
  /\ stream' = [stream EXCEPT ![c] = [None EXCEPT !.at = "open", !.buffered = 1]]
  /\ chatClients' = chatClients \cup {c} /\ revocable' = revocable \cup {c}
  /\ UNCHANGED frames

(* broadcastMessage(), to those who may see it; the heartbeat, to one.     *)
Writes(S, n) ==
  /\ frames < MaxFrames /\ frames' = frames + 1
  /\ stream' = [c \in Client |-> IF c \in S THEN Pushed(c, n) ELSE stream[c]]
  /\ chatClients' = {c \in chatClients : c \in S => Stays(c, n)}
  /\ UNCHANGED revocable
Broadcasts == \E visible \in SUBSET Client, n \in Frame : Writes(visible \cap chatClients, n)
Beats(c) == stream[c].at = "open" /\ Writes({c}, 1)

(* The peer reads; an empty buffer that was over the mark drains.          *)
Reads(c) ==
  /\ stream[c].at = "open" /\ stream[c].buffered > 0
  /\ \E b \in 0 .. stream[c].buffered - 1 :
       stream' = [stream EXCEPT ![c].buffered = b,
         ![c].needDrain = @ /\ b > 0,
         ![c].pending = IF b = 0 /\ stream[c].needDrain THEN 0 ELSE @]
  /\ UNCHANGED <<chatClients, revocable, frames>>

(* Closed by the gateway, or by the peer; then the close event cleans up.  *)
Revoke(c) ==
  /\ c \in revocable /\ stream[c].at = "open"
  /\ stream' = [stream EXCEPT ![c].at = "destroyed"]
  /\ UNCHANGED <<chatClients, revocable, frames>>
PeerEnds(c) ==
  /\ stream[c].at = "open" /\ stream' = [stream EXCEPT ![c].at = "destroyed"]
  /\ UNCHANGED <<chatClients, revocable, frames>>
Cleanup(c) ==
  /\ stream[c].at = "destroyed" /\ stream' = [stream EXCEPT ![c] = None]
  /\ chatClients' = chatClients \ {c} /\ revocable' = revocable \ {c}
  /\ UNCHANGED frames

------------------------------------------------------------------------------
Init ==
  /\ stream = [c \in Client |-> None]
  /\ chatClients = {} /\ revocable = {} /\ frames = 0

Next ==
  \/ Broadcasts
  \/ \E c \in Client : Joins(c) \/ Beats(c) \/ Reads(c) \/ Revoke(c) \/ PeerEnds(c) \/ Cleanup(c)

Spec == Init /\ [][Next]_vars

------------------------------------------------------------------------------
(* What waits for an open subscriber is bounded, though only what is       *)
(* written over the mark is counted and one write below it forgets the     *)
(* rest; and who is open is written to and can be revoked (messages.ts:30).*)
SlowOnesAreDropped ==
  \A c \in Client : stream[c].at = "open" =>
    /\ stream[c].buffered < HighWater + MaxPending
    /\ c \in chatClients \cap revocable
==============================================================================
