---------------------------- MODULE MessagePipe ------------------------------
(***************************************************************************)
(* What one direction of the carrier promises its callers: accepted        *)
(* messages leave whole and in the order they were accepted, a withdrawn   *)
(* stream only loses messages that have not begun to leave, and once the   *)
(* pipe is closed nothing more leaves it.  No bytes, fragments, timers or  *)
(* sockets: those are how MuxSender keeps the promise.                     *)
(***************************************************************************)
EXTENDS Integers, Sequences

CONSTANTS Message,         \* records with a field `tag'
          Tag

VARIABLES open,            \* messages are still accepted and delivered
          pending,         \* accepted and not delivered, oldest first
          delivered        \* delivered whole, oldest first

pipeVars == <<open, pending, delivered>>

Init ==
  /\ open = TRUE
  /\ pending = <<>>
  /\ delivered = <<>>

Accept(m) ==
  /\ open
  /\ pending' = Append(pending, m)
  /\ UNCHANGED <<open, delivered>>

Deliver ==
  /\ open
  /\ pending # <<>>
  /\ pending' = Tail(pending)
  /\ delivered' = Append(delivered, Head(pending))
  /\ UNCHANGED open

(* r is what is left of q at the positions K, in the order of q.           *)
LeavesOf(r, q, K) ==
  \E at \in [1..Len(r) -> K] :
    /\ \A i, j \in 1..Len(r) : i < j => at[i] < at[j]
    /\ \A k \in K : \E i \in 1..Len(r) : at[i] = k
    /\ \A i \in 1..Len(r) : r[i] = q[at[i]]

(* The head of `pending' has begun to leave and cannot be taken back.      *)
Withdraw(tag) ==
  /\ open
  /\ pending # <<>>
  /\ LeavesOf(pending', pending,
              {1} \cup {i \in 1..Len(pending) : pending[i].tag # tag})
  /\ UNCHANGED <<open, delivered>>

(* The pipe breaks, possibly just after one more message left it.          *)
Close ==
  /\ open
  /\ open' = FALSE
  /\ pending' = <<>>
  /\ \/ UNCHANGED delivered
     \/ /\ pending # <<>>
        /\ delivered' = Append(delivered, Head(pending))

Next ==
  \/ \E m \in Message : Accept(m)
  \/ Deliver
  \/ \E tag \in Tag : Withdraw(tag)
  \/ Close

Spec == Init /\ [][Next]_pipeVars
==============================================================================
