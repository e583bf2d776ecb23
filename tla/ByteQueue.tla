------------------------------ MODULE ByteQueue ------------------------------
(***************************************************************************)
(* Byte accounting over queues of messages, as remote-mux-sender.ts does   *)
(* it.  A message is any record with a `tag' and a `size' (its full UTF-8  *)
(* length).  Both operators are recursive functions over the positions of  *)
(* the queue, so that they can be evaluated by TLC and reasoned about.     *)
(***************************************************************************)
EXTENDS Integers, Sequences

(* Bytes of the first i messages of a queue, for every i.                  *)
PrefixSizes(q) ==
  LET upTo[i \in 0..Len(q)] == IF i = 0 THEN 0 ELSE upTo[i - 1] + q[i].size
  IN  upTo

SumSizes(q) == PrefixSizes(q)[Len(q)]

(* Slip: what is kept comes out in the opposite order.                     *)
ScanStepReversed(soFar, m, tag) ==
  IF m.tag = tag
    THEN [kept |-> soFar.kept, removedBytes |-> soFar.removedBytes + m.size]
    ELSE [kept |-> <<m>> \o soFar.kept, removedBytes |-> soFar.removedBytes]

(* The loop of MuxSender.cancel: walk the queue once, keep what does not   *)
(* carry the tag and add up the bytes of what does.                        *)
ScanStep(soFar, m, tag) ==
  IF m.tag = tag
    THEN [kept |-> soFar.kept, removedBytes |-> soFar.removedBytes + m.size]
    ELSE [kept |-> Append(soFar.kept, m), removedBytes |-> soFar.removedBytes]

PrefixScan(q, tag) ==
  LET upTo[i \in 0..Len(q)] ==
        IF i = 0 THEN [kept |-> <<>>, removedBytes |-> 0]
                 ELSE ScanStep(upTo[i - 1], q[i], tag)
  IN  upTo

CancelScan(q, tag) == PrefixScan(q, tag)[Len(q)]
==============================================================================
