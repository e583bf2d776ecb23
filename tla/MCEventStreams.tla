--------------------------- MODULE MCEventStreams ---------------------------
EXTENDS EventStreams, TLC

CONSTANTS ann, ben, c1, c2, k1, k2, s1

Owners == c1 :> ann @@ c2 :> ben
Channels == k1 :> "mux" @@ k2 :> "socket"
AnnOwns == {<<ann, s1>>}
Nothing == {}
Same == Permutations(Answer)

(* Three parts of the states, each entered where the others are over:      *)
(* questions and their answers, ...                                        *)
Questions ==
  /\ \A k \in Stream : stream[k].phase = "closed"
  /\ \A k \in Creation : creation[k].phase = "over"
  /\ emits = MaxEmits /\ lates = 0 /\ \A c \in Client : carrier[c] = "ready"
  /\ valid[ann] /\ valid[ben] /\ grants[ann] \subseteq grants[ben] /\ born = Session
  /\ \A a \in Answer : answer[a].phase = "idle"

(* ... what one user hears, on a carrier and on older streams, ...         *)
OneUser ==
  /\ \A a \in Answer : answer[a].phase = "refused"
  /\ emits = 0 /\ lates = MaxLate
  /\ carrier[c1] = "none" /\ carrier[c2] = "gone"
  /\ valid[ann] /\ ~valid[ben] /\ grants[ben] = {}

Hearing ==
  /\ OneUser /\ \A k \in Stream : stream[k].phase = "idle"
  /\ \A k \in Creation : creation[k].phase = "over"
  /\ born = Session

(* ... and what the user hears of a session that two requests create, or   *)
(* find there.                                                             *)
Creating ==
  /\ OneUser /\ \A k \in Stream : stream[k].phase = "closed"
  /\ \A k \in Creation : creation[k].phase = "idle"

(* Once no request to create is left, it makes no difference why a session *)
(* is off: those with the reason that it is outside are left out.          *)
Distinct ==
  (\A k \in Creation : creation[k].phase = "over") => \A u \in User : outside[u] = {}

Parts == Init /\ (Questions \/ Hearing \/ Creating)
=============================================================================
