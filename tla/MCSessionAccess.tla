--------------------------- MODULE MCSessionAccess ---------------------------
(* Instances of SessionAccess for TLC.                                     *)
EXTENDS SessionAccess, TLC

(* Sessions, requests and saves start alike.                               *)
Symmetry == Permutations(Session) \cup Permutations(Request) \cup Permutations(Admin)
==============================================================================
