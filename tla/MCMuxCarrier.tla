---------------------------- MODULE MCMuxCarrier -----------------------------
(* Instances of MuxCarrier for TLC.                                        *)
EXTENDS MuxCarrier, TLC

(* Streams start alike and no action tells them apart.                     *)
StreamSymmetry == Permutations(Stream)

(* Bounds: while the browser has opened one stream, none.  With two, a     *)
(* frame of the host that meets a disposed carrier, a carrier neither of   *)
(* whose legs can speak, and one with frames in every queue at once are    *)
(* followed no further; the states themselves are checked.                 *)
Mute == {client, upstream} \subseteq {"terminated", "closed"}
WithinBounds ==
  \/ Len(opens) < 2
  \/ /\ disposed => hostOut = <<>>
     /\ ~Mute
     /\ up = <<>> \/ down = <<>> \/ Len(up) + Len(down) + Len(hostOut) < 4
==============================================================================
