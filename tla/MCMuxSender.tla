---------------------------- MODULE MCMuxSender ------------------------------
(* Instances of MuxSender for TLC.                                         *)
EXTENDS MuxSender, TLC

TagSymmetry == Permutations(Tag)

==============================================================================
