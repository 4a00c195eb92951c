----------------------------- MODULE MCOnvifPtz -----------------------------
(* Instances of OnvifPtz for TLC.                                           *)
EXTENDS OnvifPtz, TLC

CallerSymmetry == Permutations(Caller)
==============================================================================
