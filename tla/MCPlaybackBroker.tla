-------------------------- MODULE MCPlaybackBroker --------------------------
(* Instances of PlaybackBroker for TLC.                                     *)
EXTENDS PlaybackBroker, TLC

CONSTANTS s1, r1, r2, u1, u2

OneSiteOf == [r \in Recording |-> s1]

HandlerSymmetry == Permutations(Handler)
==============================================================================
