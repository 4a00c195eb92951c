--------------------------- MODULE MCWebRtcBroker ---------------------------
(* An instance of WebRtcBroker for TLC.                                     *)
EXTENDS WebRtcBroker, TLC

CONSTANTS s1, s2, e1, e2, w1, w2

(* The second site is there for what its agent posts.                       *)
OneSiteOf   == [e \in Exchange |-> s1]
OneWorkSite == [w \in Worker |-> s1]
==============================================================================
