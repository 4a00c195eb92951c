----------------------------- MODULE MCPtzBroker -----------------------------
(* An instance of PtzBroker for TLC.                                        *)
EXTENDS PtzBroker, TLC

CONSTANTS s1, s2, c1, c2, p1, p2

(* Every command and every poll is of the first site. The second one is     *)
(* there for what its agent reports.                                        *)
OneSiteOf   == [c \in Command |-> s1]
OnePollSite == [p \in Poller |-> s1]
==============================================================================
