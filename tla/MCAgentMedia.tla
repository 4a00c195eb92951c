---------------------------- MODULE MCAgentMedia ----------------------------
(* Instances of AgentMedia for TLC.                                         *)
EXTENDS AgentMedia, TLC

(* An agent's camera that is recorded on demand: recording or not, another *)
(* stream, disabled; and the same camera read by the cloud directly.       *)
Ours == [agent |-> TRUE, enabled |-> TRUE, url |-> 1, mode |-> "manual", manual |-> TRUE]

FewChoices == {Ours,
               [Ours EXCEPT !.manual = FALSE],
               [Ours EXCEPT !.url = 2],
               [Ours EXCEPT !.enabled = FALSE],
               [Ours EXCEPT !.mode = "cloud"],
               [Ours EXCEPT !.agent = FALSE]}
==============================================================================
