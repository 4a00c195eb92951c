------------------------------- MODULE Mailbox -------------------------------
(***************************************************************************)
(* What a command broker of the cloud promises, whatever its queues,       *)
(* notices and result channels look like inside: a job is offered once,    *)
(* taken at most once, performed at most once and answered at most once,   *)
(* and the answer never claims more than what happened at the agent.       *)
(* PtzBroker and WebRtcBroker are checked to implement this specification. *)
(***************************************************************************)
CONSTANT Job

VARIABLES place,    \* where the job is: new, offered, taken or dropped
          outcome,  \* what the agent made of it: none, ok or failed
          answer    \* what its requester was told: none until it is told

vars == <<place, outcome, answer>>

Places   == {"new", "offered", "taken", "dropped"}
Outcomes == {"none", "ok", "failed"}
Answers  == {"none", "executed", "failed", "full", "unsure"}

TypeOK == /\ place   \in [Job -> Places]
          /\ outcome \in [Job -> Outcomes]
          /\ answer  \in [Job -> Answers]

Init == /\ place   = [j \in Job |-> "new"]
        /\ outcome = [j \in Job |-> "none"]
        /\ answer  = [j \in Job |-> "none"]

At(p) == {j \in Job : place[j] = p}

(* A requester hands its job in; a full broker drops older ones, D, for it. *)
Offer(j, D) ==
  /\ UNCHANGED <<outcome, answer>>
  /\ place' = [k \in Job |-> CASE k = j    -> "offered"
                               [] k \in D  -> "dropped"
                               [] OTHER    -> place[k]]

(* An agent's poll takes an offered job, and may skip others, D, for good. *)
Take(j, D) ==
  /\ UNCHANGED <<outcome, answer>>
  /\ place' = [k \in Job |-> CASE k = j    -> "taken"
                               [] k \in D  -> "dropped"
                               [] OTHER    -> place[k]]

(* The agent performs the job it took, once.                               *)
Perform(j, o) ==
  /\ UNCHANGED <<place, answer>>
  /\ outcome[j] = "none"
  /\ outcome' = [outcome EXCEPT ![j] = o]

(* Jobs D that nobody performed yet are lost: a connection, an agent or    *)
(* the cloud goes away. Requesters G whose connection is cut stay unsure.  *)
Lose(D, G) ==
  /\ UNCHANGED outcome
  /\ answer' = [j \in Job |-> IF j \in G THEN "unsure" ELSE answer[j]]
  /\ place'  = [j \in Job |-> IF j \in D THEN "dropped" ELSE place[j]]

(* The requester is told something, and never something that is not so.    *)
Answer(j, a) ==
  /\ UNCHANGED <<place, outcome>>
  /\ a = "executed" => outcome[j] = "ok"
  /\ a = "failed"   => outcome[j] = "failed"
  /\ a = "full"     => place[j] = "dropped"
  /\ answer' = [answer EXCEPT ![j] = a]

Undone   == {j \in At("offered") \cup At("taken") : outcome[j] = "none"}
Awaiting == {j \in Job \ At("new") : answer[j] = "none"}

Next == \/ \E D \in SUBSET Undone, G \in SUBSET Awaiting : Lose(D, G)
        \/ \E j \in At("new"), D \in SUBSET At("offered") : Offer(j, D)
        \/ \E j \in At("offered") : \E D \in SUBSET (At("offered") \ {j}) : Take(j, D)
        \/ \E j \in At("taken"), o \in Outcomes \ {"none"} : Perform(j, o)
        \/ \E j \in Awaiting, a \in Answers \ {"none"} : Answer(j, a)

Spec == Init /\ [][Next]_vars
==============================================================================
