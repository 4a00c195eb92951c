------------------------- MODULE AgentIdentity_proofs -------------------------
(***************************************************************************)
(* Proofs about AgentIdentity, for any installations, any throttle not     *)
(* longer than the time after which an agent is stale, and any bounds.     *)
(***************************************************************************)
EXTENDS AgentIdentity, TLAPS

USE ThrottleAssumption, BoundAssumption

(* A token is used up by the agent it made, so the next agent needs a      *)
(* token of its own: this keeps the numbers of agents in their type.       *)
IdentityInv == TypeOK /\ OneAgentPerToken

LEMMA IdentityInit == Init => IdentityInv
<1> SUFFICES ASSUME Init PROVE IdentityInv
  OBVIOUS
<1>1. used \in BOOLEAN
  BY ZenonT(20) DEF Init
<1>2. OneAgentPerToken
  BY DEF Init, OneAgentPerToken
<1>3. issued \in 1..MaxTokens /\ faults \in 0..MaxFaults
  BY DEF Init
<1>4. agent \in Agent /\ version \in Agent /\ health \in Agent /\ seen \in Age /\ contact \in Age
  BY DEF Init, Agent, Age
<1>5. /\ env \in [Installation -> Agent] /\ saved \in [Installation -> Agent]
      /\ self \in [Installation -> Agent] /\ request \in [Installation -> Request]
  BY DEF Init, Agent, Request, NoCall
<1> QED BY <1>1, <1>2, <1>3, <1>4, <1>5 DEF Init, IdentityInv, TypeOK

LEMMA IdentityNext == IdentityInv /\ [Next]_vars => IdentityInv'
<1> SUFFICES ASSUME IdentityInv, [Next]_vars PROVE IdentityInv'
  OBVIOUS
<1> USE DEF IdentityInv, TypeOK, OneAgentPerToken, Agent, Age, Request, NoCall
<1>1. CASE Reset
  <2>1. issued' \in 1..MaxTokens /\ OneAgentPerToken'
    BY <1>1 DEF Reset, row
  <2>2. used' \in BOOLEAN
    BY <1>1, Zenon DEF Reset
  <2> QED BY <1>1, <2>1, <2>2 DEF Reset, row, inst
<1>2. CASE Sweep
  BY <1>2 DEF Sweep, site, inst
<1>3. CASE Tick
  BY <1>3 DEF Tick, Older, site, inst
<1>4. ASSUME NEW a \in Installation, InstallationStep(a) PROVE IdentityInv'
  <2>1. CASE Configure(a)
    BY <2>1 DEF Configure, site, row
  <2>2. CASE RemoveVolume(a)
    BY <2>2 DEF RemoveVolume, site, row
  <2>3. CASE Start(a)
    BY <2>3 DEF Start, site, row
  <2>4. CASE Enroll(a)
    <3>1. agent' = agent + 1 /\ version' = 0 /\ used' /\ issued' = issued /\ agent < issued
      BY <2>4 DEF Enroll, Enrolled, Accepts
    <3>2. agent' \in Agent /\ OneAgentPerToken'
      BY <3>1
    <3>3. /\ status' = "online" /\ seen' = 0 /\ contact' = 0
          /\ UNCHANGED <<health, env, file, saved, request>>
      BY <2>4 DEF Enroll
    <3>4. proc' \in [Installation -> {"down", "enrolling", "saving", "running"}]
      BY <2>4 DEF Enroll
    <3>5. self' \in [Installation -> Agent]
      BY <2>4, <3>2 DEF Enroll
    <3>6. faults' \in 0..MaxFaults
      BY <2>4 DEF Enroll, Fault
    <3> QED BY <3>1, <3>2, <3>3, <3>4, <3>5, <3>6
  <2>5. CASE EnrollRefused(a)
    BY <2>5 DEF EnrollRefused, site, row
  <2>6. CASE Save(a)
    BY <2>6 DEF Save, site, row
  <2>7. CASE Die(a)
    BY <2>7 DEF Die, Fault, site, row
  <2>8. CASE Stop(a)
    BY <2>8 DEF Stop, site, row
  <2>9. CASE Authenticate(a)
    BY <2>9 DEF Authenticate, site, row, inst
  <2>10. CASE Touch(a)
    BY <2>10 DEF Touch, Touched, IsSeen, Contact, site, inst
  <2>11. CASE Heartbeat(a)
    BY <2>11 DEF Heartbeat, IsSeen, site, inst
  <2>12. CASE EndRequest(a)
    BY <2>12 DEF EndRequest, site, row, inst
  <2> QED BY <1>4, <2>1, <2>2, <2>3, <2>4, <2>5, <2>6, <2>7, <2>8, <2>9, <2>10, <2>11, <2>12
          DEF InstallationStep
<1>5. CASE UNCHANGED vars
  BY <1>5 DEF vars, site, row, inst
<1> QED BY <1>1, <1>2, <1>3, <1>4, <1>5 DEF Next

LEMMA IdentityAlways == Spec => []IdentityInv
BY IdentityInit, IdentityNext, PTL DEF Spec

(* Every variable keeps its type: the agent of a row is the agent of some  *)
(* token, and so is every agent that a file, a process or a request names. *)
THEOREM TypeCorrect == Spec => []TypeOK
<1>1. IdentityInv => TypeOK
  BY DEF IdentityInv
<1> QED BY <1>1, IdentityAlways, PTL

(* enrollment_used_at makes a token good for one agent.                    *)
THEOREM TokensAreOneTime == Spec => []OneAgentPerToken
<1>1. IdentityInv => OneAgentPerToken
  BY DEF IdentityInv
<1> QED BY <1>1, IdentityAlways, PTL

----------------------------------------------------------------------------
(* Presence. The throttle lets last_seen_at fall behind the last request,  *)
(* but by Throttle at most.                                                *)
Lag == seen <= contact + Throttle

PresenceInv == PresenceIsTruthful /\ Lag

LEMMA PresenceInit == Init => PresenceInv
BY DEF Init, PresenceInv, PresenceIsTruthful, Lag

(* A request of the agent of the row, and of no other, is written down     *)
(* unless one was not long ago.                                            *)
LEMMA TouchKeepsPresence ==
  ASSUME IdentityInv, PresenceInv, NEW g \in Agent, Touched(g), Contact(g)
  PROVE  PresenceInv'
<1> USE DEF IdentityInv, TypeOK, Age, PresenceInv, PresenceIsTruthful, Lag
<1>1. CASE g = agent /\ (status # "online" \/ seen > Throttle)
  BY <1>1 DEF Touched, Contact, IsSeen
<1>2. CASE g = agent /\ ~(status # "online" \/ seen > Throttle)
  BY <1>2 DEF Touched, Contact, IsSeen
<1>3. CASE g # agent
  BY <1>3 DEF Touched, Contact, IsSeen
<1> QED BY <1>1, <1>2, <1>3

LEMMA PresenceNext == IdentityInv /\ PresenceInv /\ [Next]_vars => PresenceInv'
<1> SUFFICES ASSUME IdentityInv, PresenceInv, [Next]_vars PROVE PresenceInv'
  OBVIOUS
<1>1. CASE Sweep
  BY <1>1 DEF Sweep, Overdue, IdentityInv, TypeOK, Age, PresenceInv, PresenceIsTruthful, Lag
<1>2. CASE Tick
  BY <1>2 DEF Tick, Older, IdentityInv, TypeOK, Age, PresenceInv, PresenceIsTruthful, Lag
<1>3. ASSUME UNCHANGED <<status, seen, contact>> PROVE PresenceInv'
  BY <1>3 DEF PresenceInv, PresenceIsTruthful, Lag
<1>4. ASSUME NEW a \in Installation, InstallationStep(a) PROVE PresenceInv'
  <2>1. CASE Enroll(a)
    BY <2>1 DEF Enroll, PresenceInv, PresenceIsTruthful, Lag
  <2>2. CASE Touch(a)
    <3>1. request[a].agent \in Agent
      BY DEF IdentityInv, TypeOK, Request
    <3> QED BY <2>2, <3>1, TouchKeepsPresence DEF Touch
  <2>3. CASE Heartbeat(a)
    <3>1. CASE status' = "online" /\ seen' = 0 /\ contact' = 0
      BY <3>1 DEF PresenceInv, PresenceIsTruthful, Lag
    <3> QED BY <2>3, <1>3, <3>1 DEF Heartbeat, IsSeen
  <2>4. CASE \/ Configure(a) \/ RemoveVolume(a) \/ Start(a) \/ EnrollRefused(a) \/ Save(a)
             \/ Die(a) \/ Stop(a) \/ Authenticate(a) \/ EndRequest(a)
    BY <2>4, <1>3 DEF Configure, RemoveVolume, Start, EnrollRefused, Save, Die, Stop,
                      Authenticate, EndRequest, row
  <2> QED BY <1>4, <2>1, <2>2, <2>3, <2>4 DEF InstallationStep
<1>5. CASE Reset
  BY <1>5, <1>3 DEF Reset, row
<1>6. CASE UNCHANGED vars
  BY <1>6, <1>3 DEF vars, row
<1> QED BY <1>1, <1>2, <1>4, <1>5, <1>6 DEF Next

(* An agent that calls at least every Stale - Throttle is never shown      *)
(* offline, and nobody else's requests are taken for its own.              *)
THEOREM PresenceHolds == Spec => []PresenceIsTruthful
<1>1. PresenceInv => PresenceIsTruthful
  BY DEF PresenceInv
<1> QED BY <1>1, PresenceInit, PresenceNext, IdentityAlways, PTL DEF Spec

----------------------------------------------------------------------------
LEMMA HealthNext == IdentityInv /\ HealthIsOwn /\ [Next]_vars => HealthIsOwn'
<1> SUFFICES ASSUME IdentityInv, HealthIsOwn, [Next]_vars PROVE HealthIsOwn'
  OBVIOUS
<1>1. ASSUME UNCHANGED <<agent, version, health>> PROVE HealthIsOwn'
  BY <1>1 DEF HealthIsOwn
<1>2. ASSUME NEW a \in Installation, InstallationStep(a) PROVE HealthIsOwn'
  <2>1. CASE Enroll(a)
    BY <2>1 DEF Enroll, Enrolled, HealthIsOwn, IdentityInv, TypeOK, Agent
  <2>2. CASE Heartbeat(a)
    <3>1. CASE Beats(request[a].agent)
      BY <2>2, <3>1 DEF Heartbeat, Beats, HealthIsOwn, IdentityInv, TypeOK, Agent
    <3>2. CASE ~Beats(request[a].agent)
      BY <2>2, <3>2, <1>1 DEF Heartbeat
    <3> QED BY <3>1, <3>2
  <2>3. CASE \/ Configure(a) \/ RemoveVolume(a) \/ Start(a) \/ EnrollRefused(a) \/ Save(a)
             \/ Die(a) \/ Stop(a) \/ Authenticate(a) \/ Touch(a) \/ EndRequest(a)
    BY <2>3, <1>1 DEF Configure, RemoveVolume, Start, EnrollRefused, Save, Die, Stop,
                      Authenticate, Touch, EndRequest, row
  <2> QED BY <1>2, <2>1, <2>2, <2>3 DEF InstallationStep
<1>3. CASE Reset \/ Sweep \/ Tick
  BY <1>3, <1>1 DEF Reset, Sweep, Tick, row
<1>4. CASE UNCHANGED vars
  BY <1>4, <1>1 DEF vars, row
<1> QED BY <1>2, <1>3, <1>4 DEF Next

(* A late heartbeat of a replaced agent, authenticated before the          *)
(* replacement, changes nothing of the new agent's row: its version is its *)
(* own or empty, and its health columns are a predecessor's exactly until  *)
(* its first heartbeat.                                                    *)
THEOREM HealthHolds == Spec => []HealthIsOwn
<1>1. Init => HealthIsOwn
  BY DEF Init, HealthIsOwn
<1> QED BY <1>1, HealthNext, IdentityAlways, PTL DEF Spec
===============================================================================
