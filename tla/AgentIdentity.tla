---------------------------- MODULE AgentIdentity ----------------------------
(***************************************************************************)
(* The agent of a site: its enrollment with a one-time token, the          *)
(* credentials it keeps, its replacement by another installation, and the  *)
(* presence that the cloud shows for it (internal/cloud/agent_handlers.go, *)
(* internal/store/store.go, main of cmd/agent, markOffline of cmd/cloud).  *)
(*                                                                         *)
(* An installation is a container with a volume agent-state; Docker starts *)
(* it again when it ends. An agent is the number of its enrollment, which  *)
(* stands for the random ID and token it is given. Times are ages, in a    *)
(* unit of the instance's choice; ages above Stale are all the same.       *)
(***************************************************************************)
EXTENDS Naturals

CONSTANTS Installation,
          Throttle,    \* 30 s: TouchAgentPresence does not write more often
          Stale,       \* 90 s: MarkStaleAgentsOffline
          MaxTokens,   \* bound: enrollment tokens of the site
          MaxFaults    \* bound: lost answers, failed saves, crashes

ASSUME ThrottleAssumption == Throttle \in Nat /\ Stale \in Nat /\ Throttle <= Stale
ASSUME BoundAssumption    == MaxTokens \in Nat \ {0} /\ MaxFaults \in Nat

VARIABLES
  issued,     \* the enrollment token of the site: how many have been issued
  used,       \* enrollment_used_at is set
  agent,      \* the agent in the site's row, 0 without a row
  status,     \* of the row
  version,    \* the agent whose version and webrtc_enabled the row holds, 0 for none
  health,     \* the agent whose health columns the row holds, 0 for none
  seen,       \* age of last_seen_at
  contact,    \* age of the last request of the agent in the row (history)
  env,        \* ENROLLMENT_TOKEN of an installation, 0 for none
  file,       \* its state file
  saved,      \* the agent whose credentials the file holds
  proc,       \* its process
  self,       \* the agent the process is
  request,    \* its request in the cloud, and the agent it was authenticated as
  faults      \* failures so far

site  == <<issued, used>>
row   == <<agent, status, version, health, seen, contact>>
inst  == <<env, file, saved, proc, self>>
vars  == <<site, row, inst, request, faults>>

Agent   == 0..MaxTokens
Age     == 0..(Stale + 1)
NoCall  == [at |-> "none", agent |-> 0]
Request == [at : {"none", "known", "touched"}, agent : Agent]

TypeOK ==
  /\ issued  \in 1..MaxTokens /\ used \in BOOLEAN
  /\ agent   \in Agent /\ version \in Agent /\ health \in Agent
  /\ status  \in {"none", "online", "offline"}
  /\ seen    \in Age /\ contact \in Age
  /\ env     \in [Installation -> Agent]
  /\ file    \in [Installation -> {"absent", "torn", "saved"}]
  /\ saved   \in [Installation -> Agent]
  /\ proc    \in [Installation -> {"down", "enrolling", "saving", "running"}]
  /\ self    \in [Installation -> Agent]
  /\ request \in [Installation -> Request]
  /\ faults  \in 0..MaxFaults

Init ==
  /\ issued = 1 /\ used = FALSE
  /\ agent = 0 /\ status = "none" /\ version = 0 /\ health = 0 /\ seen = 0 /\ contact = 0
  /\ env     = [a \in Installation |-> 0]
  /\ file    = [a \in Installation |-> "absent"]
  /\ saved   = [a \in Installation |-> 0]
  /\ proc    = [a \in Installation |-> "down"]
  /\ self    = [a \in Installation |-> 0]
  /\ request = [a \in Installation |-> NoCall]
  /\ faults  = 0

Fault == faults < MaxFaults /\ faults' = faults + 1

----------------------------------------------------------------------------
(* The administrator                                                       *)

(* ResetEnrollmentToken: the row of the agent stays as it is.              *)
Reset == /\ issued < MaxTokens
         /\ issued' = issued + 1 /\ used' = FALSE
         /\ UNCHANGED <<row, inst, request, faults>>

(* The environment is written before the container is created.             *)
Configure(a) == /\ proc[a] = "down"
                /\ env' = [env EXCEPT ![a] = issued]
                /\ UNCHANGED <<site, row, file, saved, proc, self, request, faults>>

(* "supprimer le volume agent-state" (README).                             *)
RemoveVolume(a) == /\ proc[a] = "down" /\ file[a] # "absent"
                   /\ file'  = [file EXCEPT ![a] = "absent"]
                   /\ saved' = [saved EXCEPT ![a] = 0]
                   /\ UNCHANGED <<site, row, env, proc, self, request, faults>>

----------------------------------------------------------------------------
(* The agent's main                                                        *)

(* A state file decides alone; without one the token of the environment is *)
(* used, and without either, or with a file that is no JSON, main exits.   *)
Start(a) ==
  /\ proc[a] = "down"
  /\ \/ /\ file[a] = "saved"
        /\ proc' = [proc EXCEPT ![a] = "running"]
        /\ self' = [self EXCEPT ![a] = saved[a]]
     \/ /\ file[a] = "absent" /\ env[a] # 0
        /\ proc' = [proc EXCEPT ![a] = "enrolling"]
        /\ UNCHANGED self
  /\ UNCHANGED <<site, row, env, file, saved, request, faults>>

AcceptsUsed(t) == t = issued   \* mutant: enrollment_used_at is not asked for

AcceptsFirst(t) == t = issued /\ agent = 0   \* mutant: a site with an agent accepts no other

(* The UPDATE of sites matches a row.                                      *)
Accepts(t) == t = issued /\ ~used

(* INSERT ... ON DUPLICATE KEY UPDATE; the health columns are not reset.   *)
Enrolled == agent' = agent + 1 /\ version' = 0

(* enrollAgent: the transaction is committed, then its answer reaches the  *)
(* agent or does not.                                                      *)
Enroll(a) ==
  /\ proc[a] = "enrolling" /\ Accepts(env[a])
  /\ used' = TRUE
  /\ Enrolled
  /\ status' = "online" /\ seen' = 0 /\ contact' = 0
  /\ \/ /\ proc' = [proc EXCEPT ![a] = "saving"]
        /\ self' = [self EXCEPT ![a] = agent']
        /\ UNCHANGED faults
     \/ /\ Fault
        /\ proc' = [proc EXCEPT ![a] = "down"]
        /\ UNCHANGED self
  /\ UNCHANGED <<issued, health, env, file, saved, request>>

EnrollRefused(a) ==
  /\ proc[a] = "enrolling" /\ ~Accepts(env[a])
  /\ proc' = [proc EXCEPT ![a] = "down"]
  /\ UNCHANGED <<site, row, env, file, saved, self, request, faults>>

(* saveState, a plain os.WriteFile.                                        *)
Save(a) ==
  /\ proc[a] = "saving"
  /\ file'  = [file EXCEPT ![a] = "saved"]
  /\ saved' = [saved EXCEPT ![a] = self[a]]
  /\ proc'  = [proc EXCEPT ![a] = "running"]
  /\ UNCHANGED <<site, row, env, self, request, faults>>

(* The process dies, or its file cannot be written and main exits. A file  *)
(* that was being written is there, empty or in part, or is not there.     *)
Die(a) ==
  /\ proc[a] # "down" /\ Fault
  /\ proc' = [proc EXCEPT ![a] = "down"]
  /\ self' = [self EXCEPT ![a] = 0]
  /\ \/ UNCHANGED file
     \/ proc[a] = "saving" /\ file' = [file EXCEPT ![a] = "torn"]
  /\ UNCHANGED <<site, row, env, saved, request>>

(* SIGTERM, after which the container may be configured anew.              *)
Stop(a) ==
  /\ proc[a] = "running"
  /\ proc' = [proc EXCEPT ![a] = "down"]
  /\ self' = [self EXCEPT ![a] = 0]
  /\ UNCHANGED <<site, row, env, file, saved, request, faults>>

----------------------------------------------------------------------------
(* An authenticated request, one statement of the store after the other;   *)
(* the row may be another agent's before the next. The caller may die.     *)

(* AgentByTokenHash, in the middleware agent.                              *)
Authenticate(a) ==
  /\ proc[a] = "running" /\ request[a] = NoCall /\ self[a] = agent
  /\ request' = [request EXCEPT ![a] = [at |-> "known", agent |-> agent]]
  /\ UNCHANGED <<site, row, inst, faults>>

IsSeen == status' = "online" /\ seen' = 0

TouchSite(g) ==   \* mutant: the row of the site, whoever it belongs to
  IF status # "online" \/ seen > Throttle THEN IsSeen ELSE UNCHANGED <<status, seen>>

(* TouchAgentPresence.                                                     *)
Touched(g) ==
  IF g = agent /\ (status # "online" \/ seen > Throttle)
    THEN IsSeen ELSE UNCHANGED <<status, seen>>

Contact(g) == contact' = IF g = agent THEN 0 ELSE contact

Touch(a) ==
  /\ request[a].at = "known"
  /\ Touched(request[a].agent) /\ Contact(request[a].agent)
  /\ request' = [request EXCEPT ![a].at = "touched"]
  /\ UNCHANGED <<site, agent, version, health, inst, faults>>

BeatsSite(g) == TRUE   \* mutant: WHERE site_id

(* WHERE id = the agent that was authenticated.                            *)
Beats(g) == g = agent

(* The handler heartbeat.                                                  *)
Heartbeat(a) ==
  LET g == request[a].agent
  IN /\ request[a].at = "touched"
     /\ IF Beats(g) THEN IsSeen /\ contact' = 0 /\ version' = g /\ health' = g
                    ELSE UNCHANGED <<status, seen, contact, version, health>>
     /\ request' = [request EXCEPT ![a] = NoCall]
     /\ UNCHANGED <<site, agent, inst, faults>>

(* Any other handler, or the end of a request that is broken.              *)
EndRequest(a) ==
  /\ request[a] # NoCall
  /\ request' = [request EXCEPT ![a] = NoCall]
  /\ UNCHANGED <<site, row, inst, faults>>

----------------------------------------------------------------------------
Overdue == seen > Stale

(* MarkStaleAgentsOffline, every 30 s.                                     *)
Sweep == /\ status = "online" /\ Overdue
         /\ status' = "offline"
         /\ UNCHANGED <<site, agent, version, health, seen, contact, inst, request, faults>>

Older(n) == IF n > Stale THEN n ELSE n + 1

Tick == /\ agent # 0
        /\ seen' = Older(seen) /\ contact' = Older(contact)
        /\ UNCHANGED <<site, agent, status, version, health, inst, request, faults>>

InstallationStep(a) ==
  \/ Configure(a) \/ RemoveVolume(a)
  \/ Start(a) \/ Enroll(a) \/ EnrollRefused(a) \/ Save(a) \/ Die(a) \/ Stop(a)
  \/ Authenticate(a) \/ Touch(a) \/ Heartbeat(a) \/ EndRequest(a)

Next == Reset \/ Sweep \/ Tick \/ \E a \in Installation : InstallationStep(a)

Spec == Init /\ [][Next]_vars

(* restart: unless-stopped, and what main does without waiting for anyone. *)
FairSpec ==
  /\ Spec
  /\ \A a \in Installation : WF_vars(Start(a)) /\ WF_vars(Enroll(a)) /\ WF_vars(Save(a))

----------------------------------------------------------------------------
(* Properties                                                              *)

(* "TouchAgentPresence treats every authenticated agent request as proof   *)
(* of life" (store.go:190), though it writes only now and then and a sweep *)
(* looks at what it wrote: a site is shown offline only when its agent has *)
(* not been heard for Stale - Throttle, and what is taken for a sign of    *)
(* life is one of this very agent.                                         *)
PresenceIsTruthful ==
  /\ status = "offline" => contact > Stale - Throttle
  /\ contact <= seen

(* Version and webrtc_enabled decide how a viewer is served: they are what *)
(* the agent of the row has reported, never what one that it replaced left *)
(* or still reports, and nothing until its first heartbeat. The health     *)
(* columns, which an enrollment does not reset (store.go:135-138), become  *)
(* the agent's own with that heartbeat and no earlier: until then the list *)
(* of sites shows those of a predecessor (store.go:89-115).                *)
HealthIsOwn == /\ version \in {0, agent} /\ health <= agent
               /\ version = agent <=> health = agent

(* "Jeton à usage unique" (README): the site has had no more agents than   *)
(* tokens, whatever installations share a token, repeat an enrollment      *)
(* whose answer was lost, or race for it.                                  *)
OneAgentPerToken == agent <= issued /\ (~used => agent < issued)

(* A token that is fresh and given to an installation without a state file *)
(* leads to an agent that is connected, without any further help, unless   *)
(* something fails or another token is issued.                             *)
Connected == \E a \in Installation : proc[a] = "running" /\ self[a] = agent

FreshTokenEnrolls ==
  \A a \in Installation, t \in 1..MaxTokens, n \in 0..MaxFaults :
    issued = t /\ ~used /\ env[a] = t /\ file[a] = "absent" /\ proc[a] = "down" /\ faults = n
      ~> Connected \/ issued # t \/ faults # n
==============================================================================
