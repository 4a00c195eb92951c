------------------------------ MODULE PtzBroker ------------------------------
(***************************************************************************)
(* The PTZ command channel: ptzBroker (internal/cloud/ptz_broker.go), the  *)
(* HTTP handlers that call it (internal/cloud/ptz_handlers.go) and the     *)
(* agent's loop runPTZCommands (cmd/agent/main.go).                        *)
(*                                                                         *)
(* A command is one controlPTZ request: its ID is fresh, so a command and  *)
(* its requester are one value. A poller is one run of the handler         *)
(* nextPTZCommand; an agent runs one loop, but a poll whose connection     *)
(* broke may still run in the cloud when the agent polls again, so a site  *)
(* has several poller slots.                                               *)
(*                                                                         *)
(* Each critical section of the mutex is one step. Timeouts (10 s of the   *)
(* requester, 20 s of a poll, 12 s of a move, 30 s of the agent's HTTP     *)
(* client) may fire at any moment their code waits.                        *)
(***************************************************************************)
EXTENDS Naturals, Sequences

CONSTANTS Site, Command, Poller,
          SiteOf,       \* the site of the camera a command is for
          PollSite,     \* the site whose agent a poller slot serves
          QueueCap,     \* 50 in the code
          None

ASSUME SiteOfAssumption   == SiteOf \in [Command -> Site]
ASSUME PollSiteAssumption == PollSite \in [Poller -> Site]
ASSUME QueueCapAssumption == QueueCap \in Nat \ {0}
ASSUME NoneAssumption     == None \notin Command \cup Poller

VARIABLES
  queues,    \* b.queues: the commands waiting for the agent of a site
  notices,   \* b.notices: TRUE when the one-slot channel holds a token
  pending,   \* keys of b.pending; the entry's siteID is SiteOf
  result,    \* what a command's one-slot result channel holds
  client,    \* the requester: new, waiting, or what it was answered
  deferred,  \* requesters whose deferred abandon has not run yet
  pc,        \* where a poller is in next
  ctxDone,   \* the poller's context is done: 20 s passed or connection lost
  carried,   \* the command a poller popped and is about to write
  agent,     \* where an agent's loop is
  poll,      \* the poller that serves the agent's current request
  job,       \* the command the agent executes or reports
  reports,   \* results on their way to completePTZCommand
  ran,       \* how often the camera was made to execute a command (history)
  worked     \* whether the last execution succeeded (history)

brokerVars == <<queues, notices, pending, result>>
clientVars == <<client, deferred>>
pollVars   == <<pc, ctxDone, carried>>
agentVars  == <<agent, poll, job, ran, worked>>
vars == <<brokerVars, clientVars, pollVars, agentVars, reports>>

Results == {"ok", "failed", "full"}
Report  == [site : Site, id : Command, success : BOOLEAN]

TypeOK ==
  /\ queues   \in [Site -> Seq(Command)]
  /\ notices  \in [Site -> BOOLEAN]
  /\ pending  \in SUBSET Command
  /\ result   \in [Command -> Results \cup {"empty"}]
  /\ client   \in [Command -> {"new", "waiting", "executed", "failed",
                               "full", "unsure"}]
  /\ deferred \in SUBSET Command
  /\ pc       \in [Poller -> {"free", "lock", "select", "parked", "deliver"}]
  /\ ctxDone  \in [Poller -> BOOLEAN]
  /\ carried  \in [Poller -> Command \cup {None}]
  /\ agent    \in [Site -> {"idle", "polling", "executing", "reporting"}]
  /\ poll     \in [Site -> Poller \cup {None}]
  /\ job      \in [Site -> Command \cup {None}]
  /\ reports  \in SUBSET Report
  /\ ran      \in [Command -> Nat]
  /\ worked   \in [Command -> BOOLEAN]

Init ==
  /\ queues   = [s \in Site |-> <<>>]
  /\ notices  = [s \in Site |-> FALSE]
  /\ pending  = {}
  /\ result   = [c \in Command |-> "empty"]
  /\ client   = [c \in Command |-> "new"]
  /\ deferred = {}
  /\ pc       = [p \in Poller |-> "free"]
  /\ ctxDone  = [p \in Poller |-> FALSE]
  /\ carried  = [p \in Poller |-> None]
  /\ agent    = [s \in Site |-> "idle"]
  /\ poll     = [s \in Site |-> None]
  /\ job      = [s \in Site |-> None]
  /\ reports  = {}
  /\ ran      = [c \in Command |-> 0]
  /\ worked   = [c \in Command |-> FALSE]

Parked(s) == {p \in Poller : PollSite[p] = s /\ pc[p] = "parked"}

----------------------------------------------------------------------------
(* The requester: controlPTZ                                               *)

(* A send on the notice channel: a parked poller takes it at once, an      *)
(* empty slot keeps it, a full slot drops it (select with default).        *)
NotifyParkedOnly(s) ==   \* mutant: an unbuffered channel
  IF Parked(s) # {}
    THEN \E p \in Parked(s) : pc' = [pc EXCEPT ![p] = "lock"] /\ UNCHANGED notices
    ELSE UNCHANGED <<pc, notices>>

Notify(s) ==
  IF Parked(s) # {}
    THEN \E p \in Parked(s) : /\ pc' = [pc EXCEPT ![p] = "lock"]
                              /\ UNCHANGED notices
    ELSE /\ notices' = [notices EXCEPT ![s] = TRUE]
         /\ UNCHANGED pc

(* The oldest commands that a queue has no room for.                       *)
Overflow(q) == IF Len(q) >= QueueCap THEN {Head(q)} ELSE {}

Kept(q) == IF Len(q) >= QueueCap THEN Tail(q) ELSE q

(* enqueue, called by controlPTZ for a camera behind an agent.             *)
Enqueue(c) ==
  LET s       == SiteOf[c]
      dropped == Overflow(queues[s]) \cap pending
  IN /\ client[c] = "new"
     /\ client'   = [client EXCEPT ![c] = "waiting"]
     /\ deferred' = deferred \cup {c}
     /\ pending'  = (pending \cup {c}) \ dropped
     /\ result'   = [d \in Command |-> IF d \in dropped THEN "full" ELSE result[d]]
     /\ queues'   = [queues EXCEPT ![s] = Append(Kept(@), c)]
     /\ Notify(s)
     /\ UNCHANGED <<ctxDone, carried, agentVars, reports>>

(* The requester's select takes the result.                                *)
ReceiveResult(c) ==
  /\ client[c] = "waiting"
  /\ result[c] # "empty"
  /\ client' = [client EXCEPT ![c] = IF result[c] = "ok" THEN "executed"
                                                         ELSE result[c]]
  /\ result' = [result EXCEPT ![c] = "empty"]
  /\ UNCHANGED <<queues, notices, pending, deferred, pollVars, agentVars, reports>>

(* The requester's select takes the 10 s timer (the answer is 202, with    *)
(* status "queued") or its own context (no answer): it is left unsure.     *)
GiveUp(c) ==
  /\ client[c] = "waiting"
  /\ client' = [client EXCEPT ![c] = "unsure"]
  /\ UNCHANGED <<brokerVars, deferred, pollVars, agentVars, reports>>

(* The deferred abandon: the entry goes, the queued command stays.         *)
AbandonNothing(c) ==   \* mutant: the entry is left to the result
  /\ c \in deferred /\ client[c] # "waiting"
  /\ deferred' = deferred \ {c}
  /\ UNCHANGED <<brokerVars, client, pollVars, agentVars, reports>>

Abandon(c) ==
  /\ c \in deferred
  /\ client[c] # "waiting"
  /\ deferred' = deferred \ {c}
  /\ pending'  = pending \ {c}
  /\ UNCHANGED <<queues, notices, result, client, pollVars, agentVars, reports>>

----------------------------------------------------------------------------
(* A poll: nextPTZCommand and next                                         *)

(* The agent's loop asks for a command; the handler starts next.           *)
Poll(s, p) ==
  /\ agent[s] = "idle"
  /\ PollSite[p] = s
  /\ pc[p] = "free"
  /\ agent'   = [agent EXCEPT ![s] = "polling"]
  /\ poll'    = [poll EXCEPT ![s] = p]
  /\ pc'      = [pc EXCEPT ![p] = "lock"]
  /\ UNCHANGED <<brokerVars, clientVars, ctxDone, carried, job, ran, worked, reports>>

(* What a pop leaves of the queue.                                         *)
Unpopped(q) == q   \* mutant: the command is read and not removed

Popped(q) == Tail(q)

(* next holds the mutex and the queue has a command: it pops it, whether   *)
(* its context is done or not. (Nothing reads the context after that.)     *)
Pop(p) ==
  LET s == PollSite[p]
  IN /\ pc[p] = "lock"
     /\ queues[s] # <<>>
     /\ carried' = [carried EXCEPT ![p] = Head(queues[s])]
     /\ queues'  = [queues EXCEPT ![s] = Popped(@)]
     /\ pc'      = [pc EXCEPT ![p] = "deliver"]
     /\ ctxDone' = [ctxDone EXCEPT ![p] = FALSE]
     /\ UNCHANGED <<notices, pending, result, clientVars, agentVars, reports>>

(* next finds the queue empty, and unlocks.                                *)
FindEmpty(p) ==
  /\ pc[p] = "lock"
  /\ queues[PollSite[p]] = <<>>
  /\ pc' = [pc EXCEPT ![p] = "select"]
  /\ UNCHANGED <<brokerVars, clientVars, ctxDone, carried, agentVars, reports>>

(* next's select: a token in the channel sends it round the loop again.    *)
TakeNotice(p) ==
  /\ pc[p] = "select"
  /\ notices[PollSite[p]]
  /\ notices' = [notices EXCEPT ![PollSite[p]] = FALSE]
  /\ pc'      = [pc EXCEPT ![p] = "lock"]
  /\ UNCHANGED <<queues, pending, result, clientVars, ctxDone, carried, agentVars, reports>>

(* next's select: neither case is ready.                                   *)
Park(p) ==
  /\ pc[p] = "select"
  /\ ~notices[PollSite[p]]
  /\ ~ctxDone[p]
  /\ pc' = [pc EXCEPT ![p] = "parked"]
  /\ UNCHANGED <<brokerVars, clientVars, ctxDone, carried, agentVars, reports>>

(* The poll's 20 s pass, or the server notices that the connection broke.  *)
ContextBroken(p) ==   \* mutant: no limit on the poll, only its connection ends it
  /\ pc[p] \in {"lock", "select", "parked"} /\ ~ctxDone[p]
  /\ poll[PollSite[p]] # p
  /\ ctxDone' = [ctxDone EXCEPT ![p] = TRUE]
  /\ UNCHANGED <<brokerVars, clientVars, pc, carried, agentVars, reports>>

ContextDone(p) ==
  /\ pc[p] \in {"lock", "select", "parked"}
  /\ ~ctxDone[p]
  /\ ctxDone' = [ctxDone EXCEPT ![p] = TRUE]
  /\ UNCHANGED <<brokerVars, clientVars, pc, carried, agentVars, reports>>

(* The agent's request ends without a command: the loop goes round.        *)
NoCommand(s) ==
  /\ agent' = [agent EXCEPT ![s] = "idle"]
  /\ poll'  = [poll EXCEPT ![s] = None]

(* next's select takes ctx.Done: 204, if the agent is still there.         *)
EndPoll(p) ==
  LET s == PollSite[p]
  IN /\ pc[p] \in {"select", "parked"}
     /\ ctxDone[p]
     /\ pc' = [pc EXCEPT ![p] = "free"]
     /\ ctxDone' = [ctxDone EXCEPT ![p] = FALSE]
     /\ IF poll[s] = p THEN NoCommand(s) ELSE UNCHANGED <<agent, poll>>
     /\ UNCHANGED <<brokerVars, clientVars, carried, job, ran, worked, reports>>

(* The handler writes the command: it reaches the agent if the agent still *)
(* waits on this connection, and nobody otherwise.                         *)
Deliver(p) ==
  LET s == PollSite[p]
  IN /\ pc[p] = "deliver"
     /\ pc'      = [pc EXCEPT ![p] = "free"]
     /\ carried' = [carried EXCEPT ![p] = None]
     /\ IF poll[s] = p
          THEN /\ agent' = [agent EXCEPT ![s] = "executing"]
               /\ poll'  = [poll EXCEPT ![s] = None]
               /\ job'   = [job EXCEPT ![s] = carried[p]]
          ELSE UNCHANGED <<agent, poll, job>>
     /\ UNCHANGED <<brokerVars, clientVars, ctxDone, ran, worked, reports>>

----------------------------------------------------------------------------
(* The agent: runPTZCommands, and completePTZCommand in the cloud          *)

(* The request fails on the agent's side; its handler may go on running.   *)
BreakPoll(s) ==
  /\ agent[s] = "polling"
  /\ NoCommand(s)
  /\ UNCHANGED <<brokerVars, clientVars, pollVars, job, ran, worked, reports>>

(* The camera executes the command or refuses it; the result is sent.      *)
Execute(s) ==
  /\ agent[s] = "executing"
  /\ \E success \in BOOLEAN :
       /\ ran'     = [ran EXCEPT ![job[s]] = @ + 1]
       /\ worked'  = [worked EXCEPT ![job[s]] = success]
       /\ reports' = reports \cup {[site |-> s, id |-> job[s], success |-> success]}
  /\ agent' = [agent EXCEPT ![s] = "reporting"]
  /\ UNCHANGED <<brokerVars, clientVars, pollVars, poll, job>>

(* resolve accepts a report for a command that is pending at its own site. *)
AcceptsAnySite(r) == r.id \in pending   \* mutant: the entry's siteID is not compared

Accepts(r) == r.id \in pending /\ SiteOf[r.id] = r.site

(* resolve deletes the entry and sends. The send would block, with the     *)
(* mutex held, if the channel were full.                                   *)
FillKeepingEntry(c, answer) ==   \* mutant: the entry is left to abandon
  /\ result[c] = "empty"
  /\ result' = [result EXCEPT ![c] = answer]
  /\ UNCHANGED pending

Fill(c, answer) ==
  /\ result[c] = "empty"
  /\ pending' = pending \ {c}
  /\ result'  = [result EXCEPT ![c] = answer]

(* completePTZCommand: resolve, under the mutex.                           *)
Resolve(r) ==
  /\ IF Accepts(r) THEN Fill(r.id, IF r.success THEN "ok" ELSE "failed")
                   ELSE UNCHANGED <<pending, result>>
  /\ UNCHANGED <<queues, notices, clientVars, pollVars, agentVars>>

ReportArrives(r) ==
  /\ r \in reports
  /\ reports' = reports \ {r}
  /\ Resolve(r)

(* The report is lost on its way.                                          *)
LoseReport(r) ==
  /\ r \in reports
  /\ reports' = reports \ {r}
  /\ UNCHANGED <<brokerVars, clientVars, pollVars, agentVars>>

(* completePTZCommand takes the command's ID from the path: an agent of    *)
(* another site may name it (TestPTZBrokerRejectsResultFromAnotherSite),   *)
(* at any moment.                                                          *)
StrayReport(s, c) ==
  /\ SiteOf[c] # s
  /\ c \in pending
  /\ Resolve([site |-> s, id |-> c, success |-> TRUE])
  /\ UNCHANGED reports

(* CompletePTZCommand returns: 204, 404, an error or the client's timeout; *)
(* the loop goes on in every case, and the result is not sent again.       *)
ReportReturns(s) ==
  /\ agent[s] = "reporting"
  /\ agent' = [agent EXCEPT ![s] = "idle"]
  /\ job'   = [job EXCEPT ![s] = None]
  /\ UNCHANGED <<brokerVars, clientVars, pollVars, poll, ran, worked, reports>>

----------------------------------------------------------------------------
(* Restarts. Nothing of the channel is persisted.                          *)

AgentRestart(s) ==
  /\ agent[s] # "idle"
  /\ agent' = [agent EXCEPT ![s] = "idle"]
  /\ poll'  = [poll EXCEPT ![s] = None]
  /\ job'   = [job EXCEPT ![s] = None]
  /\ UNCHANGED <<brokerVars, clientVars, pollVars, ran, worked, reports>>

(* The broker is created empty, every handler and every connection is gone.*)
CloudRestart ==
  /\ queues'   = [s \in Site |-> <<>>]
  /\ notices'  = [s \in Site |-> FALSE]
  /\ pending'  = {}
  /\ result'   = [c \in Command |-> "empty"]
  /\ client'   = [c \in Command |-> IF client[c] = "waiting" THEN "unsure" ELSE client[c]]
  /\ deferred' = {}
  /\ pc'       = [p \in Poller |-> "free"]
  /\ ctxDone'  = [p \in Poller |-> FALSE]
  /\ carried'  = [p \in Poller |-> None]
  /\ agent'    = [s \in Site |-> IF agent[s] = "polling" THEN "idle" ELSE agent[s]]
  /\ poll'     = [s \in Site |-> None]
  /\ UNCHANGED <<job, ran, worked, reports>>

----------------------------------------------------------------------------
RequesterStep(c) == Enqueue(c) \/ ReceiveResult(c) \/ GiveUp(c) \/ Abandon(c)

HandlerStep(p) == Pop(p) \/ FindEmpty(p) \/ TakeNotice(p) \/ Park(p)
                  \/ EndPoll(p) \/ Deliver(p)

AgentStep(s) == (\E p \in Poller : Poll(s, p)) \/ Execute(s) \/ ReportReturns(s)

Next ==
  \/ \E c \in Command : RequesterStep(c)
  \/ \E p \in Poller  : HandlerStep(p) \/ ContextDone(p)
  \/ \E s \in Site    : AgentStep(s) \/ BreakPoll(s) \/ AgentRestart(s)
                         \/ \E c \in Command : StrayReport(s, c)
  \/ \E r \in reports : ReportArrives(r) \/ LoseReport(r)
  \/ CloudRestart

Spec == Init /\ [][Next]_vars

(* Goroutines that can run do run, timers fire, a broken connection is     *)
(* noticed, the agent's loop goes on. Nothing makes a requester come, a    *)
(* report arrive or a connection break.                                    *)
Fairness ==
  /\ \A c \in Command : WF_vars(ReceiveResult(c) \/ GiveUp(c)) /\ WF_vars(Abandon(c))
  /\ \A p \in Poller  : WF_vars(HandlerStep(p)) /\ WF_vars(ContextDone(p))
  /\ \A s \in Site    : WF_vars(AgentStep(s))

FairSpec == Spec /\ Fairness

----------------------------------------------------------------------------
(* Properties                                                              *)

Elems(q) == {q[i] : i \in 1..Len(q)}

(* resolve and enqueue send on a command's result channel while they hold  *)
(* the broker's mutex (ptz_broker.go:36,58): were the one slot taken, the  *)
(* send would block and with it every PTZ request of every site. An entry  *)
(* of b.pending therefore always has an empty channel.                     *)
SendsNeverBlock == \A c \in pending : result[c] = "empty"

(* A camera is moved at most once for a request, whatever connections,     *)
(* agents and clouds break on the way.                                     *)
AtMostOnce == \A c \in Command : ran[c] <= 1

(* A requester that is told "PTZ queue is full" has a command that was not *)
(* executed and never will be. One told it was executed has a command for  *)
(* which the agent called the camera once and had a success back; one told *)
(* an error has a command whose one call failed, which does not say that   *)
(* the camera did not move: its answer may be what was lost.               *)
HonestAnswer == \A c \in Command :
  /\ client[c] = "full" => /\ ran[c] = 0
                           /\ \A s \in Site : c \notin Elems(queues[s]) /\ job[s] # c
                           /\ \A p \in Poller : carried[p] # c
  /\ client[c] = "executed" => ran[c] = 1 /\ worked[c]
  /\ client[c] = "failed"   => ran[c] = 1 /\ ~worked[c]

(* A command and its credentials only ever reach the agent of its site,    *)
(* and its queue never outgrows the limit.                                 *)
QueuesInBounds == \A s \in Site :
  /\ Len(queues[s]) <= QueueCap
  /\ \A c \in Elems(queues[s]) \cup ({job[s]} \ {None}) : SiteOf[c] = s

(* Commands of a site wait, a poll of it is about to sleep or sleeps, there *)
(* is no token for it, and no other poll is on its way to the queue.       *)
Unheard(s) ==
  LET polls == {p \in Poller : PollSite[p] = s}
  IN /\ queues[s] # <<>>
     /\ ~notices[s]
     /\ \E p \in polls : pc[p] \in {"select", "parked"}
     /\ \A p \in polls : pc[p] # "lock"

(* An enqueue never goes unheard, wherever the polls of its site are       *)
(* between the unlock, the select and their end (ptz_broker.go:43-46,      *)
(* 78-83): a poll comes to wait beside commands with no wake-up on its way *)
(* only because another poll, which had the wake-up, took a command first. *)
NoMissedWakeup ==
  [][\A s \in Site : ~Unheard(s) /\ Unheard(s)' =>
       \E p \in Poller : PollSite[p] = s /\ pc[p] = "lock" /\ pc'[p] = "deliver"]_vars

(* An entry of b.pending is always somebody's: its requester is still      *)
(* there to abandon it, so the map cannot grow with forgotten commands.    *)
PendingIsOwned == pending \subseteq deferred

(* A queued command leaves the queue, also when the notice meant for its   *)
(* poll was taken by a poll whose agent is gone: a sleeping poll ends      *)
(* after its 20 s and the agent's next one looks at the queue first.       *)
QueueDrains == \A c \in Command :
  c \in Elems(queues[SiteOf[c]]) ~> c \notin Elems(queues[SiteOf[c]])

(* Every requester is answered, or its connection is gone, and its entry   *)
(* is removed from b.pending.                                              *)
RequestsEnd == \A c \in Command :
  client[c] = "waiting" ~> client[c] # "waiting" /\ c \notin pending

----------------------------------------------------------------------------
(* The broker implements a mailbox of jobs.                                *)

Queued(c) == c \in Elems(queues[SiteOf[c]])

Held(c) == \/ ran[c] > 0
           \/ \E p \in Poller : carried[p] = c
           \/ \E s \in Site : job[s] = c

Where(c) == IF client[c] = "new" THEN "new"
            ELSE IF Queued(c) THEN "offered"
            ELSE IF Held(c) THEN "taken" ELSE "dropped"

Outcome(c) == IF ran[c] = 0 THEN "none" ELSE IF worked[c] THEN "ok" ELSE "failed"

Told(c) == IF client[c] \in {"new", "waiting"} THEN "none" ELSE client[c]

Box == INSTANCE Mailbox WITH
  Job     <- Command,
  place   <- [c \in Command |-> Where(c)],
  outcome <- [c \in Command |-> Outcome(c)],
  answer  <- [c \in Command |-> Told(c)]

(* The broker, its handlers, its agents and their failures do nothing that *)
(* a mailbox does not: a job is taken and performed at most once, and no   *)
(* answer says more than what happened.                                    *)
IsMailbox == Box!Spec
==============================================================================
