---------------------------- MODULE WebRtcBroker ----------------------------
(***************************************************************************)
(* The reverse tunnel for WHEP signalling: webRTCBroker                    *)
(* (internal/cloud/webrtc_broker.go), its handlers (media_handlers.go,     *)
(* webrtc_handlers.go) and the agent's loops runWebRTCRequests.            *)
(*                                                                         *)
(* An exchange is one browser request: its ID is fresh, so an exchange and *)
(* its requester are one value. An agent runs several workers, each a loop *)
(* that polls, proxies to the local media server and posts the response.   *)
(* A worker's poll runs in the handler of the same name; when the poll     *)
(* breaks the handler runs on, and (bound) the worker polls again once it  *)
(* has ended.                                                              *)
(***************************************************************************)
EXTENDS Naturals, Sequences, FiniteSetsExt

CONSTANTS Site, Exchange, Worker,
          SiteOf,      \* the site of the camera an exchange is for
          WorkSite,    \* the site whose agent a worker belongs to
          View,        \* the exchanges for a page: GET of the view
          None

ASSUME SiteOfAssumption   == SiteOf \in [Exchange -> Site]
ASSUME WorkSiteAssumption == WorkSite \in [Worker -> Site]
ASSUME ViewAssumption     == View \subseteq Exchange
ASSUME NoneAssumption     == None \notin Exchange

VARIABLES
  queues,    \* b.queues: exchanges waiting for the agent of a site
  notices,   \* b.notices: TRUE when the one-slot channel holds a token
  pending,   \* keys of b.pending
  result,    \* TRUE when an exchange's one-slot result channel holds a response
  client,    \* the requester: new; waiting; expired when its 15 s (or its
             \* connection) are over; stale when 30 s are; answered; fallback
  pc,        \* where a worker's handler is in next
  ctxDone,   \* that handler's context is done
  carried,   \* the exchange that handler is about to write
  loop,      \* where a worker's loop is
  job,       \* the exchange a worker proxies or answers
  responses, \* responses on their way to completeWebRTCRequest: the site whose
             \* agent posts one, and the exchange it names
  claims,    \* exchanges that resolve removed and has not sent yet
  proxied    \* how often the local media server was asked (history)

brokerVars == <<queues, notices, pending, result>>
pollVars   == <<pc, ctxDone, carried>>
agentVars  == <<loop, job, proxied>>
vars == <<brokerVars, client, pollVars, agentVars, responses, claims>>

TypeOK ==
  /\ queues    \in [Site -> Seq(Exchange)]
  /\ notices   \in [Site -> BOOLEAN]
  /\ pending   \in SUBSET Exchange
  /\ result    \in [Exchange -> BOOLEAN]
  /\ client    \in [Exchange -> {"new", "waiting", "expired", "stale",
                                 "answered", "fallback"}]
  /\ pc        \in [Worker -> {"free", "lock", "select", "parked", "deliver"}]
  /\ ctxDone   \in [Worker -> BOOLEAN]
  /\ carried   \in [Worker -> Exchange \cup {None}]
  /\ loop      \in [Worker -> {"idle", "polling", "proxying", "responding"}]
  /\ job       \in [Worker -> Exchange \cup {None}]
  /\ responses \in SUBSET [site : Site, id : Exchange]
  /\ claims    \in SUBSET Exchange
  /\ proxied   \in [Exchange -> Nat]

Init ==
  /\ queues    = [s \in Site |-> <<>>]
  /\ notices   = [s \in Site |-> FALSE]
  /\ pending   = {}
  /\ result    = [e \in Exchange |-> FALSE]
  /\ client    = [e \in Exchange |-> "new"]
  /\ pc        = [w \in Worker |-> "free"]
  /\ ctxDone   = [w \in Worker |-> FALSE]
  /\ carried   = [w \in Worker |-> None]
  /\ loop      = [w \in Worker |-> "idle"]
  /\ job       = [w \in Worker |-> None]
  /\ responses = {}
  /\ claims    = {}
  /\ proxied   = [e \in Exchange |-> 0]

Waits(e)  == client[e] \in {"waiting", "expired", "stale"}
Parked(s) == {w \in Worker : WorkSite[w] = s /\ pc[w] = "parked"}

(* cleanupLocked: what is left of b.pending.                               *)
Clean == {e \in pending : client[e] # "stale"}

----------------------------------------------------------------------------
(* The requester: agentWebRTC and exchange                                 *)

(* A parked handler takes the token at once, an empty slot keeps it, a     *)
(* full slot drops it.                                                     *)
Notify(s) ==
  IF Parked(s) # {}
    THEN \E w \in Parked(s) : /\ pc' = [pc EXCEPT ![w] = "lock"]
                              /\ UNCHANGED notices
    ELSE /\ notices' = [notices EXCEPT ![s] = TRUE]
         /\ UNCHANGED pc

StartExchange(e) ==
  /\ client[e] = "new"
  /\ client'  = [client EXCEPT ![e] = "waiting"]
  /\ pending' = Clean \cup {e}
  /\ queues'  = [queues EXCEPT ![SiteOf[e]] = Append(@, e)]
  /\ Notify(SiteOf[e])
  /\ UNCHANGED <<result, ctxDone, carried, agentVars, responses, claims>>

(* The requester's clocks: 15 s of its context first, 30 s of              *)
(* webRTCRequestTTL later, if it is still not scheduled.                   *)
Age(e) ==
  /\ client[e] \in {"waiting", "expired"}
  /\ client' = [client EXCEPT ![e] = IF @ = "waiting" THEN "expired" ELSE "stale"]
  /\ UNCHANGED <<brokerVars, pollVars, agentVars, responses, claims>>

(* What agentWebRTC makes of a response: the browser has it as its answer, *)
(* but a page whose response is an error is sent to the cloud's own WebRTC.*)
AnswersFor(e) == {"answered"} \cup (IF e \in View THEN {"fallback"} ELSE {})

(* exchange's select takes the response.                                   *)
ReceiveResponse(e) ==
  /\ Waits(e)
  /\ result[e]
  /\ \E answer \in AnswersFor(e) : client' = [client EXCEPT ![e] = answer]
  /\ result' = [result EXCEPT ![e] = FALSE]
  /\ UNCHANGED <<queues, notices, pending, pollVars, agentVars, responses, claims>>

(* exchange's select takes ctx.Done: the entry is deleted, the browser is  *)
(* sent to the cloud's own WebRTC.                                         *)
FallBackKeepingEntry(e) ==   \* mutant: the entry is left to a response
  /\ client[e] \in {"expired", "stale"}
  /\ client' = [client EXCEPT ![e] = "fallback"]
  /\ UNCHANGED <<brokerVars, pollVars, agentVars, responses, claims>>

FallBack(e) ==
  /\ client[e] \in {"expired", "stale"}
  /\ client'  = [client EXCEPT ![e] = "fallback"]
  /\ pending' = pending \ {e}
  /\ UNCHANGED <<queues, notices, result, pollVars, agentVars, responses, claims>>

----------------------------------------------------------------------------
(* A poll: nextWebRTCRequest and next                                      *)

Poll(w) ==
  /\ loop[w] = "idle"
  /\ pc[w] = "free"
  /\ loop' = [loop EXCEPT ![w] = "polling"]
  /\ pc'   = [pc EXCEPT ![w] = "lock"]
  /\ UNCHANGED <<brokerVars, client, ctxDone, carried, job, proxied, responses, claims>>

(* Positions of a queue whose exchange somebody still waits for.           *)
Queued(q) == 1..Len(q)   \* mutant: next does not ask b.pending

Live(q) == {i \in 1..Len(q) : q[i] \in Clean}

(* What is left of a queue from which the exchange at i was taken.         *)
RestWithTaken(q, i) == SubSeq(q, i, Len(q))   \* mutant: off by one

Rest(q, i) == SubSeq(q, i + 1, Len(q))

PopLeavingOld(w) ==   \* mutant: the queue is only written when an exchange is taken
  LET s == WorkSite[w]
      q == queues[s]
      i == Min(Live(q))
  IN /\ pc[w] = "lock"
     /\ pending' = Clean
     /\ IF Live(q) # {}
          THEN /\ queues'  = [queues EXCEPT ![s] = Rest(q, i)]
               /\ carried' = [carried EXCEPT ![w] = q[i]]
               /\ pc'      = [pc EXCEPT ![w] = "deliver"]
               /\ ctxDone' = [ctxDone EXCEPT ![w] = FALSE]
          ELSE /\ pc' = [pc EXCEPT ![w] = "select"]
               /\ UNCHANGED <<queues, carried, ctxDone>>
     /\ UNCHANGED <<notices, result, client, agentVars, responses, claims>>

(* next under the mutex: it drops what nobody waits for any more, and      *)
(* takes the first exchange that is left.                                  *)
Pop(w) ==
  LET s == WorkSite[w]
      q == queues[s]
  IN /\ pc[w] = "lock"
     /\ pending' = Clean
     /\ IF Live(q) # {}
          THEN LET i == Min(Live(q))
               IN /\ queues'  = [queues EXCEPT ![s] = Rest(q, i)]
                  /\ carried' = [carried EXCEPT ![w] = q[i]]
                  /\ pc'      = [pc EXCEPT ![w] = "deliver"]
                  /\ ctxDone' = [ctxDone EXCEPT ![w] = FALSE]
          ELSE /\ queues' = [queues EXCEPT ![s] = <<>>]
               /\ pc'     = [pc EXCEPT ![w] = "select"]
               /\ UNCHANGED <<carried, ctxDone>>
     /\ UNCHANGED <<notices, result, client, agentVars, responses, claims>>

TakeNotice(w) ==
  /\ pc[w] = "select"
  /\ notices[WorkSite[w]]
  /\ notices' = [notices EXCEPT ![WorkSite[w]] = FALSE]
  /\ pc'      = [pc EXCEPT ![w] = "lock"]
  /\ UNCHANGED <<queues, pending, result, client, ctxDone, carried, agentVars, responses, claims>>

Park(w) ==
  /\ pc[w] = "select"
  /\ ~notices[WorkSite[w]]
  /\ ~ctxDone[w]
  /\ pc' = [pc EXCEPT ![w] = "parked"]
  /\ UNCHANGED <<brokerVars, client, ctxDone, carried, agentVars, responses, claims>>

(* The poll's 20 s pass, or the server notices that the connection broke.  *)
ContextDone(w) ==
  /\ pc[w] \in {"lock", "select", "parked"}
  /\ ~ctxDone[w]
  /\ ctxDone' = [ctxDone EXCEPT ![w] = TRUE]
  /\ UNCHANGED <<brokerVars, client, pc, carried, agentVars, responses, claims>>

EndPoll(w) ==
  /\ pc[w] \in {"select", "parked"}
  /\ ctxDone[w]
  /\ pc'      = [pc EXCEPT ![w] = "free"]
  /\ ctxDone' = [ctxDone EXCEPT ![w] = FALSE]
  /\ loop'    = [loop EXCEPT ![w] = "idle"]
  /\ UNCHANGED <<brokerVars, client, carried, job, proxied, responses, claims>>

(* The exchange reaches the worker if its poll is not broken.              *)
Deliver(w) ==
  /\ pc[w] = "deliver"
  /\ pc'      = [pc EXCEPT ![w] = "free"]
  /\ carried' = [carried EXCEPT ![w] = None]
  /\ IF loop[w] = "polling"
       THEN /\ loop' = [loop EXCEPT ![w] = "proxying"]
            /\ job'  = [job EXCEPT ![w] = carried[w]]
       ELSE UNCHANGED <<loop, job>>
  /\ UNCHANGED <<brokerVars, client, ctxDone, proxied, responses, claims>>

----------------------------------------------------------------------------
(* A worker: runWebRTCRequests and completeWebRTCRequest                   *)

BreakPoll(w) ==
  /\ loop[w] = "polling"
  /\ loop' = [loop EXCEPT ![w] = "idle"]
  /\ UNCHANGED <<brokerVars, client, pollVars, job, proxied, responses, claims>>

(* proxyLocalWebRTC gives a response in every case, an error one too.      *)
Proxy(w) ==
  /\ loop[w] = "proxying"
  /\ proxied'   = [proxied EXCEPT ![job[w]] = @ + 1]
  /\ responses' = responses \cup {[site |-> WorkSite[w], id |-> job[w]]}
  /\ loop'      = [loop EXCEPT ![w] = "responding"]
  /\ UNCHANGED <<brokerVars, client, pollVars, job, claims>>

(* CompleteWebRTCRequest returns, whatever became of the response.         *)
PostReturns(w) ==
  /\ loop[w] = "responding"
  /\ loop' = [loop EXCEPT ![w] = "idle"]
  /\ job'  = [job EXCEPT ![w] = None]
  /\ UNCHANGED <<brokerVars, client, pollVars, proxied, responses, claims>>

(* The response is lost on its way to the cloud.                           *)
LoseResponse(r) ==
  /\ responses' = responses \ {r}
  /\ UNCHANGED <<brokerVars, client, pollVars, agentVars, claims>>

(* The entry resolve removes for a response, if there is one.              *)
AcceptedOfAnySite(r) == {e \in pending : e = r.id}   \* mutant: no check of the site

Accepted(r) == {e \in pending : e = r.id /\ SiteOf[e] = r.site}

(* resolve, first half: under the mutex.                                   *)
ClaimKeepingEntry(r) ==   \* mutant: the entry is left to exchange
  /\ claims' = claims \cup Accepted(r)
  /\ UNCHANGED <<brokerVars, client, pollVars, agentVars>>

Claim(r) ==
  /\ pending' = pending \ Accepted(r)
  /\ claims'  = claims \cup Accepted(r)
  /\ UNCHANGED <<queues, notices, result, client, pollVars, agentVars>>

ResponseArrives(r) ==
  /\ responses' = responses \ {r}
  /\ Claim(r)

(* completeWebRTCRequest takes the exchange's ID from the path: an agent   *)
(* of another site may name it, at any moment.                             *)
StrayResponse(s, e) ==
  /\ SiteOf[e] # s
  /\ e \in pending
  /\ Claim([site |-> s, id |-> e])
  /\ UNCHANGED responses

(* resolve, second half: the send after the unlock, with a default case.   *)
Send(e) ==
  /\ e \in claims
  /\ claims' = claims \ {e}
  /\ result' = [result EXCEPT ![e] = TRUE]
  /\ UNCHANGED <<queues, notices, pending, client, pollVars, agentVars, responses>>

----------------------------------------------------------------------------
WorkerRestart(w) ==
  /\ loop[w] # "idle"
  /\ loop' = [loop EXCEPT ![w] = "idle"]
  /\ job'  = [job EXCEPT ![w] = None]
  /\ UNCHANGED <<brokerVars, client, pollVars, proxied, responses, claims>>

CloudRestart ==
  /\ queues'  = [s \in Site |-> <<>>]
  /\ notices' = [s \in Site |-> FALSE]
  /\ pending' = {}
  /\ claims'  = {}
  /\ result'  = [e \in Exchange |-> FALSE]
  /\ client'  = [e \in Exchange |-> IF Waits(e) THEN "fallback" ELSE client[e]]
  /\ pc'      = [w \in Worker |-> "free"]
  /\ ctxDone' = [w \in Worker |-> FALSE]
  /\ carried' = [w \in Worker |-> None]
  /\ loop'    = [w \in Worker |-> IF loop[w] = "polling" THEN "idle" ELSE loop[w]]
  /\ UNCHANGED <<job, proxied, responses>>

HandlerStep(w) == Pop(w) \/ TakeNotice(w) \/ Park(w) \/ EndPoll(w) \/ Deliver(w)

WorkerStep(w) == Poll(w) \/ Proxy(w) \/ PostReturns(w)

Next ==
  \/ \E e \in Exchange : \/ StartExchange(e) \/ Age(e) \/ ReceiveResponse(e)
                         \/ FallBack(e) \/ Send(e)
                         \/ \E s \in Site : StrayResponse(s, e)
  \/ \E r \in responses : ResponseArrives(r) \/ LoseResponse(r)
  \/ \E w \in Worker   : \/ HandlerStep(w) \/ ContextDone(w) \/ WorkerStep(w)
                         \/ BreakPoll(w) \/ WorkerRestart(w)
  \/ CloudRestart

Spec == Init /\ [][Next]_vars

(* Goroutines run, timers fire, the workers' loops go on.                  *)
Fairness ==
  /\ \A e \in Exchange : WF_vars(Age(e)) /\ WF_vars(ReceiveResponse(e) \/ FallBack(e))
  /\ \A w \in Worker   : /\ WF_vars(HandlerStep(w)) /\ WF_vars(ContextDone(w))
                         /\ WF_vars(WorkerStep(w))

FairSpec == Spec /\ Fairness

----------------------------------------------------------------------------
(* Properties                                                              *)

Elems(q) == {q[i] : i \in 1..Len(q)}

(* A response that resolve accepted always fits in the requester's         *)
(* channel, although it is sent after the unlock (webrtc_broker.go:92-98): *)
(* the agent is never told "expired or not found" for an exchange whose    *)
(* entry its own response has removed.                                     *)
ClaimedResponseFits == \A e \in claims : ~result[e] /\ e \notin pending

(* A browser is never answered before the local media server was asked for *)
(* it, and the server is asked once, however workers, polls and clouds     *)
(* overlap and whatever agents of other sites post (webrtc_broker.go:87).  *)
AnswersAreReal == \A e \in Exchange :
  /\ proxied[e] <= 1
  /\ client[e] = "answered" => proxied[e] = 1

(* A browser that was sent to the fallback never occupies a worker         *)
(* afterwards: next skips its exchange (webrtc_broker.go:64-73).           *)
NoWorkForTheGone ==
  [][\A w \in Worker : carried'[w] \notin {None, carried[w]}
                         => client[carried'[w]] # "fallback"]_vars

(* Every browser request ends, with an answer or with the fallback, and    *)
(* its entry leaves b.pending.                                             *)
ExchangesEnd == \A e \in Exchange : Waits(e) ~> ~Waits(e) /\ e \notin pending

(* Nothing stays in a queue for ever while the workers run, although their *)
(* polls may sleep past it until their 20 s are over.                      *)
QueueDrains == \A e \in Exchange :
  e \in Elems(queues[SiteOf[e]]) ~> e \notin Elems(queues[SiteOf[e]])

----------------------------------------------------------------------------
(* The tunnel implements a mailbox of jobs.                                *)

InQueue(e) == e \in Elems(queues[SiteOf[e]])

Held(e) == \/ proxied[e] > 0
           \/ \E w \in Worker : carried[w] = e \/ job[w] = e

Where(e) == IF client[e] = "new" THEN "new"
            ELSE IF InQueue(e) THEN "offered"
            ELSE IF Held(e) THEN "taken" ELSE "dropped"

Outcome(e) == IF proxied[e] = 0 THEN "none" ELSE "ok"

Told(e) == CASE client[e] = "answered" -> "executed"
             [] client[e] = "fallback" -> "unsure"
             [] OTHER -> "none"

Box == INSTANCE Mailbox WITH
  Job     <- Exchange,
  place   <- [e \in Exchange |-> Where(e)],
  outcome <- [e \in Exchange |-> Outcome(e)],
  answer  <- [e \in Exchange |-> Told(e)]

(* Each exchange is offered, taken, performed and answered at most once,   *)
(* and only an exchange that was performed is answered.                    *)
IsMailbox == Box!Spec
==============================================================================
