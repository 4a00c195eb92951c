------------------------- MODULE WebRtcBroker_proofs -------------------------
(***************************************************************************)
(* Proofs about WebRtcBroker, for any sites, exchanges and workers.        *)
(***************************************************************************)
EXTENDS WebRtcBroker, TLAPS, SequenceTheorems, NaturalsInduction, WellFoundedInduction

USE SiteOfAssumption, WorkSiteAssumption, ViewAssumption, NoneAssumption

----------------------------------------------------------------------------
(* Queues                                                                  *)

NoDup(q) == \A i, j \in 1..Len(q) : q[i] = q[j] => i = j

LEMMA MinFacts ==
  ASSUME NEW S, S \subseteq Nat, S # {}
  PROVE  Min(S) \in S
<1>1. PICK x \in S : \A y \in S : ~(<<y, x>> \in OpToRel(<, Nat))
  BY NatLessThanWellFounded, WFMin, Zenon
<1>2. \A y \in S : ~(y < x)
  BY <1>1 DEF OpToRel
<1>3. \A y \in S : x <= y
  BY <1>2
<1> QED BY <1>3 DEF Min

(* Append puts one exchange at the end (webrtc_broker.go:41).              *)
LEMMA AppendFacts ==
  ASSUME NEW q \in Seq(Exchange), NEW e \in Exchange
  PROVE  /\ Append(q, e) \in Seq(Exchange)
         /\ Elems(Append(q, e)) = Elems(q) \cup {e}
         /\ NoDup(q) /\ e \notin Elems(q) => NoDup(Append(q, e))
<1> DEFINE r == Append(q, e)
<1>1. /\ Len(q) \in Nat
      /\ r \in Seq(Exchange)
      /\ Len(r) = Len(q) + 1
      /\ \A i \in 1..Len(q) : r[i] = q[i]
      /\ r[Len(q) + 1] = e
  OBVIOUS
<1> HIDE DEF r
<1>2. \A i \in 1..Len(r) : i \in 1..Len(q) \/ i = Len(q) + 1
  BY <1>1
<1>3. (\A i \in 1..Len(q) : i \in 1..Len(r)) /\ Len(q) + 1 \in 1..Len(r)
  BY <1>1
<1>4. Elems(r) = Elems(q) \cup {e}
  BY <1>1, <1>2, <1>3 DEF Elems
<1>5. ASSUME NoDup(q), e \notin Elems(q) PROVE NoDup(r)
  <2>1. \A i \in 1..Len(q) : q[i] # e
    BY <1>5 DEF Elems
  <2> QED BY <2>1, <1>5, <1>1, <1>2 DEF NoDup
<1> QED BY <1>1, <1>4, <1>5 DEF r

(* What next leaves of a queue it takes the exchange at i from             *)
(* (webrtc_broker.go:68-73).                                               *)
LEMMA RestFacts ==
  ASSUME NEW q \in Seq(Exchange), NEW i \in 1..Len(q)
  PROVE  /\ q[i] \in Exchange /\ q[i] \in Elems(q)
         /\ Rest(q, i) \in Seq(Exchange)
         /\ Elems(Rest(q, i)) \subseteq Elems(q)
         /\ NoDup(q) => NoDup(Rest(q, i)) /\ q[i] \notin Elems(Rest(q, i))
<1> DEFINE r == Rest(q, i)
<1>1. Len(q) \in Nat /\ \A k \in 1..Len(q) : q[k] \in Exchange
  OBVIOUS
<1>2. \A k \in (i + 1)..Len(q) : q[k] \in Exchange
  BY <1>1
<1>3. /\ r \in Seq(Exchange)
      /\ Len(r) = IF i + 1 <= Len(q) THEN Len(q) - (i + 1) + 1 ELSE 0
      /\ \A k \in 1..(Len(q) - (i + 1) + 1) : r[k] = q[i + 1 + k - 1]
  <2>1. i + 1 \in Int /\ Len(q) \in Int
    BY <1>1
  <2> QED BY <1>2, <2>1, SubSeqProperties DEF Rest
<1> HIDE DEF r
<1>4. \A k \in 1..Len(r) : k + i \in 1..Len(q) /\ r[k] = q[k + i] /\ k + i # i
  BY <1>1, <1>3
<1>5. Elems(r) \subseteq Elems(q)
  BY <1>4 DEF Elems
<1>6. ASSUME NoDup(q) PROVE NoDup(r) /\ q[i] \notin Elems(r)
  <2>1. ASSUME NEW k \in 1..Len(r), NEW l \in 1..Len(r), r[k] = r[l] PROVE k = l
    <3>1. k + i = l + i
      BY <1>4, <1>6, <2>1 DEF NoDup
    <3> QED BY <3>1, <1>3
  <2>2. ASSUME NEW k \in 1..Len(r), r[k] = q[i] PROVE FALSE
    BY <1>4, <1>6, <2>2 DEF NoDup
  <2> QED BY <2>1, <2>2 DEF NoDup, Elems
<1> QED BY <1>1, <1>3, <1>5, <1>6 DEF r, Elems

----------------------------------------------------------------------------
(* Types                                                                   *)

(* A handler about to write, and a worker that proxies, have an exchange.  *)
TypeInv ==
  /\ TypeOK
  /\ \A w \in Worker : /\ pc[w] = "deliver"    => carried[w] \in Exchange
                       /\ loop[w] = "proxying" => job[w] \in Exchange

(* What Pop does, with the position it takes from as a parameter.          *)
PopNothing(w) ==
  /\ queues' = [queues EXCEPT ![WorkSite[w]] = <<>>]
  /\ pc'     = [pc EXCEPT ![w] = "select"]
  /\ UNCHANGED <<carried, ctxDone>>

PopAt(w, i) ==
  /\ queues[WorkSite[w]][i] \in Clean
  /\ queues'  = [queues EXCEPT ![WorkSite[w]] = Rest(@, i)]
  /\ carried' = [carried EXCEPT ![w] = queues[WorkSite[w]][i]]
  /\ pc'      = [pc EXCEPT ![w] = "deliver"]
  /\ ctxDone' = [ctxDone EXCEPT ![w] = FALSE]

LEMMA PopFacts ==
  ASSUME TypeInv, NEW w \in Worker, Pop(w)
  PROVE  /\ pending' = Clean
         /\ UNCHANGED <<notices, result, client, agentVars, responses, claims>>
         /\ PopNothing(w) \/ \E i \in 1..Len(queues[WorkSite[w]]) : PopAt(w, i)
<1> DEFINE q == queues[WorkSite[w]]
           i == Min(Live(q))
<1>1. q \in Seq(Exchange) /\ Len(q) \in Nat
  BY DEF TypeInv, TypeOK
<1>2. Live(q) \subseteq Nat /\ Live(q) \subseteq 1..Len(q)
  BY <1>1 DEF Live
<1>3. CASE Live(q) # {}
  <2>1. i \in Live(q)
    BY <1>2, <1>3, MinFacts
  <2>2. i \in 1..Len(q) /\ q[i] \in Clean
    BY <2>1, <1>2 DEF Live
  <2>3. PopAt(w, i)
    BY <1>3, <2>2 DEF Pop, PopAt
  <2> HIDE DEF i
  <2> QED BY <2>2, <2>3 DEF Pop
<1>4. CASE Live(q) = {}
  BY <1>4 DEF Pop, PopNothing
<1> QED BY <1>3, <1>4

LEMMA TypeInit == Init => TypeInv
<1> QED BY DEF Init, TypeInv, TypeOK

LEMMA TypeStep == TypeInv /\ [Next]_vars => TypeInv'
<1> SUFFICES ASSUME TypeInv, [Next]_vars PROVE TypeInv'
  OBVIOUS
<1> USE DEF TypeInv, TypeOK, brokerVars, pollVars, agentVars
<1>1. ASSUME NEW e \in Exchange, StartExchange(e) PROVE TypeInv'
  <2>1. Append(queues[SiteOf[e]], e) \in Seq(Exchange)
    BY AppendFacts
  <2>2. queues' \in [Site -> Seq(Exchange)]
    BY <1>1, <2>1 DEF StartExchange
  <2>3. /\ pc' \in [Worker -> {"free", "lock", "select", "parked", "deliver"}]
        /\ notices' \in [Site -> BOOLEAN]
        /\ \A w \in Worker : pc'[w] = "deliver" => pc[w] = "deliver"
    <3>1. CASE Parked(SiteOf[e]) # {}
      BY <1>1, <3>1 DEF StartExchange, Notify, Parked
    <3>2. CASE Parked(SiteOf[e]) = {}
      BY <1>1, <3>2 DEF StartExchange, Notify
    <3> QED BY <3>1, <3>2
  <2>4. pending' \in SUBSET Exchange
    BY <1>1 DEF StartExchange, Clean
  <2>5. client' \in [Exchange -> {"new", "waiting", "expired", "stale", "answered", "fallback"}]
    BY <1>1 DEF StartExchange
  <2> QED BY <1>1, <2>2, <2>3, <2>4, <2>5 DEF StartExchange
<1>2. ASSUME NEW e \in Exchange, Age(e) \/ ReceiveResponse(e) \/ FallBack(e) PROVE TypeInv'
  <2>1. CASE ReceiveResponse(e)
    <3>1. PICK answer \in {"answered", "fallback"} : client' = [client EXCEPT ![e] = answer]
      BY <2>1 DEF ReceiveResponse, AnswersFor
    <3> QED BY <2>1, <3>1 DEF ReceiveResponse
  <2>2. CASE Age(e) \/ FallBack(e)
    BY <2>2 DEF Age, FallBack
  <2> QED BY <1>2, <2>1, <2>2
<1>3. ASSUME NEW e \in Exchange, Send(e) \/ \E s \in Site : StrayResponse(s, e) PROVE TypeInv'
  <2>1. CASE Send(e)
    BY <2>1 DEF Send
  <2>2. ASSUME NEW s \in Site, StrayResponse(s, e) PROVE TypeInv'
    BY <2>2 DEF StrayResponse, Claim, Accepted
  <2> QED BY <1>3, <2>1, <2>2
<1>10. ASSUME NEW r \in responses, ResponseArrives(r) \/ LoseResponse(r) PROVE TypeInv'
  <2>1. Accepted(r) \in SUBSET Exchange
    BY DEF Accepted
  <2> QED BY <1>10, <2>1 DEF ResponseArrives, Claim, LoseResponse
<1>4. ASSUME NEW w \in Worker, Pop(w) PROVE TypeInv'
  <2>1. pending' \in SUBSET Exchange
    BY <1>4, PopFacts DEF Clean
  <2>2. UNCHANGED <<notices, result, client, agentVars, responses, claims>>
    BY <1>4, PopFacts
  <2>3. CASE PopNothing(w)
    <3>1. queues' \in [Site -> Seq(Exchange)]
      BY <2>3 DEF PopNothing
    <3> QED BY <2>1, <2>2, <2>3, <3>1 DEF PopNothing
  <2>4. ASSUME NEW i \in 1..Len(queues[WorkSite[w]]), PopAt(w, i) PROVE TypeInv'
    <3>1. /\ Rest(queues[WorkSite[w]], i) \in Seq(Exchange)
          /\ queues[WorkSite[w]][i] \in Exchange
      BY RestFacts
    <3>2. queues' \in [Site -> Seq(Exchange)]
      BY <2>4, <3>1 DEF PopAt
    <3> QED BY <2>1, <2>2, <2>4, <3>1, <3>2 DEF PopAt
  <2> HIDE DEF TypeInv
  <2>5. PopNothing(w) \/ \E i \in 1..Len(queues[WorkSite[w]]) : PopAt(w, i)
    BY <1>4, PopFacts
  <2> QED BY <2>3, <2>4, <2>5
<1>5. ASSUME NEW w \in Worker, TakeNotice(w) \/ Park(w) \/ EndPoll(w) \/ Deliver(w) \/ ContextDone(w)
      PROVE  TypeInv'
  <2>1. CASE TakeNotice(w)
    BY <2>1 DEF TakeNotice
  <2>2. CASE Park(w) \/ ContextDone(w)
    BY <2>2 DEF Park, ContextDone
  <2>3. CASE EndPoll(w)
    BY <2>3 DEF EndPoll
  <2>4. CASE Deliver(w)
    BY <2>4 DEF Deliver
  <2> HIDE DEF TypeInv
  <2> QED BY <1>5, <2>1, <2>2, <2>3, <2>4
<1>6. ASSUME NEW w \in Worker, Poll(w) \/ PostReturns(w) \/ BreakPoll(w) \/ WorkerRestart(w)
      PROVE  TypeInv'
  BY <1>6 DEF Poll, PostReturns, BreakPoll, WorkerRestart
<1>7. ASSUME NEW w \in Worker, Proxy(w) PROVE TypeInv'
  BY <1>7 DEF Proxy
<1>8. CASE CloudRestart
  BY <1>8 DEF CloudRestart
<1>9. CASE UNCHANGED vars
  BY <1>9 DEF vars
<1> QED BY <1>1, <1>2, <1>3, <1>4, <1>5, <1>6, <1>7, <1>8, <1>9, <1>10
     DEF Next, HandlerStep, WorkerStep

LEMMA TypeHolds == Spec => []TypeInv
<1> QED BY TypeInit, TypeStep, PTL DEF Spec

(* Queues, handlers, workers and messages keep their types.                *)
THEOREM TypeCorrect == Spec => []TypeOK
<1>1. TypeInv => TypeOK
  BY DEF TypeInv
<1> QED BY <1>1, TypeHolds, PTL

----------------------------------------------------------------------------
(* The entries of b.pending and the result channels                        *)

(* An exchange is in one place only: its entry waits, or its response is   *)
(* claimed, or it lies in the result channel. An entry has a requester     *)
(* that was not sent away.                                                 *)
EntryInv == \A e \in Exchange :
  /\ e \in pending => /\ e \notin claims /\ ~result[e]
                      /\ client[e] # "fallback"
  /\ e \in claims => ~result[e]
  /\ client[e] = "new" => e \notin pending /\ e \notin claims /\ ~result[e]

LEMMA EntryStep ==
  ASSUME TypeInv, EntryInv, [Next]_vars
  PROVE  EntryInv'
<1> USE DEF EntryInv, TypeInv, TypeOK, brokerVars, pollVars, agentVars
<1>1. ASSUME NEW e \in Exchange, StartExchange(e) PROVE EntryInv'
  BY <1>1 DEF StartExchange, Clean
<1>2. ASSUME NEW e \in Exchange, Age(e) PROVE EntryInv'
  BY <1>2 DEF Age
<1>3. ASSUME NEW e \in Exchange, ReceiveResponse(e) PROVE EntryInv'
  BY <1>3 DEF ReceiveResponse, AnswersFor, Waits
<1>4. ASSUME NEW e \in Exchange, FallBack(e) PROVE EntryInv'
  BY <1>4 DEF FallBack
<1>5. ASSUME NEW r \in responses, ResponseArrives(r) \/ LoseResponse(r) PROVE EntryInv'
  <2>1. CASE LoseResponse(r)
    BY <2>1 DEF LoseResponse
  <2>2. CASE ResponseArrives(r)
    BY <2>2 DEF ResponseArrives, Claim, Accepted
  <2> QED BY <1>5, <2>1, <2>2
<1>6. ASSUME NEW e \in Exchange, Send(e) \/ \E s \in Site : StrayResponse(s, e) PROVE EntryInv'
  <2>1. CASE Send(e)
    BY <2>1 DEF Send
  <2>2. CASE \E s \in Site : StrayResponse(s, e)
    BY <2>2 DEF StrayResponse, Claim, Accepted
  <2> QED BY <1>6, <2>1, <2>2
<1>7. ASSUME NEW w \in Worker, Pop(w) PROVE EntryInv'
  <2>1. pending' \subseteq pending /\ UNCHANGED <<result, client, claims>>
    BY <1>7, PopFacts DEF Clean
  <2> QED BY <2>1
<1>8. ASSUME NEW w \in Worker, \/ TakeNotice(w) \/ Park(w) \/ EndPoll(w) \/ Deliver(w)
                               \/ ContextDone(w)
      PROVE  EntryInv'
  BY <1>8 DEF TakeNotice, Park, EndPoll, Deliver, ContextDone
<1>9. ASSUME NEW w \in Worker, \/ Poll(w) \/ Proxy(w) \/ PostReturns(w) \/ BreakPoll(w)
                               \/ WorkerRestart(w)
      PROVE  EntryInv'
  BY <1>9 DEF Poll, Proxy, PostReturns, BreakPoll, WorkerRestart
<1>10. CASE CloudRestart
  BY <1>10 DEF CloudRestart
<1>11. CASE UNCHANGED vars
  BY <1>11 DEF vars
<1> QED BY <1>1, <1>2, <1>3, <1>4, <1>5, <1>6, <1>7, <1>8, <1>9, <1>10, <1>11
     DEF Next, HandlerStep, WorkerStep

LEMMA EntriesHold == Spec => [](TypeInv /\ EntryInv)
<1>1. Init => TypeInv /\ EntryInv
  BY TypeInit DEF Init, EntryInv
<1>2. TypeInv /\ EntryInv /\ [Next]_vars => (TypeInv /\ EntryInv)'
  BY TypeStep, EntryStep
<1> QED BY <1>1, <1>2, PTL DEF Spec

(* A response that resolve has accepted finds room, and no entry is left   *)
(* for a second one, although the send comes after the unlock              *)
(* (webrtc_broker.go:92-98).                                               *)
THEOREM ResponsesFit == Spec => []ClaimedResponseFits
<1>1. TypeInv /\ EntryInv => ClaimedResponseFits
  BY DEF TypeInv, TypeOK, EntryInv, ClaimedResponseFits
<1> QED BY <1>1, EntriesHold, PTL

(* next hands out an exchange only while its browser still waits           *)
(* (webrtc_broker.go:64-73).                                               *)
THEOREM WorkersServeTheWaiting == Spec => NoWorkForTheGone
<1>1. ASSUME TypeInv, EntryInv, [Next]_vars, NEW w \in Worker,
             carried'[w] \notin {None, carried[w]}
      PROVE  client[carried'[w]] # "fallback"
  <2>0. ASSUME NEW v \in Worker, Pop(v)
        PROVE  PopNothing(v) \/ \E i \in 1..Len(queues[WorkSite[v]]) : PopAt(v, i)
    BY <1>1, <2>0, PopFacts
  <2> USE DEF TypeInv, TypeOK, brokerVars, pollVars, agentVars
  <2>1. ASSUME NEW v \in Worker, Pop(v) PROVE client[carried'[w]] # "fallback"
    <3>1. PopNothing(v) \/ \E i \in 1..Len(queues[WorkSite[v]]) : PopAt(v, i)
      BY <2>0, <2>1
    <3>2. ~PopNothing(v)
      BY <1>1 DEF PopNothing
    <3>3. PICK i \in 1..Len(queues[WorkSite[v]]) : PopAt(v, i)
      BY <3>1, <3>2
    <3>4. carried'[w] = queues[WorkSite[v]][i] /\ carried'[w] \in Clean
      BY <1>1, <3>3 DEF PopAt
    <3> QED BY <1>1, <3>4 DEF Clean, EntryInv
  <2>2. ASSUME NEW v \in Worker, HandlerStep(v), ~Pop(v) PROVE carried'[w] \in {None, carried[w]}
    <3>1. CASE Deliver(v)
      <4>1. carried' = [carried EXCEPT ![v] = None]
        BY <3>1 DEF Deliver
      <4> QED BY <1>1, <4>1
    <3>2. CASE TakeNotice(v) \/ Park(v) \/ EndPoll(v)
      BY <3>2 DEF TakeNotice, Park, EndPoll
    <3> QED BY <2>2, <3>1, <3>2 DEF HandlerStep
  <2>3. ASSUME NEW v \in Worker, WorkerStep(v) \/ ContextDone(v) \/ BreakPoll(v) \/ WorkerRestart(v)
        PROVE  carried' = carried
    BY <2>3 DEF WorkerStep, Poll, Proxy, PostReturns, ContextDone, BreakPoll, WorkerRestart
  <2>4. ASSUME NEW e \in Exchange, \/ StartExchange(e) \/ Age(e) \/ ReceiveResponse(e)
                                  \/ FallBack(e) \/ Send(e)
                                  \/ \E s \in Site : StrayResponse(s, e)
        PROVE  carried' = carried
    BY <2>4 DEF StartExchange, Age, ReceiveResponse, AnswersFor, FallBack, Send, StrayResponse, Claim
  <2>7. ASSUME NEW r \in responses, ResponseArrives(r) \/ LoseResponse(r)
        PROVE  carried' = carried
    BY <2>7 DEF ResponseArrives, Claim, LoseResponse
  <2>5. CASE CloudRestart
    BY <1>1, <2>5 DEF CloudRestart
  <2>6. CASE UNCHANGED vars
    BY <1>1, <2>6 DEF vars
  <2> QED BY <1>1, <2>1, <2>2, <2>3, <2>4, <2>5, <2>6, <2>7 DEF Next
<1>2. TypeInv /\ EntryInv /\ [Next]_vars
        => [\A w \in Worker : carried'[w] \notin {None, carried[w]}
                                => client[carried'[w]] # "fallback"]_vars
  BY <1>1
<1> QED BY <1>2, EntriesHold, PTL DEF Spec, NoWorkForTheGone

----------------------------------------------------------------------------
(* The way of an exchange                                                  *)

(* Until the media server is asked for it, an exchange lies in one place   *)
(* of one queue, or with one handler, or with one worker.                  *)
QueueInv ==
  /\ \A s \in Site : NoDup(queues[s])
  /\ \A s \in Site, e \in Exchange : e \in Elems(queues[s]) =>
       /\ s = SiteOf[e] /\ client[e] # "new" /\ proxied[e] = 0
       /\ \A w \in Worker : carried[w] # e /\ job[w] # e

CarriedInv == \A w \in Worker : carried[w] \in Exchange =>
  /\ client[carried[w]] # "new" /\ proxied[carried[w]] = 0
  /\ \A v \in Worker : job[v] # carried[w] /\ (carried[v] = carried[w] => v = w)

JobInv == \A w \in Worker : job[w] \in Exchange =>
  /\ client[job[w]] # "new"
  /\ loop[w] = "proxying" => proxied[job[w]] = 0
  /\ \A v \in Worker : job[v] = job[w] => v = w

(* The site of an exchange has posted a response to it.                    *)
Posted(e) == [site |-> SiteOf[e], id |-> e] \in responses

(* A response that may still reach its browser was asked for: it is on its *)
(* way from the exchange's own site, or was accepted. What agents of other *)
(* sites post may name an exchange nobody asked the server for.            *)
DoneInv == \A e \in Exchange :
  /\ proxied[e] <= 1
  /\ client[e] = "new" => proxied[e] = 0
  /\ Posted(e) \/ e \in claims \/ result[e] \/ client[e] = "answered" => proxied[e] = 1

WayInv == QueueInv /\ CarriedInv /\ JobInv /\ DoneInv

(* A new exchange enters the queue of its site.                            *)
LEMMA StartStep ==
  ASSUME TypeInv, WayInv, NEW e \in Exchange, StartExchange(e)
  PROVE  WayInv'
<1> USE DEF WayInv
<1>1. /\ client[e] = "new" /\ client' = [client EXCEPT ![e] = "waiting"]
      /\ queues' = [queues EXCEPT ![SiteOf[e]] = Append(@, e)]
      /\ UNCHANGED <<result, ctxDone, carried, loop, job, proxied, responses, claims>>
  BY DEF StartExchange, agentVars
<1>2. /\ queues \in [Site -> Seq(Exchange)] /\ client \in [Exchange -> {"new", "waiting",
            "expired", "stale", "answered", "fallback"}]
  BY DEF TypeInv, TypeOK
<1>3. /\ proxied[e] = 0
      /\ \A s \in Site : e \notin Elems(queues[s])
      /\ \A w \in Worker : carried[w] # e /\ job[w] # e
  BY <1>1 DEF QueueInv, CarriedInv, JobInv, DoneInv
<1>4. /\ NoDup(queues'[SiteOf[e]])
      /\ Elems(queues'[SiteOf[e]]) = Elems(queues[SiteOf[e]]) \cup {e}
      /\ \A s \in Site : s # SiteOf[e] => queues'[s] = queues[s]
  BY <1>1, <1>2, <1>3, AppendFacts DEF QueueInv
<1>5. QueueInv'
  <2>1. \A s \in Site : NoDup(queues'[s])
    BY <1>4 DEF QueueInv
  <2>2. ASSUME NEW s \in Site, NEW f \in Exchange, f \in Elems(queues'[s])
        PROVE  /\ s = SiteOf[f] /\ client'[f] # "new" /\ proxied'[f] = 0
               /\ \A w \in Worker : carried'[w] # f /\ job'[w] # f
    <3>1. CASE f = e
      <4>1. s = SiteOf[e]
        BY <1>3, <1>4, <2>2, <3>1
      <4> QED BY <1>1, <1>2, <1>3, <3>1, <4>1
    <3>2. CASE f # e
      <4>1. f \in Elems(queues[s])
        BY <1>4, <2>2, <3>2
      <4> QED BY <1>1, <1>2, <3>2, <4>1 DEF QueueInv
    <3> QED BY <3>1, <3>2
  <2> QED BY <2>1, <2>2 DEF QueueInv
<1>6. CarriedInv' /\ JobInv' /\ DoneInv'
  BY <1>1, <1>2 DEF CarriedInv, JobInv, DoneInv, Posted
<1> QED BY <1>5, <1>6

(* A popped exchange leaves the queue for the handler.                     *)
LEMMA PopStep ==
  ASSUME TypeInv, WayInv, NEW w \in Worker, Pop(w)
  PROVE  WayInv'
<1> USE DEF WayInv
<1> DEFINE t == WorkSite[w]
<1>1. UNCHANGED <<result, client, loop, job, proxied, responses, claims>>
  BY PopFacts DEF agentVars
<1>2. queues \in [Site -> Seq(Exchange)] /\ carried \in [Worker -> Exchange \cup {None}]
  BY DEF TypeInv, TypeOK
<1>3. JobInv' /\ DoneInv'
  BY <1>1 DEF JobInv, DoneInv, Posted
<1>4. CASE PopNothing(w)
  <2>1. carried' = carried /\ queues' = [queues EXCEPT ![t] = <<>>]
    BY <1>4 DEF PopNothing
  <2>2. Elems(<<>>) = {} /\ NoDup(<<>>)
    BY DEF Elems, NoDup
  <2> QED BY <1>1, <1>2, <1>3, <2>1, <2>2 DEF QueueInv, CarriedInv
<1>5. ASSUME NEW i \in 1..Len(queues[t]), PopAt(w, i) PROVE WayInv'
  <2> DEFINE e == queues[t][i]
  <2>1. /\ queues' = [queues EXCEPT ![t] = Rest(@, i)]
        /\ carried' = [carried EXCEPT ![w] = e]
    BY <1>5 DEF PopAt
  <2>2. /\ e \in Exchange /\ e \in Elems(queues[t])
        /\ Elems(queues'[t]) \subseteq Elems(queues[t])
        /\ NoDup(queues'[t]) /\ e \notin Elems(queues'[t])
        /\ \A s \in Site : s # t => queues'[s] = queues[s]
    BY <1>2, <2>1, RestFacts DEF QueueInv
  <2> HIDE DEF e
  <2>3. /\ t = SiteOf[e] /\ client[e] # "new" /\ proxied[e] = 0
        /\ \A v \in Worker : carried[v] # e /\ job[v] # e
    BY <2>2 DEF QueueInv
  <2>4. carried'[w] = e /\ \A v \in Worker : v # w => carried'[v] = carried[v]
    BY <1>2, <2>1
  <2>5. QueueInv'
    <3>1. \A s \in Site : NoDup(queues'[s])
      BY <2>2 DEF QueueInv
    <3>2. ASSUME NEW s \in Site, NEW f \in Exchange, f \in Elems(queues'[s])
          PROVE  /\ s = SiteOf[f] /\ client'[f] # "new" /\ proxied'[f] = 0
                 /\ \A v \in Worker : carried'[v] # f /\ job'[v] # f
      <4>1. f \in Elems(queues[s])
        BY <2>2, <3>2
      <4>2. f # e
        BY <2>2, <2>3, <3>2, <4>1 DEF QueueInv
      <4> QED BY <1>1, <2>4, <4>1, <4>2 DEF QueueInv
    <3> QED BY <3>1, <3>2 DEF QueueInv
  <2>6. CarriedInv'
    BY <1>1, <2>3, <2>4 DEF CarriedInv
  <2> QED BY <1>3, <2>5, <2>6
<1> QED BY <1>4, <1>5, PopFacts

(* The worker gets what its handler carried.                               *)
LEMMA DeliverStep ==
  ASSUME TypeInv, WayInv, NEW w \in Worker, Deliver(w)
  PROVE  WayInv'
<1> USE DEF WayInv
<1>1. /\ carried' = [carried EXCEPT ![w] = None]
      /\ UNCHANGED <<queues, result, client, proxied, responses, claims>>
  BY DEF Deliver, brokerVars
<1>2. /\ carried \in [Worker -> Exchange \cup {None}] /\ job \in [Worker -> Exchange \cup {None}]
      /\ loop \in [Worker -> {"idle", "polling", "proxying", "responding"}]
      /\ carried[w] \in Exchange
  BY DEF Deliver, TypeInv, TypeOK
<1>3. \/ /\ job' = [job EXCEPT ![w] = carried[w]] /\ loop' = [loop EXCEPT ![w] = "proxying"]
      \/ UNCHANGED <<job, loop>>
  BY DEF Deliver
<1>4. QueueInv'
  BY <1>1, <1>2, <1>3 DEF QueueInv
<1>5. CarriedInv'
  BY <1>1, <1>2, <1>3 DEF CarriedInv
<1>6. JobInv'
  BY <1>1, <1>2, <1>3 DEF JobInv, CarriedInv
<1>7. DoneInv'
  BY <1>1 DEF DoneInv, Posted
<1> QED BY <1>4, <1>5, <1>6, <1>7

(* The media server is asked, for the first time.                          *)
LEMMA ProxyStep ==
  ASSUME TypeInv, WayInv, NEW w \in Worker, Proxy(w)
  PROVE  WayInv'
<1> USE DEF WayInv
<1> DEFINE e == job[w]
<1>1. /\ loop[w] = "proxying" /\ loop' = [loop EXCEPT ![w] = "responding"]
      /\ proxied' = [proxied EXCEPT ![e] = @ + 1]
      /\ responses' = responses \cup {[site |-> WorkSite[w], id |-> e]}
      /\ UNCHANGED <<queues, result, client, carried, job, claims>>
  BY DEF Proxy, brokerVars, pollVars
<1>2. /\ e \in Exchange /\ proxied \in [Exchange -> Nat]
      /\ loop \in [Worker -> {"idle", "polling", "proxying", "responding"}]
  BY <1>1 DEF TypeInv, TypeOK
<1>3. proxied[e] = 0 /\ client[e] # "new" /\ \A v \in Worker : job[v] = e => v = w
  BY <1>1, <1>2 DEF JobInv
<1>4. proxied'[e] = 1 /\ \A f \in Exchange : f # e => proxied'[f] = proxied[f]
  BY <1>1, <1>2, <1>3
<1>5. QueueInv'
  BY <1>1, <1>4 DEF QueueInv
<1>6. CarriedInv'
  BY <1>1, <1>4 DEF CarriedInv
<1>7. JobInv'
  BY <1>1, <1>2, <1>3, <1>4 DEF JobInv
<1>8. DoneInv'
  <2>1. \A f \in Exchange : f # e /\ Posted(f)' => Posted(f)
    BY <1>1 DEF Posted
  <2> QED BY <1>1, <1>2, <1>3, <1>4, <2>1 DEF DoneInv
<1> QED BY <1>5, <1>6, <1>7, <1>8

LEMMA WayStep ==
  ASSUME TypeInv, WayInv, [Next]_vars
  PROVE  WayInv'
<1> USE DEF WayInv, QueueInv, CarriedInv, JobInv, DoneInv, Posted, brokerVars, pollVars, agentVars
<1>1. ASSUME NEW e \in Exchange, Age(e) \/ FallBack(e) \/ ReceiveResponse(e) PROVE WayInv'
  <2>1. /\ client[e] # "new" /\ client \in [Exchange -> {"new", "waiting", "expired", "stale",
                                                        "answered", "fallback"}]
        /\ UNCHANGED <<queues, pollVars, agentVars, responses, claims>>
    BY <1>1 DEF Age, FallBack, ReceiveResponse, AnswersFor, Waits, TypeInv, TypeOK
  <2>2. \A f \in Exchange : /\ client'[f] = "new" <=> client[f] = "new"
                            /\ client'[f] = "answered" => client[f] = "answered" \/ result[f]
                            /\ result'[f] => result[f]
    <3>1. CASE ReceiveResponse(e)
      <4>1. PICK answer \in {"answered", "fallback"} : client' = [client EXCEPT ![e] = answer]
        BY <3>1 DEF ReceiveResponse, AnswersFor
      <4> QED BY <2>1, <3>1, <4>1 DEF ReceiveResponse, TypeInv, TypeOK
    <3>2. CASE Age(e) \/ FallBack(e)
      BY <2>1, <3>2 DEF Age, FallBack, TypeInv, TypeOK
    <3> QED BY <1>1, <3>1, <3>2
  <2> QED BY <2>1, <2>2
<1>2. ASSUME NEW e \in Exchange, Send(e) PROVE WayInv'
  <2>1. UNCHANGED <<queues, client, pollVars, agentVars, responses>>
    BY <1>2 DEF Send
  <2>2. /\ result' = [result EXCEPT ![e] = TRUE] /\ result \in [Exchange -> BOOLEAN]
        /\ claims' \subseteq claims /\ e \in claims
    BY <1>2 DEF Send, TypeInv, TypeOK
  <2>3. \A f \in Exchange : f \in claims' \/ result'[f] => f \in claims \/ result[f]
    BY <2>2
  <2>4. QueueInv' /\ CarriedInv' /\ JobInv'
    BY <2>1
  <2>5. DoneInv'
    BY <2>1, <2>3
  <2> QED BY <2>4, <2>5
<1>8. ASSUME NEW e \in Exchange, NEW s \in Site, StrayResponse(s, e) PROVE WayInv'
  <2>1. Accepted([site |-> s, id |-> e]) = {}
    BY <1>8 DEF StrayResponse, Accepted
  <2>2. UNCHANGED <<queues, result, client, pollVars, agentVars, responses, claims>>
    BY <1>8, <2>1 DEF StrayResponse, Claim
  <2> QED BY <2>2
<1>9. ASSUME NEW r \in responses, ResponseArrives(r) \/ LoseResponse(r) PROVE WayInv'
  <2>1. /\ UNCHANGED <<queues, result, client, pollVars, agentVars>>
        /\ responses' = responses \ {r}
    BY <1>9 DEF ResponseArrives, Claim, LoseResponse
  <2>2. ASSUME NEW f \in Exchange PROVE /\ Posted(f)' => Posted(f)
                                        /\ f \in claims' => f \in claims \/ Posted(f)
    <3>1. Posted(f)' => Posted(f)
      BY <2>1
    <3>2. CASE f \in claims
      BY <3>1, <3>2
    <3>3. CASE f \in claims' /\ f \notin claims
      <4>1. r.id = f /\ r.site = SiteOf[f]
        BY <1>9, <3>3 DEF ResponseArrives, Claim, LoseResponse, Accepted
      <4>2. r = [site |-> SiteOf[f], id |-> f]
        BY <4>1 DEF TypeInv, TypeOK
      <4> QED BY <3>1, <4>2
    <3> QED BY <3>1, <3>2, <3>3
  <2>3. QueueInv' /\ CarriedInv' /\ JobInv'
    BY <2>1
  <2>4. DoneInv'
    BY <2>1, <2>2
  <2> QED BY <2>3, <2>4
<1>3. ASSUME NEW w \in Worker, TakeNotice(w) \/ Park(w) \/ ContextDone(w) PROVE WayInv'
  BY <1>3 DEF TakeNotice, Park, ContextDone
<1>4. ASSUME NEW w \in Worker, EndPoll(w) \/ Poll(w) \/ BreakPoll(w) PROVE WayInv'
  <2>1. /\ UNCHANGED <<queues, result, client, carried, job, proxied, responses, claims>>
        /\ \A v \in Worker : loop'[v] = "proxying" => loop[v] = "proxying"
    BY <1>4 DEF EndPoll, Poll, BreakPoll, TypeInv, TypeOK
  <2> QED BY <2>1
<1>5. ASSUME NEW w \in Worker, PostReturns(w) \/ WorkerRestart(w) PROVE WayInv'
  <2>1. /\ UNCHANGED <<queues, result, client, carried, proxied, responses, claims>>
        /\ job' = [job EXCEPT ![w] = None] /\ loop' = [loop EXCEPT ![w] = "idle"]
    BY <1>5 DEF PostReturns, WorkerRestart
  <2>2. \A v \in Worker : job'[v] = IF v = w THEN None ELSE job[v]
    BY <2>1 DEF TypeInv, TypeOK
  <2>3. \A v \in Worker : loop'[v] = "proxying" => loop[v] = "proxying"
    BY <2>1 DEF TypeInv, TypeOK
  <2> QED BY <2>1, <2>2, <2>3
<1>6. CASE CloudRestart
  <2>1. /\ queues' = [s \in Site |-> <<>>] /\ carried' = [w \in Worker |-> None]
        /\ claims' = {} /\ result' = [e \in Exchange |-> FALSE]
        /\ UNCHANGED <<job, proxied, responses>>
    BY <1>6 DEF CloudRestart
  <2>2. \A e \in Exchange : /\ client'[e] = "new" <=> client[e] = "new"
                            /\ client'[e] = "answered" => client[e] = "answered"
    BY <1>6 DEF CloudRestart, Waits
  <2>3. \A w \in Worker : loop'[w] = "proxying" => loop[w] = "proxying"
    BY <1>6 DEF CloudRestart
  <2>4. QueueInv'
    BY <2>1 DEF Elems, NoDup
  <2> QED BY <2>1, <2>2, <2>3, <2>4
<1>7. CASE UNCHANGED vars
  BY <1>7 DEF vars
<1> HIDE DEF WayInv, QueueInv, CarriedInv, JobInv, DoneInv, Posted, brokerVars, pollVars, agentVars
<1> QED BY <1>1, <1>2, <1>3, <1>4, <1>5, <1>6, <1>7, <1>8, <1>9,
           StartStep, PopStep, DeliverStep, ProxyStep
     DEF Next, HandlerStep, WorkerStep

(* A browser is answered only after the media server was asked for it, and *)
(* the server is asked once, however polls break, workers overlap, clouds  *)
(* restart and agents of other sites post responses that name the          *)
(* exchange: resolve compares the sites (webrtc_broker.go:87).             *)
THEOREM AnswersComeFromTheSite == Spec => []AnswersAreReal
<1>1. Init => WayInv
  BY DEF Init, WayInv, QueueInv, CarriedInv, JobInv, DoneInv, Posted, Elems, NoDup
<1>2. TypeInv /\ WayInv /\ [Next]_vars => WayInv'
  BY WayStep
<1>3. WayInv => AnswersAreReal
  BY DEF WayInv, DoneInv, AnswersAreReal
<1> QED BY <1>1, <1>2, <1>3, TypeHolds, PTL DEF Spec

----------------------------------------------------------------------------
(* The tunnel implements Mailbox. Each step is a step of the mailbox, or   *)
(* leaves it alone, which is Lose of nothing.                              *)

(* Only a handler that writes has an exchange in hand, only a worker that  *)
(* proxies or responds has one, and a worker whose handler runs does not.  *)
HandInv == \A w \in Worker :
  /\ carried[w] # None => pc[w] = "deliver"
  /\ job[w] # None => loop[w] \in {"proxying", "responding"}
  /\ pc[w] # "free" => loop[w] \in {"idle", "polling"}

LEMMA HandStep ==
  ASSUME TypeInv, HandInv, [Next]_vars
  PROVE  HandInv'
<1> TypeOK
  BY DEF TypeInv
<1> USE DEF HandInv, brokerVars, pollVars, agentVars
<1>1. ASSUME NEW e \in Exchange, StartExchange(e) PROVE HandInv'
  <2>1. SiteOf[e] \in Site /\ Notify(SiteOf[e]) /\ UNCHANGED <<carried, loop, job>>
    BY <1>1 DEF StartExchange
  <2>2. \A w \in Worker : /\ pc[w] = "deliver" => pc'[w] = "deliver"
                          /\ pc'[w] # "free" => pc[w] # "free"
    BY <2>1 DEF Notify, Parked, TypeOK
  <2> QED BY <2>1, <2>2
<1>2. ASSUME NEW e \in Exchange, \/ Age(e) \/ ReceiveResponse(e) \/ FallBack(e)
                                 \/ Send(e) \/ \E s \in Site : StrayResponse(s, e)
      PROVE  HandInv'
  BY <1>2 DEF Age, ReceiveResponse, AnswersFor, FallBack, Send, StrayResponse, Claim
<1>13. ASSUME NEW r \in responses, ResponseArrives(r) \/ LoseResponse(r) PROVE HandInv'
  BY <1>13 DEF ResponseArrives, Claim, LoseResponse
<1>3. ASSUME NEW w \in Worker, Pop(w) PROVE HandInv'
  <2>1. pc[w] = "lock" /\ UNCHANGED <<loop, job>>
    BY <1>3, PopFacts DEF Pop
  <2>2. PopNothing(w) \/ \E i \in 1..Len(queues[WorkSite[w]]) : PopAt(w, i)
    BY <1>3, PopFacts
  <2>3. CASE PopNothing(w)
    BY <2>1, <2>3 DEF PopNothing, TypeOK
  <2>4. ASSUME NEW i \in 1..Len(queues[WorkSite[w]]), PopAt(w, i) PROVE HandInv'
    BY <2>1, <2>4 DEF PopAt, TypeOK
  <2> QED BY <2>2, <2>3, <2>4
<1>4. ASSUME NEW w \in Worker, TakeNotice(w) \/ Park(w) \/ ContextDone(w) PROVE HandInv'
  BY <1>4 DEF TakeNotice, Park, ContextDone, TypeOK
<1>5. ASSUME NEW w \in Worker, EndPoll(w) PROVE HandInv'
  BY <1>5 DEF EndPoll, TypeOK
<1>6. ASSUME NEW w \in Worker, Deliver(w) PROVE HandInv'
  BY <1>6 DEF Deliver, TypeOK
<1>7. ASSUME NEW w \in Worker, Poll(w) PROVE HandInv'
  BY <1>7 DEF Poll, TypeOK
<1>8. ASSUME NEW w \in Worker, Proxy(w) PROVE HandInv'
  BY <1>8 DEF Proxy, TypeOK
<1>9. ASSUME NEW w \in Worker, PostReturns(w) \/ WorkerRestart(w) PROVE HandInv'
  BY <1>9 DEF PostReturns, WorkerRestart, TypeOK
<1>10. ASSUME NEW w \in Worker, BreakPoll(w) PROVE HandInv'
  BY <1>10 DEF BreakPoll, TypeOK
<1>11. CASE CloudRestart
  BY <1>11 DEF CloudRestart
<1>12. CASE UNCHANGED vars
  BY <1>12 DEF vars
<1> HIDE DEF HandInv
<1> QED BY <1>1, <1>2, <1>3, <1>4, <1>5, <1>6, <1>7, <1>8, <1>9, <1>10, <1>11, <1>12, <1>13
        DEF Next, HandlerStep, WorkerStep

BoxInv == TypeInv /\ WayInv /\ HandInv

LEMMA BoxInit == Init => BoxInv
BY TypeInit DEF Init, BoxInv, WayInv, QueueInv, CarriedInv, JobInv, DoneInv, Posted, Elems, NoDup, HandInv

LEMMA BoxStep == BoxInv /\ [Next]_vars => BoxInv'
BY TypeStep, WayStep, HandStep DEF BoxInv

(* Steps of the mailbox, said of the places, outcomes and answers.         *)
LEMMA LoseMaps ==
  ASSUME NEW D \in SUBSET Exchange, NEW G \in SUBSET Exchange,
         \A e \in D : Where(e) \in {"offered", "taken"} /\ Outcome(e) = "none",
         \A e \in G : Where(e) # "new" /\ Told(e) = "none",
         \A e \in Exchange :
           /\ Where(e)' = IF e \in D THEN "dropped" ELSE Where(e)
           /\ Outcome(e)' = Outcome(e)
           /\ Told(e)' = IF e \in G THEN "unsure" ELSE Told(e)
  PROVE  Box!Next
<1>1. D \in SUBSET Box!Undone
  BY DEF Box!Undone, Box!At
<1>2. G \in SUBSET Box!Awaiting
  BY DEF Box!Awaiting, Box!At
<1>3. Box!Lose(D, G)
  BY DEF Box!Lose
<1> QED BY <1>1, <1>2, <1>3 DEF Box!Next

LEMMA OfferMaps ==
  ASSUME NEW e \in Exchange, Where(e) = "new",
         \A f \in Exchange : /\ Where(f)' = IF f = e THEN "offered" ELSE Where(f)
                             /\ Outcome(f)' = Outcome(f)
                             /\ Told(f)' = Told(f)
  PROVE  Box!Next
<1>1. e \in Box!At("new") /\ {} \in SUBSET Box!At("offered")
  BY DEF Box!At
<1>2. Box!Offer(e, {})
  BY DEF Box!Offer
<1> QED BY <1>1, <1>2 DEF Box!Next

LEMMA TakeMaps ==
  ASSUME NEW e \in Exchange, NEW D \in SUBSET Exchange, Where(e) = "offered", e \notin D,
         \A f \in D : Where(f) = "offered",
         \A f \in Exchange :
           /\ Where(f)' = IF f = e THEN "taken" ELSE IF f \in D THEN "dropped" ELSE Where(f)
           /\ Outcome(f)' = Outcome(f)
           /\ Told(f)' = Told(f)
  PROVE  Box!Next
<1>1. e \in Box!At("offered") /\ D \in SUBSET (Box!At("offered") \ {e})
  BY DEF Box!At
<1>2. Box!Take(e, D)
  BY DEF Box!Take
<1> QED BY <1>1, <1>2 DEF Box!Next

LEMMA PerformMaps ==
  ASSUME NEW e \in Exchange, Where(e) = "taken", Outcome(e) = "none",
         \A f \in Exchange : /\ Where(f)' = Where(f)
                             /\ Outcome(f)' = IF f = e THEN "ok" ELSE Outcome(f)
                             /\ Told(f)' = Told(f)
  PROVE  Box!Next
<1>1. e \in Box!At("taken") /\ "ok" \in Box!Outcomes \ {"none"}
  BY DEF Box!At, Box!Outcomes
<1>2. Box!Perform(e, "ok")
  BY DEF Box!Perform
<1> QED BY <1>1, <1>2 DEF Box!Next

LEMMA AnswerMaps ==
  ASSUME NEW e \in Exchange, NEW a \in {"executed", "unsure"},
         Where(e) # "new", Told(e) = "none", a = "executed" => Outcome(e) = "ok",
         \A f \in Exchange : /\ Where(f)' = Where(f)
                             /\ Outcome(f)' = Outcome(f)
                             /\ Told(f)' = IF f = e THEN a ELSE Told(f)
  PROVE  Box!Next
<1>1. e \in Box!Awaiting /\ a \in Box!Answers \ {"none"}
  BY DEF Box!Awaiting, Box!At, Box!Answers
<1>2. Box!Answer(e, a)
  BY DEF Box!Answer
<1> QED BY <1>1, <1>2 DEF Box!Next

(* A step that leaves every exchange where it is.                          *)
LEMMA StillMaps ==
  ASSUME \A e \in Exchange : /\ Where(e)' = Where(e)
                             /\ Outcome(e)' = Outcome(e)
                             /\ Told(e)' = Told(e)
  PROVE  Box!Next
<1> DEFINE D == {}
           G == {}
<1>1. \A e \in Exchange :
        /\ Where(e)' = IF e \in D THEN "dropped" ELSE Where(e)
        /\ Outcome(e)' = Outcome(e)
        /\ Told(e)' = IF e \in G THEN "unsure" ELSE Told(e)
  OBVIOUS
<1>2. /\ D \in SUBSET Exchange /\ G \in SUBSET Exchange
      /\ \A e \in D : Where(e) \in {"offered", "taken"} /\ Outcome(e) = "none"
      /\ \A e \in G : Where(e) # "new" /\ Told(e) = "none"
  OBVIOUS
<1> HIDE DEF D, G
<1> QED BY <1>1, <1>2, LoseMaps

LEMMA UnchangedMaps ==
  ASSUME UNCHANGED <<queues, client, carried, job, proxied>>
  PROVE  Box!Next
<1>1. ASSUME NEW e \in Exchange
      PROVE  Where(e)' = Where(e) /\ Outcome(e)' = Outcome(e) /\ Told(e)' = Told(e)
  BY DEF Where, InQueue, Held, Outcome, Told
<1> QED BY <1>1, StillMaps

(* exchange offers.                                                        *)
LEMMA StartMaps ==
  ASSUME BoxInv, NEW e \in Exchange, StartExchange(e)
  PROVE  Box!Next
<1>1. /\ client[e] = "new" /\ client' = [client EXCEPT ![e] = "waiting"]
      /\ queues' = [queues EXCEPT ![SiteOf[e]] = Append(@, e)]
      /\ UNCHANGED <<carried, job, proxied>>
  BY DEF StartExchange, agentVars
<1>2. /\ queues \in [Site -> Seq(Exchange)] /\ SiteOf[e] \in Site
      /\ client \in [Exchange -> {"new", "waiting", "expired", "stale", "answered", "fallback"}]
  BY DEF BoxInv, TypeInv, TypeOK
<1>3. /\ Elems(queues'[SiteOf[e]]) = Elems(queues[SiteOf[e]]) \cup {e}
      /\ \A s \in Site : s # SiteOf[e] => queues'[s] = queues[s]
  BY <1>1, <1>2, AppendFacts
<1>4. ASSUME NEW f \in Exchange
      PROVE  /\ Where(f)' = IF f = e THEN "offered" ELSE Where(f)
             /\ Outcome(f)' = Outcome(f)
             /\ Told(f)' = Told(f)
  <2>1. Outcome(f)' = Outcome(f) /\ (Held(f)' <=> Held(f))
    BY <1>1 DEF Outcome, Held
  <2>2. CASE f = e
    <3>1. client'[f] = "waiting" /\ InQueue(f)'
      BY <1>1, <1>2, <1>3, <2>2 DEF InQueue
    <3> QED BY <1>1, <2>1, <2>2, <3>1 DEF Where, Told
  <2>3. CASE f # e
    <3>1. client'[f] = client[f]
      BY <1>1, <1>2, <2>3
    <3>2. InQueue(f)' <=> InQueue(f)
      <4>1. CASE SiteOf[f] = SiteOf[e]
        BY <1>3, <2>3, <4>1 DEF InQueue
      <4>2. CASE SiteOf[f] # SiteOf[e]
        BY <1>3, <4>2 DEF InQueue
      <4> QED BY <4>1, <4>2
    <3> QED BY <2>1, <2>3, <3>1, <3>2 DEF Where, Told
  <2> QED BY <2>2, <2>3
<1>5. Where(e) = "new"
  BY <1>1 DEF Where
<1> QED BY <1>4, <1>5, OfferMaps

(* What lies in a queue is offered, and nobody holds it.                   *)
LEMMA QueuedFacts ==
  ASSUME BoxInv, NEW t \in Site, NEW e \in Exchange, e \in Elems(queues[t])
  PROVE  /\ SiteOf[e] = t /\ InQueue(e) /\ ~Held(e)
         /\ Where(e) = "offered" /\ Outcome(e) = "none"
<1>1. /\ SiteOf[e] = t /\ client[e] # "new" /\ proxied[e] = 0
      /\ \A w \in Worker : carried[w] # e /\ job[w] # e
  BY DEF BoxInv, WayInv, QueueInv
<1> QED BY <1>1 DEF InQueue, Held, Where, Outcome

(* next takes an exchange and skips those before it, or finds none to take *)
(* and drops the whole queue.                                              *)
LEMMA PopMaps ==
  ASSUME BoxInv, NEW w \in Worker, Pop(w)
  PROVE  Box!Next
<1> DEFINE t == WorkSite[w]
<1>1. /\ t \in Site /\ queues \in [Site -> Seq(Exchange)]
      /\ carried \in [Worker -> Exchange \cup {None}]
      /\ \A e \in Elems(queues[t]) : e \in Exchange
  BY DEF BoxInv, TypeInv, TypeOK, Elems
<1>2. UNCHANGED <<client, job, proxied>> /\ pc[w] = "lock"
  BY PopFacts DEF BoxInv, agentVars, Pop
<1>3. carried[w] = None
  BY <1>2 DEF BoxInv, HandInv
<1>4. \A e \in Exchange : Outcome(e)' = Outcome(e) /\ Told(e)' = Told(e)
  BY <1>2 DEF Outcome, Told
<1>5. CASE PopNothing(w)
  <2> DEFINE D == Elems(queues[t])
             G == {}
  <2>1. carried' = carried /\ queues' = [queues EXCEPT ![t] = <<>>]
    BY <1>5 DEF PopNothing
  <2>2. Elems(queues'[t]) = {} /\ \A s \in Site : s # t => queues'[s] = queues[s]
    BY <1>1, <2>1 DEF Elems
  <2>3. ASSUME NEW e \in Exchange
        PROVE  /\ Where(e)' = IF e \in D THEN "dropped" ELSE Where(e)
               /\ Outcome(e)' = Outcome(e)
               /\ Told(e)' = IF e \in G THEN "unsure" ELSE Told(e)
    <3>1. Held(e)' <=> Held(e)
      BY <1>2, <2>1 DEF Held
    <3>2. CASE e \in D
      <4>1. ~InQueue(e)' /\ ~Held(e) /\ client[e] # "new"
        BY <1>1, <2>2, <3>2, QueuedFacts DEF InQueue, Where
      <4> QED BY <1>2, <1>4, <3>1, <3>2, <4>1 DEF Where
    <3>3. CASE e \notin D
      <4>1. InQueue(e)' <=> InQueue(e)
        BY <1>1, <2>2, <3>3 DEF InQueue
      <4> QED BY <1>2, <1>4, <3>1, <3>3, <4>1 DEF Where
    <3> QED BY <3>2, <3>3
  <2>4. \A e \in D : Where(e) \in {"offered", "taken"} /\ Outcome(e) = "none"
    BY <1>1, QueuedFacts
  <2>5. D \in SUBSET Exchange /\ G \in SUBSET Exchange /\ \A e \in G : Where(e) # "new" /\ Told(e) = "none"
    BY <1>1
  <2> HIDE DEF D, G
  <2> QED BY <2>3, <2>4, <2>5, LoseMaps
<1>6. ASSUME NEW i \in 1..Len(queues[t]), PopAt(w, i) PROVE Box!Next
  <2>1. PICK e \in Exchange : e = queues[t][i]
    BY <1>1, RestFacts
  <2>2. /\ queues' = [queues EXCEPT ![t] = Rest(@, i)]
        /\ carried' = [carried EXCEPT ![w] = e]
    BY <1>6, <2>1 DEF PopAt
  <2>3. /\ e \in Elems(queues[t]) /\ e \notin Elems(queues'[t])
        /\ Elems(queues'[t]) \subseteq Elems(queues[t])
        /\ \A s \in Site : s # t => queues'[s] = queues[s]
    BY <1>1, <2>1, <2>2, RestFacts DEF BoxInv, WayInv, QueueInv
  <2>4. carried'[w] = e /\ \A v \in Worker : v # w => carried'[v] = carried[v]
    BY <1>1, <2>2
  <2> DEFINE D == Elems(queues[t]) \ (Elems(queues'[t]) \cup {e})
  <2>5. ASSUME NEW f \in Exchange
        PROVE  /\ Where(f)' = IF f = e THEN "taken" ELSE IF f \in D THEN "dropped" ELSE Where(f)
               /\ Outcome(f)' = Outcome(f)
               /\ Told(f)' = Told(f)
    <3>1. CASE f = e
      <4>1. SiteOf[f] = t /\ client[f] # "new"
        BY <1>1, <2>3, <3>1, QueuedFacts DEF Where
      <4>2. ~InQueue(f)' /\ Held(f)'
        BY <2>3, <2>4, <3>1, <4>1 DEF InQueue, Held
      <4> QED BY <1>2, <1>4, <3>1, <4>1, <4>2 DEF Where
    <3>2. CASE f # e
      <4>1. \A v \in Worker : carried'[v] = f <=> carried[v] = f
        BY <1>3, <2>4, <3>2
      <4>2. Held(f)' <=> Held(f)
        BY <1>2, <4>1 DEF Held
      <4>3. CASE f \in D
        <5>1. SiteOf[f] = t /\ client[f] # "new" /\ ~Held(f)
          BY <1>1, <4>3, QueuedFacts DEF Where
        <5>2. ~InQueue(f)'
          BY <4>3, <5>1 DEF InQueue
        <5> QED BY <1>2, <1>4, <3>2, <4>2, <4>3, <5>1, <5>2 DEF Where
      <4>4. CASE f \notin D
        <5>1. InQueue(f)' <=> InQueue(f)
          <6>1. CASE SiteOf[f] = t
            BY <2>3, <3>2, <4>4, <6>1 DEF InQueue
          <6>2. CASE SiteOf[f] # t
            BY <2>3, <6>2 DEF InQueue
          <6> QED BY <6>1, <6>2
        <5> QED BY <1>2, <1>4, <3>2, <4>2, <4>4, <5>1 DEF Where
      <4> QED BY <4>3, <4>4
    <3> QED BY <3>1, <3>2
  <2>6. Where(e) = "offered" /\ \A f \in D : Where(f) = "offered"
    BY <1>1, <2>3, QueuedFacts
  <2>7. D \in SUBSET Exchange /\ e \notin D
    BY <1>1
  <2> HIDE DEF D
  <2> QED BY <2>5, <2>6, <2>7, TakeMaps
<1> QED BY <1>5, <1>6, PopFacts DEF BoxInv

(* The handler hands its exchange over, or loses it.                       *)
LEMMA DeliverMaps ==
  ASSUME BoxInv, NEW w \in Worker, Deliver(w)
  PROVE  Box!Next
<1>1. /\ carried' = [carried EXCEPT ![w] = None] /\ UNCHANGED <<queues, client, proxied>>
      /\ carried \in [Worker -> Exchange \cup {None}] /\ job \in [Worker -> Exchange \cup {None}]
  BY DEF Deliver, brokerVars, BoxInv, TypeInv, TypeOK
<1>2. PICK e \in Exchange : carried[w] = e
  BY DEF Deliver, BoxInv, TypeInv
<1>3. /\ client[e] # "new" /\ proxied[e] = 0 /\ ~InQueue(e)
      /\ \A v \in Worker : job[v] # e /\ (carried[v] = e => v = w)
  BY <1>2 DEF BoxInv, WayInv, CarriedInv, QueueInv, InQueue
<1>4. carried'[w] = None /\ \A v \in Worker : v # w => carried'[v] = carried[v]
  BY <1>1
<1>5. \A f \in Exchange : /\ InQueue(f)' = InQueue(f) /\ Outcome(f)' = Outcome(f)
                          /\ Told(f)' = Told(f)
  BY <1>1 DEF InQueue, Outcome, Told
<1>6. CASE loop[w] = "polling"
  <2>1. job' = [job EXCEPT ![w] = e] /\ job[w] = None
    BY <1>2, <1>6 DEF Deliver, BoxInv, HandInv
  <2>2. \A v \in Worker : job'[v] = IF v = w THEN e ELSE job[v]
    BY <1>1, <2>1
  <2>3. ASSUME NEW f \in Exchange PROVE Held(f)' <=> Held(f)
    <3>1. CASE f # e
      BY <1>1, <1>2, <1>4, <2>1, <2>2, <3>1 DEF Held
    <3>2. CASE f = e
      BY <1>2, <2>2, <3>2 DEF Held
    <3> QED BY <3>1, <3>2
  <2>4. \A f \in Exchange : Where(f)' = Where(f)
    BY <1>1, <1>5, <2>3 DEF Where
  <2> QED BY <1>5, <2>4, StillMaps
<1>7. CASE loop[w] # "polling"
  <2>1. job' = job
    BY <1>7 DEF Deliver
  <2> DEFINE D == {e}
             G == {}
  <2>2. ASSUME NEW f \in Exchange
        PROVE  /\ Where(f)' = IF f \in D THEN "dropped" ELSE Where(f)
               /\ Outcome(f)' = Outcome(f)
               /\ Told(f)' = IF f \in G THEN "unsure" ELSE Told(f)
    <3>1. CASE f = e
      <4>1. ~Held(f)'
        BY <1>1, <1>3, <1>4, <2>1, <3>1 DEF Held
      <4> QED BY <1>1, <1>3, <1>5, <3>1, <4>1 DEF Where
    <3>2. CASE f # e
      <4>1. Held(f)' <=> Held(f)
        BY <1>1, <1>2, <1>4, <2>1, <3>2 DEF Held
      <4> QED BY <1>1, <1>5, <3>2, <4>1 DEF Where
    <3> QED BY <3>1, <3>2
  <2>3. \A f \in D : Where(f) \in {"offered", "taken"} /\ Outcome(f) = "none"
    BY <1>2, <1>3 DEF Where, Held, Outcome
  <2>4. D \in SUBSET Exchange /\ G \in SUBSET Exchange /\ \A f \in G : Where(f) # "new" /\ Told(f) = "none"
    OBVIOUS
  <2> HIDE DEF D, G
  <2> QED BY <2>2, <2>3, <2>4, LoseMaps
<1> QED BY <1>6, <1>7

(* The media server is asked.                                              *)
LEMMA ProxyMaps ==
  ASSUME BoxInv, NEW w \in Worker, Proxy(w)
  PROVE  Box!Next
<1>1. PICK e \in Exchange : job[w] = e
  BY DEF Proxy, BoxInv, TypeInv
<1>2. /\ proxied' = [proxied EXCEPT ![e] = @ + 1] /\ proxied \in [Exchange -> Nat]
      /\ UNCHANGED <<queues, client, carried, job>>
  BY <1>1 DEF Proxy, brokerVars, pollVars, BoxInv, TypeInv, TypeOK
<1>3. client[e] # "new" /\ proxied[e] = 0 /\ ~InQueue(e) /\ Held(e)
  BY <1>1 DEF Proxy, BoxInv, WayInv, JobInv, QueueInv, InQueue, Held
<1>4. proxied'[e] = 1 /\ \A f \in Exchange : f # e => proxied'[f] = proxied[f]
  BY <1>2, <1>3
<1>5. ASSUME NEW f \in Exchange
      PROVE  /\ Where(f)' = Where(f)
             /\ Outcome(f)' = IF f = e THEN "ok" ELSE Outcome(f)
             /\ Told(f)' = Told(f)
  <2>1. Told(f)' = Told(f) /\ InQueue(f)' = InQueue(f)
    BY <1>2 DEF Told, InQueue
  <2>2. CASE f = e
    BY <1>2, <1>3, <1>4, <2>1, <2>2 DEF Where, Held, Outcome
  <2>3. CASE f # e
    <3>1. Held(f)' <=> Held(f)
      BY <1>2, <1>4, <2>3 DEF Held
    <3> QED BY <1>2, <1>4, <2>1, <2>3, <3>1 DEF Where, Outcome
  <2> QED BY <2>2, <2>3
<1>6. Where(e) = "taken" /\ Outcome(e) = "none"
  BY <1>3 DEF Where, Outcome
<1> QED BY <1>5, <1>6, PerformMaps

(* The clocks of a browser are nothing to the mailbox, what it is sent is. *)
LEMMA ClientMaps ==
  ASSUME BoxInv, NEW e \in Exchange, Age(e) \/ ReceiveResponse(e) \/ FallBack(e)
  PROVE  Box!Next
<1>1. client \in [Exchange -> {"new", "waiting", "expired", "stale", "answered", "fallback"}]
  BY DEF BoxInv, TypeInv, TypeOK
<1>2. PICK to \in {"expired", "stale", "answered", "fallback"} :
        /\ client' = [client EXCEPT ![e] = to]
        /\ to \in {"expired", "stale"} <=> Age(e)
        /\ to = "answered" => result[e]
  <2>1. CASE Age(e)
    BY <2>1 DEF Age
  <2>2. CASE ReceiveResponse(e) /\ ~Age(e)
    BY <2>2 DEF ReceiveResponse, AnswersFor
  <2>3. CASE FallBack(e) /\ ~Age(e)
    BY <2>3 DEF FallBack
  <2> QED BY <2>1, <2>2, <2>3
<1>3. client[e] \in {"waiting", "expired", "stale"} /\ UNCHANGED <<queues, carried, job, proxied>>
  BY DEF Age, ReceiveResponse, AnswersFor, FallBack, Waits, brokerVars, pollVars, agentVars
<1>4. \A f \in Exchange : client'[f] = IF f = e THEN to ELSE client[f]
  BY <1>1, <1>2
<1>5. \A f \in Exchange : Where(f)' = Where(f) /\ Outcome(f)' = Outcome(f)
  BY <1>3, <1>4 DEF Where, InQueue, Held, Outcome
<1>6. Where(e) # "new" /\ Told(e) = "none"
  BY <1>3 DEF Where, Told
<1>7. CASE to \in {"expired", "stale"}
  <2>1. \A f \in Exchange : Told(f)' = Told(f)
    BY <1>3, <1>4, <1>7 DEF Told
  <2> QED BY <1>5, <2>1, StillMaps
<1>8. CASE to = "answered"
  <2>1. \A f \in Exchange : Told(f)' = IF f = e THEN "executed" ELSE Told(f)
    BY <1>4, <1>8 DEF Told
  <2>2. Outcome(e) = "ok"
    BY <1>2, <1>8 DEF BoxInv, WayInv, DoneInv, Outcome
  <2> QED BY <1>5, <1>6, <2>1, <2>2, AnswerMaps
<1>9. CASE to = "fallback"
  <2>1. \A f \in Exchange : Told(f)' = IF f = e THEN "unsure" ELSE Told(f)
    BY <1>4, <1>9 DEF Told
  <2> QED BY <1>5, <1>6, <2>1, AnswerMaps
<1> QED BY <1>7, <1>8, <1>9

(* A worker forgets its exchange; one nobody asked the server for is lost. *)
LEMMA ForgetMaps ==
  ASSUME BoxInv, NEW w \in Worker, PostReturns(w) \/ WorkerRestart(w)
  PROVE  Box!Next
<1> DEFINE D == {e \in Exchange : job[w] = e /\ proxied[e] = 0}
           G == {}
<1>1. /\ job' = [job EXCEPT ![w] = None] /\ job \in [Worker -> Exchange \cup {None}]
      /\ UNCHANGED <<queues, client, carried, proxied>> /\ proxied \in [Exchange -> Nat]
  BY DEF PostReturns, WorkerRestart, brokerVars, pollVars, BoxInv, TypeInv, TypeOK
<1>2. \A v \in Worker : job'[v] = IF v = w THEN None ELSE job[v]
  BY <1>1
<1>3. ASSUME NEW e \in D
      PROVE  /\ e \in Exchange /\ job[w] = e /\ client[e] # "new" /\ proxied[e] = 0
             /\ ~InQueue(e) /\ \A v \in Worker : carried[v] # e /\ (job[v] = e => v = w)
  BY DEF BoxInv, WayInv, JobInv, QueueInv, CarriedInv, InQueue
<1>4. ASSUME NEW e \in Exchange
      PROVE  /\ Where(e)' = IF e \in D THEN "dropped" ELSE Where(e)
             /\ Outcome(e)' = Outcome(e)
             /\ Told(e)' = IF e \in G THEN "unsure" ELSE Told(e)
  <2>1. Outcome(e)' = Outcome(e) /\ Told(e)' = Told(e) /\ InQueue(e)' = InQueue(e)
    BY <1>1 DEF Outcome, Told, InQueue
  <2>2. CASE e \in D
    <3>1. ~Held(e)'
      BY <1>1, <1>2, <1>3, <2>2 DEF Held
    <3> QED BY <1>1, <1>3, <2>1, <2>2, <3>1 DEF Where
  <2>3. CASE e \notin D
    <3>1. job[w] # e \/ proxied[e] > 0
      BY <1>1, <2>3
    <3>2. Held(e)' <=> Held(e)
      BY <1>1, <1>2, <3>1 DEF Held
    <3> QED BY <1>1, <2>1, <2>3, <3>2 DEF Where
  <2> QED BY <2>2, <2>3
<1>5. \A e \in D : Where(e) \in {"offered", "taken"} /\ Outcome(e) = "none"
  BY <1>3 DEF Where, Held, Outcome
<1>6. D \in SUBSET Exchange /\ G \in SUBSET Exchange /\ \A e \in G : Where(e) # "new" /\ Told(e) = "none"
  OBVIOUS
<1> HIDE DEF D, G
<1> QED BY <1>4, <1>5, <1>6, LoseMaps

(* A restart of the cloud loses what is queued and what handlers carry,    *)
(* and cuts off who waits.                                                 *)
LEMMA CloudRestartMaps ==
  ASSUME BoxInv, CloudRestart
  PROVE  Box!Next
<1> DEFINE D == {e \in Exchange : InQueue(e) \/ \E w \in Worker : carried[w] = e}
           G == {e \in Exchange : Waits(e)}
<1>1. /\ queues' = [s \in Site |-> <<>>] /\ carried' = [w \in Worker |-> None]
      /\ client' = [e \in Exchange |-> IF Waits(e) THEN "fallback" ELSE client[e]]
      /\ UNCHANGED <<job, proxied>>
  BY DEF CloudRestart
<1>2. ASSUME NEW e \in D
      PROVE  client[e] # "new" /\ proxied[e] = 0 /\ \A w \in Worker : job[w] # e
  BY DEF BoxInv, WayInv, QueueInv, CarriedInv, InQueue
<1>3. \A e \in D : Where(e) \in {"offered", "taken"} /\ Outcome(e) = "none"
  BY <1>2 DEF Where, Held, Outcome
<1>4. \A e \in G : Where(e) # "new" /\ Told(e) = "none"
  BY DEF Where, Told, Waits
<1>5. ASSUME NEW e \in Exchange
      PROVE  /\ Where(e)' = IF e \in D THEN "dropped" ELSE Where(e)
             /\ Outcome(e)' = Outcome(e)
             /\ Told(e)' = IF e \in G THEN "unsure" ELSE Told(e)
  <2>1. ~InQueue(e)'
    BY <1>1 DEF InQueue, Elems
  <2>2. client'[e] = IF e \in G THEN "fallback" ELSE client[e]
    BY <1>1
  <2>3. client'[e] = "new" <=> client[e] = "new"
    BY <1>1 DEF Waits
  <2>4. Outcome(e)' = Outcome(e) /\ Told(e)' = IF e \in G THEN "unsure" ELSE Told(e)
    BY <1>1, <2>2 DEF Outcome, Told
  <2>5. CASE e \in D
    <3>1. ~Held(e)'
      BY <1>1, <1>2, <2>5 DEF Held
    <3> QED BY <1>2, <2>1, <2>3, <2>4, <2>5, <3>1 DEF Where
  <2>6. CASE e \notin D
    <3>1. Held(e)' <=> Held(e)
      BY <1>1, <2>6 DEF Held
    <3>2. ~InQueue(e)
      BY <2>6
    <3> QED BY <2>1, <2>3, <2>4, <2>6, <3>1, <3>2 DEF Where
  <2> QED BY <2>5, <2>6
<1>6. D \in SUBSET Exchange /\ G \in SUBSET Exchange
  OBVIOUS
<1> HIDE DEF D, G
<1> QED BY <1>3, <1>4, <1>5, <1>6, LoseMaps

LEMMA MailboxInit == Init => Box!Init
<1> SUFFICES ASSUME Init PROVE Box!Init
  OBVIOUS
<1>1. \A e \in Exchange : Where(e) = "new" /\ Outcome(e) = "none" /\ Told(e) = "none"
  BY DEF Init, Where, Outcome, Told
<1> QED BY <1>1 DEF Box!Init

LEMMA MailboxStep == BoxInv /\ [Next]_vars => Box!Next
<1> SUFFICES ASSUME BoxInv, [Next]_vars PROVE Box!Next
  OBVIOUS
<1> USE DEF brokerVars, pollVars, agentVars
<1>1. ASSUME NEW e \in Exchange, Send(e) \/ \E s \in Site : StrayResponse(s, e) PROVE Box!Next
  BY <1>1, UnchangedMaps DEF Send, StrayResponse, Claim
<1>4. ASSUME NEW r \in responses, ResponseArrives(r) \/ LoseResponse(r) PROVE Box!Next
  BY <1>4, UnchangedMaps DEF ResponseArrives, Claim, LoseResponse
<1>2. ASSUME NEW w \in Worker, \/ TakeNotice(w) \/ Park(w) \/ EndPoll(w) \/ ContextDone(w)
                               \/ Poll(w) \/ BreakPoll(w)
      PROVE  Box!Next
  <2>1. UNCHANGED <<queues, client, carried, job, proxied>>
    BY <1>2 DEF TakeNotice, Park, EndPoll, ContextDone, Poll, BreakPoll
  <2> QED BY <2>1, UnchangedMaps
<1>3. CASE UNCHANGED vars
  BY <1>3, UnchangedMaps DEF vars
<1> HIDE DEF Box!Next
<1> QED BY <1>1, <1>2, <1>3, <1>4, StartMaps, ClientMaps, PopMaps, DeliverMaps, ProxyMaps, ForgetMaps,
           CloudRestartMaps
        DEF Next, HandlerStep, WorkerStep

(* Queues, notices, claims, polls that break, workers and restarts add     *)
(* nothing to what Mailbox allows (webrtc_broker.go, media_handlers.go,    *)
(* the agent's runWebRTCRequests).                                         *)
THEOREM ImplementsMailbox == Spec => IsMailbox
<1>1. BoxInv /\ [Next]_vars => [Box!Next]_Box!vars
  BY MailboxStep
<1> QED BY <1>1, MailboxInit, BoxInit, BoxStep, PTL DEF Spec, IsMailbox, Box!Spec
==============================================================================
