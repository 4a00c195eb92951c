--------------------------- MODULE PtzBroker_proofs ---------------------------
(***************************************************************************)
(* Proofs about PtzBroker, for every set of sites, commands and pollers    *)
(* and every queue limit: types, then that a send under the mutex never    *)
(* blocks, then that a command is executed at most once and that no        *)
(* requester is told what did not happen.                                  *)
(***************************************************************************)
EXTENDS PtzBroker, TLAPS

USE SiteOfAssumption, PollSiteAssumption, QueueCapAssumption, NoneAssumption

----------------------------------------------------------------------------
(* Queues                                                                  *)

NoDup(q) == \A i, j \in 1..Len(q) : q[i] = q[j] => i = j

(* Head and Tail split a queue: a popped command is the only one that      *)
(* leaves, and with no duplicates it is really gone (ptz_broker.go:72-76). *)
LEMMA TailFacts ==
  ASSUME NEW S, NEW q \in Seq(S), q # <<>>
  PROVE  /\ Head(q) \in Elems(q)
         /\ Head(q) \in S
         /\ Tail(q) \in Seq(S)
         /\ Elems(q) = Elems(Tail(q)) \cup {Head(q)}
         /\ NoDup(q) => NoDup(Tail(q)) /\ Head(q) \notin Elems(Tail(q))
         /\ Len(Tail(q)) = Len(q) - 1
<1>1. /\ Len(q) \in Nat \ {0}
      /\ Tail(q) \in Seq(S)
      /\ Len(Tail(q)) = Len(q) - 1
      /\ Head(q) = q[1]
      /\ \A i \in 1..Len(q) : q[i] \in S
      /\ \A i \in 1..Len(Tail(q)) : Tail(q)[i] = q[i + 1]
  OBVIOUS
<1>2. 1 \in 1..Len(q)
  BY <1>1
<1>3. Elems(q) = Elems(Tail(q)) \cup {Head(q)}
  <2>1. ASSUME NEW x \in Elems(q) PROVE x \in Elems(Tail(q)) \cup {Head(q)}
    <3>1. PICK i \in 1..Len(q) : x = q[i]
      BY DEF Elems
    <3>2. CASE i = 1
      BY <3>1, <3>2, <1>1
    <3>3. CASE i # 1
      <4>1. i - 1 \in 1..Len(Tail(q)) /\ Tail(q)[i - 1] = q[i]
        BY <3>3, <1>1
      <4> QED BY <4>1, <3>1 DEF Elems
    <3> QED BY <3>2, <3>3
  <2>2. ASSUME NEW x \in Elems(Tail(q)) PROVE x \in Elems(q)
    <3>1. PICK i \in 1..Len(Tail(q)) : x = Tail(q)[i]
      BY DEF Elems
    <3>2. i + 1 \in 1..Len(q) /\ x = q[i + 1]
      BY <3>1, <1>1
    <3> QED BY <3>2 DEF Elems
  <2>3. Head(q) \in Elems(q)
    BY <1>1, <1>2 DEF Elems
  <2> QED BY <2>1, <2>2, <2>3
<1>4. ASSUME NoDup(q) PROVE NoDup(Tail(q)) /\ Head(q) \notin Elems(Tail(q))
  <2>1. NoDup(Tail(q))
    <3>1. ASSUME NEW i \in 1..Len(Tail(q)), NEW j \in 1..Len(Tail(q)), Tail(q)[i] = Tail(q)[j]
          PROVE  i = j
      <4>1. i + 1 \in 1..Len(q) /\ j + 1 \in 1..Len(q) /\ q[i + 1] = q[j + 1]
        BY <3>1, <1>1
      <4>2. i + 1 = j + 1
        BY <4>1, <1>4 DEF NoDup
      <4> QED BY <4>2
    <3> QED BY <3>1 DEF NoDup
  <2>2. ASSUME NEW i \in 1..Len(Tail(q)), Tail(q)[i] = Head(q) PROVE FALSE
    <3>1. i + 1 \in 1..Len(q) /\ q[i + 1] = q[1]
      BY <2>2, <1>1
    <3>2. i + 1 = 1
      BY <3>1, <1>2, <1>4 DEF NoDup
    <3> QED BY <3>2, <1>1
  <2> QED BY <2>1, <2>2 DEF Elems
<1> QED BY <1>1, <1>3, <1>4

(* Append adds one command at the end and keeps the others                 *)
(* (ptz_broker.go:41).                                                     *)
LEMMA AppendFacts ==
  ASSUME NEW S, NEW q \in Seq(S), NEW c \in S
  PROVE  /\ Append(q, c) \in Seq(S)
         /\ Elems(Append(q, c)) = Elems(q) \cup {c}
         /\ NoDup(q) /\ c \notin Elems(q) => NoDup(Append(q, c))
         /\ Len(Append(q, c)) = Len(q) + 1
<1> DEFINE r == Append(q, c)
<1>1. /\ Len(q) \in Nat
      /\ r \in Seq(S)
      /\ Len(r) = Len(q) + 1
      /\ \A i \in 1..Len(q) : r[i] = q[i]
      /\ r[Len(q) + 1] = c
  OBVIOUS
<1> HIDE DEF r
<1>2. \A i \in 1..Len(r) : i \in 1..Len(q) \/ i = Len(q) + 1
  BY <1>1
<1>3. Elems(r) = Elems(q) \cup {c}
  <2>1. \A i \in 1..Len(q) : i \in 1..Len(r)
    BY <1>1
  <2>2. Len(q) + 1 \in 1..Len(r)
    BY <1>1
  <2> QED BY <2>1, <2>2, <1>1, <1>2 DEF Elems
<1>4. ASSUME NoDup(q), c \notin Elems(q) PROVE NoDup(r)
  <2>1. \A i \in 1..Len(q) : q[i] # c
    BY <1>4 DEF Elems
  <2> QED BY <2>1, <1>4, <1>1, <1>2 DEF NoDup
<1> QED BY <1>1, <1>3, <1>4 DEF r

(* What enqueue keeps of a queue before it appends (ptz_broker.go:31-40).  *)
LEMMA KeptFacts ==
  ASSUME NEW S, NEW q \in Seq(S)
  PROVE  /\ Kept(q) \in Seq(S)
         /\ Overflow(q) \subseteq Elems(q)
         /\ Elems(q) = Elems(Kept(q)) \cup Overflow(q)
         /\ NoDup(q) => NoDup(Kept(q)) /\ Elems(Kept(q)) \cap Overflow(q) = {}
         /\ Len(q) <= QueueCap => Len(Kept(q)) < QueueCap
<1>1. CASE Len(q) >= QueueCap
  <2>1. q # <<>> /\ Len(q) \in Nat
    BY <1>1
  <2>2. Kept(q) = Tail(q) /\ Overflow(q) = {Head(q)}
    BY <1>1 DEF Kept, Overflow
  <2> QED BY <2>1, <2>2, TailFacts
<1>2. CASE ~(Len(q) >= QueueCap)
  <2>1. Len(q) \in Nat
    OBVIOUS
  <2>2. Kept(q) = q /\ Overflow(q) = {}
    BY <1>2 DEF Kept, Overflow
  <2> QED BY <2>1, <2>2, <1>2
<1> QED BY <1>1, <1>2

----------------------------------------------------------------------------
(* Types                                                                   *)

(* The notice moves one poller from its select to the lock, or leaves a    *)
(* token: nothing else.                                                    *)
LEMMA NotifyFacts ==
  ASSUME TypeOK, NEW s \in Site, Notify(s)
  PROVE  /\ notices' \in [Site -> BOOLEAN]
         /\ pc' \in [Poller -> {"free", "lock", "select", "parked", "deliver"}]
         /\ \A p \in Poller : pc'[p] = "deliver" => pc[p] = "deliver"
<1>1. CASE Parked(s) # {}
  <2>1. PICK p \in Parked(s) : pc' = [pc EXCEPT ![p] = "lock"] /\ notices' = notices
    BY <1>1 DEF Notify
  <2> QED BY <2>1 DEF TypeOK, Parked
<1>2. CASE Parked(s) = {}
  BY <1>2 DEF Notify, TypeOK
<1> QED BY <1>1, <1>2

(* An agent that executes and a handler that writes have a command in hand.*)
Busy ==
  /\ \A s \in Site   : agent[s] = "executing" => job[s] # None
  /\ \A p \in Poller : pc[p] = "deliver" => carried[p] # None

TypeInv == TypeOK /\ Busy

LEMMA TypeInit == Init => TypeInv
BY DEF Init, TypeInv, TypeOK, Busy, Results

(* Every step of the broker, its handlers and its agents keeps the types.  *)
LEMMA TypeStep == TypeInv /\ [Next]_vars => TypeInv'
<1> SUFFICES ASSUME TypeOK, Busy, [Next]_vars PROVE TypeInv'
  BY DEF TypeInv
<1> USE DEF brokerVars, clientVars, pollVars, agentVars
<1>1. ASSUME NEW c \in Command, Enqueue(c) PROVE TypeInv'
  <2>1. SiteOf[c] \in Site /\ queues[SiteOf[c]] \in Seq(Command)
    BY DEF TypeOK
  <2>2. Append(Kept(queues[SiteOf[c]]), c) \in Seq(Command)
    BY <2>1, KeptFacts, AppendFacts
  <2>3. queues' \in [Site -> Seq(Command)]
    BY <1>1, <2>1, <2>2 DEF Enqueue, TypeOK
  <2>4. /\ notices' \in [Site -> BOOLEAN]
        /\ pc' \in [Poller -> {"free", "lock", "select", "parked", "deliver"}]
        /\ \A p \in Poller : pc'[p] = "deliver" => pc[p] = "deliver"
    BY <1>1, <2>1, NotifyFacts DEF Enqueue
  <2> QED BY <1>1, <2>3, <2>4 DEF Enqueue, TypeInv, TypeOK, Busy, Results
<1>2. ASSUME NEW c \in Command, ReceiveResult(c) PROVE TypeInv'
  BY <1>2 DEF ReceiveResult, TypeInv, TypeOK, Busy, Results
<1>3. ASSUME NEW c \in Command, GiveUp(c) PROVE TypeInv'
  BY <1>3 DEF GiveUp, TypeInv, TypeOK, Busy
<1>4. ASSUME NEW c \in Command, Abandon(c) PROVE TypeInv'
  BY <1>4 DEF Abandon, TypeInv, TypeOK, Busy
<1>5. ASSUME NEW p \in Poller, Pop(p) PROVE TypeInv'
  <2>1. /\ PollSite[p] \in Site
        /\ queues[PollSite[p]] \in Seq(Command)
        /\ queues[PollSite[p]] # <<>>
    BY <1>5 DEF Pop, TypeOK
  <2>2. /\ Head(queues[PollSite[p]]) \in Command
        /\ Tail(queues[PollSite[p]]) \in Seq(Command)
    BY <2>1, TailFacts
  <2> QED BY <1>5, <2>1, <2>2 DEF Pop, Popped, TypeInv, TypeOK, Busy
<1>6. ASSUME NEW p \in Poller, FindEmpty(p) PROVE TypeInv'
  BY <1>6 DEF FindEmpty, TypeInv, TypeOK, Busy
<1>7. ASSUME NEW p \in Poller, TakeNotice(p) PROVE TypeInv'
  BY <1>7 DEF TakeNotice, TypeInv, TypeOK, Busy
<1>8. ASSUME NEW p \in Poller, Park(p) PROVE TypeInv'
  BY <1>8 DEF Park, TypeInv, TypeOK, Busy
<1>9. ASSUME NEW p \in Poller, ContextDone(p) PROVE TypeInv'
  BY <1>9 DEF ContextDone, TypeInv, TypeOK, Busy
<1>10. ASSUME NEW p \in Poller, EndPoll(p) PROVE TypeInv'
  BY <1>10 DEF EndPoll, NoCommand, TypeInv, TypeOK, Busy
<1>11. ASSUME NEW p \in Poller, Deliver(p) PROVE TypeInv'
  <2>1. PollSite[p] \in Site /\ carried[p] \in Command
    BY <1>11 DEF Deliver, TypeOK, Busy
  <2>2. /\ agent' \in [Site -> {"idle", "polling", "executing", "reporting"}]
        /\ poll'  \in [Site -> Poller \cup {None}]
        /\ job'   \in [Site -> Command \cup {None}]
        /\ \A s \in Site : agent'[s] = "executing" => job'[s] # None
    <3>1. CASE poll[PollSite[p]] = p
      <4>1. /\ agent' = [agent EXCEPT ![PollSite[p]] = "executing"]
            /\ poll'  = [poll EXCEPT ![PollSite[p]] = None]
            /\ job'   = [job EXCEPT ![PollSite[p]] = carried[p]]
        BY <1>11, <3>1 DEF Deliver
      <4> QED BY <4>1, <2>1 DEF TypeOK, Busy
    <3>2. CASE poll[PollSite[p]] # p
      BY <1>11, <3>2 DEF Deliver, TypeOK, Busy
    <3> QED BY <3>1, <3>2
  <2>3. /\ pc' \in [Poller -> {"free", "lock", "select", "parked", "deliver"}]
        /\ carried' \in [Poller -> Command \cup {None}]
        /\ \A q \in Poller : pc'[q] = "deliver" => carried'[q] # None
    BY <1>11 DEF Deliver, TypeOK, Busy
  <2> QED BY <1>11, <2>2, <2>3 DEF Deliver, TypeInv, TypeOK, Busy
<1>12. ASSUME NEW s \in Site, NEW p \in Poller, Poll(s, p) PROVE TypeInv'
  BY <1>12 DEF Poll, TypeInv, TypeOK, Busy
<1>13. ASSUME NEW s \in Site, BreakPoll(s) PROVE TypeInv'
  BY <1>13 DEF BreakPoll, NoCommand, TypeInv, TypeOK, Busy
<1>14. ASSUME NEW s \in Site, Execute(s) PROVE TypeInv'
  <2>1. job[s] \in Command
    BY <1>14 DEF Execute, TypeOK, Busy
  <2>2. PICK success \in BOOLEAN :
          /\ ran'     = [ran EXCEPT ![job[s]] = @ + 1]
          /\ worked'  = [worked EXCEPT ![job[s]] = success]
          /\ reports' = reports \cup {[site |-> s, id |-> job[s], success |-> success]}
    BY <1>14 DEF Execute
  <2>3. [site |-> s, id |-> job[s], success |-> success] \in Report
    BY <2>1 DEF Report
  <2> QED BY <1>14, <2>1, <2>2, <2>3 DEF Execute, TypeInv, TypeOK, Busy
<1>15. ASSUME NEW r \in reports, ReportArrives(r) PROVE TypeInv'
  BY <1>15 DEF ReportArrives, Resolve, Accepts, Fill, TypeInv, TypeOK, Busy, Results, Report
<1>16. ASSUME NEW r \in reports, LoseReport(r) PROVE TypeInv'
  BY <1>16 DEF LoseReport, TypeInv, TypeOK, Busy
<1>17. ASSUME NEW s \in Site, NEW c \in Command, StrayReport(s, c) PROVE TypeInv'
  <2>1. [site |-> s, id |-> c, success |-> TRUE] \in Report
    BY DEF Report
  <2> QED BY <1>17, <2>1 DEF StrayReport, Resolve, Accepts, Fill, TypeInv, TypeOK, Busy, Results
<1>18. ASSUME NEW s \in Site, ReportReturns(s) PROVE TypeInv'
  BY <1>18 DEF ReportReturns, TypeInv, TypeOK, Busy
<1>19. ASSUME NEW s \in Site, AgentRestart(s) PROVE TypeInv'
  BY <1>19 DEF AgentRestart, TypeInv, TypeOK, Busy
<1>20. CASE CloudRestart
  BY <1>20 DEF CloudRestart, TypeInv, TypeOK, Busy
<1>21. CASE UNCHANGED vars
  BY <1>21 DEF vars, TypeInv, TypeOK, Busy
<1> QED BY <1>1, <1>2, <1>3, <1>4, <1>5, <1>6, <1>7, <1>8, <1>9, <1>10, <1>11,
           <1>12, <1>13, <1>14, <1>15, <1>16, <1>17, <1>18, <1>19, <1>20, <1>21
        DEF Next, RequesterStep, HandlerStep, AgentStep

(* Every variable keeps its type, whatever breaks: the maps, queues and    *)
(* channels of ptz_broker.go, the loop of the agent and the reports.       *)
THEOREM TypeCorrect == Spec => []TypeOK
<1>1. TypeInv => TypeOK
  BY DEF TypeInv
<1> QED BY <1>1, TypeInit, TypeStep, PTL DEF Spec

----------------------------------------------------------------------------
(* The result channels                                                     *)

(* A command nobody asked for yet has no entry and an empty channel.       *)
Untouched == \A c \in Command :
  client[c] = "new" => c \notin pending /\ result[c] = "empty"

ChannelInv == TypeInv /\ SendsNeverBlock /\ PendingIsOwned /\ Untouched

LEMMA ChannelInit == Init => ChannelInv
<1> SUFFICES ASSUME Init PROVE ChannelInv
  OBVIOUS
<1>1. TypeInv
  BY TypeInit
<1> QED BY <1>1 DEF Init, ChannelInv, SendsNeverBlock, PendingIsOwned, Untouched

(* The entry and its channel change together: whoever fills the channel    *)
(* deletes the entry in the same critical section.                         *)
LEMMA ChannelStep == ChannelInv /\ [Next]_vars => ChannelInv'
<1> SUFFICES ASSUME ChannelInv, [Next]_vars
             PROVE  (SendsNeverBlock /\ PendingIsOwned /\ Untouched)'
  BY TypeStep DEF ChannelInv
<1> TypeOK /\ TypeOK'
  BY TypeStep DEF ChannelInv, TypeInv
<1> USE DEF ChannelInv, SendsNeverBlock, PendingIsOwned, Untouched,
            brokerVars, clientVars
<1>1. ASSUME NEW c \in Command, Enqueue(c)
      PROVE  (SendsNeverBlock /\ PendingIsOwned /\ Untouched)'
  <2>1. PICK dropped \in SUBSET pending :
          /\ pending' = (pending \cup {c}) \ dropped
          /\ result' = [d \in Command |-> IF d \in dropped THEN "full" ELSE result[d]]
    BY <1>1 DEF Enqueue
  <2>2. /\ client[c] = "new"
        /\ client' = [client EXCEPT ![c] = "waiting"]
        /\ deferred' = deferred \cup {c}
    BY <1>1 DEF Enqueue
  <2>3. SendsNeverBlock'
    BY <2>1, <2>2 DEF TypeOK
  <2>4. PendingIsOwned'
    BY <2>1, <2>2 DEF TypeOK
  <2>5. Untouched'
    BY <2>1, <2>2 DEF TypeOK
  <2> QED BY <2>3, <2>4, <2>5
<1>2. ASSUME NEW c \in Command, ReceiveResult(c)
      PROVE  (SendsNeverBlock /\ PendingIsOwned /\ Untouched)'
  BY <1>2 DEF ReceiveResult, TypeOK, Results
<1>3. ASSUME NEW c \in Command, GiveUp(c)
      PROVE  (SendsNeverBlock /\ PendingIsOwned /\ Untouched)'
  BY <1>3 DEF GiveUp, TypeOK
<1>4. ASSUME NEW c \in Command, Abandon(c)
      PROVE  (SendsNeverBlock /\ PendingIsOwned /\ Untouched)'
  BY <1>4 DEF Abandon, TypeOK
<1>5. ASSUME NEW r \in Report, Resolve(r)
      PROVE  (SendsNeverBlock /\ PendingIsOwned /\ Untouched)'
  BY <1>5 DEF Resolve, Accepts, Fill, TypeOK, Report
<1>6. CASE CloudRestart
  BY <1>6 DEF CloudRestart, TypeOK
<1>7. CASE UNCHANGED <<pending, result, client, deferred>>
  BY <1>7
<1>8. \/ \E c \in Command : RequesterStep(c)
      \/ \E r \in Report : Resolve(r)
      \/ CloudRestart
      \/ UNCHANGED <<pending, result, client, deferred>>
  <2>1. ASSUME NEW r \in reports, ReportArrives(r) PROVE \E q \in Report : Resolve(q)
    BY <2>1 DEF ReportArrives, TypeOK
  <2>2. ASSUME NEW s \in Site, NEW c \in Command, StrayReport(s, c)
        PROVE  \E q \in Report : Resolve(q)
    <3>1. [site |-> s, id |-> c, success |-> TRUE] \in Report
      BY DEF Report
    <3> QED BY <2>2, <3>1 DEF StrayReport
  <2> QED BY <2>1, <2>2 DEF Next, vars, HandlerStep, AgentStep, Pop, FindEmpty, TakeNotice,
         Park, EndPoll, Deliver, ContextDone, Poll, Execute, ReportReturns, BreakPoll,
         AgentRestart, LoseReport
<1> QED BY <1>1, <1>2, <1>3, <1>4, <1>5, <1>6, <1>7, <1>8 DEF RequesterStep

(* The two sends under the broker's mutex (ptz_broker.go:36,58) find the   *)
(* channel empty, so no PTZ request can freeze the others.                 *)
THEOREM NeverBlocks == Spec => []SendsNeverBlock
<1>1. ChannelInv => SendsNeverBlock
  BY DEF ChannelInv
<1> QED BY <1>1, ChannelInit, ChannelStep, PTL DEF Spec

(* Every entry of b.pending has a requester whose deferred abandon is      *)
(* still to run (ptz_handlers.go:74-75), so the map does not leak.         *)
THEOREM NoForgottenEntry == Spec => []PendingIsOwned
<1>1. ChannelInv => PendingIsOwned
  BY DEF ChannelInv
<1> QED BY <1>1, ChannelInit, ChannelStep, PTL DEF Spec

----------------------------------------------------------------------------
(* Where a command is. AtMostOnce and HonestAnswer are not inductive: a    *)
(* step may execute a command only because it is nowhere else and was      *)
(* never executed before. The invariant below says so for each place.      *)

Nowhere(c) ==
  /\ \A s \in Site   : c \notin Elems(queues[s]) /\ job[s] # c
  /\ \A p \in Poller : carried[p] # c

UnbornInv == \A c \in Command : client[c] = "new" => ran[c] = 0

QueueInv == \A s \in Site :
  /\ NoDup(queues[s])
  /\ Len(queues[s]) <= QueueCap
  /\ \A c \in Elems(queues[s]) :
       /\ SiteOf[c] = s
       /\ client[c] # "new"
       /\ ran[c] = 0
       /\ \A p \in Poller : carried[p] # c
       /\ \A t \in Site : job[t] # c

CarriedInv == \A p \in Poller : carried[p] # None =>
  /\ SiteOf[carried[p]] = PollSite[p]
  /\ client[carried[p]] # "new"
  /\ ran[carried[p]] = 0
  /\ \A q \in Poller : carried[q] = carried[p] => q = p
  /\ \A t \in Site : job[t] # carried[p]

JobInv == \A s \in Site :
  /\ job[s] # None => SiteOf[job[s]] = s /\ client[job[s]] # "new"
  /\ agent[s] = "executing" => ran[job[s]] = 0

ReportInv == \A r \in reports : SiteOf[r.id] = r.site =>
  ran[r.id] = 1 /\ (worked[r.id] <=> r.success)

ResultInv == \A c \in Command :
  /\ result[c] = "full"   => ran[c] = 0 /\ Nowhere(c)
  /\ result[c] = "ok"     => ran[c] = 1 /\ worked[c]
  /\ result[c] = "failed" => ran[c] = 1 /\ ~worked[c]

AnswerInv == \A c \in Command :
  /\ client[c] = "full"     => ran[c] = 0 /\ Nowhere(c)
  /\ client[c] = "executed" => ran[c] = 1 /\ worked[c]
  /\ client[c] = "failed"   => ran[c] = 1 /\ ~worked[c]

PlaceInv == /\ AtMostOnce /\ UnbornInv /\ QueueInv /\ CarriedInv /\ JobInv
            /\ ReportInv /\ ResultInv /\ AnswerInv

CommandInv == ChannelInv /\ PlaceInv

LEMMA CommandInit == Init => CommandInv
<1> SUFFICES ASSUME Init PROVE CommandInv
  OBVIOUS
<1>1. ChannelInv
  BY ChannelInit
<1>2. Elems(<<>>) = {} /\ NoDup(<<>>) /\ Len(<<>>) = 0
  BY DEF Elems, NoDup
<1>3. \A s \in Site : queues[s] = <<>>
  BY DEF Init
<1> QED BY <1>1, <1>2, <1>3
        DEF Init, CommandInv, PlaceInv, AtMostOnce, UnbornInv, QueueInv, CarriedInv, JobInv,
            ReportInv, ResultInv, AnswerInv

(* Nothing moves: the step leaves every place, every execution and every   *)
(* answer alone, and no report appears.                                    *)
LEMMA StillStep ==
  ASSUME CommandInv, UNCHANGED <<queues, carried, job, ran, worked, result, client>>,
         \A s \in Site : agent'[s] = "executing" => agent[s] = "executing",
         \A r \in reports' : r \in reports \/ SiteOf[r.id] # r.site
  PROVE  PlaceInv'
<1>1. (AtMostOnce /\ UnbornInv)'
  BY DEF CommandInv, PlaceInv, AtMostOnce, UnbornInv
<1>2. (QueueInv /\ CarriedInv /\ JobInv)'
  BY DEF CommandInv, PlaceInv, QueueInv, CarriedInv, JobInv
<1>3. ReportInv'
  BY DEF CommandInv, PlaceInv, ReportInv
<1>4. (ResultInv /\ AnswerInv)'
  BY DEF CommandInv, PlaceInv, ResultInv, AnswerInv, Nowhere
<1> QED BY <1>1, <1>2, <1>3, <1>4 DEF PlaceInv

(* enqueue appends a new command, which is nowhere, and drops the head of  *)
(* a full queue, which then is nowhere: "PTZ queue is full" is the truth.  *)
LEMMA EnqueueStep ==
  ASSUME CommandInv, NEW c \in Command, Enqueue(c)
  PROVE  PlaceInv'
<1> DEFINE s == SiteOf[c]
           dropped == Overflow(queues[s]) \cap pending
<1>1. /\ s \in Site
      /\ queues[s] \in Seq(Command)
      /\ Kept(queues[s]) \in Seq(Command)
      /\ TypeOK
  BY KeptFacts DEF CommandInv, ChannelInv, TypeInv, TypeOK
<1>2. /\ client[c] = "new"
      /\ client' = [client EXCEPT ![c] = "waiting"]
      /\ result' = [d \in Command |-> IF d \in dropped THEN "full" ELSE result[d]]
      /\ queues' = [queues EXCEPT ![s] = Append(Kept(queues[s]), c)]
      /\ UNCHANGED <<carried, agent, job, ran, worked, reports>>
  BY DEF Enqueue, agentVars
<1> HIDE DEF s
<1>3. /\ \A t \in Site : c \notin Elems(queues[t]) /\ job[t] # c
      /\ \A p \in Poller : carried[p] # c
      /\ ran[c] = 0
  BY <1>1, <1>2 DEF CommandInv, PlaceInv, QueueInv, CarriedInv, JobInv, UnbornInv, TypeOK
<1>4. /\ Elems(queues'[s]) = Elems(Kept(queues[s])) \cup {c}
      /\ Elems(Kept(queues[s])) \subseteq Elems(queues[s])
      /\ Overflow(queues[s]) \subseteq Elems(queues[s])
      /\ Elems(Kept(queues[s])) \cap Overflow(queues[s]) = {}
      /\ NoDup(queues'[s])
      /\ Len(queues'[s]) <= QueueCap
  <2>1. queues'[s] = Append(Kept(queues[s]), c)
    BY <1>1, <1>2 DEF TypeOK
  <2>2. NoDup(queues[s]) /\ Len(queues[s]) <= QueueCap
    BY <1>1 DEF CommandInv, PlaceInv, QueueInv
  <2>3. /\ Elems(queues[s]) = Elems(Kept(queues[s])) \cup Overflow(queues[s])
        /\ NoDup(Kept(queues[s]))
        /\ Elems(Kept(queues[s])) \cap Overflow(queues[s]) = {}
        /\ Len(Kept(queues[s])) < QueueCap
    BY <1>1, <2>2, KeptFacts
  <2>4. c \notin Elems(Kept(queues[s]))
    BY <1>1, <1>3, <2>3
  <2>5. Len(Kept(queues[s])) \in Nat
    BY <1>1
  <2> QED BY <1>1, <2>1, <2>3, <2>4, <2>5, AppendFacts
<1>5. \A t \in Site \ {s} : queues'[t] = queues[t]
  BY <1>1, <1>2 DEF TypeOK
<1>6. /\ client'[c] = "waiting"
      /\ \A d \in Command \ {c} : client'[d] = client[d]
  BY <1>1, <1>2 DEF TypeOK
<1>7. (AtMostOnce /\ UnbornInv)'
  BY <1>2, <1>6 DEF CommandInv, PlaceInv, AtMostOnce, UnbornInv
<1>8. QueueInv'
  <2>1. ASSUME NEW t \in Site
        PROVE  /\ NoDup(queues'[t])
               /\ Len(queues'[t]) <= QueueCap
               /\ \A d \in Elems(queues'[t]) : (d = c /\ t = s) \/ d \in Elems(queues[t])
    BY <1>4, <1>5 DEF CommandInv, PlaceInv, QueueInv
  <2>2. ASSUME NEW t \in Site, NEW d \in Elems(queues'[t])
        PROVE  /\ SiteOf[d] = t
               /\ client'[d] # "new"
               /\ ran[d] = 0
               /\ \A p \in Poller : carried[p] # d
               /\ \A u \in Site : job[u] # d
    <3>1. CASE d = c /\ t = s
      BY <3>1, <1>3, <1>6 DEF s
    <3>2. CASE d \in Elems(queues[t])
      <4>1. d \in Command
        BY <3>2, <1>1 DEF Elems, TypeOK
      <4> QED BY <3>2, <4>1, <1>6 DEF CommandInv, PlaceInv, QueueInv
    <3> QED BY <2>1, <3>1, <3>2
  <2> QED BY <2>1, <2>2, <1>2 DEF QueueInv
<1>9. (CarriedInv /\ JobInv)'
  BY <1>1, <1>2, <1>6 DEF CommandInv, PlaceInv, CarriedInv, JobInv, TypeOK
<1>10. ReportInv'
  BY <1>2 DEF CommandInv, PlaceInv, ReportInv
<1>11. ASSUME NEW d \in Command, d # c, Nowhere(d) PROVE Nowhere(d)'
  <2>1. ASSUME NEW t \in Site PROVE d \notin Elems(queues'[t])
    BY <1>11, <1>4, <1>5 DEF Nowhere
  <2> QED BY <2>1, <1>2, <1>11 DEF Nowhere
<1>12. ASSUME NEW d \in dropped PROVE ran[d] = 0 /\ Nowhere(d)'
  <2>1. d \in Elems(queues[s]) /\ d \notin Elems(queues'[s])
    BY <1>12, <1>1, <1>3, <1>4
  <2>2. /\ SiteOf[d] = s
        /\ ran[d] = 0
        /\ \A p \in Poller : carried[p] # d
        /\ \A t \in Site : job[t] # d
    BY <2>1, <1>1 DEF CommandInv, PlaceInv, QueueInv
  <2>3. ASSUME NEW t \in Site, t # s PROVE d \notin Elems(queues'[t])
    BY <2>2, <2>3, <1>5 DEF CommandInv, PlaceInv, QueueInv
  <2> QED BY <2>1, <2>2, <2>3, <1>2 DEF Nowhere
<1>13. ResultInv'
  <2>1. ASSUME NEW d \in Command
        PROVE  /\ result'[d] = "full"   => ran[d] = 0 /\ Nowhere(d)'
               /\ result'[d] = "ok"     => ran[d] = 1 /\ worked[d]
               /\ result'[d] = "failed" => ran[d] = 1 /\ ~worked[d]
    <3>1. CASE d \in dropped
      BY <3>1, <1>2, <1>12
    <3>2. CASE d \notin dropped /\ d # c
      <4>1. result'[d] = result[d]
        BY <3>2, <1>2
      <4> QED BY <3>2, <4>1, <1>11 DEF CommandInv, PlaceInv, ResultInv
    <3>3. CASE d = c /\ d \notin dropped
      <4>1. result'[d] = "empty"
        BY <3>3, <1>2 DEF CommandInv, ChannelInv, Untouched
      <4> QED BY <4>1
    <3> QED BY <3>1, <3>2, <3>3
  <2> QED BY <2>1, <1>2 DEF ResultInv
<1>14. AnswerInv'
  <2>1. ASSUME NEW d \in Command
        PROVE  /\ client'[d] = "full"     => ran[d] = 0 /\ Nowhere(d)'
               /\ client'[d] = "executed" => ran[d] = 1 /\ worked[d]
               /\ client'[d] = "failed"   => ran[d] = 1 /\ ~worked[d]
    BY <1>6, <1>11 DEF CommandInv, PlaceInv, AnswerInv
  <2> QED BY <2>1, <1>2 DEF AnswerInv
<1> QED BY <1>7, <1>8, <1>9, <1>10, <1>13, <1>14 DEF PlaceInv

(* next pops the head, which is now in the poller's hands and nowhere else.*)
LEMMA PopStep ==
  ASSUME CommandInv, NEW p \in Poller, Pop(p)
  PROVE  PlaceInv'
<1> DEFINE s == PollSite[p]
           c == Head(queues[s])
<1>1. /\ s \in Site
      /\ queues[s] \in Seq(Command)
      /\ TypeOK
  BY DEF CommandInv, ChannelInv, TypeInv, TypeOK
<1>2. /\ queues[s] # <<>>
      /\ carried' = [carried EXCEPT ![p] = c]
      /\ queues'  = [queues EXCEPT ![s] = Tail(queues[s])]
      /\ UNCHANGED <<result, client, agent, job, ran, worked, reports>>
  BY DEF Pop, Popped, clientVars, agentVars
<1> HIDE DEF s
<1>3. /\ c \in Elems(queues[s])
      /\ c \in Command
      /\ Elems(queues[s]) = Elems(queues'[s]) \cup {c}
      /\ NoDup(queues'[s])
      /\ c \notin Elems(queues'[s])
      /\ Len(queues'[s]) <= QueueCap
  <2>1. NoDup(queues[s]) /\ Len(queues[s]) <= QueueCap
    BY <1>1 DEF CommandInv, PlaceInv, QueueInv
  <2>2. queues'[s] = Tail(queues[s])
    BY <1>1, <1>2 DEF TypeOK
  <2>3. Len(queues[s]) \in Nat
    BY <1>1
  <2> QED BY <1>1, <1>2, <2>1, <2>2, <2>3, TailFacts
<1>4. /\ SiteOf[c] = s
      /\ client[c] # "new"
      /\ ran[c] = 0
      /\ \A q \in Poller : carried[q] # c
      /\ \A t \in Site : job[t] # c
  BY <1>1, <1>3 DEF CommandInv, PlaceInv, QueueInv
<1>5. \A t \in Site \ {s} : queues'[t] = queues[t]
  BY <1>1, <1>2 DEF TypeOK
<1> HIDE DEF c
<1>6. carried'[p] = c /\ \A q \in Poller \ {p} : carried'[q] = carried[q]
  BY <1>1, <1>2 DEF TypeOK
<1>7. (AtMostOnce /\ UnbornInv)'
  BY <1>2 DEF CommandInv, PlaceInv, AtMostOnce, UnbornInv
<1>8. \A t \in Site : Elems(queues'[t]) \subseteq Elems(queues[t]) /\ c \notin Elems(queues'[t])
  BY <1>3, <1>4, <1>5 DEF CommandInv, PlaceInv, QueueInv
<1>9. QueueInv'
  <2>1. \A t \in Site : NoDup(queues'[t]) /\ Len(queues'[t]) <= QueueCap
    BY <1>3, <1>5 DEF CommandInv, PlaceInv, QueueInv
  <2>2. ASSUME NEW t \in Site, NEW d \in Elems(queues'[t])
        PROVE  /\ SiteOf[d] = t
               /\ client[d] # "new"
               /\ ran[d] = 0
               /\ \A q \in Poller : carried'[q] # d
               /\ \A u \in Site : job[u] # d
    <3>1. d \in Elems(queues[t]) /\ d # c
      BY <1>8
    <3>2. /\ SiteOf[d] = t
          /\ client[d] # "new"
          /\ ran[d] = 0
          /\ \A q \in Poller : carried[q] # d
          /\ \A u \in Site : job[u] # d
      BY <3>1 DEF CommandInv, PlaceInv, QueueInv
    <3> QED BY <3>1, <3>2, <1>6
  <2> QED BY <2>1, <2>2, <1>2 DEF QueueInv
<1>10. CarriedInv'
  BY <1>2, <1>4, <1>6 DEF CommandInv, PlaceInv, CarriedInv, s
<1>11. JobInv' /\ ReportInv'
  BY <1>2 DEF CommandInv, PlaceInv, JobInv, ReportInv
<1>12. ASSUME NEW d \in Command, Nowhere(d) PROVE Nowhere(d)'
  <2>1. d # c
    BY <1>1, <1>3, <1>12 DEF Nowhere
  <2> QED BY <2>1, <1>2, <1>6, <1>8, <1>12 DEF Nowhere
<1>13. (ResultInv /\ AnswerInv)'
  BY <1>2, <1>12 DEF CommandInv, PlaceInv, ResultInv, AnswerInv
<1> QED BY <1>7, <1>9, <1>10, <1>11, <1>13 DEF PlaceInv

(* The handler's response reaches its agent, which now holds the command,  *)
(* or reaches nobody, and the command is lost.                             *)
LEMMA DeliverStep ==
  ASSUME CommandInv, NEW p \in Poller, Deliver(p)
  PROVE  PlaceInv'
<1> DEFINE s == PollSite[p]
           c == carried[p]
<1>1. s \in Site /\ c \in Command /\ c # None /\ TypeOK
  BY DEF Deliver, CommandInv, ChannelInv, TypeInv, TypeOK, Busy
<1>2. /\ carried' = [carried EXCEPT ![p] = None]
      /\ UNCHANGED <<queues, result, client, ran, worked, reports>>
  BY DEF Deliver, brokerVars, clientVars
<1>3. \/ /\ agent' = [agent EXCEPT ![s] = "executing"]
         /\ job'   = [job EXCEPT ![s] = c]
      \/ UNCHANGED <<agent, job>>
  BY DEF Deliver
<1>4. /\ SiteOf[c] = s
      /\ client[c] # "new"
      /\ ran[c] = 0
      /\ \A q \in Poller : carried[q] = c => q = p
      /\ \A t \in Site : job[t] # c /\ c \notin Elems(queues[t])
  BY <1>1 DEF CommandInv, PlaceInv, CarriedInv, QueueInv
<1> HIDE DEF s, c
<1>5. /\ carried'[p] = None
      /\ \A q \in Poller \ {p} : carried'[q] = carried[q]
  BY <1>1, <1>2 DEF TypeOK
<1>6. \A t \in Site : \/ job'[t] = job[t] /\ agent'[t] = agent[t]
                      \/ t = s /\ job'[t] = c
  BY <1>1, <1>3 DEF TypeOK
<1>7. (AtMostOnce /\ UnbornInv)'
  BY <1>2 DEF CommandInv, PlaceInv, AtMostOnce, UnbornInv
<1>8. QueueInv'
  <2>1. ASSUME NEW t \in Site, NEW d \in Elems(queues[t])
        PROVE  /\ \A q \in Poller : carried'[q] # d
               /\ \A u \in Site : job'[u] # d
    <3>1. d \in Command /\ d # c
      BY <1>1, <1>4 DEF Elems, TypeOK
    <3> QED BY <3>1, <1>5, <1>6 DEF CommandInv, PlaceInv, QueueInv
  <2> QED BY <2>1, <1>2 DEF CommandInv, PlaceInv, QueueInv
<1>9. CarriedInv'
  BY <1>2, <1>4, <1>5, <1>6 DEF CommandInv, PlaceInv, CarriedInv, c
<1>10. JobInv'
  BY <1>2, <1>4, <1>6 DEF CommandInv, PlaceInv, JobInv
<1>11. ReportInv'
  BY <1>2 DEF CommandInv, PlaceInv, ReportInv
<1>12. ASSUME NEW d \in Command, Nowhere(d) PROVE Nowhere(d)'
  <2>1. d # c
    BY <1>12 DEF Nowhere, c
  <2> QED BY <2>1, <1>2, <1>5, <1>6, <1>12 DEF Nowhere
<1>13. (ResultInv /\ AnswerInv)'
  BY <1>2, <1>12 DEF CommandInv, PlaceInv, ResultInv, AnswerInv
<1> QED BY <1>7, <1>8, <1>9, <1>10, <1>11, <1>13 DEF PlaceInv

(* The camera executes a command that is nowhere else, for the first time. *)
LEMMA ExecuteStep ==
  ASSUME CommandInv, NEW s \in Site, Execute(s)
  PROVE  PlaceInv'
<1> DEFINE c == job[s]
<1>1. c \in Command /\ c # None /\ TypeOK
  BY DEF Execute, CommandInv, ChannelInv, TypeInv, TypeOK, Busy
<1>2. PICK success \in BOOLEAN :
        /\ ran'     = [ran EXCEPT ![c] = ran[c] + 1]
        /\ worked'  = [worked EXCEPT ![c] = success]
        /\ reports' = reports \cup {[site |-> s, id |-> c, success |-> success]}
  BY DEF Execute
<1>3. /\ agent' = [agent EXCEPT ![s] = "reporting"]
      /\ UNCHANGED <<queues, carried, job, result, client>>
  BY DEF Execute, brokerVars, clientVars, pollVars
<1>4. SiteOf[c] = s /\ client[c] # "new" /\ ran[c] = 0
  BY <1>1 DEF Execute, CommandInv, PlaceInv, JobInv
<1>5. /\ \A t \in Site   : c \notin Elems(queues[t])
      /\ \A p \in Poller : carried[p] # c
      /\ \A t \in Site   : job[t] = c => t = s
  BY <1>1 DEF CommandInv, PlaceInv, QueueInv, CarriedInv, JobInv
<1>6. ~Nowhere(c)
  BY DEF Nowhere
<1> HIDE DEF c
<1>7. /\ ran'[c] = 1
      /\ worked'[c] = success
      /\ \A d \in Command \ {c} : ran'[d] = ran[d] /\ worked'[d] = worked[d]
  BY <1>1, <1>2, <1>4 DEF TypeOK
<1>8. \A t \in Site : agent'[t] = "executing" => t # s /\ agent[t] = "executing"
  BY <1>3, <1>1 DEF TypeOK
<1>9. (AtMostOnce /\ UnbornInv)'
  BY <1>3, <1>4, <1>7 DEF CommandInv, PlaceInv, AtMostOnce, UnbornInv
<1>10. QueueInv'
  <2>1. ASSUME NEW t \in Site, NEW d \in Elems(queues[t]) PROVE ran'[d] = ran[d]
    BY <1>1, <1>5, <1>7 DEF Elems, TypeOK
  <2> QED BY <2>1, <1>3 DEF CommandInv, PlaceInv, QueueInv
<1>11. CarriedInv'
  BY <1>1, <1>3, <1>5, <1>7 DEF CommandInv, PlaceInv, CarriedInv, TypeOK
<1>12. JobInv'
  <2>1. ASSUME NEW t \in Site, agent'[t] = "executing" PROVE ran'[job[t]] = 0
    <3>1. t # s /\ agent[t] = "executing"
      BY <2>1, <1>8
    <3>2. job[t] \in Command /\ job[t] # c
      BY <3>1, <1>5, <1>1 DEF CommandInv, ChannelInv, TypeInv, TypeOK, Busy
    <3> QED BY <3>1, <3>2, <1>7 DEF CommandInv, PlaceInv, JobInv
  <2> QED BY <2>1, <1>3 DEF CommandInv, PlaceInv, JobInv
<1>13. ReportInv'
  <2>1. ASSUME NEW r \in reports, SiteOf[r.id] = r.site
        PROVE  ran'[r.id] = 1 /\ (worked'[r.id] <=> r.success)
    <3>1. r.id \in Command /\ ran[r.id] = 1 /\ (worked[r.id] <=> r.success)
      BY <2>1, <1>1 DEF CommandInv, PlaceInv, ReportInv, TypeOK, Report
    <3>2. r.id # c
      BY <3>1, <1>4
    <3> QED BY <3>1, <3>2, <1>7
  <2> QED BY <2>1, <1>2, <1>7 DEF ReportInv
<1>14. ASSUME NEW d \in Command, d # c, Nowhere(d) PROVE Nowhere(d)'
  BY <1>14, <1>3 DEF Nowhere
<1>15. (ResultInv /\ AnswerInv)'
  <2>1. /\ result[c] \notin {"full", "ok", "failed"}
        /\ client[c] \notin {"full", "executed", "failed"}
    BY <1>1, <1>4, <1>6 DEF CommandInv, PlaceInv, ResultInv, AnswerInv
  <2>2. ResultInv'
    BY <2>1, <1>3, <1>7, <1>14 DEF CommandInv, PlaceInv, ResultInv
  <2>3. AnswerInv'
    BY <2>1, <1>3, <1>7, <1>14 DEF CommandInv, PlaceInv, AnswerInv
  <2> QED BY <2>2, <2>3
<1> QED BY <1>9, <1>10, <1>11, <1>12, <1>13, <1>15 DEF PlaceInv

(* completePTZCommand of the command's site fills the empty channel with   *)
(* what the camera did.                                                    *)
LEMMA ResolveStep ==
  ASSUME CommandInv, NEW r \in reports, ReportArrives(r)
  PROVE  PlaceInv'
<1>1. UNCHANGED <<queues, carried, agent, job, ran, worked, client>>
  BY DEF ReportArrives, Resolve, clientVars, pollVars, agentVars
<1>2. reports' \subseteq reports
  BY DEF ReportArrives, Resolve
<1>3. CASE Accepts(r)
  <2>1. /\ r.id \in Command
        /\ result' = [result EXCEPT ![r.id] = IF r.success THEN "ok" ELSE "failed"]
        /\ ran[r.id] = 1 /\ (worked[r.id] <=> r.success)
        /\ TypeOK
    BY <1>3 DEF ReportArrives, Resolve, Accepts, Fill, CommandInv, ChannelInv, TypeInv,
                   TypeOK, PlaceInv, ReportInv
  <2>2. ResultInv'
    <3>1. ASSUME NEW d \in Command
          PROVE  /\ result'[d] = "full"   => ran[d] = 0 /\ Nowhere(d)'
                 /\ result'[d] = "ok"     => ran[d] = 1 /\ worked[d]
                 /\ result'[d] = "failed" => ran[d] = 1 /\ ~worked[d]
      <4>1. CASE d = r.id
        BY <4>1, <2>1 DEF TypeOK
      <4>2. CASE d # r.id
        <5>1. result'[d] = result[d]
          BY <4>2, <2>1 DEF TypeOK
        <5> QED BY <5>1, <1>1 DEF CommandInv, PlaceInv, ResultInv, Nowhere
      <4> QED BY <4>1, <4>2
    <3> QED BY <3>1, <1>1 DEF ResultInv
  <2>3. (AtMostOnce /\ UnbornInv /\ QueueInv /\ CarriedInv /\ JobInv)'
    BY <1>1 DEF CommandInv, PlaceInv, AtMostOnce, UnbornInv, QueueInv, CarriedInv, JobInv
  <2>4. (ReportInv /\ AnswerInv)'
    BY <1>1, <1>2 DEF CommandInv, PlaceInv, ReportInv, AnswerInv, Nowhere
  <2> QED BY <2>2, <2>3, <2>4 DEF PlaceInv
<1>4. CASE ~Accepts(r)
  <2>1. result' = result
    BY <1>4 DEF ReportArrives, Resolve
  <2> QED BY <1>1, <1>2, <2>1, StillStep
<1> QED BY <1>3, <1>4

(* The requester is told what the channel holds, or is left unsure.        *)
LEMMA AnswerStep ==
  ASSUME CommandInv, NEW c \in Command, ReceiveResult(c) \/ GiveUp(c)
  PROVE  PlaceInv'
<1>1. /\ UNCHANGED <<queues, carried, agent, job, ran, worked, reports>>
      /\ client[c] = "waiting"
      /\ TypeOK
  BY DEF ReceiveResult, GiveUp, brokerVars, pollVars, agentVars, CommandInv, ChannelInv, TypeInv
<1>2. /\ \A d \in Command \ {c} : client'[d] = client[d]
      /\ client'[c] \in {"executed", "failed", "full", "unsure"}
      /\ client'[c] = "executed" => result[c] = "ok"
      /\ client'[c] = "failed"   => result[c] = "failed"
      /\ client'[c] = "full"     => result[c] = "full"
  <2>1. CASE ReceiveResult(c)
    <3>1. result[c] \in Results
      BY <2>1, <1>1 DEF ReceiveResult, TypeOK
    <3> QED BY <2>1, <3>1, <1>1 DEF ReceiveResult, TypeOK, Results
  <2>2. CASE GiveUp(c)
    BY <2>2, <1>1 DEF GiveUp, TypeOK
  <2> QED BY <2>1, <2>2
<1>3. \A d \in Command : result'[d] = result[d] \/ result'[d] = "empty"
  BY <1>1 DEF ReceiveResult, GiveUp, brokerVars, TypeOK
<1>4. \A d \in Command : client'[d] = "new" <=> client[d] = "new"
  BY <1>1, <1>2
<1>5. (AtMostOnce /\ UnbornInv)'
  BY <1>1, <1>4 DEF CommandInv, PlaceInv, AtMostOnce, UnbornInv
<1>6. (QueueInv /\ CarriedInv /\ JobInv)'
  <2>1. /\ \A s \in Site : \A d \in Elems(queues[s]) : d \in Command
        /\ \A p \in Poller : carried[p] # None => carried[p] \in Command
        /\ \A s \in Site : job[s] # None => job[s] \in Command
    BY <1>1 DEF TypeOK, Elems
  <2>2. QueueInv'
    BY <1>1, <1>4, <2>1 DEF CommandInv, PlaceInv, QueueInv
  <2>3. (CarriedInv /\ JobInv)'
    BY <1>1, <1>4, <2>1 DEF CommandInv, PlaceInv, CarriedInv, JobInv
  <2> QED BY <2>2, <2>3
<1>7. ReportInv'
  BY <1>1 DEF CommandInv, PlaceInv, ReportInv
<1>8. (ResultInv /\ AnswerInv)'
  <2>1. \A d \in Command : Nowhere(d)' <=> Nowhere(d)
    BY <1>1 DEF Nowhere
  <2>2. ResultInv'
    BY <1>1, <1>3, <2>1 DEF CommandInv, PlaceInv, ResultInv
  <2>3. AnswerInv'
    BY <1>1, <1>2, <2>1 DEF CommandInv, PlaceInv, AnswerInv, ResultInv
  <2> QED BY <2>2, <2>3
<1> QED BY <1>5, <1>6, <1>7, <1>8 DEF PlaceInv

(* The agent forgets its command, reported or not.                         *)
LEMMA ForgetStep ==
  ASSUME CommandInv, NEW s \in Site, ReportReturns(s) \/ AgentRestart(s)
  PROVE  PlaceInv'
<1>1. /\ UNCHANGED <<queues, carried, ran, worked, reports, result, client>>
      /\ job'   = [job EXCEPT ![s] = None]
      /\ agent' = [agent EXCEPT ![s] = "idle"]
      /\ TypeOK
  BY DEF ReportReturns, AgentRestart, brokerVars, clientVars, pollVars,
         CommandInv, ChannelInv, TypeInv
<1>2. \A t \in Site :
        /\ job'[t] = job[t] \/ job'[t] = None
        /\ agent'[t] = "executing" => t # s /\ agent[t] = "executing"
        /\ t # s => job'[t] = job[t]
  BY <1>1 DEF TypeOK
<1>3. (AtMostOnce /\ UnbornInv /\ ReportInv)'
  BY <1>1 DEF CommandInv, PlaceInv, AtMostOnce, UnbornInv, ReportInv
<1>4. ASSUME NEW d \in Command, \A t \in Site : job[t] # d
      PROVE  \A t \in Site : job'[t] # d
  <2>1. d # None
    OBVIOUS
  <2> QED BY <1>2, <1>4, <2>1
<1>5. QueueInv'
  <2>1. \A t \in Site : \A d \in Elems(queues[t]) : d \in Command
    BY <1>1 DEF TypeOK, Elems
  <2> QED BY <1>1, <1>4, <2>1 DEF CommandInv, PlaceInv, QueueInv
<1>6. CarriedInv'
  <2>1. \A p \in Poller : carried[p] # None => carried[p] \in Command
    BY <1>1 DEF TypeOK
  <2> QED BY <1>1, <1>4, <2>1 DEF CommandInv, PlaceInv, CarriedInv
<1>7. JobInv'
  <2>1. /\ ran' = ran
        /\ client' = client
    BY <1>1
  <2>2. ASSUME NEW t \in Site
        PROVE  /\ job'[t] # None => SiteOf[job'[t]] = t /\ client[job'[t]] # "new"
               /\ agent'[t] = "executing" => ran[job'[t]] = 0
    BY <1>2 DEF CommandInv, PlaceInv, JobInv
  <2> QED BY <2>1, <2>2 DEF JobInv
<1>8. (ResultInv /\ AnswerInv)'
  <2>1. \A d \in Command : Nowhere(d) => Nowhere(d)'
    BY <1>1, <1>4 DEF Nowhere
  <2> QED BY <1>1, <2>1 DEF CommandInv, PlaceInv, ResultInv, AnswerInv
<1> QED BY <1>3, <1>5, <1>6, <1>7, <1>8 DEF PlaceInv

(* A restart of the cloud empties the queues and the handlers' hands; what *)
(* agents hold and what cameras did stays.                                 *)
LEMMA CloudRestartStep ==
  ASSUME CommandInv, CloudRestart
  PROVE  PlaceInv'
<1>1. /\ queues'  = [s \in Site |-> <<>>]
      /\ carried' = [p \in Poller |-> None]
      /\ result'  = [c \in Command |-> "empty"]
      /\ UNCHANGED <<job, ran, worked, reports>>
  BY DEF CloudRestart
<1>2. /\ \A c \in Command : client'[c] = client[c] \/ client'[c] = "unsure"
      /\ \A s \in Site : agent'[s] = "executing" => agent[s] = "executing"
      /\ TypeOK
  <2>1. TypeOK
    BY DEF CommandInv, ChannelInv, TypeInv
  <2>2. ASSUME NEW c \in Command
        PROVE  client'[c] = client[c] \/ client'[c] = "unsure"
    BY DEF CloudRestart
  <2>3. ASSUME NEW s \in Site, agent'[s] = "executing" PROVE agent[s] = "executing"
    BY <2>3 DEF CloudRestart
  <2> QED BY <2>1, <2>2, <2>3
<1>3. Elems(<<>>) = {} /\ NoDup(<<>>) /\ Len(<<>>) = 0
  BY DEF Elems, NoDup
<1>4. (AtMostOnce /\ UnbornInv)'
  BY <1>1, <1>2 DEF CommandInv, PlaceInv, AtMostOnce, UnbornInv
<1>5. (QueueInv /\ CarriedInv)'
  BY <1>1, <1>3 DEF QueueInv, CarriedInv
<1>6. JobInv'
  <2>1. \A s \in Site : job[s] # None => job[s] \in Command
    BY <1>2 DEF TypeOK
  <2> QED BY <1>1, <1>2, <2>1 DEF CommandInv, PlaceInv, JobInv
<1>7. ReportInv'
  BY <1>1 DEF CommandInv, PlaceInv, ReportInv
<1>8. \A c \in Command : Nowhere(c) => Nowhere(c)'
  BY <1>1, <1>3 DEF Nowhere
<1>9. ResultInv'
  BY <1>1 DEF ResultInv
<1>10. AnswerInv'
  BY <1>1, <1>2, <1>8 DEF CommandInv, PlaceInv, AnswerInv
<1> QED BY <1>4, <1>5, <1>6, <1>7, <1>9, <1>10 DEF PlaceInv

LEMMA CommandStep == CommandInv /\ [Next]_vars => CommandInv'
<1> SUFFICES ASSUME CommandInv, [Next]_vars PROVE PlaceInv'
  BY ChannelStep DEF CommandInv
<1> TypeOK
  BY DEF CommandInv, ChannelInv, TypeInv
<1> USE DEF brokerVars, clientVars, pollVars, agentVars
<1>1. ASSUME NEW c \in Command, Abandon(c) PROVE PlaceInv'
  BY <1>1, StillStep DEF Abandon
<1>2. ASSUME NEW p \in Poller, FindEmpty(p) \/ TakeNotice(p) \/ Park(p) \/ ContextDone(p)
      PROVE  PlaceInv'
  BY <1>2, StillStep DEF FindEmpty, TakeNotice, Park, ContextDone
<1>3. ASSUME NEW p \in Poller, EndPoll(p) PROVE PlaceInv'
  <2>1. \A s \in Site : agent'[s] = "executing" => agent[s] = "executing"
    BY <1>3 DEF EndPoll, NoCommand, TypeOK
  <2> QED BY <1>3, <2>1, StillStep DEF EndPoll, NoCommand
<1>4. ASSUME NEW s \in Site, BreakPoll(s) \/ \E p \in Poller : Poll(s, p) PROVE PlaceInv'
  <2>1. \A t \in Site : agent'[t] = "executing" => agent[t] = "executing"
    BY <1>4 DEF BreakPoll, NoCommand, Poll, TypeOK
  <2> QED BY <1>4, <2>1, StillStep DEF BreakPoll, NoCommand, Poll
<1>5. ASSUME NEW r \in reports, LoseReport(r) PROVE PlaceInv'
  BY <1>5, StillStep DEF LoseReport
<1>6. ASSUME NEW s \in Site, NEW c \in Command, StrayReport(s, c) PROVE PlaceInv'
  <2>1. UNCHANGED <<queues, carried, agent, job, ran, worked, reports, client, result>>
    BY <1>6 DEF StrayReport, Resolve, Accepts
  <2> QED BY <2>1, StillStep
<1>7. CASE UNCHANGED vars
  BY <1>7, StillStep DEF vars
<1> QED BY <1>1, <1>2, <1>3, <1>4, <1>5, <1>6, <1>7, EnqueueStep, PopStep, DeliverStep,
           ExecuteStep, ResolveStep, AnswerStep, ForgetStep, CloudRestartStep
        DEF Next, RequesterStep, HandlerStep, AgentStep

(* A camera executes a command at most once: a queued command was never    *)
(* executed, one poller pops it, one agent receives it, and no retry sends *)
(* it again (ptz_broker.go:69-76, main.go:236-273).                        *)
THEOREM OnceOnly == Spec => []AtMostOnce
<1>1. CommandInv => AtMostOnce
  BY DEF CommandInv, PlaceInv
<1> QED BY <1>1, CommandInit, CommandStep, PTL DEF Spec

(* What controlPTZ answers (ptz_handlers.go:78-92) is what happened: "full"*)
(* means never, an execution or an error was the camera's.                 *)
THEOREM AnswersAreHonest == Spec => []HonestAnswer
<1>1. CommandInv => HonestAnswer
  BY DEF CommandInv, PlaceInv, AnswerInv, HonestAnswer, Nowhere
<1> QED BY <1>1, CommandInit, CommandStep, PTL DEF Spec

(* No queue outgrows its limit (ptz_broker.go:32-40), and no agent ever    *)
(* holds a command, with the camera's credentials, of another site.        *)
THEOREM CommandsStayHome == Spec => []QueuesInBounds
<1>1. CommandInv => QueuesInBounds
  BY DEF CommandInv, PlaceInv, QueueInv, JobInv, QueuesInBounds
<1> QED BY <1>1, CommandInit, CommandStep, PTL DEF Spec

----------------------------------------------------------------------------
(* The broker implements Mailbox. Each step is a step of the mailbox, or   *)
(* leaves it alone, which is Lose of nothing. A command's place in the     *)
(* mailbox follows from three facts about it.                              *)

(* Only a handler that writes has a command in hand, only an agent that    *)
(* executes or reports has a job, and only one that polls has a poll.      *)
CarriedHand == \A p \in Poller : carried[p] # None => pc[p] = "deliver"

AgentHand == \A s \in Site : /\ job[s] # None => agent[s] \in {"executing", "reporting"}
                             /\ poll[s] # None => agent[s] = "polling"

MailInv == CommandInv /\ CarriedHand /\ AgentHand

LEMMA MailInit == Init => MailInv
BY CommandInit DEF Init, MailInv, CarriedHand, AgentHand

LEMMA HandStep ==
  ASSUME TypeInv, CarriedHand, AgentHand, [Next]_vars
  PROVE  CarriedHand' /\ AgentHand'
<1> TypeOK
  BY DEF TypeInv
<1> USE DEF CarriedHand, AgentHand, brokerVars, clientVars, pollVars, agentVars
<1>1. ASSUME NEW c \in Command, RequesterStep(c) PROVE CarriedHand' /\ AgentHand'
  <2>1. CASE Enqueue(c)
    <3>1. SiteOf[c] \in Site /\ Notify(SiteOf[c]) /\ UNCHANGED <<carried, agent, poll, job>>
      BY <2>1 DEF Enqueue
    <3>2. \A p \in Poller : pc[p] = "deliver" => pc'[p] = "deliver"
      BY <3>1 DEF Notify, Parked, TypeOK
    <3> QED BY <3>1, <3>2
  <2> QED BY <1>1, <2>1 DEF RequesterStep, ReceiveResult, GiveUp, Abandon
<1>2. ASSUME NEW p \in Poller, Pop(p) PROVE CarriedHand' /\ AgentHand'
  BY <1>2 DEF Pop, TypeOK
<1>3. ASSUME NEW p \in Poller, FindEmpty(p) \/ TakeNotice(p) \/ Park(p) \/ ContextDone(p)
      PROVE  CarriedHand' /\ AgentHand'
  BY <1>3 DEF FindEmpty, TakeNotice, Park, ContextDone, TypeOK
<1>4. ASSUME NEW p \in Poller, EndPoll(p) PROVE CarriedHand' /\ AgentHand'
  BY <1>4 DEF EndPoll, NoCommand, TypeOK
<1>5. ASSUME NEW p \in Poller, Deliver(p) PROVE CarriedHand' /\ AgentHand'
  <2>1. CarriedHand'
    BY <1>5 DEF Deliver, TypeOK
  <2>2. CASE poll[PollSite[p]] = p
    <3>1. /\ agent' = [agent EXCEPT ![PollSite[p]] = "executing"]
          /\ poll'  = [poll EXCEPT ![PollSite[p]] = None]
          /\ job'   = [job EXCEPT ![PollSite[p]] = carried[p]]
      BY <1>5, <2>2 DEF Deliver
    <3> QED BY <2>1, <3>1 DEF TypeOK
  <2>3. CASE poll[PollSite[p]] # p
    BY <1>5, <2>1, <2>3 DEF Deliver
  <2> QED BY <2>2, <2>3
<1>6. ASSUME NEW s \in Site, NEW p \in Poller, Poll(s, p) PROVE CarriedHand' /\ AgentHand'
  <2>1. CarriedHand'
    BY <1>6 DEF Poll, TypeOK
  <2>2. /\ agent[s] = "idle" /\ job' = job
        /\ agent' = [agent EXCEPT ![s] = "polling"] /\ poll' = [poll EXCEPT ![s] = p]
    BY <1>6 DEF Poll
  <2>3. AgentHand'
    BY <2>2 DEF TypeOK
  <2> QED BY <2>1, <2>3
<1>7. ASSUME NEW s \in Site, Execute(s) \/ ReportReturns(s) \/ BreakPoll(s) \/ AgentRestart(s)
      PROVE  CarriedHand' /\ AgentHand'
  <2>1. CASE Execute(s)
    BY <2>1 DEF Execute, TypeOK
  <2>2. CASE ReportReturns(s)
    BY <2>2 DEF ReportReturns, TypeOK
  <2>3. CASE BreakPoll(s)
    BY <2>3 DEF BreakPoll, NoCommand, TypeOK
  <2>4. CASE AgentRestart(s)
    BY <2>4 DEF AgentRestart, TypeOK
  <2> QED BY <1>7, <2>1, <2>2, <2>3, <2>4
<1>8. ASSUME NEW s \in Site, NEW c \in Command, StrayReport(s, c) PROVE CarriedHand' /\ AgentHand'
  BY <1>8 DEF StrayReport, Resolve
<1>9. ASSUME NEW r \in reports, ReportArrives(r) \/ LoseReport(r)
      PROVE  CarriedHand' /\ AgentHand'
  BY <1>9 DEF ReportArrives, Resolve, LoseReport
<1>10. CASE CloudRestart
  BY <1>10 DEF CloudRestart
<1>11. CASE UNCHANGED vars
  BY <1>11 DEF vars
<1> QED BY <1>1, <1>2, <1>3, <1>4, <1>5, <1>6, <1>7, <1>8, <1>9, <1>10, <1>11
        DEF Next, HandlerStep, AgentStep

LEMMA MailStep == MailInv /\ [Next]_vars => MailInv'
BY CommandStep, HandStep DEF MailInv, CommandInv, ChannelInv

Same(c) == /\ Where(c)' = Where(c)
           /\ Outcome(c)' = Outcome(c)
           /\ Told(c)' = Told(c)

(* Steps of the mailbox, said of the places, outcomes and answers.         *)
LEMMA LoseMaps ==
  ASSUME NEW D \in SUBSET Command, NEW G \in SUBSET Command,
         \A c \in D : Where(c) \in {"offered", "taken"} /\ Outcome(c) = "none",
         \A c \in G : Where(c) # "new" /\ Told(c) = "none",
         \A c \in Command :
           /\ Where(c)' = IF c \in D THEN "dropped" ELSE Where(c)
           /\ Outcome(c)' = Outcome(c)
           /\ Told(c)' = IF c \in G THEN "unsure" ELSE Told(c)
  PROVE  Box!Next
<1>1. D \in SUBSET Box!Undone
  BY DEF Box!Undone, Box!At
<1>2. G \in SUBSET Box!Awaiting
  BY DEF Box!Awaiting, Box!At
<1>3. Box!Lose(D, G)
  BY DEF Box!Lose
<1> QED BY <1>1, <1>2, <1>3 DEF Box!Next

LEMMA SameMaps ==
  ASSUME \A c \in Command : Same(c)
  PROVE  Box!Next
<1>1. {} \in SUBSET Command
  OBVIOUS
<1>2. \A c \in Command :
        /\ Where(c)' = IF c \in {} THEN "dropped" ELSE Where(c)
        /\ Outcome(c)' = Outcome(c)
        /\ Told(c)' = IF c \in {} THEN "unsure" ELSE Told(c)
  BY DEF Same
<1> QED BY <1>1, <1>2, LoseMaps

LEMMA OfferMaps ==
  ASSUME NEW c \in Command, NEW D \in SUBSET Command, Where(c) = "new",
         \A d \in D : Where(d) = "offered",
         \A d \in Command :
           /\ Where(d)' = IF d = c THEN "offered" ELSE IF d \in D THEN "dropped" ELSE Where(d)
           /\ Outcome(d)' = Outcome(d)
           /\ Told(d)' = Told(d)
  PROVE  Box!Next
<1>1. c \in Box!At("new") /\ D \in SUBSET Box!At("offered")
  BY DEF Box!At
<1>2. Box!Offer(c, D)
  BY DEF Box!Offer
<1> QED BY <1>1, <1>2 DEF Box!Next

LEMMA TakeMaps ==
  ASSUME NEW c \in Command, Where(c) = "offered",
         \A d \in Command :
           /\ Where(d)' = IF d = c THEN "taken" ELSE Where(d)
           /\ Outcome(d)' = Outcome(d)
           /\ Told(d)' = Told(d)
  PROVE  Box!Next
<1>1. c \in Box!At("offered") /\ {} \in SUBSET (Box!At("offered") \ {c})
  BY DEF Box!At
<1>2. Box!Take(c, {})
  BY DEF Box!Take
<1> QED BY <1>1, <1>2 DEF Box!Next

LEMMA PerformMaps ==
  ASSUME NEW c \in Command, NEW o \in {"ok", "failed"}, Where(c) = "taken", Outcome(c) = "none",
         \A d \in Command :
           /\ Where(d)' = Where(d)
           /\ Outcome(d)' = IF d = c THEN o ELSE Outcome(d)
           /\ Told(d)' = Told(d)
  PROVE  Box!Next
<1>1. c \in Box!At("taken") /\ o \in Box!Outcomes \ {"none"}
  BY DEF Box!At, Box!Outcomes
<1>2. Box!Perform(c, o)
  BY DEF Box!Perform
<1> QED BY <1>1, <1>2 DEF Box!Next

LEMMA AnswerMaps ==
  ASSUME NEW c \in Command, NEW a \in {"executed", "failed", "full", "unsure"},
         Where(c) # "new", Told(c) = "none",
         a = "executed" => Outcome(c) = "ok",
         a = "failed" => Outcome(c) = "failed",
         a = "full" => Where(c) = "dropped",
         \A d \in Command :
           /\ Where(d)' = Where(d)
           /\ Outcome(d)' = Outcome(d)
           /\ Told(d)' = IF d = c THEN a ELSE Told(d)
  PROVE  Box!Next
<1>1. c \in Box!Awaiting /\ a \in Box!Answers \ {"none"}
  BY DEF Box!Awaiting, Box!At, Box!Answers
<1>2. Box!Answer(c, a)
  BY DEF Box!Answer
<1> QED BY <1>1, <1>2 DEF Box!Next

(* A step that leaves commands, executions and answers where they are.     *)
LEMMA StillMaps ==
  ASSUME UNCHANGED <<queues, carried, job, ran, worked, client>>
  PROVE  Box!Next
<1>1. \A c \in Command : Same(c)
  BY DEF Same, Where, Queued, Held, Outcome, Told
<1> QED BY <1>1, SameMaps

(* enqueue offers its command; the head of a full queue is dropped.        *)
LEMMA EnqueueMaps ==
  ASSUME CommandInv, NEW c \in Command, Enqueue(c)
  PROVE  Box!Next
<1> DEFINE s == SiteOf[c]
           D == Overflow(queues[s])
<1>1. /\ s \in Site /\ queues \in [Site -> Seq(Command)]
      /\ queues[s] \in Seq(Command) /\ Kept(queues[s]) \in Seq(Command)
      /\ client \in [Command -> {"new", "waiting", "executed", "failed", "full", "unsure"}]
  BY KeptFacts DEF CommandInv, ChannelInv, TypeInv, TypeOK
<1>2. /\ client[c] = "new" /\ client' = [client EXCEPT ![c] = "waiting"]
      /\ queues' = [queues EXCEPT ![s] = Append(Kept(queues[s]), c)]
      /\ UNCHANGED <<carried, job, ran, worked>>
  BY DEF Enqueue, agentVars
<1>3. /\ Elems(queues'[s]) = Elems(Kept(queues[s])) \cup {c}
      /\ Elems(queues[s]) = Elems(Kept(queues[s])) \cup D
      /\ Elems(Kept(queues[s])) \cap D = {}
  BY <1>1, <1>2, KeptFacts, AppendFacts DEF CommandInv, PlaceInv, QueueInv
<1>4. \A d \in D : /\ d \in Command /\ SiteOf[d] = s /\ client[d] # "new" /\ Queued(d)
                   /\ ~Held(d)
  <2>1. \A d \in Elems(queues[s]) : d \in Command
    BY <1>1 DEF Elems
  <2> QED BY <1>1, <1>3, <2>1 DEF CommandInv, PlaceInv, QueueInv, Queued, Held
<1> HIDE DEF D
<1>5. ASSUME NEW d \in Command
      PROVE  /\ Where(d)' = IF d = c THEN "offered" ELSE IF d \in D THEN "dropped" ELSE Where(d)
             /\ Outcome(d)' = Outcome(d)
             /\ Told(d)' = Told(d)
  <2>1. Held(d)' = Held(d) /\ Outcome(d)' = Outcome(d)
    BY <1>2 DEF Held, Outcome
  <2>2. CASE d = c
    <3>1. client'[d] = "waiting" /\ Queued(d)'
      BY <1>1, <1>2, <1>3, <2>2 DEF Queued
    <3> QED BY <1>2, <2>1, <2>2, <3>1 DEF Where, Told
  <2>3. CASE d # c /\ d \in D
    <3>1. client'[d] = client[d] /\ ~Queued(d)'
      BY <1>1, <1>2, <1>3, <1>4, <2>3 DEF Queued
    <3> QED BY <1>4, <2>1, <2>3, <3>1 DEF Where, Told
  <2>4. CASE d # c /\ d \notin D
    <3>1. client'[d] = client[d]
      BY <1>1, <1>2, <2>4
    <3>2. Queued(d)' = Queued(d)
      <4>1. CASE SiteOf[d] = s
        BY <1>3, <2>4, <4>1 DEF Queued
      <4>2. CASE SiteOf[d] # s
        BY <1>1, <1>2, <4>2 DEF Queued
      <4> QED BY <4>1, <4>2
    <3> QED BY <2>1, <2>4, <3>1, <3>2 DEF Where, Told
  <2> QED BY <2>2, <2>3, <2>4
<1>6. Where(c) = "new" /\ \A d \in D : Where(d) = "offered"
  BY <1>2, <1>4 DEF Where
<1>7. D \in SUBSET Command
  BY <1>4
<1> QED BY <1>5, <1>6, <1>7, OfferMaps

(* next takes the head of the queue.                                       *)
LEMMA PopMaps ==
  ASSUME MailInv, NEW p \in Poller, Pop(p)
  PROVE  Box!Next
<1> DEFINE s == PollSite[p]
           c == Head(queues[s])
<1>1. /\ s \in Site /\ queues \in [Site -> Seq(Command)] /\ queues[s] \in Seq(Command)
      /\ carried \in [Poller -> Command \cup {None}]
  BY DEF MailInv, CommandInv, ChannelInv, TypeInv, TypeOK
<1>2. /\ queues[s] # <<>>
      /\ carried' = [carried EXCEPT ![p] = c]
      /\ queues'  = [queues EXCEPT ![s] = Tail(queues[s])]
      /\ UNCHANGED <<client, job, ran, worked>>
      /\ pc[p] = "lock"
  BY DEF Pop, Popped, clientVars, agentVars
<1>3. /\ c \in Command
      /\ Elems(queues[s]) = Elems(queues'[s]) \cup {c}
      /\ c \notin Elems(queues'[s])
  BY <1>1, <1>2, TailFacts DEF MailInv, CommandInv, PlaceInv, QueueInv
<1>4. SiteOf[c] = s /\ client[c] # "new" /\ Queued(c)
  BY <1>1, <1>3 DEF MailInv, CommandInv, PlaceInv, QueueInv, Queued
<1> HIDE DEF c
<1>5. ASSUME NEW d \in Command
      PROVE  /\ Where(d)' = IF d = c THEN "taken" ELSE Where(d)
             /\ Outcome(d)' = Outcome(d)
             /\ Told(d)' = Told(d)
  <2>1. Outcome(d)' = Outcome(d) /\ Told(d)' = Told(d)
    BY <1>2 DEF Outcome, Told
  <2>2. CASE d = c
    <3>1. ~Queued(d)' /\ Held(d)'
      BY <1>1, <1>2, <1>3, <1>4, <2>2 DEF Queued, Held
    <3> QED BY <1>2, <1>4, <2>1, <2>2, <3>1 DEF Where
  <2>3. CASE d # c
    <3>1. Queued(d)' = Queued(d)
      <4>1. CASE SiteOf[d] = s
        BY <1>3, <2>3, <4>1 DEF Queued
      <4>2. CASE SiteOf[d] # s
        BY <1>1, <1>2, <4>2 DEF Queued
      <4> QED BY <4>1, <4>2
    <3>2. carried[p] = None
      BY <1>2 DEF MailInv, CarriedHand
    <3>3. Held(d)' = Held(d)
      <4>1. \A q \in Poller : carried'[q] = d <=> carried[q] = d
        BY <1>1, <1>2, <2>3, <3>2
      <4> QED BY <1>2, <4>1 DEF Held
    <3> QED BY <1>2, <2>1, <2>3, <3>1, <3>3 DEF Where
  <2> QED BY <2>2, <2>3
<1> QED BY <1>3, <1>4, <1>5, TakeMaps DEF Where

(* The handler hands its command over, or loses it.                        *)
LEMMA DeliverMaps ==
  ASSUME MailInv, NEW p \in Poller, Deliver(p)
  PROVE  Box!Next
<1> DEFINE s == PollSite[p]
<1>c. PICK c \in Command : carried[p] = c
  BY DEF Deliver, MailInv, CommandInv, ChannelInv, TypeInv, TypeOK, Busy
<1>1. /\ s \in Site /\ carried \in [Poller -> Command \cup {None}]
      /\ job \in [Site -> Command \cup {None}]
  BY DEF Deliver, MailInv, CommandInv, ChannelInv, TypeInv, TypeOK, Busy
<1>2. /\ carried' = [carried EXCEPT ![p] = None]
      /\ UNCHANGED <<queues, client, ran, worked>>
  BY DEF Deliver, brokerVars, clientVars
<1>3. /\ client[c] # "new" /\ ran[c] = 0 /\ ~Queued(c)
      /\ \A q \in Poller : carried[q] = c => q = p
      /\ \A t \in Site : job[t] # c
  BY <1>1, <1>c DEF MailInv, CommandInv, PlaceInv, CarriedInv, QueueInv, Queued
<1> HIDE DEF s
<1>4. /\ \A q \in Poller : q # p => carried'[q] = carried[q]
      /\ carried'[p] = None /\ carried[p] = c
  BY <1>1, <1>2, <1>c
<1>5. \A d \in Command : /\ Queued(d)' = Queued(d) /\ Outcome(d)' = Outcome(d)
                         /\ Told(d)' = Told(d)
  BY <1>2 DEF Queued, Outcome, Told
<1>6. CASE poll[s] = p
  <2>1. job' = [job EXCEPT ![s] = c] /\ job[s] = None
    BY <1>1, <1>6, <1>c DEF Deliver, MailInv, AgentHand, s
  <2>2. \A t \in Site : job'[t] = IF t = s THEN c ELSE job[t]
    BY <1>1, <2>1
  <2>3. \A d \in Command : Held(d)' <=> Held(d)
    <3>1. ASSUME NEW d \in Command, d # c PROVE Held(d)' <=> Held(d)
      BY <1>2, <1>4, <2>1, <2>2, <3>1 DEF Held
    <3>2. Held(c) /\ Held(c)'
      BY <1>1, <1>4, <2>2 DEF Held
    <3> QED BY <3>1, <3>2
  <2> QED BY <1>2, <1>5, <2>3, SameMaps DEF Same, Where
<1>7. CASE poll[s] # p
  <2>1. job' = job
    BY <1>7 DEF Deliver, s
  <2>2. \A d \in Command : d # c => (Held(d)' <=> Held(d))
    BY <1>2, <1>4, <2>1 DEF Held
  <2>3. ~Held(c)' /\ Held(c)
    BY <1>1, <1>2, <1>3, <1>4, <2>1 DEF Held
  <2> DEFINE D == {c}
             G == {}
  <2>4. ASSUME NEW d \in Command
        PROVE  /\ Where(d)' = IF d \in D THEN "dropped" ELSE Where(d)
               /\ Outcome(d)' = Outcome(d)
               /\ Told(d)' = IF d \in G THEN "unsure" ELSE Told(d)
    BY <1>2, <1>3, <1>5, <2>2, <2>3 DEF Where
  <2>5. \A d \in D : Where(d) \in {"offered", "taken"} /\ Outcome(d) = "none"
    BY <1>3, <2>3 DEF Where, Outcome
  <2>6. \A d \in G : Where(d) # "new" /\ Told(d) = "none"
    OBVIOUS
  <2>7. D \in SUBSET Command /\ G \in SUBSET Command
    BY <1>1
  <2> HIDE DEF D, G
  <2> QED BY <2>4, <2>5, <2>6, <2>7, LoseMaps
<1> QED BY <1>6, <1>7

(* The camera performs the command.                                        *)
LEMMA ExecuteMaps ==
  ASSUME MailInv, NEW s \in Site, Execute(s)
  PROVE  Box!Next
<1> DEFINE c == job[s]
<1>1. c \in Command /\ ran \in [Command -> Nat] /\ worked \in [Command -> BOOLEAN]
  BY DEF Execute, MailInv, CommandInv, ChannelInv, TypeInv, TypeOK, Busy
<1>2. /\ ran[c] = 0 /\ client[c] # "new" /\ ~Queued(c) /\ Held(c)
  <2>1. ran[c] = 0 /\ client[c] # "new"
    BY <1>1 DEF Execute, MailInv, CommandInv, PlaceInv, JobInv
  <2>2. \A t \in Site : c \notin Elems(queues[t])
    BY <1>1 DEF MailInv, CommandInv, PlaceInv, QueueInv
  <2> QED BY <1>1, <2>1, <2>2 DEF Queued, Held
<1>3. PICK success \in BOOLEAN : /\ ran'    = [ran EXCEPT ![c] = @ + 1]
                                 /\ worked' = [worked EXCEPT ![c] = success]
  BY DEF Execute
<1>4. UNCHANGED <<queues, client, carried, job>>
  BY DEF Execute, brokerVars, clientVars, pollVars
<1> HIDE DEF c
<1>5. /\ ran'[c] = 1 /\ worked'[c] = success
      /\ \A d \in Command : d # c => ran'[d] = ran[d] /\ worked'[d] = worked[d]
  BY <1>1, <1>2, <1>3
<1> DEFINE o == IF success THEN "ok" ELSE "failed"
<1>6. ASSUME NEW d \in Command
      PROVE  /\ Where(d)' = Where(d)
             /\ Outcome(d)' = IF d = c THEN o ELSE Outcome(d)
             /\ Told(d)' = Told(d)
  <2>1. Queued(d)' = Queued(d) /\ Told(d)' = Told(d)
    BY <1>4 DEF Queued, Told
  <2>2. CASE d = c
    <3>1. Held(d)'
      BY <1>5, <2>2 DEF Held
    <3> QED BY <1>2, <1>4, <1>5, <2>1, <2>2, <3>1 DEF Where, Outcome
  <2>3. CASE d # c
    <3>1. Held(d)' = Held(d)
      BY <1>4, <1>5, <2>3 DEF Held
    <3> QED BY <1>4, <1>5, <2>1, <2>3, <3>1 DEF Where, Outcome
  <2> QED BY <2>2, <2>3
<1>7. Where(c) = "taken" /\ Outcome(c) = "none"
  BY <1>2 DEF Where, Outcome
<1> QED BY <1>1, <1>6, <1>7, PerformMaps

(* The requester is told what the channel holds, or nothing.               *)
LEMMA ReceiveMaps ==
  ASSUME MailInv, NEW c \in Command, ReceiveResult(c) \/ GiveUp(c)
  PROVE  Box!Next
<1>1. /\ client \in [Command -> {"new", "waiting", "executed", "failed", "full", "unsure"}]
      /\ result \in [Command -> Results \cup {"empty"}]
  BY DEF MailInv, CommandInv, ChannelInv, TypeInv, TypeOK
<1>2. PICK a \in {"executed", "failed", "full", "unsure"} :
        /\ client' = [client EXCEPT ![c] = a]
        /\ a = "executed" => result[c] = "ok"
        /\ a = "failed"   => result[c] = "failed"
        /\ a = "full"     => result[c] = "full"
  <2>1. CASE ReceiveResult(c)
    <3>1. client' = [client EXCEPT ![c] = IF result[c] = "ok" THEN "executed" ELSE result[c]]
      BY <2>1 DEF ReceiveResult
    <3>2. result[c] \in {"ok", "failed", "full"}
      BY <1>1, <2>1 DEF ReceiveResult, Results
    <3> QED BY <3>1, <3>2
  <2>2. CASE GiveUp(c)
    BY <2>2 DEF GiveUp
  <2> QED BY <2>1, <2>2
<1>3. client[c] = "waiting" /\ UNCHANGED <<queues, carried, job, ran, worked>>
  BY DEF ReceiveResult, GiveUp, brokerVars, pollVars, agentVars
<1>4. /\ a = "full"     => ran[c] = 0 /\ Nowhere(c)
      /\ a = "executed" => ran[c] = 1 /\ worked[c]
      /\ a = "failed"   => ran[c] = 1 /\ ~worked[c]
  BY <1>2 DEF MailInv, CommandInv, PlaceInv, ResultInv
<1>5. ASSUME NEW d \in Command
      PROVE  /\ Where(d)' = Where(d)
             /\ Outcome(d)' = Outcome(d)
             /\ Told(d)' = IF d = c THEN a ELSE Told(d)
  <2>1. client'[d] = IF d = c THEN a ELSE client[d]
    BY <1>1, <1>2
  <2> QED BY <1>3, <2>1 DEF Where, Queued, Held, Outcome, Told
<1>6. a = "full" => Where(c) = "dropped"
  BY <1>3, <1>4 DEF Where, Nowhere, Queued, Held
<1>7. /\ a = "executed" => Outcome(c) = "ok"
      /\ a = "failed" => Outcome(c) = "failed"
  BY <1>4 DEF Outcome
<1>8. Where(c) # "new" /\ Told(c) = "none"
  BY <1>3 DEF Where, Told
<1> QED BY <1>5, <1>6, <1>7, <1>8, AnswerMaps

(* The agent forgets its command; if the camera has not executed it, it is *)
(* lost.                                                                   *)
LEMMA ForgetMaps ==
  ASSUME MailInv, NEW s \in Site, ReportReturns(s) \/ AgentRestart(s)
  PROVE  Box!Next
<1> DEFINE c == job[s]
           D == IF c # None /\ ran[c] = 0 THEN {c} ELSE {}
           G == {}
<1>1. /\ UNCHANGED <<queues, carried, ran, worked, client>>
      /\ job' = [job EXCEPT ![s] = None]
      /\ job \in [Site -> Command \cup {None}] /\ ran \in [Command -> Nat]
  BY DEF ReportReturns, AgentRestart, brokerVars, clientVars, pollVars,
         MailInv, CommandInv, ChannelInv, TypeInv, TypeOK
<1>2. c # None => /\ c \in Command /\ client[c] # "new" /\ SiteOf[c] = s
                  /\ ~Queued(c) /\ \A p \in Poller : carried[p] # c
  <2>1. c # None => c \in Command
    BY <1>1
  <2> QED BY <2>1 DEF MailInv, CommandInv, PlaceInv, JobInv, QueueInv, CarriedInv, Queued
<1>3. \A t \in Site : job'[t] = IF t = s THEN None ELSE job[t]
  BY <1>1
<1>4. \A t \in Site : c # None /\ job[t] = c => t = s
  BY <1>1, <1>2 DEF MailInv, CommandInv, PlaceInv, JobInv
<1>5. D \in SUBSET Command /\ G \in SUBSET Command
  BY <1>2
<1>6. \A d \in D : Where(d) \in {"offered", "taken"} /\ Outcome(d) = "none"
  BY <1>2 DEF Where, Held, Outcome
<1>7. ASSUME NEW d \in Command
      PROVE  /\ Where(d)' = IF d \in D THEN "dropped" ELSE Where(d)
             /\ Outcome(d)' = Outcome(d)
             /\ Told(d)' = IF d \in G THEN "unsure" ELSE Told(d)
  <2>1. Queued(d)' = Queued(d) /\ Outcome(d)' = Outcome(d) /\ Told(d)' = Told(d)
    BY <1>1 DEF Queued, Outcome, Told
  <2>2. CASE d \in D
    <3>1. d = c /\ c # None /\ ran[c] = 0
      BY <2>2
    <3>2. ~Held(d)'
      BY <1>1, <1>2, <1>3, <1>4, <3>1 DEF Held
    <3> QED BY <1>1, <1>2, <2>1, <2>2, <3>1, <3>2 DEF Where
  <2>3. CASE d \notin D
    <3>1. d # c \/ ran[d] > 0
      BY <1>1, <2>3
    <3>2. Held(d)' <=> Held(d)
      BY <1>1, <1>3, <3>1 DEF Held
    <3> QED BY <1>1, <2>1, <2>3, <3>2 DEF Where
  <2> QED BY <2>2, <2>3
<1>8. \A d \in G : Where(d) # "new" /\ Told(d) = "none"
  OBVIOUS
<1> HIDE DEF D, G
<1> QED BY <1>5, <1>6, <1>7, <1>8, LoseMaps

(* A restart of the cloud loses what is queued and what handlers carry,    *)
(* and cuts off who waits.                                                 *)
LEMMA CloudRestartMaps ==
  ASSUME MailInv, CloudRestart
  PROVE  Box!Next
<1> DEFINE D == {c \in Command : Queued(c) \/ \E p \in Poller : carried[p] = c}
           G == {c \in Command : client[c] = "waiting"}
<1>1. /\ queues' = [s \in Site |-> <<>>] /\ carried' = [p \in Poller |-> None]
      /\ client' = [c \in Command |-> IF client[c] = "waiting" THEN "unsure" ELSE client[c]]
      /\ UNCHANGED <<job, ran, worked>>
  BY DEF CloudRestart
<1>2. ASSUME NEW c \in D
      PROVE  client[c] # "new" /\ ran[c] = 0 /\ \A s \in Site : job[s] # c
  BY DEF MailInv, CommandInv, PlaceInv, QueueInv, CarriedInv, Queued
<1>3. \A c \in D : Where(c) \in {"offered", "taken"} /\ Outcome(c) = "none"
  BY <1>2 DEF Where, Held, Outcome
<1>4. \A c \in G : Where(c) # "new" /\ Told(c) = "none"
  BY DEF Where, Told
<1>5. ASSUME NEW c \in Command
      PROVE  /\ Where(c)' = IF c \in D THEN "dropped" ELSE Where(c)
             /\ Outcome(c)' = Outcome(c)
             /\ Told(c)' = IF c \in G THEN "unsure" ELSE Told(c)
  <2>1. ~Queued(c)'
    BY <1>1 DEF Queued, Elems
  <2>2. client'[c] = IF c \in G THEN "unsure" ELSE client[c]
    BY <1>1
  <2>3. Outcome(c)' = Outcome(c) /\ Told(c)' = IF c \in G THEN "unsure" ELSE Told(c)
    BY <1>1, <2>2 DEF Outcome, Told
  <2>4. CASE c \in D
    <3>1. ~Held(c)'
      BY <1>1, <1>2, <2>4 DEF Held
    <3> QED BY <1>2, <2>1, <2>2, <2>3, <2>4, <3>1 DEF Where
  <2>5. CASE c \notin D
    <3>1. Held(c)' <=> Held(c)
      BY <1>1, <2>5 DEF Held
    <3>2. ~Queued(c)
      BY <2>5
    <3> QED BY <2>1, <2>2, <2>3, <2>5, <3>1, <3>2 DEF Where
  <2> QED BY <2>4, <2>5
<1>6. D \in SUBSET Command /\ G \in SUBSET Command
  OBVIOUS
<1> HIDE DEF D, G
<1> QED BY <1>3, <1>4, <1>5, <1>6, LoseMaps

LEMMA MailboxInit == Init => Box!Init
<1> SUFFICES ASSUME Init PROVE Box!Init
  OBVIOUS
<1>1. \A c \in Command : Where(c) = "new" /\ Outcome(c) = "none" /\ Told(c) = "none"
  BY DEF Init, Where, Outcome, Told
<1> QED BY <1>1 DEF Box!Init

LEMMA MailboxStep == MailInv /\ [Next]_vars => Box!Next
<1> SUFFICES ASSUME MailInv, [Next]_vars PROVE Box!Next
  OBVIOUS
<1> USE DEF brokerVars, clientVars, pollVars, agentVars
<1>1. ASSUME NEW c \in Command, Abandon(c) PROVE Box!Next
  BY <1>1, StillMaps DEF Abandon
<1>2. ASSUME NEW p \in Poller,
             FindEmpty(p) \/ TakeNotice(p) \/ Park(p) \/ ContextDone(p) \/ EndPoll(p)
      PROVE  Box!Next
  <2>1. UNCHANGED <<queues, carried, job, ran, worked, client>>
    BY <1>2 DEF FindEmpty, TakeNotice, Park, ContextDone, EndPoll
  <2> QED BY <2>1, StillMaps
<1>3. ASSUME NEW s \in Site, BreakPoll(s) \/ \E p \in Poller : Poll(s, p) PROVE Box!Next
  <2>1. UNCHANGED <<queues, carried, job, ran, worked, client>>
    BY <1>3 DEF BreakPoll, Poll
  <2> QED BY <2>1, StillMaps
<1>4. ASSUME NEW r \in reports, ReportArrives(r) \/ LoseReport(r) PROVE Box!Next
  <2>1. UNCHANGED <<queues, carried, job, ran, worked, client>>
    BY <1>4 DEF ReportArrives, Resolve, LoseReport
  <2> QED BY <2>1, StillMaps
<1>5. ASSUME NEW s \in Site, NEW c \in Command, StrayReport(s, c) PROVE Box!Next
  BY <1>5, StillMaps DEF StrayReport, Resolve
<1>6. CASE UNCHANGED vars
  BY <1>6, StillMaps DEF vars
<1>7. CommandInv
  BY DEF MailInv
<1> HIDE DEF Box!Next
<1> QED BY <1>1, <1>2, <1>3, <1>4, <1>5, <1>6, <1>7, EnqueueMaps, PopMaps, DeliverMaps,
           ExecuteMaps, ReceiveMaps, ForgetMaps, CloudRestartMaps
        DEF Next, RequesterStep, HandlerStep, AgentStep

(* Queues, notices, result channels, polls that break and restarts add     *)
(* nothing to what Mailbox allows (ptz_broker.go, ptz_handlers.go,         *)
(* main.go:236-273).                                                       *)
THEOREM ImplementsMailbox == Spec => IsMailbox
<1>1. MailInv /\ [Next]_vars => [Box!Next]_Box!vars
  BY MailboxStep
<1> QED BY <1>1, MailboxInit, MailInit, MailStep, PTL DEF Spec, IsMailbox, Box!Spec
----------------------------------------------------------------------------
(* The notice channel                                                      *)

(* A poll sleeps only over an empty queue, and one that is about to look   *)
(* at the channel finds a token there if a command came since its unlock.  *)
WakeInv == \A p \in Poller :
  /\ pc[p] = "parked" => queues[PollSite[p]] = <<>>
  /\ pc[p] = "select" /\ queues[PollSite[p]] # <<>> => notices[PollSite[p]]

(* An agent runs one loop, and none of its earlier polls is left over.     *)
OnePollOfASite == \A p, q \in Poller : PollSite[p] = PollSite[q] => p = q

(* enqueue moves the sleeping poll, or leaves a token to the one that runs.*)
LEMMA EnqueueWakes ==
  ASSUME OnePollOfASite, TypeInv, WakeInv, NEW c \in Command, Enqueue(c)
  PROVE  WakeInv'
<1> DEFINE s == SiteOf[c]
<1>1. /\ s \in Site /\ queues \in [Site -> Seq(Command)] /\ notices \in [Site -> BOOLEAN]
      /\ pc \in [Poller -> {"free", "lock", "select", "parked", "deliver"}]
  BY DEF TypeInv, TypeOK
<1>2. \A t \in Site : t # s => queues'[t] = queues[t]
  BY <1>1 DEF Enqueue
<1>3. Notify(s)
  BY DEF Enqueue
<1> HIDE DEF s
<1>4. CASE Parked(s) # {}
  <2>1. PICK p \in Parked(s) : pc' = [pc EXCEPT ![p] = "lock"] /\ notices' = notices
    BY <1>3, <1>4 DEF Notify
  <2>2. \A q \in Poller : PollSite[q] = s => q = p
    BY <2>1 DEF OnePollOfASite, Parked
  <2>3. \A q \in Poller : PollSite[q] # s => queues'[PollSite[q]] = queues[PollSite[q]]
    BY <1>2
  <2>4. pc'[p] = "lock" /\ \A q \in Poller : q # p => pc'[q] = pc[q]
    BY <1>1, <2>1 DEF Parked
  <2> QED BY <2>1, <2>2, <2>3, <2>4 DEF WakeInv
<1>5. CASE Parked(s) = {}
  <2>1. pc' = pc /\ notices' = [notices EXCEPT ![s] = TRUE]
    BY <1>3, <1>5 DEF Notify
  <2>2. \A q \in Poller : PollSite[q] = s => pc[q] # "parked"
    BY <1>5 DEF Parked
  <2>3. notices'[s] /\ \A t \in Site : t # s => notices'[t] = notices[t]
    BY <1>1, <2>1
  <2> QED BY <1>2, <2>1, <2>2, <2>3 DEF WakeInv
<1> QED BY <1>4, <1>5

LEMMA WakeStep ==
  ASSUME OnePollOfASite PROVE TypeInv /\ WakeInv /\ [Next]_vars => WakeInv'
<1> SUFFICES ASSUME TypeInv, WakeInv, [Next]_vars PROVE WakeInv'
  OBVIOUS
<1> USE DEF brokerVars, clientVars, pollVars, agentVars
<1>t. /\ queues \in [Site -> Seq(Command)] /\ notices \in [Site -> BOOLEAN]
      /\ pc \in [Poller -> {"free", "lock", "select", "parked", "deliver"}]
  BY DEF TypeInv, TypeOK
<1>1. ASSUME UNCHANGED <<queues, notices, pc>> PROVE WakeInv'
  BY <1>1 DEF WakeInv
<1>2. ASSUME NEW c \in Command, RequesterStep(c) PROVE WakeInv'
  <2>1. CASE Enqueue(c)
    BY <2>1, EnqueueWakes
  <2>2. CASE ReceiveResult(c) \/ GiveUp(c) \/ Abandon(c)
    BY <1>1, <2>2 DEF ReceiveResult, GiveUp, Abandon
  <2> QED BY <1>2, <2>1, <2>2 DEF RequesterStep
<1>3. ASSUME NEW p \in Poller, NEW at \in {"free", "lock"},
             UNCHANGED <<queues, notices>>, pc' = [pc EXCEPT ![p] = at]
      PROVE  WakeInv'
  <2>1. pc'[p] = at /\ \A q \in Poller : q # p => pc'[q] = pc[q]
    BY <1>t, <1>3
  <2> QED BY <1>3, <2>1 DEF WakeInv
<1>4. ASSUME NEW p \in Poller, HandlerStep(p) PROVE WakeInv'
  <2>1. CASE Pop(p)
    <3>1. /\ \A t \in Site : t # PollSite[p] => queues'[t] = queues[t]
          /\ notices' = notices
          /\ pc'[p] = "deliver" /\ \A q \in Poller : q # p => pc'[q] = pc[q]
      BY <1>t, <2>1 DEF Pop
    <3>2. \A q \in Poller : q # p => PollSite[q] # PollSite[p]
      BY DEF OnePollOfASite
    <3> QED BY <3>1, <3>2 DEF WakeInv
  <2>2. CASE FindEmpty(p)
    <3>1. /\ queues[PollSite[p]] = <<>> /\ UNCHANGED <<queues, notices>>
          /\ pc'[p] = "select" /\ \A q \in Poller : q # p => pc'[q] = pc[q]
      BY <1>t, <2>2 DEF FindEmpty
    <3> QED BY <3>1 DEF WakeInv
  <2>3. CASE TakeNotice(p)
    <3>1. /\ \A t \in Site : t # PollSite[p] => notices'[t] = notices[t]
          /\ queues' = queues
          /\ pc'[p] = "lock" /\ \A q \in Poller : q # p => pc'[q] = pc[q]
      BY <1>t, <2>3 DEF TakeNotice
    <3>2. \A q \in Poller : q # p => PollSite[q] # PollSite[p]
      BY DEF OnePollOfASite
    <3> QED BY <3>1, <3>2 DEF WakeInv
  <2>4. CASE Park(p)
    <3>1. /\ pc[p] = "select" /\ ~notices[PollSite[p]] /\ UNCHANGED <<queues, notices>>
          /\ pc'[p] = "parked" /\ \A q \in Poller : q # p => pc'[q] = pc[q]
      BY <1>t, <2>4 DEF Park
    <3> QED BY <3>1 DEF WakeInv
  <2>5. CASE EndPoll(p) \/ Deliver(p)
    BY <1>3, <2>5 DEF EndPoll, Deliver
  <2> QED BY <1>4, <2>1, <2>2, <2>3, <2>4, <2>5 DEF HandlerStep
<1>5. ASSUME NEW p \in Poller, ContextDone(p) PROVE WakeInv'
  BY <1>1, <1>5 DEF ContextDone
<1>6. ASSUME NEW s \in Site, AgentStep(s) PROVE WakeInv'
  <2>1. ASSUME NEW p \in Poller, Poll(s, p) PROVE WakeInv'
    BY <1>3, <2>1 DEF Poll
  <2>2. CASE Execute(s) \/ ReportReturns(s)
    BY <1>1, <2>2 DEF Execute, ReportReturns
  <2> QED BY <1>6, <2>1, <2>2 DEF AgentStep
<1>7. ASSUME NEW s \in Site, BreakPoll(s) \/ AgentRestart(s) PROVE WakeInv'
  BY <1>1, <1>7 DEF BreakPoll, AgentRestart
<1>8. ASSUME NEW s \in Site, NEW c \in Command, StrayReport(s, c) PROVE WakeInv'
  BY <1>1, <1>8 DEF StrayReport, Resolve
<1>9. ASSUME NEW r \in reports, ReportArrives(r) \/ LoseReport(r) PROVE WakeInv'
  BY <1>1, <1>9 DEF ReportArrives, Resolve, LoseReport
<1>10. CASE CloudRestart
  BY <1>10 DEF CloudRestart, WakeInv
<1>11. CASE UNCHANGED vars
  BY <1>1, <1>11 DEF vars
<1> HIDE DEF WakeInv
<1> QED BY <1>2, <1>4, <1>5, <1>6, <1>7, <1>8, <1>9, <1>10, <1>11 DEF Next

(* A command never waits behind a sleeping poll of an agent that has one   *)
(* poll at a time: the one-slot channel keeps the notice that came while   *)
(* the poll was on the way to the select (ptz_broker.go:43-46,78-83).      *)
THEOREM OnePollIsWoken ==
  ASSUME OnePollOfASite
  PROVE  Spec => [](\A p \in Poller : pc[p] = "parked" => queues[PollSite[p]] = <<>>)
<1>1. Init => WakeInv
  BY DEF Init, WakeInv
<1>2. WakeInv => \A p \in Poller : pc[p] = "parked" => queues[PollSite[p]] = <<>>
  BY DEF WakeInv
<1>3. TypeInv /\ WakeInv /\ [Next]_vars => WakeInv'
  BY WakeStep
<1> QED BY <1>1, <1>2, <1>3, TypeInit, TypeStep, PTL DEF Spec

(* p, a poll of s, takes a command.                                        *)
Takes(p, s) == PollSite[p] = s /\ pc[p] = "lock" /\ pc'[p] = "deliver"

LEMMA HeardStep ==
  ASSUME TypeInv, [Next]_vars, NEW s \in Site, ~Unheard(s), Unheard(s)'
  PROVE  \E p \in Poller : Takes(p, s)
<1> USE DEF brokerVars, clientVars, pollVars, agentVars
<1>t. /\ queues \in [Site -> Seq(Command)] /\ notices \in [Site -> BOOLEAN]
      /\ pc \in [Poller -> {"free", "lock", "select", "parked", "deliver"}]
  BY DEF TypeInv, TypeOK
<1>1. ASSUME queues'[s] = queues[s], notices'[s] = notices[s],
             \A q \in Poller : PollSite[q] = s => pc'[q] = pc[q]
      PROVE  FALSE
  BY <1>1 DEF Unheard
<1>2. ASSUME NEW c \in Command, RequesterStep(c) PROVE FALSE
  <2>1. CASE Enqueue(c)
    <3>1. Notify(SiteOf[c]) /\ queues' = [queues EXCEPT ![SiteOf[c]] = Append(Kept(@), c)]
      BY <2>1 DEF Enqueue
    <3>2. CASE SiteOf[c] # s
      BY <1>1, <1>t, <3>1, <3>2 DEF Notify, Parked
    <3>3. CASE SiteOf[c] = s
      BY <1>t, <3>1, <3>3 DEF Notify, Parked, Unheard
    <3> QED BY <3>2, <3>3
  <2>2. CASE ReceiveResult(c) \/ GiveUp(c) \/ Abandon(c)
    BY <1>1, <2>2 DEF ReceiveResult, GiveUp, Abandon
  <2> QED BY <1>2, <2>1, <2>2 DEF RequesterStep
<1>3. ASSUME NEW p \in Poller, HandlerStep(p) PROVE Takes(p, s)
  <2>1. CASE PollSite[p] # s
    <3>1. /\ queues'[s] = queues[s] /\ notices'[s] = notices[s]
          /\ \A q \in Poller : PollSite[q] = s => pc'[q] = pc[q]
      BY <1>t, <1>3, <2>1
         DEF HandlerStep, Pop, FindEmpty, TakeNotice, Park, EndPoll, Deliver
    <3> QED BY <1>1, <3>1
  <2>2. CASE PollSite[p] = s
    <3>1. CASE Pop(p)
      BY <1>t, <2>2, <3>1 DEF Pop, Takes
    <3>2. CASE FindEmpty(p)
      BY <1>t, <2>2, <3>2 DEF FindEmpty, Unheard
    <3>3. CASE TakeNotice(p)
      BY <1>t, <2>2, <3>3 DEF TakeNotice, Unheard
    <3>4. CASE Park(p)
      BY <1>t, <2>2, <3>4 DEF Park, Unheard
    <3>5. CASE EndPoll(p)
      BY <1>t, <2>2, <3>5 DEF EndPoll, Unheard
    <3>6. CASE Deliver(p)
      BY <1>t, <2>2, <3>6 DEF Deliver, Unheard
    <3> QED BY <1>3, <3>1, <3>2, <3>3, <3>4, <3>5, <3>6 DEF HandlerStep
  <2> QED BY <2>1, <2>2
<1>4. ASSUME NEW p \in Poller, ContextDone(p) PROVE FALSE
  BY <1>1, <1>4 DEF ContextDone
<1>5. ASSUME NEW a \in Site, AgentStep(a) PROVE FALSE
  <2>1. ASSUME NEW p \in Poller, Poll(a, p) PROVE FALSE
    BY <1>t, <2>1 DEF Poll, Unheard
  <2>2. CASE Execute(a) \/ ReportReturns(a)
    BY <1>1, <2>2 DEF Execute, ReportReturns
  <2> QED BY <1>5, <2>1, <2>2 DEF AgentStep
<1>6. ASSUME NEW a \in Site, BreakPoll(a) \/ AgentRestart(a) \/ \E c \in Command : StrayReport(a, c)
      PROVE  FALSE
  BY <1>1, <1>6 DEF BreakPoll, AgentRestart, StrayReport, Resolve
<1>7. ASSUME NEW r \in reports, ReportArrives(r) \/ LoseReport(r) PROVE FALSE
  BY <1>1, <1>7 DEF ReportArrives, Resolve, LoseReport
<1>8. CASE CloudRestart
  BY <1>8 DEF CloudRestart, Unheard
<1>9. CASE UNCHANGED vars
  BY <1>1, <1>9 DEF vars
<1> QED BY <1>2, <1>3, <1>4, <1>5, <1>6, <1>7, <1>8, <1>9 DEF Next

(* With any number of polls an enqueue is always heard: only a poll that   *)
(* takes a command leaves others to a poll that waits.                     *)
THEOREM WakeupsAreKept == Spec => NoMissedWakeup
<1>1. TypeInv /\ [Next]_vars
        => [\A s \in Site : ~Unheard(s) /\ Unheard(s)' =>
              \E p \in Poller : PollSite[p] = s /\ pc[p] = "lock" /\ pc'[p] = "deliver"]_vars
  BY HeardStep DEF Takes
<1> QED BY <1>1, TypeInit, TypeStep, PTL DEF Spec, NoMissedWakeup
==============================================================================
