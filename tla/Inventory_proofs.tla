--------------------------- MODULE Inventory_proofs ---------------------------
(***************************************************************************)
(* Proofs about Inventory, for any files, versions, page size and faults:  *)
(* types, then that a completed full inventory leaves exactly what its     *)
(* scan saw, then that no row is lost whose file is there.                 *)
(***************************************************************************)
EXTENDS Inventory, TLAPS, NaturalsInduction, WellFoundedInduction

USE VersionAssumption, TokenAssumption, SwitchAssumption, FaultAssumption

----------------------------------------------------------------------------
(* Types                                                                   *)

LEMMA MinFacts ==
  ASSUME NEW S, S \subseteq Nat, S # {}
  PROVE  Min(S) \in S
<1>1. PICK x \in S : \A y \in S : ~(<<y, x>> \in OpToRel(<, Nat))
  BY NatLessThanWellFounded, WFMin, Zenon
<1>2. \A y \in S : ~(y < x)
  BY <1>1 DEF OpToRel
<1>3. \A y \in S : x <= y
  BY <1>2
<1> QED BY <1>3 DEF Min

(* What is listed is not empty: its version is not 0.                      *)
TypeInv == TypeOK /\ \A f \in settled : disk[f] > 0

(* A new ID marks no row (recording_handlers.go: the agent's newID).       *)
LEMMA FreshFacts ==
  ASSUME TypeOK
  PROVE  FreshToken \in Token /\ \A f \in File : rowToken[f] # FreshToken
<1> DEFINE S == Token \ ({rowToken[f] : f \in File} \cup {request.token, late.token})
<1>1. /\ rowToken \in [File -> Token \cup {0}]
      /\ request.token \in Token \cup {0} /\ late.token \in Token \cup {0}
  BY DEF TypeOK, Request
<1>2. PICK new \in Token : new \notin {rowToken[f] : f \in File} \cup {request.token, late.token}
  BY <1>1, FreshAssumption
<1>3. S \subseteq Nat /\ S # {}
  BY <1>2
<1>4. Min(S) \in S
  BY <1>3, MinFacts
<1> QED BY <1>4 DEF FreshToken

(* Without a request the agent's variables are as between two rounds.      *)
LEMMA NoneFacts ==
  /\ None \in Request /\ None.st = "none" /\ None.add = {} /\ None.del = {}
  /\ None.complete = FALSE /\ Empty \in [File -> Version]
BY DEF None, Request, Version, Empty

(* The handler keeps the types of the rows and of its request.             *)
LEMMA HandleTypes ==
  ASSUME NEW q \in Request, NEW r \in After(q), Handle(q, r),
         row \in [File -> Version], rowToken \in [File -> Token \cup {0}]
  PROVE  r \in Request /\ row' \in [File -> Version] /\ rowToken' \in [File -> Token \cup {0}]
<1>1. /\ q.data \in [File -> Version] /\ q.token \in Token \cup {0}
      /\ q.add \in SUBSET File /\ q.del \in SUBSET File
  BY DEF Request
<1>2. 0 \in Version
  BY DEF Version
<1>3. r \in Request
  BY <1>1 DEF After, Request
<1>4. ASSUME NEW f \in q.add, Upsert(q, f)
      PROVE  row' \in [File -> Version] /\ rowToken' \in [File -> Token \cup {0}]
  <2>1. CASE q.token = 0
    BY <1>1, <1>4, <2>1 DEF Upsert
  <2>2. CASE q.token # 0
    BY <1>1, <1>4, <2>2 DEF Upsert
  <2> QED BY <2>1, <2>2
<1>5. CASE q.st = "prune"
  <2>1. /\ row' = [f \in File |-> IF f \in aged THEN 0 ELSE row[f]]
        /\ rowToken' = [f \in File |-> IF f \in aged THEN 0 ELSE rowToken[f]]
    BY <1>5 DEF Handle
  <2>2. 0 \in Token \cup {0}
    OBVIOUS
  <2>3. ASSUME NEW f \in File
        PROVE  /\ (IF f \in aged THEN 0 ELSE row[f]) \in Version
               /\ (IF f \in aged THEN 0 ELSE rowToken[f]) \in Token \cup {0}
    BY <1>2
  <2> QED BY <1>3, <2>1, <2>3
<1>6. ASSUME Reconcile(q)
      PROVE  row' \in [File -> Version] /\ rowToken' \in [File -> Token \cup {0}]
  BY <1>2, <1>6 DEF Reconcile
<1>7. ASSUME NEW f \in q.del, row' = [row EXCEPT ![f] = 0], rowToken' = [rowToken EXCEPT ![f] = 0]
      PROVE  row' \in [File -> Version] /\ rowToken' \in [File -> Token \cup {0}]
  BY <1>2, <1>7
<1>8. CASE q.st = "running"
  <2>1. CASE UNCHANGED rowVars
    BY <1>3, <2>1 DEF rowVars
  <2>2. \/ \E f \in q.add : Upsert(q, f)
        \/ \E f \in q.del : row' = [row EXCEPT ![f] = 0] /\ rowToken' = [rowToken EXCEPT ![f] = 0]
        \/ Reconcile(q) \/ UNCHANGED rowVars
    <3>1. q.st # "prune"
      BY <1>8
    <3> HIDE DEF Upsert, Reconcile, rowVars
    <3> QED BY <3>1 DEF Handle
  <2> QED BY <1>3, <1>4, <1>6, <1>7, <2>1, <2>2
<1> QED BY <1>3, <1>5, <1>8 DEF Handle

LEMMA TypeInit == Init => TypeInv
<1> SUFFICES ASSUME Init PROVE TypeInv
  OBVIOUS
<1>1. Empty \in [File -> Token \cup {0}] /\ 0 \in 0..MaxFaults
  <2>1. 0 \in Token \cup {0}
    OBVIOUS
  <2> QED BY <2>1 DEF Empty
<1>2. TypeOK
  BY <1>1, NoneFacts DEF Init, TypeOK
<1> QED BY <1>2 DEF Init, TypeInv

(* What a round of the loop starts, goes through and ends with.            *)
LEMMA RoundTypes ==
  ASSUME TypeInv, SendPage \/ PageReturns \/ Commit \/ SaveFails \/ RequestFails \/ AgentRestart
  PROVE  TypeInv'
<1>0. Fault => faults' \in 0..MaxFaults
  BY DEF Fault, TypeInv, TypeOK
<1> USE NoneFacts DEF TypeInv, TypeOK, diskVars, rowVars, Leave, GiveUp
<1>1. CASE SendPage
  <2>1. PICK P \in Pages(toSend), D \in Pages(toDelete) :
          /\ request' = [st |-> "running", add |-> P, del |-> D, token |-> token,
                         complete |-> full /\ toSend = {}, data |-> snap]
          /\ toSend' = toSend \ P /\ toDelete' = toDelete \ D
    BY <1>1 DEF SendPage
  <2>2. P \subseteq toSend /\ D \subseteq toDelete
    BY <2>1 DEF Pages
  <2>3. (full /\ toSend = {}) \in BOOLEAN
    OBVIOUS
  <2>4. request' \in Request
    BY <2>1, <2>2, <2>3 DEF Request
  <2> QED BY <1>1, <2>1, <2>4 DEF SendPage
<1>2. CASE PageReturns
  BY <1>2 DEF PageReturns, agentVars
<1>3. CASE Commit
  BY <1>3 DEF Commit
<1>4. CASE SaveFails
  BY <1>0, <1>4 DEF SaveFails
<1>5. CASE RequestFails
  BY <1>0, <1>5 DEF RequestFails
<1>6. CASE AgentRestart
  BY <1>0, <1>6 DEF AgentRestart
<1> QED BY <1>1, <1>2, <1>3, <1>4, <1>5, <1>6

(* What a scan sees, and what it leaves.                                   *)
LEMMA ScanFacts ==
  ASSUME TypeInv, NEW f \in BOOLEAN, Scan(f)
  PROVE  \E listed \in SUBSET settled, gone \in SUBSET settled :
           /\ snap' \in [File -> Version]
           /\ \A x \in File : snap'[x] = IF x \in listed THEN disk[x] ELSE 0
           /\ \A x \in File : snap'[x] # 0 <=> x \in listed
           /\ toSend' = IF f THEN listed ELSE {x \in listed : previous[x] # snap'[x]}
           /\ toDelete' = IF f THEN {} ELSE {x \in File : previous[x] # 0 /\ snap'[x] = 0}
           /\ disk' = [x \in File |-> IF x \in gone THEN 0 ELSE disk[x]]
           /\ deleted' = deleted \cup gone /\ settled' = settled \ gone
           /\ listed \subseteq Visible \ aged
           /\ Walk(listed, gone)
<1> USE DEF TypeInv, TypeOK
<1>1. PICK listed \in SUBSET (Visible \ aged), gone \in SUBSET (Visible \cap aged) :
        /\ Walk(listed, gone)
        /\ snap' = [x \in File |-> IF x \in listed THEN disk[x] ELSE 0]
        /\ toSend' = IF f THEN listed
                         ELSE {x \in listed : previous[x] #
                                 [y \in File |-> IF y \in listed THEN disk[y] ELSE 0][x]}
        /\ toDelete' = IF f THEN {}
                           ELSE {x \in File : previous[x] # 0 /\
                                   [y \in File |-> IF y \in listed THEN disk[y] ELSE 0][x] = 0}
        /\ disk' = [x \in File |-> IF x \in gone THEN 0 ELSE disk[x]]
        /\ deleted' = deleted \cup gone /\ settled' = settled \ gone
  BY DEF Scan
<1>2. listed \in SUBSET settled /\ gone \in SUBSET settled
  BY DEF Visible
<1>3. 0 \in Version /\ \A v \in Version : v > 0 => v # 0
  BY DEF Version
<1>4. /\ snap' \in [File -> Version]
      /\ \A x \in File : snap'[x] = IF x \in listed THEN disk[x] ELSE 0
      /\ \A x \in File : snap'[x] # 0 <=> x \in listed
  BY <1>1, <1>2, <1>3
<1> QED BY <1>1, <1>2, <1>4

LEMMA TypeStep == TypeInv /\ [Next]_vars => TypeInv'
<1> SUFFICES ASSUME TypeInv, [Next]_vars PROVE TypeInv'
  OBVIOUS
<1>0. 0 \in Version /\ Version \subseteq Int /\ \A v \in Version : v < MaxVersion => v + 1 \in Version /\ v + 1 > 0
  BY DEF Version
<1> USE DEF TypeInv, TypeOK, diskVars, agentVars, rowVars
<1>1. ASSUME NEW f \in File, Write(f) PROVE TypeInv'
  <2>1. disk' = [disk EXCEPT ![f] = @ + 1] /\ settled' = settled \ {f} /\ disk[f] < MaxVersion
    BY <1>1 DEF Write
  <2>2. disk' \in [File -> Version] /\ \A g \in settled' : disk'[g] > 0
    BY <1>0, <2>1
  <2> QED BY <1>1, <2>1, <2>2 DEF Write
<1>2. ASSUME NEW f \in File, SettleFile(f) \/ AgeFile(f) PROVE TypeInv'
  BY <1>2 DEF SettleFile, AgeFile
<1>3. ASSUME NEW f \in File, Remove(f) PROVE TypeInv'
  <2>1. /\ disk' = [disk EXCEPT ![f] = 0] /\ settled' = settled \ {f} /\ deleted' = deleted \cup {f}
        /\ UNCHANGED <<aged, mounted, agentVars, request, late, rowVars, faults>>
    BY <1>3 DEF Remove
  <2>2. disk' \in [File -> Version] /\ \A g \in settled' : disk'[g] > 0
    BY <1>0, <2>1
  <2> QED BY <2>1, <2>2
<1>4. CASE Unmount \/ Remount \/ CheckStorage
  BY <1>4 DEF Unmount, Remount, CheckStorage
<1>5. ASSUME NEW f \in BOOLEAN, Scan(f) PROVE TypeInv'
  <2>1. PICK listed \in SUBSET settled, gone \in SUBSET settled :
           /\ snap' \in [File -> Version]
           /\ toSend' = IF f THEN listed ELSE {x \in listed : previous[x] # snap'[x]}
           /\ toDelete' = IF f THEN {} ELSE {x \in File : previous[x] # 0 /\ snap'[x] = 0}
           /\ disk' = [x \in File |-> IF x \in gone THEN 0 ELSE disk[x]]
           /\ deleted' = deleted \cup gone /\ settled' = settled \ gone
    BY <1>5, ScanFacts
  <2>2. disk' \in [File -> Version] /\ \A g \in settled' : disk'[g] > 0
    BY <1>0, <2>1
  <2>3. token' \in Token \cup {0}
    BY <1>5, FreshFacts DEF Scan
  <2>4. toSend' \subseteq File /\ toDelete' \subseteq File
    BY <2>1
  <2> QED BY <1>5, <2>1, <2>2, <2>3, <2>4 DEF Scan
<1>6. CASE SendPage \/ PageReturns \/ Commit \/ SaveFails \/ RequestFails \/ AgentRestart
  BY <1>6, RoundTypes
<1>7. CASE HandleCurrent
  BY <1>7, HandleTypes DEF HandleCurrent
<1>8. CASE HandleLate
  BY <1>8, HandleTypes DEF HandleLate
<1>9. CASE CancelLate
  BY <1>9, NoneFacts DEF CancelLate
<1>10. CASE UNCHANGED vars
  BY <1>10 DEF vars
<1> HIDE DEF TypeInv
<1> QED BY <1>1, <1>2, <1>3, <1>4, <1>5, <1>6, <1>7, <1>8, <1>9, <1>10 DEF Next, AgentStep

(* The files, the agent's scan, its requests and the rows keep their types.*)
THEOREM TypeCorrect == Spec => []TypeOK
<1>1. TypeInv => TypeOK
  BY DEF TypeInv
<1> QED BY <1>1, TypeInit, TypeStep, PTL DEF Spec

----------------------------------------------------------------------------
(* A synchronisation and its requests                                      *)

(* A request is of the synchronisation that waits for it: its pages are    *)
(* listed files and files that are no longer listed, and only the last     *)
(* request of a full one, when nothing is left to send, is complete.       *)
RequestInv == request.st # "none" =>
  /\ request.token = token /\ request.data = snap
  /\ \A f \in request.add : snap[f] # 0
  /\ \A f \in request.del : snap[f] = 0 /\ previous[f] # 0
  /\ full => request.del = {}
  /\ request.complete => full /\ toSend = {} /\ request.add = {}

SyncInv ==
  /\ late = None
  /\ phase # "sync" => request = None /\ snap = Empty
  /\ request.st = "none" => request = None
  /\ request.st \in {"prune", "done"} => request.add = {} /\ request.del = {}
  /\ phase = "sync" =>
       /\ full => token \in Token /\ toDelete = {}
       /\ ~full => token = 0 /\ fullDone
       /\ \A f \in toSend : snap[f] # 0
       /\ \A f \in toDelete : snap[f] = 0 /\ previous[f] # 0
       /\ RequestInv

LEMMA SyncInit == Init => SyncInv
BY NoneFacts DEF Init, SyncInv

(* The handler works on the agent's current request, row by row.           *)
LEMMA HandleFacts ==
  ASSUME TypeInv, SyncInv, HandleCurrent
  PROVE  /\ phase = "sync" /\ UNCHANGED <<diskVars, agentVars, late, faults>>
         /\ \/ \E f \in request.add :
                  /\ request.st = "running" /\ Upsert(request, f)
                  /\ request' = [request EXCEPT !.add = @ \ {f}]
            \/ \E f \in request.del :
                  /\ request.st = "running" /\ request.add = {}
                  /\ row' = [row EXCEPT ![f] = 0] /\ rowToken' = [rowToken EXCEPT ![f] = 0]
                  /\ request' = [request EXCEPT !.del = @ \ {f}]
            \/ /\ request.st = "running" /\ request.add = {} /\ request.del = {}
               /\ IF request.complete THEN Reconcile(request) ELSE UNCHANGED rowVars
               /\ request' = [request EXCEPT !.st = "prune"]
            \/ /\ request.st = "prune"
               /\ row' = [f \in File |-> IF f \in aged THEN 0 ELSE row[f]]
               /\ rowToken' = [f \in File |-> IF f \in aged THEN 0 ELSE rowToken[f]]
               /\ request' = [request EXCEPT !.st = "done"]
<1>1. UNCHANGED <<diskVars, agentVars, late, faults>>
  BY DEF HandleCurrent
<1>2. \E r : Handle(request, r) /\ request' = r
  BY DEF HandleCurrent
<1>3. Handle(request, request')
  BY <1>2
<1>4. request.st \in {"running", "prune"}
  BY <1>3 DEF Handle
<1>5. phase = "sync"
  BY <1>4, NoneFacts DEF SyncInv
<1> HIDE DEF Upsert, Reconcile, rowVars
<1> QED BY <1>1, <1>3, <1>5 DEF Handle

LEMMA SyncStep ==
  ASSUME ~LateRequests
  PROVE  TypeInv /\ SyncInv /\ [Next]_vars => SyncInv'
<1> SUFFICES ASSUME TypeInv, SyncInv, [Next]_vars PROVE SyncInv'
  OBVIOUS
<1>1. ASSUME UNCHANGED <<agentVars, request, late>> PROVE SyncInv'
  BY <1>1 DEF SyncInv, RequestInv, agentVars
<1>2. ASSUME NEW f \in File, Write(f) \/ SettleFile(f) \/ AgeFile(f) \/ Remove(f)
      PROVE  UNCHANGED <<agentVars, request, late>>
  BY <1>2 DEF Write, SettleFile, AgeFile, Remove
<1>3. CASE Unmount \/ Remount
  BY <1>1, <1>3 DEF Unmount, Remount
<1>4. CASE CheckStorage
  BY <1>4 DEF CheckStorage, SyncInv
<1>5. ASSUME NEW f \in BOOLEAN, Scan(f) PROVE SyncInv'
  <2>1. PICK listed \in SUBSET settled :
           /\ \A x \in File : snap'[x] # 0 <=> x \in listed
           /\ toSend' = IF f THEN listed ELSE {x \in listed : previous[x] # snap'[x]}
           /\ toDelete' = IF f THEN {} ELSE {x \in File : previous[x] # 0 /\ snap'[x] = 0}
    BY <1>5, ScanFacts
  <2>2. /\ phase = "checked" /\ phase' = "sync" /\ full' = f
        /\ UNCHANGED <<previous, fullDone, request, late>>
        /\ token' = IF f THEN FreshToken ELSE 0
        /\ ~fullDone => f
    BY <1>5 DEF Scan
  <2>3. request = None /\ late = None
    BY <2>2 DEF SyncInv
  <2>4. f => token' \in Token
    BY <2>2, FreshFacts DEF TypeInv
  <2>5. (\A x \in toSend' : snap'[x] # 0) /\ (\A x \in toDelete' : snap'[x] = 0 /\ previous[x] # 0)
    BY <2>1 DEF TypeInv, TypeOK
  <2>6. RequestInv' /\ request'.st = "none"
    BY <2>2, <2>3, NoneFacts DEF RequestInv
  <2>7. f => toDelete' = {}
    BY <2>1
  <2> HIDE DEF RequestInv
  <2> QED BY <2>2, <2>3, <2>4, <2>5, <2>6, <2>7 DEF SyncInv
<1>6. CASE SendPage
  <2>1. PICK P \in Pages(toSend), D \in Pages(toDelete) :
          /\ request' = [st |-> "running", add |-> P, del |-> D, token |-> token,
                         complete |-> full /\ toSend = {}, data |-> snap]
          /\ toSend' = toSend \ P /\ toDelete' = toDelete \ D
    BY <1>6 DEF SendPage
  <2>2. P \subseteq toSend /\ D \subseteq toDelete
    BY <2>1 DEF Pages
  <2>3. phase = "sync" /\ UNCHANGED <<phase, snap, previous, fullDone, full, token, late>>
    BY <1>6 DEF SendPage
  <2>4. /\ full => token \in Token /\ toDelete = {}
        /\ ~full => token = 0 /\ fullDone
        /\ \A f \in toSend : snap[f] # 0
        /\ \A f \in toDelete : snap[f] = 0 /\ previous[f] # 0
    BY <2>3 DEF SyncInv
  <2>5. RequestInv'
    BY <2>1, <2>2, <2>3, <2>4 DEF RequestInv
  <2>6. request'.st = "running"
    BY <2>1
  <2>7. full => toDelete' = {}
    BY <2>1, <2>4
  <2> QED BY <2>1, <2>3, <2>4, <2>5, <2>6, <2>7 DEF SyncInv
<1>7. CASE PageReturns
  BY <1>7, NoneFacts DEF PageReturns, agentVars, SyncInv, RequestInv
<1>8. CASE Commit \/ SaveFails \/ RequestFails \/ AgentRestart
  <2>1. phase' = "idle" /\ snap' = Empty /\ request' = None /\ late' = late
    BY <1>8 DEF Commit, SaveFails, RequestFails, AgentRestart, Leave, GiveUp
  <2> QED BY <2>1, NoneFacts DEF SyncInv
<1>9. CASE HandleCurrent
  <2>1. phase = "sync" /\ UNCHANGED <<agentVars, late>> /\ request \in Request
    BY <1>9, HandleFacts DEF TypeInv, TypeOK
  <2>2. /\ request'.st # "none" /\ request.st # "none"
        /\ request'.token = request.token /\ request'.data = request.data
        /\ request'.complete = request.complete
        /\ request'.add \subseteq request.add /\ request'.del \subseteq request.del
        /\ request'.st \in {"prune", "done"} => request'.add = {} /\ request'.del = {}
    <3> HIDE DEF Upsert, Reconcile, rowVars
    <3>1. request = [st |-> request.st, add |-> request.add, del |-> request.del,
                     token |-> request.token, complete |-> request.complete, data |-> request.data]
      BY <2>1 DEF Request
    <3>2. CASE \E f \in request.add : request.st = "running" /\ request' = [request EXCEPT !.add = @ \ {f}]
      BY <3>1, <3>2
    <3>3. CASE \E f \in request.del : request.st = "running" /\ request' = [request EXCEPT !.del = @ \ {f}]
      BY <3>1, <3>3
    <3>4. CASE /\ request.st = "running" /\ request.add = {} /\ request.del = {}
               /\ request' = [request EXCEPT !.st = "prune"]
      BY <3>1, <3>4
    <3>5. CASE request.st = "prune" /\ request' = [request EXCEPT !.st = "done"]
      BY <3>1, <3>5 DEF SyncInv
    <3> QED BY <1>9, <3>2, <3>3, <3>4, <3>5, HandleFacts
  <2>3. RequestInv'
    BY <2>1, <2>2 DEF SyncInv, RequestInv, agentVars
  <2> QED BY <2>1, <2>2, <2>3 DEF SyncInv, agentVars
<1>10. ~HandleLate /\ (CancelLate => late.st # "none")
  BY NoneFacts DEF HandleLate, Handle, CancelLate, SyncInv
<1>11. ~CancelLate
  BY <1>10, NoneFacts DEF SyncInv
<1>12. CASE UNCHANGED vars
  BY <1>1, <1>12 DEF vars
<1> QED BY <1>1, <1>2, <1>3, <1>4, <1>5, <1>6, <1>7, <1>8, <1>9, <1>10, <1>11, <1>12
        DEF Next, AgentStep

----------------------------------------------------------------------------
(* A full synchronisation                                                  *)

(* Listed, and neither to be sent nor on its way: its row was written.     *)
Sent(f) == snap[f] # 0 /\ f \notin toSend /\ f \notin request.add

(* A row that bears the token is what the scan saw, what was sent bears it *)
(* (or was pruned), and after the reconciliation there is nothing else.    *)
FullRow(f) ==
  /\ rowToken[f] = token => row[f] = snap[f]
  /\ Sent(f) => rowToken[f] = token \/ (f \in aged /\ row[f] = 0)
  /\ request.complete /\ request.st \in {"prune", "done"} =>
       row[f] = snap[f] \/ (f \in aged /\ row[f] = 0)

FullInv == phase = "sync" /\ full => \A f \in File : FullRow(f)

LEMMA FullHandle ==
  ASSUME TypeInv, SyncInv, FullInv, HandleCurrent
  PROVE  FullInv'
<1> SUFFICES ASSUME phase = "sync", full PROVE \A f \in File : FullRow(f)'
  BY HandleFacts DEF FullInv, agentVars
<1>1. /\ \A f \in File : FullRow(f)
      /\ token \in Token /\ token # 0
      /\ UNCHANGED <<snap, toSend, token, aged>>
  BY HandleFacts DEF FullInv, SyncInv, diskVars, agentVars
<1>2. /\ request \in Request /\ row \in [File -> Version]
      /\ rowToken \in [File -> Token \cup {0}] /\ snap \in [File -> Version]
  BY DEF TypeInv, TypeOK
<1>3. request.st # "none" => RequestInv
  BY DEF SyncInv
<1>4. ASSUME NEW f \in request.add, request.st = "running", Upsert(request, f),
             request' = [request EXCEPT !.add = @ \ {f}]
      PROVE  \A g \in File : FullRow(g)'
  <2>1. request.token = token /\ request.data = snap /\ request.add \subseteq File
    BY <1>2, <1>3, <1>4 DEF RequestInv, Request
  <2>2. row' = [row EXCEPT ![f] = snap[f]] /\ rowToken' = [rowToken EXCEPT ![f] = token]
    BY <1>1, <1>4, <2>1 DEF Upsert
  <2>3. request'.st = "running" /\ request'.add = request.add \ {f}
    BY <1>2, <1>4 DEF Request
  <2>4. ASSUME NEW g \in File, g # f PROVE FullRow(g)'
    BY <1>1, <1>2, <2>2, <2>3, <2>4 DEF FullRow, Sent
  <2>5. FullRow(f)'
    BY <1>1, <1>2, <2>1, <2>2, <2>3 DEF FullRow
  <2> QED BY <2>4, <2>5
<1>5. ASSUME NEW f \in request.del, request.st = "running" PROVE FALSE
  BY <1>3, <1>5 DEF RequestInv
<1>6. ASSUME request.st = "running", request.add = {},
             IF request.complete THEN Reconcile(request) ELSE UNCHANGED rowVars,
             request' = [request EXCEPT !.st = "prune"]
      PROVE  \A g \in File : FullRow(g)'
  <2>1. request'.add = {} /\ request'.complete = request.complete
    BY <1>2, <1>6 DEF Request
  <2>2. CASE request.complete
    <3>1. request.token = token /\ toSend = {}
      BY <1>3, <1>6, <2>2 DEF RequestInv
    <3>2. ASSUME NEW g \in File
          PROVE  /\ row'[g] = IF rowToken[g] = token THEN row[g] ELSE 0
                 /\ rowToken'[g] = IF rowToken[g] = token THEN rowToken[g] ELSE 0
      BY <1>6, <2>2, <3>1 DEF Reconcile
    <3>3. ASSUME NEW g \in File PROVE FullRow(g)'
      <4>1. Sent(g) <=> snap[g] # 0
        BY <1>6, <3>1 DEF Sent
      <4>2. CASE rowToken[g] = token
        BY <1>1, <3>2, <4>2 DEF FullRow
      <4>3. CASE rowToken[g] # token
        <5>1. row'[g] = 0 /\ rowToken'[g] # token'
          BY <1>1, <3>2, <4>3
        <5>2. row'[g] = snap[g] \/ g \in aged
          BY <1>1, <4>1, <4>3, <5>1 DEF FullRow
        <5>3. Sent(g)' => snap[g] # 0
          BY <1>1 DEF Sent
        <5>4. snap[g] # 0 => g \in aged
          BY <1>2, <5>1, <5>2
        <5> QED BY <1>1, <5>1, <5>2, <5>3, <5>4 DEF FullRow
      <4> QED BY <4>2, <4>3
    <3> QED BY <3>3
  <2>3. CASE ~request.complete
    BY <1>1, <1>6, <2>1, <2>3 DEF FullRow, Sent, rowVars
  <2> QED BY <2>2, <2>3
<1>7. ASSUME request.st = "prune",
             row' = [f \in File |-> IF f \in aged THEN 0 ELSE row[f]],
             rowToken' = [f \in File |-> IF f \in aged THEN 0 ELSE rowToken[f]],
             request' = [request EXCEPT !.st = "done"]
      PROVE  \A g \in File : FullRow(g)'
  <2>1. request'.add = request.add /\ request'.complete = request.complete
    BY <1>2, <1>7 DEF Request
  <2>2. ASSUME NEW g \in File
        PROVE  /\ row'[g] = IF g \in aged THEN 0 ELSE row[g]
               /\ rowToken'[g] = IF g \in aged THEN 0 ELSE rowToken[g]
    BY <1>7
  <2>3. ASSUME NEW g \in File, g \in aged PROVE FullRow(g)'
    BY <1>1, <2>2, <2>3 DEF FullRow
  <2>4. ASSUME NEW g \in File, g \notin aged PROVE FullRow(g)'
    BY <1>1, <1>7, <2>1, <2>2, <2>4 DEF FullRow, Sent
  <2> QED BY <2>3, <2>4
<1> HIDE DEF FullRow, Upsert, Reconcile, rowVars
<1> QED BY <1>4, <1>5, <1>6, <1>7, HandleFacts

LEMMA FullStep ==
  ASSUME ~LateRequests
  PROVE  TypeInv /\ SyncInv /\ FullInv /\ [Next]_vars => FullInv'
<1> SUFFICES ASSUME TypeInv, SyncInv, FullInv, [Next]_vars PROVE FullInv'
  OBVIOUS
<1>1. ASSUME UNCHANGED <<agentVars, request, rowVars>>, aged \subseteq aged' PROVE FullInv'
  BY <1>1 DEF FullInv, FullRow, Sent, agentVars, rowVars
<1>2. ASSUME NEW f \in File, Write(f) \/ SettleFile(f) \/ AgeFile(f) \/ Remove(f)
      PROVE  UNCHANGED <<agentVars, request, rowVars>> /\ aged \subseteq aged'
  BY <1>2 DEF Write, SettleFile, AgeFile, Remove
<1>3. CASE Unmount \/ Remount
  BY <1>1, <1>3 DEF Unmount, Remount
<1>4. CASE CheckStorage
  BY <1>4 DEF CheckStorage, FullInv
<1>5. ASSUME NEW f \in BOOLEAN, Scan(f) PROVE FullInv'
  <2>1. PICK listed \in SUBSET settled :
           /\ \A x \in File : snap'[x] # 0 <=> x \in listed
           /\ toSend' = IF f THEN listed ELSE {x \in listed : previous[x] # snap'[x]}
    BY <1>5, ScanFacts
  <2>2. /\ phase = "checked" /\ full' = f
        /\ UNCHANGED <<request, rowToken>>
        /\ token' = IF f THEN FreshToken ELSE 0
    BY <1>5 DEF Scan, rowVars
  <2>3. request.st = "none"
    BY <2>2, NoneFacts DEF SyncInv
  <2>4. ASSUME f, NEW g \in File PROVE rowToken'[g] # token' /\ (snap'[g] # 0 => g \in toSend')
    BY <2>1, <2>2, <2>4, FreshFacts DEF TypeInv
  <2> QED BY <2>2, <2>3, <2>4 DEF FullInv, FullRow, Sent
<1>6. CASE SendPage
  <2>1. PICK P \in Pages(toSend), D \in Pages(toDelete) :
          /\ request' = [st |-> "running", add |-> P, del |-> D, token |-> token,
                         complete |-> full /\ toSend = {}, data |-> snap]
          /\ toSend' = toSend \ P
    BY <1>6 DEF SendPage
  <2>2. request'.st = "running" /\ request'.add = P
    BY <2>1
  <2>3. UNCHANGED <<phase, full, snap, token, aged, rowVars>> /\ request = None
    BY <1>6 DEF SendPage, SyncInv, diskVars
  <2> QED BY <2>1, <2>2, <2>3, NoneFacts DEF FullInv, FullRow, Sent, rowVars
<1>7. CASE PageReturns
  <2>1. request' = None /\ request.add = {} /\ UNCHANGED <<agentVars, rowVars, aged>>
    BY <1>7 DEF PageReturns, SyncInv, diskVars
  <2> QED BY <2>1, NoneFacts DEF FullInv, FullRow, Sent, agentVars, rowVars
<1>8. CASE Commit \/ SaveFails \/ RequestFails \/ AgentRestart
  <2>1. phase' = "idle"
    BY <1>8 DEF Commit, SaveFails, RequestFails, AgentRestart, Leave
  <2> QED BY <2>1 DEF FullInv
<1>9. ~HandleLate /\ ~CancelLate
  BY NoneFacts DEF HandleLate, Handle, CancelLate, SyncInv
<1>10. CASE UNCHANGED vars
  BY <1>1, <1>10 DEF vars, diskVars
<1> QED BY <1>1, <1>2, <1>3, <1>4, <1>5, <1>6, <1>7, <1>8, <1>9, <1>10, FullHandle
        DEF Next, AgentStep

LEMMA SyncHolds ==
  ASSUME ~LateRequests PROVE Spec => [](TypeInv /\ SyncInv /\ FullInv)
<1>1. Init => TypeInv /\ SyncInv /\ FullInv
  BY TypeInit, SyncInit DEF Init, FullInv
<1>2. TypeInv /\ SyncInv /\ FullInv /\ [Next]_vars => (TypeInv /\ SyncInv /\ FullInv)'
  BY TypeStep, SyncStep, FullStep
<1> QED BY <1>1, <1>2, PTL DEF Spec

(* ReconcileRecordingInventory leaves the rows a full scan saw, and no     *)
(* other (store.go), whatever failed before, whatever the storage does     *)
(* during the scan, and however the files go to pages: provided that a     *)
(* request whose agent has given it up writes no rows any more.            *)
THEOREM FullInventoryIsExact ==
  ASSUME ~LateRequests PROVE Spec => []CompleteIsExact
<1>1. SyncInv /\ FullInv => CompleteIsExact
  BY DEF SyncInv, FullInv, FullRow, CompleteIsExact, Finished
<1> QED BY <1>1, SyncHolds, PTL

----------------------------------------------------------------------------
(* The timeline                                                            *)

(* A version v of a file that was listed once, and one whose row may go.   *)
(* Neither is ever taken back.                                             *)
Outdated(f, v) == f \in deleted \/ v < disk[f]
Known(f, v)    == Outdated(f, v) \/ (v = disk[f] /\ f \in settled)
Excused(f, v)  == Outdated(f, v) \/ f \in aged

(* What has a row or is remembered was listed once, so a scan of a mounted *)
(* storage misses it only when it is excused, and lists nothing older than *)
(* the row. Whatever is remembered has its row, and what an increment need *)
(* not send has it too.                                                    *)
KeptRow(f) ==
  /\ f \in deleted => disk[f] = 0
  /\ \A v \in {row[f], previous[f], snap[f]} : v # 0 => Known(f, v)
  /\ phase = "sync" /\ snap[f] = 0 =>
       \A v \in {row[f], previous[f]} : v # 0 => Excused(f, v)
  /\ phase = "sync" /\ snap[f] # 0 => row[f] <= snap[f]
  /\ fullDone /\ previous[f] # 0 => row[f] # 0 \/ Excused(f, previous[f])
  /\ phase = "sync" /\ ~full /\ Sent(f) => row[f] # 0 \/ Excused(f, snap[f])

KeepInv == (phase = "checked" => mounted) /\ \A f \in File : KeptRow(f)

Inv == TypeInv /\ SyncInv /\ FullInv /\ KeepInv

(* Files are written to or go, age, and settle.                            *)
LEMMA FilesFacts ==
  ASSUME TypeInv, [Next]_vars, NEW f \in File, f \in deleted => disk[f] = 0
  PROVE  /\ f \in deleted' => disk'[f] = 0
         /\ deleted \subseteq deleted' /\ aged \subseteq aged'
         /\ f \in deleted' \/ disk[f] <= disk'[f]
         /\ f \in deleted' \/ disk[f] < disk'[f] \/ (f \in settled => f \in settled')
<1> DEFINE Goal == /\ f \in deleted' => disk'[f] = 0
                   /\ deleted \subseteq deleted' /\ aged \subseteq aged'
                   /\ f \in deleted' \/ disk[f] <= disk'[f]
                   /\ f \in deleted' \/ disk[f] < disk'[f] \/ (f \in settled => f \in settled')
<1>1. disk \in [File -> Version] /\ disk[f] \in Int
  BY DEF TypeInv, TypeOK, Version
<1>2. ASSUME UNCHANGED <<disk, deleted>>, aged \subseteq aged', settled \subseteq settled' PROVE Goal
  BY <1>1, <1>2
<1>3. ASSUME NEW g \in File, Write(g) PROVE Goal
  <2>1. /\ disk' = [disk EXCEPT ![g] = @ + 1] /\ settled' = settled \ {g}
        /\ UNCHANGED <<deleted, aged>> /\ g \notin deleted
    BY <1>3 DEF Write
  <2>2. disk'[f] = IF f = g THEN disk[f] + 1 ELSE disk[f]
    BY <1>1, <2>1
  <2> QED BY <1>1, <2>1, <2>2
<1>4. ASSUME NEW g \in File, SettleFile(g) \/ AgeFile(g) PROVE Goal
  BY <1>2, <1>4 DEF SettleFile, AgeFile
<1>5. ASSUME NEW g \in File, Remove(g) PROVE Goal
  <2>1. /\ disk' = [disk EXCEPT ![g] = 0] /\ settled' = settled \ {g}
        /\ deleted' = deleted \cup {g} /\ aged' = aged
    BY <1>5 DEF Remove
  <2>2. disk'[f] = IF f = g THEN 0 ELSE disk[f]
    BY <1>1, <2>1
  <2> QED BY <1>1, <2>1, <2>2
<1>6. ASSUME NEW b \in BOOLEAN, Scan(b) PROVE Goal
  <2>1. PICK gone \in SUBSET settled :
          /\ disk' = [x \in File |-> IF x \in gone THEN 0 ELSE disk[x]]
          /\ deleted' = deleted \cup gone /\ settled' = settled \ gone
    BY <1>6, ScanFacts
  <2>2. aged' = aged
    BY <1>6 DEF Scan
  <2>3. disk'[f] = IF f \in gone THEN 0 ELSE disk[f]
    BY <2>1
  <2> QED BY <1>1, <2>1, <2>2, <2>3
<1>7. CASE Unmount \/ Remount \/ AgentStep \/ SaveFails \/ RequestFails \/ AgentRestart
           \/ HandleCurrent \/ HandleLate \/ CancelLate
  <2>1. UNCHANGED <<disk, deleted, settled, aged>>
    BY <1>7 DEF Unmount, Remount, AgentStep, CheckStorage, SendPage, PageReturns, Commit,
                SaveFails, RequestFails, AgentRestart, HandleCurrent, HandleLate, CancelLate,
                diskVars
  <2> QED BY <1>2, <2>1
<1>8. CASE UNCHANGED vars
  BY <1>2, <1>8 DEF vars, diskVars
<1> QED BY <1>3, <1>4, <1>5, <1>6, <1>7, <1>8 DEF Next

LEMMA ExcusedStays ==
  ASSUME Inv, [Next]_vars, NEW f \in File, NEW v \in Version
  PROVE  (Excused(f, v) => Excused(f, v)') /\ (Known(f, v) => Known(f, v)')
<1>1. TypeInv /\ (f \in deleted => disk[f] = 0)
  BY DEF Inv, KeepInv, KeptRow
<1>2. v \in Int /\ disk[f] \in Int
  BY <1>1 DEF TypeInv, TypeOK, Version
<1>3. disk'[f] \in Int
  BY <1>1, TypeStep DEF TypeInv, TypeOK, Version
<1> QED BY <1>1, <1>2, <1>3, FilesFacts DEF Excused, Known, Outdated

(* A step of the handler either writes what the scan saw to a row, or      *)
(* takes rows of files that the scan did not see or that are too old. It   *)
(* makes a row of each listed file it is sent.                             *)
LEMMA HandleKeeps ==
  ASSUME Inv, HandleCurrent
  PROVE  /\ \/ \A f \in File : row'[f] = row[f] \/ (row'[f] = snap[f] /\ snap[f] # 0)
            \/ \A f \in File : row'[f] = row[f] \/ (row'[f] = 0 /\ (f \in aged \/ snap[f] = 0))
         /\ \A f \in File : Sent(f)' /\ ~Sent(f) => row'[f] # 0
<1> DEFINE Writes == \A f \in File : row'[f] = row[f] \/ (row'[f] = snap[f] /\ snap[f] # 0)
           Takes  == \A f \in File : row'[f] = row[f] \/ (row'[f] = 0 /\ (f \in aged \/ snap[f] = 0))
           Makes  == \A f \in File : Sent(f)' /\ ~Sent(f) => row'[f] # 0
<1>1. /\ phase = "sync" /\ UNCHANGED <<snap, toSend>>
      /\ RequestInv \/ request.st = "none"
      /\ \A f \in File : full => FullRow(f)
  BY HandleFacts DEF Inv, SyncInv, FullInv, agentVars
<1>2. /\ request \in Request /\ row \in [File -> Version]
      /\ rowToken \in [File -> Token \cup {0}] /\ snap \in [File -> Version]
  BY DEF Inv, TypeInv, TypeOK
<1>3. ASSUME NEW g \in request.add, request.st = "running", Upsert(request, g),
             request' = [request EXCEPT !.add = @ \ {g}]
      PROVE  Writes /\ Makes
  <2>1. request.data = snap /\ g \in File /\ snap[g] # 0
    BY <1>1, <1>2, <1>3 DEF RequestInv, Request
  <2>2. row' = [row EXCEPT ![g] = IF request.token = 0 /\ row[g] # 0 THEN row[g] ELSE snap[g]]
    BY <1>2, <1>3, <2>1 DEF Upsert
  <2>3. /\ \A f \in File \ {g} : row'[f] = row[f]
        /\ row'[g] # 0 /\ row'[g] \in {row[g], snap[g]}
    BY <1>2, <2>1, <2>2
  <2>4. request'.add = request.add \ {g}
    BY <1>2, <1>3 DEF Request
  <2>5. Writes
    BY <2>1, <2>3
  <2>6. Makes
    BY <1>1, <2>3, <2>4 DEF Sent
  <2> QED BY <2>5, <2>6
<1>4. ASSUME NEW g \in request.del, request.st = "running", request.add = {},
             row' = [row EXCEPT ![g] = 0], request' = [request EXCEPT !.del = @ \ {g}]
      PROVE  Takes /\ Makes
  <2>1. snap[g] = 0
    BY <1>1, <1>4 DEF RequestInv
  <2>2. request'.add = request.add
    BY <1>2, <1>4 DEF Request
  <2> QED BY <1>1, <1>2, <1>4, <2>1, <2>2 DEF Sent
<1>5. ASSUME request.st = "running", request.add = {},
             IF request.complete THEN Reconcile(request) ELSE UNCHANGED rowVars,
             request' = [request EXCEPT !.st = "prune"]
      PROVE  Takes /\ Makes
  <2>1. request'.add = request.add
    BY <1>2, <1>5 DEF Request
  <2>2. Makes
    BY <1>1, <2>1 DEF Sent
  <2>3. CASE ~request.complete
    BY <1>5, <2>2, <2>3 DEF rowVars
  <2>4. CASE request.complete
    <3>1. request.token = token /\ toSend = {} /\ full
      BY <1>1, <1>5, <2>4 DEF RequestInv
    <3>2. row' = [f \in File |-> IF rowToken[f] = token THEN row[f] ELSE 0]
      BY <1>5, <2>4, <3>1 DEF Reconcile
    <3>3. \A f \in File : rowToken[f] # token => f \in aged \/ snap[f] = 0
      BY <1>1, <1>5, <3>1 DEF FullRow, Sent
    <3> QED BY <2>2, <3>2, <3>3
  <2> QED BY <2>3, <2>4
<1>6. ASSUME request.st = "prune",
             row' = [g \in File |-> IF g \in aged THEN 0 ELSE row[g]],
             request' = [request EXCEPT !.st = "done"]
      PROVE  Takes /\ Makes
  <2>1. request'.add = request.add
    BY <1>2, <1>6 DEF Request
  <2> QED BY <1>1, <1>6, <2>1 DEF Sent
<1> HIDE DEF Upsert, Reconcile, rowVars, Writes, Takes, Makes
<1>7. (Writes \/ Takes) /\ Makes
  BY <1>3, <1>4, <1>5, <1>6, HandleFacts DEF Inv
<1> QED BY <1>7 DEF Writes, Takes, Makes

(* What the handler does to a row, said of a single file.                  *)
LEMMA HandleRow ==
  ASSUME Inv, HandleCurrent, NEW f \in File
  PROVE  /\ \/ row'[f] = row[f]
            \/ row'[f] = snap[f] /\ snap[f] # 0
            \/ row'[f] = 0 /\ (f \in aged \/ snap[f] = 0)
         /\ Sent(f)' /\ ~Sent(f) => row'[f] # 0
<1> HIDE DEF Sent
<1> QED BY HandleKeeps

LEMMA ScanKeeps ==
  ASSUME Meanwhile = {}, Inv, NEW b \in BOOLEAN, Scan(b)
  PROVE  KeepInv'
<1>i. TypeInv /\ (phase = "checked" => mounted) /\ \A f \in File : KeptRow(f)
  BY DEF Inv, KeepInv
<1>t. /\ disk \in [File -> Version] /\ row \in [File -> Version] /\ previous \in [File -> Version]
      /\ \A f \in settled : disk[f] > 0
      /\ Version \subseteq Int /\ 0 \in Version
  BY <1>i DEF TypeInv, TypeOK, Version
<1>1. PICK listed \in SUBSET settled, gone \in SUBSET settled :
        /\ snap' \in [File -> Version]
        /\ \A x \in File : snap'[x] = IF x \in listed THEN disk[x] ELSE 0
        /\ \A x \in File : snap'[x] # 0 <=> x \in listed
        /\ toSend' = IF b THEN listed ELSE {x \in listed : previous[x] # snap'[x]}
        /\ Walk(listed, gone)
  BY <1>i, ScanFacts
<1>2. /\ phase = "checked" /\ phase' = "sync" /\ full' = b
      /\ UNCHANGED <<previous, fullDone, row>>
      /\ ~fullDone => b
  BY DEF Scan, rowVars
<1>3. listed = settled \ aged
  BY <1>i, <1>1, <1>2 DEF Walk, Visible
<1>4. [Next]_vars
  BY DEF Next
<1>5. ASSUME NEW f \in File PROVE KeptRow(f)'
  <2>1. f \in deleted' => disk'[f] = 0
    BY <1>i, <1>4, FilesFacts DEF KeptRow
  <2>2. \A v \in Version : (Excused(f, v) => Excused(f, v)') /\ (Known(f, v) => Known(f, v)')
    BY <1>4, ExcusedStays
  <2>3. \A v \in {row[f], previous[f]} : v # 0 => Known(f, v)
    BY <1>i DEF KeptRow
  <2>4. f \in listed => snap'[f] = disk[f] /\ Known(f, snap'[f])
    BY <1>1 DEF Known
  <2>5. \A v \in {row'[f], previous'[f], snap'[f]} : v # 0 => Known(f, v)'
    BY <1>1, <1>2, <1>t, <2>2, <2>3, <2>4
  <2>6. ASSUME NEW v \in {row[f], previous[f]}, v # 0, snap'[f] = 0 PROVE Excused(f, v)'
    <3>1. v \in Version /\ Known(f, v) /\ f \notin listed
      BY <1>1, <1>t, <2>3, <2>6
    <3>2. Excused(f, v)
      BY <1>3, <3>1 DEF Known, Excused
    <3> QED BY <2>2, <3>1, <3>2
  <2>7. snap'[f] # 0 => row[f] <= snap'[f]
    <3> SUFFICES ASSUME f \in listed PROVE row[f] <= disk[f]
      BY <1>1
    <3>1. disk[f] > 0 /\ f \notin deleted
      BY <1>1, <1>i, <1>t DEF KeptRow
    <3>2. row[f] # 0 => Outdated(f, row[f]) \/ row[f] = disk[f]
      BY <2>3 DEF Known
    <3>3. row[f] \in Nat /\ disk[f] \in Nat
      BY <1>t DEF Version
    <3> QED BY <3>1, <3>2, <3>3 DEF Outdated
  <2>8. fullDone /\ previous[f] # 0 => row[f] # 0 \/ Excused(f, previous[f])'
    BY <1>2, <1>i, <1>t, <2>2 DEF KeptRow
  <2>9. ~b /\ Sent(f)' => fullDone /\ previous[f] # 0 /\ previous[f] = snap'[f]
    BY <1>1, <1>2 DEF Sent
  <2> HIDE DEF Known, Excused, Sent
  <2> QED BY <1>2, <2>1, <2>5, <2>6, <2>7, <2>8, <2>9 DEF KeptRow
<1> QED BY <1>2, <1>5 DEF KeepInv

LEMMA KeepStep ==
  ASSUME Meanwhile = {}, ~LateRequests
  PROVE  Inv /\ [Next]_vars => KeepInv'
<1> SUFFICES ASSUME Inv, [Next]_vars PROVE KeepInv'
  OBVIOUS
<1>i. /\ TypeInv /\ SyncInv /\ FullInv /\ KeepInv
      /\ (phase = "checked" => mounted) /\ \A f \in File : KeptRow(f)
  BY DEF Inv, KeepInv
<1>t. /\ row \in [File -> Version] /\ previous \in [File -> Version] /\ snap \in [File -> Version]
      /\ Version \subseteq Int /\ 0 \in Version
  BY <1>i DEF TypeInv, TypeOK, Version
<1>s. \A f \in File, v \in Version :
        (Excused(f, v) => Excused(f, v)') /\ (Known(f, v) => Known(f, v)')
  BY ExcusedStays
<1>d. \A f \in File : f \in deleted' => disk'[f] = 0
  BY <1>i, FilesFacts DEF KeptRow
<1> HIDE DEF Excused, Known
<1>1. ASSUME UNCHANGED <<agentVars, request, rowVars>>, phase = "checked" => mounted' PROVE KeepInv'
  BY <1>1, <1>i, <1>t, <1>s, <1>d DEF KeepInv, KeptRow, Sent, agentVars, rowVars
<1>2. ASSUME NEW f \in File, Write(f) \/ SettleFile(f) \/ AgeFile(f) \/ Remove(f) PROVE KeepInv'
  <2>1. UNCHANGED <<mounted, agentVars, request, rowVars>>
    BY <1>2 DEF Write, SettleFile, AgeFile, Remove
  <2> QED BY <1>1, <1>i, <2>1
<1>3. CASE Unmount \/ Remount
  BY <1>1, <1>3 DEF Unmount, Remount
<1>4. CASE CheckStorage
  <2>1. /\ phase' = "checked" /\ mounted' /\ phase = "idle"
        /\ UNCHANGED <<snap, previous, fullDone, row>>
    BY <1>4 DEF CheckStorage, diskVars, rowVars
  <2> QED BY <1>i, <1>t, <1>s, <1>d, <2>1 DEF KeepInv, KeptRow
<1>5. ASSUME NEW b \in BOOLEAN, Scan(b) PROVE KeepInv'
  BY <1>5, ScanKeeps
<1>6. CASE SendPage
  <2>1. PICK P \in Pages(toSend) : request'.add = P /\ toSend' = toSend \ P
    BY <1>6 DEF SendPage
  <2>2. /\ UNCHANGED <<phase, snap, previous, fullDone, full, row, mounted>>
        /\ request = None /\ phase = "sync"
    BY <1>6, <1>i DEF SendPage, SyncInv, diskVars, rowVars
  <2>3. \A f \in File : Sent(f)' => Sent(f)
    BY <2>1, <2>2, NoneFacts DEF Sent
  <2> QED BY <1>i, <1>t, <1>s, <1>d, <2>2, <2>3 DEF KeepInv, KeptRow
<1>7. CASE PageReturns
  <2>1. request.add = {} /\ UNCHANGED <<agentVars, row>> /\ phase = "sync"
    BY <1>7, <1>i DEF PageReturns, SyncInv, rowVars
  <2>2. \A f \in File : Sent(f)' => Sent(f)
    BY <2>1 DEF Sent, agentVars
  <2> QED BY <1>i, <1>t, <1>s, <1>d, <2>1, <2>2 DEF KeepInv, KeptRow, agentVars
<1>8. CASE Commit
  <2>1. /\ phase = "sync" /\ Finished /\ phase' = "idle" /\ snap' = Empty /\ previous' = snap
        /\ fullDone' = (fullDone \/ full) /\ row' = row
    BY <1>8 DEF Commit, Leave, rowVars
  <2>2. ASSUME NEW f \in File PROVE KeptRow(f)'
    <3>1. snap'[f] = 0
      BY <2>1 DEF Empty
    <3>2. snap[f] # 0 => row[f] # 0 \/ Excused(f, snap[f])
      <4>1. CASE full
        BY <1>i, <2>1, <4>1 DEF FullInv, FullRow, Finished, Excused
      <4>2. CASE ~full
        <5>1. toSend = {} /\ request.add = {}
          BY <1>i, <2>1, <4>2, NoneFacts DEF Finished, SyncInv
        <5> QED BY <1>i, <2>1, <4>2, <5>1 DEF KeptRow, Sent
      <4> QED BY <4>1, <4>2
    <3> QED BY <1>i, <1>t, <1>s, <1>d, <2>1, <3>1, <3>2 DEF KeptRow
  <2> QED BY <2>1, <2>2 DEF KeepInv
<1>9. CASE SaveFails \/ RequestFails \/ AgentRestart
  <2>1. /\ phase' = "idle" /\ snap' = Empty /\ UNCHANGED <<previous, row>>
        /\ fullDone' => fullDone
    BY <1>9 DEF SaveFails, RequestFails, AgentRestart, Leave, rowVars
  <2>2. \A f \in File : snap'[f] = 0
    BY <2>1 DEF Empty
  <2> QED BY <1>i, <1>t, <1>s, <1>d, <2>1, <2>2 DEF KeepInv, KeptRow
<1>10. CASE HandleCurrent
  <2>1. phase = "sync" /\ UNCHANGED agentVars
    BY <1>10, <1>i, HandleFacts
  <2>2. ASSUME NEW f \in File PROVE KeptRow(f)'
    <3>1. /\ \/ row'[f] = row[f]
             \/ row'[f] = snap[f] /\ snap[f] # 0
             \/ row'[f] = 0 /\ (f \in aged \/ snap[f] = 0)
          /\ Sent(f)' /\ ~Sent(f) => row'[f] # 0
      BY <1>10, HandleRow
    <3>2. UNCHANGED <<phase, snap, previous, fullDone, full>>
      BY <2>1 DEF agentVars
    <3>3. row'[f] = row[f] \/ row'[f] = snap[f] \/ row'[f] = 0
      BY <3>1
    <3>4. \A v \in {row'[f], previous[f], snap[f]} : v # 0 => Known(f, v)'
      BY <1>i, <1>t, <1>s, <3>3 DEF KeptRow
    <3>5. snap[f] = 0 => \A v \in {row'[f], previous[f]} : v # 0 => Excused(f, v)'
      BY <1>i, <1>t, <1>s, <2>1, <3>1 DEF KeptRow
    <3>6. snap[f] # 0 => row'[f] <= snap[f]
      <4>1. row[f] \in Nat /\ snap[f] \in Nat
        BY <1>t DEF Version
      <4>2. snap[f] # 0 => row[f] <= snap[f]
        BY <1>i, <2>1 DEF KeptRow
      <4> QED BY <3>3, <4>1, <4>2
    <3>7. f \in aged => \A v \in Version : Excused(f, v)'
      BY <1>s DEF Excused
    <3>8. fullDone /\ previous[f] # 0 => row'[f] # 0 \/ Excused(f, previous[f])'
      <4>1. CASE row'[f] = row[f]
        BY <1>i, <1>t, <1>s, <3>2, <4>1 DEF KeptRow
      <4>2. CASE row'[f] # row[f]
        BY <1>t, <3>1, <3>2, <3>5, <3>7, <4>2
      <4> QED BY <4>1, <4>2
    <3>9. ~full /\ Sent(f)' => row'[f] # 0 \/ Excused(f, snap[f])'
      <4>1. CASE Sent(f)
        BY <1>i, <1>t, <1>s, <2>1, <3>1, <3>2, <3>7, <4>1 DEF KeptRow, Sent
      <4>2. CASE ~Sent(f)
        BY <3>1, <4>2
      <4> QED BY <4>1, <4>2
    <3> HIDE DEF Sent
    <3> QED BY <1>d, <3>2, <3>4, <3>5, <3>6, <3>8, <3>9 DEF KeptRow
  <2> QED BY <2>1, <2>2 DEF KeepInv, agentVars
<1>11. ~HandleLate /\ ~CancelLate
  BY <1>i, NoneFacts DEF HandleLate, Handle, CancelLate, SyncInv
<1>12. CASE UNCHANGED vars
  BY <1>1, <1>i, <1>12 DEF vars, diskVars
<1> QED BY <1>2, <1>3, <1>4, <1>5, <1>6, <1>7, <1>8, <1>9, <1>10, <1>11, <1>12
        DEF Next, AgentStep

LEMMA InvHolds ==
  ASSUME Meanwhile = {}, ~LateRequests PROVE Spec => []Inv
<1>1. Init => Inv
  <2>1. Init => KeepInv
    BY DEF Init, KeepInv, KeptRow, Empty
  <2> QED BY <2>1, TypeInit, SyncInit DEF Init, FullInv, Inv
<1>2. Inv /\ [Next]_vars => Inv'
  BY TypeStep, SyncStep, FullStep, KeepStep DEF Inv
<1> QED BY <1>1, <1>2, PTL DEF Spec

(* Only the handler of the agent's current request changes rows.           *)
LEMMA RowsStay ==
  ASSUME Inv, [Next]_vars, ~HandleCurrent
  PROVE  row' = row
<1>1. ~HandleLate
  BY NoneFacts DEF HandleLate, Handle, Inv, SyncInv
<1>2. CASE UNCHANGED vars
  BY <1>2 DEF vars, rowVars
<1>3. ASSUME NEW g \in File, Write(g) \/ SettleFile(g) \/ AgeFile(g) \/ Remove(g)
      PROVE  row' = row
  BY <1>3 DEF Write, SettleFile, AgeFile, Remove, rowVars
<1>4. CASE Unmount \/ Remount \/ AgentStep \/ Scan(TRUE) \/ Scan(FALSE)
           \/ SaveFails \/ RequestFails \/ AgentRestart \/ CancelLate
  BY <1>4 DEF Unmount, Remount, AgentStep, CheckStorage, SendPage, PageReturns, Commit,
              Scan, SaveFails, RequestFails, AgentRestart, CancelLate, rowVars
<1> QED BY <1>1, <1>2, <1>3, <1>4 DEF Next

(* A row that goes is excused, and one that changes moves forward to a     *)
(* version its file has or had.                                            *)
LEMMA RowFacts ==
  ASSUME Inv, HandleCurrent
  PROVE  /\ \A f \in File : row[f] \in Nat /\ disk[f] \in Nat
         /\ \/ \A f \in File : \/ row'[f] = row[f]
                               \/ /\ row'[f] = snap[f] /\ row[f] <= snap[f] /\ snap[f] # 0
                                  /\ f \in deleted \/ snap[f] <= disk[f]
            \/ \A f \in File : \/ row'[f] = row[f]
                               \/ row'[f] = 0 /\ (row[f] # 0 => Excused(f, row[f]))
<1>1. phase = "sync" /\ \A f \in File : KeptRow(f)
  BY HandleFacts DEF Inv, KeepInv
<1>2. \A f \in File : row[f] \in Nat /\ disk[f] \in Nat /\ snap[f] \in Nat
  BY DEF Inv, TypeInv, TypeOK, Version
<1>3. ASSUME NEW f \in File, snap[f] # 0
      PROVE  row[f] <= snap[f] /\ (f \in deleted \/ snap[f] <= disk[f])
  <2>1. row[f] <= snap[f] /\ Known(f, snap[f])
    BY <1>1, <1>3 DEF KeptRow
  <2> QED BY <1>2, <2>1 DEF Known, Outdated
<1>4. ASSUME NEW f \in File, f \in aged \/ snap[f] = 0, row[f] # 0 PROVE Excused(f, row[f])
  BY <1>1, <1>4 DEF KeptRow, Excused
<1>5. CASE \A f \in File : row'[f] = row[f] \/ (row'[f] = snap[f] /\ snap[f] # 0)
  BY <1>2, <1>3, <1>5
<1>6. CASE \A f \in File : row'[f] = row[f] \/ (row'[f] = 0 /\ (f \in aged \/ snap[f] = 0))
  BY <1>2, <1>4, <1>6
<1> QED BY <1>5, <1>6, HandleKeeps

(* A row goes only when its file is gone, is not any more what the row     *)
(* says, or is too old (storage.go:23-25): provided that the storage       *)
(* neither vanishes nor loses a file between the check of its marker and   *)
(* the end of the scan, and that no request outlives its synchronisation.  *)
THEOREM TimelineSurvives ==
  ASSUME Meanwhile = {}, ~LateRequests PROVE Spec => TimelineKept
<1>1. ASSUME Inv, [Next]_vars, NEW f \in File, row[f] # 0, row'[f] = 0
      PROVE  f \in deleted \/ f \in aged \/ disk[f] # row[f]
  <2>1. HandleCurrent
    BY <1>1, RowsStay
  <2>2. Excused(f, row[f]) /\ row[f] \in Nat /\ disk[f] \in Nat
    BY <1>1, <2>1, RowFacts
  <2> QED BY <2>2 DEF Excused, Outdated
<1>2. Inv /\ [Next]_vars =>
        [\A f \in File : row[f] # 0 /\ row'[f] = 0 =>
           f \in deleted \/ f \in aged \/ disk[f] # row[f]]_vars
  BY <1>1
<1> QED BY <1>2, InvHolds, PTL DEF Spec, TimelineKept

(* What the agent remembers as reported has its row, or its file is gone,  *)
(* changed or too old: no failure in the middle of a page leaves a file    *)
(* out of every later increment.                                           *)
THEOREM ReportedIsIndexed ==
  ASSUME Meanwhile = {}, ~LateRequests PROVE Spec => []PreviousIsIndexed
<1>1. ASSUME Inv, NEW f \in File \ (deleted \cup aged), previous[f] # 0, fullDone
      PROVE  row[f] # 0 \/ disk[f] # previous[f]
  <2>1. row[f] # 0 \/ Excused(f, previous[f])
    BY <1>1 DEF Inv, KeepInv, KeptRow
  <2>2. previous[f] \in Nat /\ disk[f] \in Nat
    BY <1>1 DEF Inv, TypeInv, TypeOK, Version
  <2> QED BY <2>1, <2>2 DEF Excused, Outdated
<1>2. Inv => PreviousIsIndexed
  BY <1>1 DEF PreviousIsIndexed
<1> QED BY <1>2, InvHolds, PTL

(* Every step of agent, cloud and storage is a step of Timeline: rows only *)
(* follow their files, forward, whatever fails, restarts or is repeated.   *)
THEOREM ImplementsTimeline ==
  ASSUME Meanwhile = {}, ~LateRequests PROVE Spec => IsTimeline
<1> DEFINE Now  == [f \in File |-> IF f \in deleted THEN MaxVersion ELSE disk[f]]
           Lost == deleted \cup aged
<1>1. Init => Rows!Init
  BY DEF Init, Rows!Init, Empty
<1>2. ASSUME Inv, [Next]_vars PROVE [Rows!Next]_(Rows!vars)
  <2>t. /\ disk \in [File -> Version] /\ disk' \in [File -> Version]
        /\ row \in [File -> Version] /\ row' \in [File -> Version]
        /\ deleted' \subseteq File /\ aged' \subseteq File
        /\ MaxVersion \in Version /\ 0 \in Version
        /\ \A v \in Version : v \in Nat /\ 0 <= v /\ v <= MaxVersion
    BY <1>2, TypeStep DEF Inv, TypeInv, TypeOK, Version
  <2>1. CASE ~HandleCurrent
    <3>1. row' = row
      BY <1>2, <2>1, RowsStay
    <3>2. /\ deleted \subseteq deleted' /\ aged \subseteq aged'
          /\ \A f \in File : f \in deleted' \/ disk[f] <= disk'[f]
      <4>1. ASSUME NEW f \in File
            PROVE  /\ deleted \subseteq deleted' /\ aged \subseteq aged'
                   /\ f \in deleted' \/ disk[f] <= disk'[f]
        BY <1>2, FilesFacts DEF Inv, KeepInv, KeptRow
      <4>2. deleted \subseteq File /\ aged \subseteq File
        BY <1>2 DEF Inv, TypeInv, TypeOK
      <4> QED BY <4>1, <4>2
    <3>3. \A f \in File : Now[f] <= Now'[f]
      BY <2>t, <3>2
    <3>4. Now' \in [File -> Version] /\ Lost' \in SUBSET File /\ Lost \ Lost' = {}
      BY <2>t, <3>2
    <3>5. Rows!FilesChange
      BY <3>1, <3>3, <3>4 DEF Rows!FilesChange, Rows!Version, Version
    <3> QED BY <3>5 DEF Rows!Next
  <2>2. CASE HandleCurrent
    <3>1. UNCHANGED <<disk, deleted, aged>>
      BY <1>2, <2>2, HandleFacts DEF Inv, diskVars
    <3>2. Now' = Now /\ Lost' = Lost
      BY <3>1
    <3>3. CASE \A f \in File : \/ row'[f] = row[f]
                               \/ /\ row'[f] = snap[f] /\ row[f] <= snap[f] /\ snap[f] # 0
                                  /\ f \in deleted \/ snap[f] <= disk[f]
      <4>1. ASSUME NEW f \in File PROVE row'[f] = row[f] \/ row'[f] \in (row[f] + 1)..Now[f]
        <5>1. row'[f] \in Nat /\ row[f] \in Nat /\ disk[f] \in Nat /\ row'[f] <= MaxVersion
          BY <2>t
        <5>2. row'[f] = row[f] \/ (row[f] <= row'[f] /\ (f \in deleted \/ row'[f] <= disk[f]))
          BY <3>3
        <5>3. Now[f] = IF f \in deleted THEN MaxVersion ELSE disk[f]
          OBVIOUS
        <5> HIDE DEF Now
        <5> QED BY <5>1, <5>2, <5>3
      <4>2. Rows!Record
        BY <2>t, <3>2, <4>1 DEF Rows!Record, Rows!Version, Version
      <4> QED BY <4>2 DEF Rows!Next
    <3>4. CASE \A f \in File : \/ row'[f] = row[f]
                               \/ row'[f] = 0 /\ (row[f] # 0 => Excused(f, row[f]))
      <4> DEFINE F == {f \in File : row'[f] # row[f]}
      <4>1. row' = [f \in File |-> IF f \in F THEN 0 ELSE row[f]]
        BY <2>t, <3>4
      <4>2. ASSUME NEW f \in F PROVE f \in Lost \/ row[f] # Now[f]
        <5>1. Excused(f, row[f]) /\ row[f] \in Nat /\ disk[f] \in Nat
          BY <2>t, <3>4
        <5> QED BY <5>1 DEF Excused, Outdated
      <4>3. F \in SUBSET {f \in File : f \in Lost \/ row[f] # Now[f]}
        BY <4>2
      <4> HIDE DEF F
      <4>4. Rows!Forget
        BY <3>2, <4>1, <4>3 DEF Rows!Forget
      <4> QED BY <4>4 DEF Rows!Next
    <3> QED BY <1>2, <2>2, <3>3, <3>4, RowFacts
  <2> QED BY <2>1, <2>2
<1> QED BY <1>1, <1>2, InvHolds, PTL DEF Spec, IsTimeline, Rows!Spec

==============================================================================
