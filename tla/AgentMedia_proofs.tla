-------------------------- MODULE AgentMedia_proofs --------------------------
(***************************************************************************)
(* Proofs about AgentMedia, for any cameras, URLs, settings and bounds,    *)
(* with and without the local restream.                                    *)
(***************************************************************************)
EXTENDS AgentMedia, TLAPS

USE UrlAssumption, BoundAssumption, WebRTCAssumption, ChoiceAssumption, NoneAssumption

----------------------------------------------------------------------------
(* What the helpers return                                                 *)

LEMMA EmptyFacts == Empty \in Config
<1> QED BY DEF Empty, Config

LEMMA DesiredFacts ==
  ASSUME NEW m \in Manager, NEW config \in Config
  PROVE  Desired(m, config) \in [Camera -> Nat]
<1>1. ASSUME NEW s \in Setting PROVE Fingerprint(m, s) \in Nat
  BY DEF Setting, Fingerprint
<1>2. ASSUME NEW c \in Camera, config.of[c] # None PROVE config.of[c] \in Setting
  BY <1>2 DEF Config
<1> QED BY <1>1, <1>2 DEF Desired

LEMMA AgentConfigFacts ==
  ASSUME cameras \in [Camera -> Setting \cup {None}], edits \in 0..MaxEdits
  PROVE  AgentConfig \in Config /\ AgentConfig.rev = edits
<1> QED BY DEF AgentConfig, Config

(* A Reconcile gives the map its type, and leaves no worker outside of it. *)
LEMMA ReconcileFacts ==
  ASSUME TypeOK, NoOrphanWorker, NEW m \in Manager, NEW config \in Config, Reconcile(m, config)
  PROVE  /\ workers' \in [Manager -> [Camera -> Nat]]
         /\ procs' \subseteq Process
         /\ applied' \in 0..MaxEdits /\ refused' \subseteq Camera
         /\ NoOrphanWorker'
<1> DEFINE wanted == Desired(m, config)
<1>1. wanted \in [Camera -> Nat]
  BY DesiredFacts
<1>2. workers' = [workers EXCEPT ![m] = wanted]
  BY DEF Reconcile
<1>3. workers' \in [Manager -> [Camera -> Nat]]
  BY <1>1, <1>2 DEF TypeOK
<1>4. applied' \in 0..MaxEdits /\ refused' \subseteq Camera
  BY DEF Reconcile, TypeOK, Config
<1>5. ASSUME NEW p \in procs'
      PROVE  /\ p \in Process
             /\ p.st # "cancelled" => workers'[p.kind][p.camera] = p.reads
  <2>1. \/ \E q \in procs : p = IF q.kind = m /\ Stale(q, wanted)
                                  THEN [q EXCEPT !.st = "cancelled"] ELSE q
        \/ p \in Started(m, wanted)
    BY DEF Reconcile
  <2>2. CASE p \in Started(m, wanted)
    <3>1. PICK c \in Camera : /\ wanted[c] # 0
                              /\ p = [kind |-> m, camera |-> c, reads |-> wanted[c],
                                      st |-> IF m = "recorder" THEN "start" ELSE "run"]
      BY <2>2 DEF Started
    <3> QED BY <1>1, <1>2, <3>1 DEF Process, TypeOK
  <2>3. ASSUME NEW q \in procs,
               p = IF q.kind = m /\ Stale(q, wanted) THEN [q EXCEPT !.st = "cancelled"] ELSE q
        PROVE  /\ p \in Process
               /\ p.st # "cancelled" => workers'[p.kind][p.camera] = p.reads
    <3>1. q \in Process /\ (q.st # "cancelled" => workers[q.kind][q.camera] = q.reads)
      BY DEF TypeOK, NoOrphanWorker
    <3>2. CASE q.kind = m /\ Stale(q, wanted)
      BY <2>3, <3>1, <3>2 DEF Process
    <3>3. CASE ~(q.kind = m /\ Stale(q, wanted))
      <4>1. p = q
        BY <2>3, <3>3
      <4>2. CASE q.kind = m
        BY <1>2, <3>1, <3>3, <4>1, <4>2 DEF Stale, Process, TypeOK
      <4>3. CASE q.kind # m
        BY <1>2, <3>1, <4>1, <4>3 DEF Process, TypeOK
      <4> QED BY <4>2, <4>3
    <3> QED BY <3>2, <3>3
  <2> QED BY <2>1, <2>2, <2>3
<1> QED BY <1>3, <1>4, <1>5 DEF NoOrphanWorker

----------------------------------------------------------------------------
(* The workers and their maps                                              *)

(* Only with WebRTC is there a manager of local relays to reconcile.       *)
LocalOnlyWithWebRTC == \A l \in Loop : stage[l] = "local" => WebRTC

WorkerInv == TypeOK /\ NoOrphanWorker /\ LocalOnlyWithWebRTC

LEMMA WorkerInit == Init => WorkerInv
<1> SUFFICES ASSUME Init PROVE WorkerInv
  OBVIOUS
<1>1. Empty \in Config
  BY EmptyFacts
<1> QED BY <1>1 DEF Init, WorkerInv, TypeOK, NoOrphanWorker, LocalOnlyWithWebRTC, Idle, Loop, Stage

LEMMA AdminStep ==
  ASSUME WorkerInv, NEW c \in Camera, Admin(c)
  PROVE  WorkerInv' /\ edits' >= edits /\ UNCHANGED <<agentVars, mediaVars>>
<1>1. PICK setting : Change(c, setting)
  BY DEF Admin, CreateCamera, UpdateCamera, UpdateCameraPolicy, SetManualRecording
<1> QED BY <1>1 DEF Change, WorkerInv, TypeOK, NoOrphanWorker, LocalOnlyWithWebRTC, agentVars,
                   mediaVars, envVars

LEMMA WorkerNext == WorkerInv /\ [Next]_vars => WorkerInv'
<1> SUFFICES ASSUME WorkerInv, [Next]_vars PROVE WorkerInv'
  OBVIOUS
<1> USE DEF WorkerInv, LocalOnlyWithWebRTC
<1>1. ASSUME NEW c \in Camera, Admin(c) PROVE WorkerInv'
  BY <1>1, AdminStep
<1>2. CASE Fetch
  <2>1. AgentConfig \in Config
    BY AgentConfigFacts DEF TypeOK
  <2> QED BY <1>2, <2>1 DEF Fetch, TypeOK, NoOrphanWorker, Hold, Goto, Loop, Stage,
                            cloudVars, mediaVars, envVars
<1>3. CASE FetchFails
  BY <1>3, EmptyFacts DEF FetchFails, TypeOK, NoOrphanWorker, Hold, Goto, Loop, Stage,
                          cloudVars, mediaVars, envVars
<1>4. CASE SaveConfig
  BY <1>4 DEF SaveConfig, TypeOK, NoOrphanWorker, Goto, Loop, Stage, cloudVars, mediaVars, envVars
<1>5. CASE SetRemote
  BY <1>5 DEF SetRemote, First, TypeOK, NoOrphanWorker, Goto, Loop, Stage, cloudVars, mediaVars,
              envVars
<1>6. CASE GetRemote
  BY <1>6 DEF GetRemote, First, TypeOK, NoOrphanWorker, Hold, Goto, Loop, Stage, cloudVars,
              mediaVars, envVars
<1>7. ASSUME NEW l \in Loop, MediaStep(l) PROVE WorkerInv'
  <2>1. held[l] \in Config
    BY DEF TypeOK
  <2>2. CASE ReconcileRelays(l)
    <3>1. PICK m \in Manager : Reconcile(m, held[l])
      <4>1. CASE At(l, "local") /\ Reconcile("local", held[l])
        <5>1. "local" \in Manager
          BY <2>2, <4>1 DEF Manager, At
        <5> QED BY <4>1, <5>1
      <4>2. CASE Reconcile("relay", held[l])
        BY <4>2 DEF Manager
      <4> QED BY <2>2, <4>1, <4>2 DEF ReconcileRelays
    <3>2. stage' \in [Loop -> Stage] /\ LocalOnlyWithWebRTC'
      BY <2>2 DEF ReconcileRelays, Goto, TypeOK, Stage
    <3> QED BY <2>1, <2>2, <3>1, <3>2, ReconcileFacts
         DEF ReconcileRelays, TypeOK, cloudVars, envVars
  <2>3. CASE CheckStorage(l)
    BY <2>3 DEF CheckStorage, TypeOK, NoOrphanWorker, Goto, Loop, Stage, cloudVars, mediaVars,
                envVars
  <2>4. CASE ReconcileRecorders(l)
    <3>1. PICK config \in Config : Reconcile("recorder", config)
      <4>1. [held[l] EXCEPT !.of = Empty.of] \in Config
        BY <2>1 DEF Config, Empty
      <4> QED BY <2>1, <2>4, <4>1 DEF ReconcileRecorders
    <3>2. stage' \in [Loop -> Stage] /\ held' \in [Loop -> Config] /\ LocalOnlyWithWebRTC'
      BY <2>4, EmptyFacts DEF ReconcileRecorders, Hold, TypeOK, Stage
    <3>3. "recorder" \in Manager
      BY DEF Manager
    <3> QED BY <2>4, <3>1, <3>2, <3>3, ReconcileFacts
         DEF ReconcileRecorders, TypeOK, cloudVars, envVars
  <2> QED BY <1>7, <2>2, <2>3, <2>4 DEF MediaStep
<1>8. ASSUME NEW p \in procs, Launch(p) \/ Refused(p) \/ Leave(p) PROVE WorkerInv'
  <2>1. UNCHANGED <<cloudVars, agentVars, workers, applied, envVars>>
    BY <1>8 DEF Launch, Refused, Leave
  <2>2. \/ procs' = procs \ {p}
        \/ p.st = "start" /\ procs' = (procs \ {p}) \cup {[p EXCEPT !.st = "run"]}
    BY <1>8 DEF Launch, Refused, Leave
  <2>3. p \in Process /\ [p EXCEPT !.st = "run"] \in Process /\ p.camera \in Camera
    BY DEF TypeOK, Process
  <2>4. procs' \subseteq Process
    BY <2>2, <2>3 DEF TypeOK
  <2>5. NoOrphanWorker'
    BY <2>1, <2>2, <2>3 DEF NoOrphanWorker, Process
  <2>6. refused' \subseteq Camera
    BY <1>8, <2>3 DEF Launch, Refused, Leave, TypeOK
  <2> QED BY <2>1, <2>4, <2>5, <2>6 DEF TypeOK, cloudVars, agentVars, envVars
<1>9. CASE Restart
  <2>1. held' \in [Loop -> Config] /\ remote' \in Config
    BY <1>9, EmptyFacts DEF Restart, TypeOK, Loop
  <2>2. stage' \in [Loop -> Stage] /\ LocalOnlyWithWebRTC'
    BY <1>9 DEF Restart, TypeOK, Loop, Stage, First
  <2> QED BY <1>9, <2>1, <2>2 DEF Restart, TypeOK, NoOrphanWorker, Idle, cloudVars
<1>10. CASE FlipStorage
  BY <1>10 DEF FlipStorage, TypeOK, NoOrphanWorker, cloudVars, agentVars, mediaVars
<1>11. CASE UNCHANGED vars
  BY <1>11 DEF vars, TypeOK, NoOrphanWorker, cloudVars, agentVars, mediaVars, envVars
<1> QED BY <1>1, <1>2, <1>3, <1>4, <1>5, <1>6, <1>7, <1>8, <1>9, <1>10, <1>11 DEF Next

LEMMA WorkersHold == Spec => []WorkerInv
<1> QED BY WorkerInit, WorkerNext, PTL DEF Spec

(* Configurations, stages, maps and goroutines keep their types.           *)
THEOREM TypeCorrect == Spec => []TypeOK
<1>1. WorkerInv => TypeOK
  BY DEF WorkerInv
<1> QED BY <1>1, WorkersHold, PTL

(* Whichever loop reconciles, every goroutine that was not cancelled is    *)
(* the one its manager's map knows (relay.go:43-68, recording.go:50-74).   *)
THEOREM NoWorkerEscapes == Spec => []NoOrphanWorker
<1>1. WorkerInv => NoOrphanWorker
  BY DEF WorkerInv
<1> QED BY <1>1, WorkersHold, PTL

----------------------------------------------------------------------------
(* The configuration file                                                  *)

Reconciling == {"local", "relay", "check", "recorder", "pause"}

(* Nothing is older than what it was taken from: workers, memory, file and *)
(* rows, in this order; what the configuration loop has fetched lies       *)
(* between memory and rows and is what the file holds once it is saved.    *)
RevInv ==
  /\ applied <= remote.rev
  /\ cache = None => remote.rev = 0
  /\ cache # None => remote.rev <= cache.rev /\ cache.rev <= edits
  /\ \A l \in Loop : stage[l] \in Reconciling => held[l].rev <= remote.rev
  /\ stage["sync"] \in {"fetched", "saved"} =>
       /\ remote.rev <= held["sync"].rev /\ held["sync"].rev <= edits
       /\ cache # None => cache.rev <= held["sync"].rev
  /\ stage["sync"] = "saved" => cache = held["sync"]
  /\ stage["inventory"] \notin {"fetched", "saved"}

LEMMA RevNext ==
  ASSUME WorkerInv, WorkerInv', RevInv, [Next]_vars
  PROVE  RevInv'
<1> USE DEF WorkerInv, RevInv, Reconciling, Loop
<1>0. /\ applied \in Nat /\ edits \in Nat /\ remote \in Config /\ remote.rev \in Nat
      /\ cache # None => cache \in Config /\ cache.rev \in Nat
      /\ \A l \in Loop : held[l] \in Config /\ held[l].rev \in Nat
      /\ stage \in [Loop -> Stage] /\ held \in [Loop -> Config]
  BY DEF TypeOK, Config
<1>1. ASSUME NEW c \in Camera, Admin(c) PROVE RevInv'
  <2>1. edits' >= edits /\ edits' \in Nat /\ UNCHANGED <<agentVars, mediaVars>>
    BY <1>1, AdminStep DEF TypeOK
  <2> QED BY <1>0, <2>1 DEF agentVars, mediaVars
<1>2. CASE Fetch
  <2>1. AgentConfig \in Config /\ AgentConfig.rev = edits
    BY AgentConfigFacts DEF TypeOK
  <2>2. held'["sync"] = AgentConfig /\ stage'["sync"] = "fetched"
        /\ held'["inventory"] = held["inventory"] /\ stage'["inventory"] = stage["inventory"]
    BY <1>0, <1>2 DEF Fetch, Hold, Goto
  <2>3. remote.rev <= edits
    BY <1>0 DEF Config
  <2> QED BY <1>0, <1>2, <2>1, <2>2, <2>3 DEF Fetch, cloudVars, mediaVars
<1>3. CASE FetchFails
  <2>1. stage'["sync"] = "idle"
        /\ held'["inventory"] = held["inventory"] /\ stage'["inventory"] = stage["inventory"]
    BY <1>0, <1>3 DEF FetchFails, Hold, Goto
  <2> QED BY <1>0, <1>3, <2>1 DEF FetchFails, cloudVars, mediaVars
<1>4. CASE SaveConfig
  <2>1. stage'["sync"] = "saved" /\ stage'["inventory"] = stage["inventory"]
    BY <1>0, <1>4 DEF SaveConfig, Goto
  <2> QED BY <1>0, <1>4, <2>1 DEF SaveConfig, At, cloudVars, mediaVars
<1>5. CASE SetRemote
  <2>1. stage'["sync"] \in {"local", "relay"} /\ stage'["inventory"] = stage["inventory"]
    BY <1>0, <1>5 DEF SetRemote, Goto, First
  <2> QED BY <1>0, <1>5, <2>1 DEF SetRemote, At, cloudVars, mediaVars
<1>6. CASE GetRemote
  <2>1. /\ stage'["inventory"] \in {"local", "relay"} /\ held'["inventory"] = remote
        /\ stage'["sync"] = stage["sync"] /\ held'["sync"] = held["sync"]
    BY <1>0, <1>6 DEF GetRemote, Hold, Goto, First
  <2> QED BY <1>0, <1>6, <2>1 DEF GetRemote, cloudVars, mediaVars
<1>7. ASSUME NEW l \in Loop, MediaStep(l) PROVE RevInv'
  <2>1. UNCHANGED <<cloudVars, remote, cache, envVars>>
    BY <1>7 DEF MediaStep, ReconcileRelays, CheckStorage, ReconcileRecorders, mediaVars
  <2>2. stage[l] \in Reconciling
    BY <1>7 DEF MediaStep, ReconcileRelays, CheckStorage, ReconcileRecorders, At
  <2>3. applied' = applied \/ applied' = held[l].rev
    <3>1. [held[l] EXCEPT !.of = Empty.of].rev = held[l].rev
      BY <1>0 DEF Config
    <3> QED BY <1>7, <3>1 DEF MediaStep, ReconcileRelays, CheckStorage, ReconcileRecorders,
                              Reconcile, mediaVars
  <2>4. applied' <= remote.rev
    BY <1>0, <2>2, <2>3
  <2>5. ASSUME NEW k \in Loop
        PROVE  \/ stage'[k] = stage[k] /\ held'[k] = held[k]
               \/ stage'[k] = "idle"
               \/ k = l /\ stage'[k] \in Reconciling /\ held'[k] = held[k]
    <3>1. CASE ReconcileRelays(l) \/ CheckStorage(l)
      BY <1>0, <3>1 DEF ReconcileRelays, CheckStorage, Goto
    <3>2. CASE ReconcileRecorders(l)
      BY <1>0, <3>2 DEF ReconcileRecorders, Hold
    <3> QED BY <1>7, <3>1, <3>2 DEF MediaStep
  <2> QED BY <1>0, <2>1, <2>2, <2>4, <2>5 DEF cloudVars
<1>8. ASSUME NEW p \in procs, Launch(p) \/ Refused(p) \/ Leave(p) PROVE RevInv'
  BY <1>8 DEF Launch, Refused, Leave, cloudVars, agentVars
<1>9. CASE Restart
  <2>1. CASE cache = None
    <3>1. remote'.rev = 0 /\ stage' = [k \in Loop |-> "idle"] /\ held'["sync"] = Empty
      BY <1>9, <2>1 DEF Restart, Empty
    <3> QED BY <1>0, <1>9, <2>1, <3>1 DEF Restart, cloudVars
  <2>2. CASE cache # None
    <3>1. /\ remote' = cache /\ held'["sync"] = cache
          /\ stage'["sync"] \in {"local", "relay"} /\ stage'["inventory"] = "off"
      BY <1>9, <2>2 DEF Restart, First
    <3> QED BY <1>0, <1>9, <2>2, <3>1 DEF Restart, cloudVars
  <2> QED BY <2>1, <2>2
<1>10. CASE FlipStorage
  BY <1>10 DEF FlipStorage, cloudVars, agentVars, mediaVars
<1>11. CASE UNCHANGED vars
  BY <1>11 DEF vars, cloudVars, agentVars, mediaVars
<1> QED BY <1>1, <1>2, <1>3, <1>4, <1>5, <1>6, <1>7, <1>8, <1>9, <1>10, <1>11 DEF Next

(* A restart never takes the workers back to an older configuration than   *)
(* they have followed (main.go:365-373), whichever loop had applied it.    *)
THEOREM RestartsGoForward == Spec => []RestartKeepsConfig
<1>1. Init => RevInv
  BY DEF Init, RevInv, Reconciling, Empty, Loop
<1>2. WorkerInv /\ WorkerInv' /\ RevInv /\ [Next]_vars => RevInv'
  BY RevNext
<1>3. WorkerInv /\ RevInv => RestartKeepsConfig
  BY DEF WorkerInv, TypeOK, Config, RevInv, RestartKeepsConfig
<1> QED BY <1>1, <1>2, <1>3, WorkersHold, PTL DEF Spec
==============================================================================
