------------------------------ MODULE AgentMedia ------------------------------
(***************************************************************************)
(* The configuration of an agent's cameras and the FFmpeg workers that     *)
(* follow it: the cloud's camera table (internal/store/store.go) and its   *)
(* handler agentConfig (internal/cloud/agent_handlers.go), the agent's     *)
(* configuration loop, inventory loop and reconcileMedia                   *)
(* (cmd/agent/main.go), and the managers of relays and recorders           *)
(* (internal/media/relay.go, recording.go).                                *)
(*                                                                         *)
(* Two goroutines reconcile the same managers, each with the configuration *)
(* it read before; a manager's mutex covers one Reconcile and no more. The *)
(* stages of a goroutine are the points between those critical sections,   *)
(* its storage check and its writes. A worker's fingerprint is the URL it  *)
(* reads; retention, part of a recorder's, is as good as another URL.      *)
(***************************************************************************)
EXTENDS Naturals

CONSTANTS Camera,
          WebRTC,        \* AGENT_WEBRTC_ENABLED: restream cameras locally first
          Url,           \* stream URLs, positive numbers
          Choice,        \* bound: the settings an administrator chooses from
          MaxEdits,      \* bound: changes an administrator makes
          MaxRestarts,   \* bound: restarts of the agent
          MaxFlips,      \* bound: times the storage disappears or returns
          None

ASSUME UrlAssumption   == Url \subseteq Nat \ {0}
ASSUME BoundAssumption == MaxEdits \in Nat /\ MaxRestarts \in Nat /\ MaxFlips \in Nat
ASSUME WebRTCAssumption == WebRTC \in BOOLEAN

(* "local" is local or hybrid: the agent records. "cloud": it only relays. *)
Mode    == {"local", "cloud", "manual"}
Setting == [agent : BOOLEAN, enabled : BOOLEAN, url : Url, mode : Mode, manual : BOOLEAN]

ASSUME ChoiceAssumption == Choice \subseteq Setting /\ None \notin Setting

VARIABLES
  cameras,   \* the cloud's rows; None where there is no such camera
  edits,     \* how often they were changed
  remote,    \* remoteState: the configuration in the agent's memory
  cache,     \* the configuration file, None before the first
  stage,     \* where a goroutine is between its critical sections
  held,      \* the configuration a goroutine works with
  workers,   \* a manager's map: the fingerprint of a camera's worker, or 0
  procs,     \* worker goroutines, in the map or cancelled
  usable,    \* the storage is there, with its marker and enough space
  applied,   \* the newest configuration a worker was started from (history)
  refused,   \* cameras whose recorder is in the map, but ended at its directory (history)
  restarts, flips

cloudVars == <<cameras, edits>>
agentVars == <<remote, cache, stage, held>>
mediaVars == <<workers, procs, applied, refused>>
envVars   == <<usable, restarts, flips>>
vars == <<cloudVars, agentVars, mediaVars, envVars>>

(* Without WebRTC there are no local relays.                               *)
Manager == {"relay", "recorder"} \cup IF WebRTC THEN {"local"} ELSE {}

Loop  == {"sync", "inventory"}
Stage == {"off", "idle", "fetched", "saved", "local", "relay", "check", "recorder", "pause"}

(* A configuration: the cameras of the site that the agent is to read, and *)
(* the edit of the cloud's rows it was taken after.                        *)
Config  == [rev : 0..MaxEdits, of : [Camera -> Setting \cup {None}]]
Empty   == [rev |-> 0, of |-> [c \in Camera |-> None]]
Process == [kind : Manager, camera : Camera, reads : Nat \ {0},
            st : {"start", "run", "cancelled"}]

ASSUME NoneAssumption == None \notin Config

TypeOK ==
  /\ cameras \in [Camera -> Setting \cup {None}]
  /\ edits   \in 0..MaxEdits
  /\ remote  \in Config
  /\ cache   \in Config \cup {None}
  /\ stage   \in [Loop -> Stage]
  /\ held    \in [Loop -> Config]
  /\ workers \in [Manager -> [Camera -> Nat]]
  /\ procs   \subseteq Process
  /\ usable  \in BOOLEAN
  /\ applied \in 0..MaxEdits
  /\ refused \subseteq Camera
  /\ restarts \in 0..MaxRestarts /\ flips \in 0..MaxFlips

Idle == [m \in Manager |-> [c \in Camera |-> 0]]

(* An agent that is enrolled and has never fetched a configuration.        *)
Init ==
  /\ cameras = [c \in Camera |-> None]
  /\ edits   = 0
  /\ remote  = Empty
  /\ cache   = None
  /\ stage   = [l \in Loop |-> "idle"]
  /\ held    = [l \in Loop |-> Empty]
  /\ workers = Idle
  /\ procs   = {}
  /\ usable  = TRUE
  /\ applied = 0
  /\ refused = {}
  /\ restarts = 0
  /\ flips   = 0

----------------------------------------------------------------------------
(* The cloud: each handler changes one row in one statement.               *)

Change(c, setting) ==
  /\ edits < MaxEdits
  /\ setting \in Choice
  /\ edits' = edits + 1
  /\ cameras' = [cameras EXCEPT ![c] = setting]
  /\ UNCHANGED <<agentVars, mediaVars, envVars>>

CreateCamera(c) ==
  /\ cameras[c] = None
  /\ \E s \in Choice : s.enabled /\ Change(c, s)

(* UpdateCamera leaves manual_recording as it is.                          *)
UpdateCamera(c) ==
  /\ cameras[c] # None
  /\ \E s \in Choice : s.manual = cameras[c].manual /\ Change(c, s)

UpdateCameraPolicy(c) ==
  /\ cameras[c] # None
  /\ \E mode \in Mode, enabled \in BOOLEAN :
       Change(c, [cameras[c] EXCEPT !.mode = mode, !.enabled = enabled])

(* UPDATE ... WHERE recording_mode = 'manual'.                             *)
SetManualRecording(c) ==
  /\ cameras[c] # None
  /\ cameras[c].mode = "manual"
  /\ \E active \in BOOLEAN : Change(c, [cameras[c] EXCEPT !.manual = active])

(* agentConfig: ListCameras of the site, those with access mode "agent".   *)
AgentConfig == [rev |-> edits,
                of  |-> [c \in Camera |-> IF cameras[c] # None /\ cameras[c].agent
                                            THEN cameras[c] ELSE None]]

Listed(config) == {c \in Camera : config.of[c] # None}

----------------------------------------------------------------------------
(* Reconcile                                                               *)

RecordsLocally(s) == s.mode = "local" \/ (s.mode = "manual" /\ s.manual)

(* What a worker reads: the camera, or its local restream (URL 1 for all). *)
Fingerprint(m, s) == IF WebRTC /\ m # "local" THEN 1 ELSE s.url

Desired(m, config) == [c \in Camera |->
  IF /\ config.of[c] # None
     /\ config.of[c].enabled
     /\ m = "recorder" => RecordsLocally(config.of[c])
    THEN Fingerprint(m, config.of[c]) ELSE 0]

StaleNothing(p, wanted) == FALSE   \* mutant: entries are replaced, not cancelled

(* The worker of a map entry that goes: the entry holds its cancel.        *)
Stale(p, wanted) ==
  /\ p.st # "cancelled"
  /\ p.reads = workers[p.kind][p.camera]
  /\ p.reads # wanted[p.camera]

(* A recorder makes its directory before it first starts FFmpeg.           *)
Started(m, wanted) ==
  {[kind |-> m, camera |-> c, reads |-> wanted[c],
    st   |-> IF m = "recorder" THEN "start" ELSE "run"] :
     c \in {d \in Camera : wanted[d] # 0 /\ wanted[d] # workers[m][d]}}

(* Reconcile holds the manager's mutex throughout.                         *)
Reconcile(m, config) ==
  LET wanted == Desired(m, config)
  IN /\ workers' = [workers EXCEPT ![m] = wanted]
     /\ procs'   = {IF p.kind = m /\ Stale(p, wanted) THEN [p EXCEPT !.st = "cancelled"]
                                                     ELSE p : p \in procs}
                   \cup Started(m, wanted)
     /\ applied' = IF config.rev > applied THEN config.rev ELSE applied
     /\ refused' = {c \in refused : m # "recorder" \/ wanted[c] = workers[m][c]}

----------------------------------------------------------------------------
(* The agent's loops                                                       *)

At(l, s)   == stage[l] = s
Goto(l, s) == stage' = [stage EXCEPT ![l] = s]
Hold(l, config) == held' = [held EXCEPT ![l] = config]

First == IF WebRTC THEN "local" ELSE "relay"

(* syncCloudConfiguration: the cloud answers.                              *)
Fetch ==
  /\ At("sync", "idle")
  /\ Hold("sync", AgentConfig)
  /\ Goto("sync", "fetched")
  /\ UNCHANGED <<cloudVars, remote, cache, mediaVars, envVars>>

(* The reply is lost, or the file cannot be written.                       *)
FetchFails ==
  /\ At("sync", "fetched")
  /\ Goto("sync", "idle")
  /\ Hold("sync", Empty)
  /\ UNCHANGED <<cloudVars, remote, cache, mediaVars, envVars>>

SaveNothing ==   \* mutant: the file is not written
  /\ At("sync", "fetched")
  /\ Goto("sync", "saved")
  /\ UNCHANGED <<cloudVars, remote, cache, held, mediaVars, envVars>>

(* saveRemoteConfig renames a complete file: a crash leaves one or other.  *)
SaveConfig ==
  /\ At("sync", "fetched")
  /\ cache' = held["sync"]
  /\ Goto("sync", "saved")
  /\ UNCHANGED <<cloudVars, remote, held, mediaVars, envVars>>

SetNothing ==   \* mutant: the configuration in memory is not replaced
  /\ At("sync", "saved")
  /\ Goto("sync", First)
  /\ UNCHANGED <<cloudVars, remote, cache, held, mediaVars, envVars>>

SetRemote ==
  /\ At("sync", "saved")
  /\ remote' = held["sync"]
  /\ Goto("sync", First)
  /\ UNCHANGED <<cloudVars, cache, held, mediaVars, envVars>>

(* runInventorySync: remote.Get, and nothing at all without cameras.       *)
GetNothing ==   \* mutant: the inventory loop does not reconcile
  /\ At("inventory", "idle")
  /\ UNCHANGED vars

GetRemote ==
  /\ At("inventory", "idle")
  /\ Listed(remote) # {}
  /\ Hold("inventory", remote)
  /\ Goto("inventory", First)
  /\ UNCHANGED <<cloudVars, remote, cache, mediaVars, envVars>>

(* reconcileMedia: relays first, whatever the storage.                     *)
ReconcileRelays(l) ==
  /\ \/ At(l, "local") /\ Reconcile("local", held[l]) /\ Goto(l, "relay")
     \/ At(l, "relay") /\ Reconcile("relay", held[l]) /\ Goto(l, "check")
  /\ UNCHANGED <<cloudVars, remote, cache, held, envVars>>

CheckNothing(l) ==   \* mutant: the storage is not looked at
  /\ At(l, "check")
  /\ Goto(l, "recorder")
  /\ UNCHANGED <<cloudVars, remote, cache, held, mediaVars, envVars>>

(* EnsureRecordingStorage and EnforceMinimumFreeSpace.                     *)
CheckStorage(l) ==
  /\ At(l, "check")
  /\ Goto(l, IF usable THEN "recorder" ELSE "pause")
  /\ UNCHANGED <<cloudVars, remote, cache, held, mediaVars, envVars>>

(* Recorders follow the configuration, or all stop. The loop goes round;   *)
(* the first reconcile of a start lets the inventory loop begin.           *)
ReconcileRecorders(l) ==
  /\ \/ At(l, "recorder") /\ Reconcile("recorder", held[l])
     \/ At(l, "pause")    /\ Reconcile("recorder", [held[l] EXCEPT !.of = Empty.of])
  /\ stage' = [k \in Loop |-> IF k = l \/ stage[k] = "off" THEN "idle" ELSE stage[k]]
  /\ Hold(l, Empty)
  /\ UNCHANGED <<cloudVars, remote, cache, envVars>>

----------------------------------------------------------------------------
(* A worker goroutine: run. It starts FFmpeg, waits when FFmpeg has ended   *)
(* and starts it again: all of that is "run".                              *)

(* The recorder's directory is there.                                      *)
Launch(p) ==
  /\ p.st = "start"
  /\ procs' = (procs \ {p}) \cup {[p EXCEPT !.st = "run"]}
  /\ UNCHANGED <<cloudVars, agentVars, workers, applied, refused, envVars>>

(* The directory cannot be made: the goroutine ends, its map entry stays,  *)
(* and no Reconcile starts it again as long as the fingerprint is wanted.  *)
Refused(p) ==
  /\ p.st = "start"
  /\ ~usable
  /\ procs'   = procs \ {p}
  /\ refused' = refused \cup {p.camera}
  /\ UNCHANGED <<cloudVars, agentVars, workers, applied, envVars>>

(* A cancelled context kills FFmpeg, or ends the wait: the goroutine ends. *)
Leave(p) ==
  /\ p.st = "cancelled"
  /\ procs' = procs \ {p}
  /\ UNCHANGED <<cloudVars, agentVars, workers, applied, refused, envVars>>

----------------------------------------------------------------------------
(* The environment                                                         *)

(* The agent stops or dies, with its container, and starts again: main     *)
(* restores the saved configuration and reconciles before any loop runs.   *)
Restart ==
  /\ restarts < MaxRestarts
  /\ restarts' = restarts + 1
  /\ workers'  = Idle
  /\ procs'    = {}
  /\ refused'  = {}
  /\ held'     = [l \in Loop |-> IF l = "sync" /\ cache # None THEN cache ELSE Empty]
  /\ remote'   = held'["sync"]
  /\ stage'    = [l \in Loop |-> IF cache = None THEN "idle"
                                 ELSE IF l = "sync" THEN First ELSE "off"]
  /\ UNCHANGED <<cloudVars, cache, applied, usable, flips>>

FlipStorage ==
  /\ flips < MaxFlips
  /\ flips'  = flips + 1
  /\ usable' = ~usable
  /\ UNCHANGED <<cloudVars, agentVars, mediaVars, restarts>>

----------------------------------------------------------------------------
Admin(c) == CreateCamera(c) \/ UpdateCamera(c) \/ UpdateCameraPolicy(c)
            \/ SetManualRecording(c)

MediaStep(l) == ReconcileRelays(l) \/ CheckStorage(l) \/ ReconcileRecorders(l)

Next ==
  \/ \E c \in Camera : Admin(c)
  \/ Fetch \/ FetchFails \/ SaveConfig \/ SetRemote \/ GetRemote
  \/ \E l \in Loop : MediaStep(l)
  \/ \E p \in procs : Launch(p) \/ Refused(p) \/ Leave(p)
  \/ Restart \/ FlipStorage

Spec == Init /\ [][Next]_vars

(* Goroutines that can run do run: the loops, the workers that start, and  *)
(* the cancelled ones, which end. Nothing makes the cloud answer: Fetch    *)
(* has no fairness.                                                        *)
Fairness ==
  /\ WF_vars(FetchFails \/ SaveConfig \/ SetRemote)
  /\ WF_vars(GetRemote)
  /\ \A l \in Loop : WF_vars(MediaStep(l))
  /\ WF_vars(\E p \in procs : Launch(p) \/ Refused(p))
  /\ WF_vars(\E p \in procs : Leave(p))

FairSpec == Spec /\ Fairness

----------------------------------------------------------------------------
(* Properties                                                              *)

(* A worker that was not cancelled is the one of its manager's map entry,  *)
(* whichever of the two loops started it: only such a worker can ever be   *)
(* stopped again (relay.go:43-68, recording.go:50-74).                     *)
NoOrphanWorker == \A p \in procs : p.st # "cancelled" => workers[p.kind][p.camera] = p.reads

(* A restart never goes back to a configuration older than one that the    *)
(* workers have followed: the file is written before anything uses it      *)
(* (main.go:365-373).                                                      *)
RestartKeepsConfig == remote.rev >= applied

Follow(m, config) == workers[m] = Desired(m, config)

(* As long as configurations arrive, every manager ends up with what the   *)
(* administrator set last, although the other loop may still apply what it *)
(* read before.                                                            *)
FollowsCloud ==
  []<>(stage["sync"] = "saved") /\ <>[]usable
    => <>[](\A m \in Manager : Follow(m, AgentConfig))

(* The worker goroutines of a manager are those a configuration asks for,  *)
(* for the cameras of C, and they have all got as far as FFmpeg.           *)
Runs(m, config, C) ==
  {p \in procs : p.kind = m} =
    {[kind |-> m, camera |-> c, reads |-> Desired(m, config)[c], st |-> "run"] :
       c \in {d \in C : Desired(m, config)[d] # 0}}

(* Without any answer from the cloud, an agent that knows cameras relays   *)
(* and records them as configured (README.md:229), after restarts and once *)
(* the storage is back: the goroutines themselves run, not only their map  *)
(* entries. The exception is a recorder whose directory could not be made. *)
WorksOffline ==
  <>[](usable /\ Listed(remote) # {}) =>
    <>[](\A m \in Manager :
           Runs(m, remote, IF m = "recorder" THEN Camera \ refused ELSE Camera))

(* README.md:231 says of the recorders that they start again by themselves *)
(* when the same mount is back. It does not hold for one that found no     *)
(* storage when it wanted to make its directory, if the storage is back    *)
(* before the next check (recording.go:96-100).                            *)
RecordersReturn ==
  <>[](usable /\ Listed(remote) # {}) => <>[]Runs("recorder", remote, Camera)

(* When the storage stays away every recorder is stopped (README.md:231).  *)
PausesWithoutStorage ==
  <>[](~usable /\ Listed(remote) # {}) => <>[](\A p \in procs : p.kind # "recorder")
==============================================================================
