---------------------------- MODULE StorageBinding ----------------------------
(***************************************************************************)
(* The identity of the recording storage: EnsureRecordingStorage and its   *)
(* helpers (internal/media/storage.go), called again and again by several  *)
(* goroutines of the agent: the heartbeat, the configuration loop and the  *)
(* inventory loop (cmd/agent/main.go).                                     *)
(*                                                                         *)
(* An identity is a random value that is written to two files: a marker on *)
(* the storage and the identity file in the agent's state directory. When  *)
(* the storage is not mounted its path is an ordinary local directory,     *)
(* which may hold a marker of its own. os.WriteFile truncates and then     *)
(* writes, so a file is torn for a moment, and for good when the agent     *)
(* dies in between. Nothing locks the two files.                           *)
(*                                                                         *)
(* The names differ from those of CloudRecordings: Storage_proofs extends  *)
(* both.                                                                   *)
(***************************************************************************)
EXTENDS Naturals

CONSTANTS Thread,
          Id,           \* random identities
          MaxFaults,    \* bound: restarts of the agent and writes that fail
          MaxFlips      \* bound: times the storage comes or goes

ASSUME BoundAssumption == MaxFaults \in Nat /\ MaxFlips \in Nat
ASSUME IdAssumption    == "absent" \notin Id /\ "torn" \notin Id

VARIABLES
  identity,  \* content of the identity file
  marker,    \* content of the marker on the storage and on the bare directory
  attached,  \* the path leads to the storage
  at,        \* where a call of EnsureRecordingStorage is
  read,      \* what the call read in the identity file
  value,     \* the identity the call writes
  target,    \* where the call has opened the marker
  faults, flips

files       == <<identity, marker>>
calls       == <<at, read, value, target>>
bindingVars == <<files, attached, calls, faults, flips>>

Place   == {"storage", "bare"}
Content == Id \cup {"absent", "torn"}
Writing == {"open", "write", "bind", "finish"}
Stage   == {"idle", "marker"} \cup Writing

BindingTypeOK ==
  /\ identity \in Content
  /\ marker   \in [Place -> Content]
  /\ attached \in BOOLEAN
  /\ at       \in [Thread -> Stage]
  /\ read     \in [Thread -> Content]
  /\ value    \in [Thread -> Content]
  /\ target   \in [Thread -> Place]
  /\ \A t \in Thread : at[t] \in Writing => value[t] \in Id
  /\ faults   \in 0..MaxFaults
  /\ flips    \in 0..MaxFlips

Path == IF attached THEN "storage" ELSE "bare"

(* A first start: no identity file. The storage may already carry a marker *)
(* (the agent was reinstalled), and may not be mounted yet.                *)
BindingInit ==
  /\ identity = "absent"
  /\ marker   \in [Place -> Content]
  /\ marker["bare"] = "absent" /\ marker["storage"] # "torn"
  /\ attached \in BOOLEAN
  /\ at       = [t \in Thread |-> "idle"]
  /\ read     = [t \in Thread |-> "absent"]
  /\ value    = [t \in Thread |-> "absent"]
  /\ target   = [t \in Thread |-> "bare"]
  /\ faults   = 0
  /\ flips    = 0

(* rand.Read never repeats an identity that is in use.                     *)
Fresh == Id \ ({identity} \cup {marker[p] : p \in Place} \cup {value[t] : t \in Thread})

Fault == faults < MaxFaults /\ faults' = faults + 1

Go(t, stage) == at' = [at EXCEPT ![t] = stage]

(* The call returns, with or without an error: its locals go.              *)
Return(t) ==
  /\ Go(t, "idle")
  /\ read'  = [read EXCEPT ![t] = "absent"]
  /\ value' = [value EXCEPT ![t] = "absent"]
  /\ target' = [target EXCEPT ![t] = "bare"]

----------------------------------------------------------------------------
(* A call reads the identity file.                                         *)
ReadIdentity(t) ==
  /\ at[t] = "idle"
  /\ Go(t, "marker")
  /\ read' = [read EXCEPT ![t] = identity]
  /\ UNCHANGED <<files, attached, value, target, faults, flips>>

AdoptsNothing(t) == FALSE   \* mutant: a storage with a marker is refused

CreatesAnew(t) == marker[Path] = "absent"   \* mutant: a missing marker is created anew

(* Only a call that found no identity file goes on to write: it adopts the *)
(* marker it finds, or makes an identity where there is none.              *)
Adopts(t)  == read[t] = "absent" /\ marker[Path] \in Id

Creates(t) == read[t] = "absent" /\ marker[Path] = "absent"

(* The call reads the marker and decides. In every other case it returns:  *)
(* nil if the two agree, an error if not.                                  *)
Adopt(t) ==
  /\ at[t] = "marker"
  /\ Adopts(t)
  /\ value' = [value EXCEPT ![t] = marker[Path]]
  /\ Go(t, "bind")
  /\ UNCHANGED <<files, attached, read, target, faults, flips>>

Create(t) ==
  /\ at[t] = "marker"
  /\ Creates(t)
  /\ \E i \in Fresh : value' = [value EXCEPT ![t] = i]
  /\ Go(t, "open")
  /\ UNCHANGED <<files, attached, read, target, faults, flips>>

Judge(t) ==
  /\ at[t] = "marker"
  /\ ~Adopts(t) /\ ~Creates(t)
  /\ Return(t)
  /\ UNCHANGED <<files, attached, faults, flips>>

----------------------------------------------------------------------------
(* writeIdentity: the marker first, then the identity file.                *)
OpenMarker(t) ==
  /\ at[t] = "open"
  /\ target' = [target EXCEPT ![t] = Path]
  /\ marker' = [marker EXCEPT ![Path] = "torn"]
  /\ Go(t, "write")
  /\ UNCHANGED <<identity, attached, read, value, faults, flips>>

WriteMarker(t) ==
  /\ at[t] = "write"
  /\ target[t] = Path \/ target[t] = "bare"
  /\ marker' = [marker EXCEPT ![target[t]] = value[t]]
  /\ Go(t, "bind")
  /\ UNCHANGED <<identity, attached, read, value, target, faults, flips>>

(* A directory cannot be made, a file not opened or not written to: for    *)
(* any reason, or because the storage went away with its marker open. What *)
(* was opened stays torn.                                                  *)
WriteFails(t) ==
  /\ at[t] \in Writing
  /\ \/ Fault
     \/ at[t] = "write" /\ target[t] = "storage" /\ ~attached /\ UNCHANGED faults
  /\ Return(t)
  /\ UNCHANGED <<files, attached, flips>>

OpenIdentity(t) ==
  /\ at[t] = "bind"
  /\ identity' = "torn"
  /\ Go(t, "finish")
  /\ UNCHANGED <<marker, attached, read, value, target, faults, flips>>

WriteIdentity(t) ==
  /\ at[t] = "finish"
  /\ identity' = value[t]
  /\ Return(t)
  /\ UNCHANGED <<marker, attached, faults, flips>>

----------------------------------------------------------------------------
(* The agent dies and starts again: the files are as they are.             *)
Crash ==
  /\ Fault
  /\ \E t \in Thread : at[t] # "idle"
  /\ at'      = [t \in Thread |-> "idle"]
  /\ read'    = [t \in Thread |-> "absent"]
  /\ value'   = [t \in Thread |-> "absent"]
  /\ target'  = [t \in Thread |-> "bare"]
  /\ UNCHANGED <<files, attached, flips>>

(* The storage disappears from its path or comes back.                     *)
Flip ==
  /\ flips < MaxFlips
  /\ flips'    = flips + 1
  /\ attached' = ~attached
  /\ UNCHANGED <<files, calls, faults>>

CallStep(t) ==
  \/ ReadIdentity(t) \/ Adopt(t) \/ Create(t) \/ Judge(t)
  \/ OpenMarker(t) \/ WriteMarker(t) \/ WriteFails(t)
  \/ OpenIdentity(t) \/ WriteIdentity(t)

BindingNext == (\E t \in Thread : CallStep(t)) \/ Crash \/ Flip

BindingSpec == BindingInit /\ [][BindingNext]_bindingVars

(* Each loop has a ticker and calls again.                                 *)
BindingFairSpec == BindingSpec /\ \A t \in Thread : WF_bindingVars(CallStep(t))

----------------------------------------------------------------------------
(* Properties                                                              *)

(* Calls that have found no identity file: only these ever write.          *)
Unsure == {t \in Thread : at[t] # "idle" /\ read[t] = "absent"}

(* Once there is an identity file it stays, and no call that begins then   *)
(* writes to it or to any marker, whatever is mounted, missing, torn or    *)
(* restarted: an empty mountpoint is refused, never bound anew             *)
(* (storage.go:23-25). Calls that began before may still write; when they  *)
(* have returned the files never change again.                             *)
BoundForGood ==
  [][identity # "absent" => /\ identity' # "absent" /\ Unsure' \subseteq Unsure
                            /\ Unsure = {} => UNCHANGED files]_bindingVars

(* An agent that died between the marker and the identity file takes the   *)
(* marker over when it starts again (storage.go:44-45): a mounted storage  *)
(* with a marker does not stay without an identity file.                   *)
Interrupted ==
  /\ attached /\ identity = "absent" /\ marker["storage"] \in Id
  /\ \A t \in Thread : at[t] = "idle"

HalfBoundRecovers == Interrupted ~> identity # "absent" \/ ~attached
==============================================================================
