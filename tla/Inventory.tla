------------------------------ MODULE Inventory ------------------------------
(***************************************************************************)
(* The recording inventory: the agent's loop runInventorySync              *)
(* (cmd/agent/main.go), the cloud's handler syncAgentRecordings            *)
(* (internal/cloud/recording_handlers.go) and the rows of the table        *)
(* recordings (internal/store/store.go).                                   *)
(*                                                                         *)
(* One agent, the files of its cameras, and the rows the cloud keeps for   *)
(* them. A file's version stands for what its row copies (size, end,       *)
(* checksum). The handler works row by row, each its own transaction, so   *)
(* each row is a step. A full synchronisation has a fresh ID; any value    *)
(* that no row and no request holds is as good as a new random one.        *)
(***************************************************************************)
EXTENDS Naturals, FiniteSetsExt

CONSTANTS File,
          MaxVersion,      \* bound: versions of a file
          PageSize,        \* 200 in the code
          Token,           \* IDs of full synchronisations, positive numbers
          Meanwhile,       \* what may happen between check and end of a scan
          LateRequests,    \* a request the agent gave up may run on
          MaxFaults        \* bound: failed requests, failed saves, restarts

ASSUME VersionAssumption == MaxVersion \in Nat \ {0}
ASSUME PageAssumption    == PageSize \in Nat \ {0}
ASSUME TokenAssumption   == Token \subseteq Nat \ {0}
ASSUME SwitchAssumption  == Meanwhile \subseteq {"unmount", "remove"} /\ LateRequests \in BOOLEAN
ASSUME FaultAssumption   == MaxFaults \in Nat

(* A new random ID is one that no row and no request holds.                *)
ASSUME FreshAssumption ==
  \A used \in [File -> Token \cup {0}], t, u \in Token \cup {0} :
    \E new \in Token : new \notin {used[f] : f \in File} \cup {t, u}

VARIABLES
  disk,      \* version of a file on the storage; 0 before it is there
  deleted,   \* files removed from the storage for good
  settled,   \* files unchanged for the 10 s that ScanRecordings asks for
  aged,      \* files that ended longer ago than their camera's retention
  mounted,   \* the storage, with its identity marker, is there
  phase,     \* of the agent's loop: idle, checked, sync
  snap,      \* versions that the scan saw, 0 for a file it did not see
  previous,  \* versions of the last synchronised scan, kept in a file too
  fullDone,  \* lastFullSync is not zero: a full one has run since the start
  full,      \* this synchronisation is a full one
  toSend, toDelete,   \* what it has still to report
  request,   \* the request the agent waits for
  late,      \* a request it has given up
  token,     \* the ID of the current full synchronisation
  row,       \* version in a file's row, 0 without a row
  rowToken,  \* inventory_token of the row, 0 for NULL
  faults     \* failures so far

diskVars  == <<disk, deleted, settled, aged, mounted>>
agentVars == <<phase, snap, previous, fullDone, full, toSend, toDelete, token>>
rowVars   == <<row, rowToken>>
vars == <<diskVars, agentVars, request, late, rowVars, faults>>

None == [st |-> "none", add |-> {}, del |-> {}, token |-> 0,
         complete |-> FALSE, data |-> [f \in File |-> 0]]

Version == 0..MaxVersion
Request == [st : {"none", "running", "prune", "done"}, add : SUBSET File, del : SUBSET File,
            token : Token \cup {0}, complete : BOOLEAN, data : [File -> Version]]

TypeOK ==
  /\ disk     \in [File -> Version]
  /\ deleted  \subseteq File /\ settled \subseteq File /\ aged \subseteq File
  /\ mounted  \in BOOLEAN /\ fullDone \in BOOLEAN /\ full \in BOOLEAN
  /\ phase    \in {"idle", "checked", "sync"}
  /\ snap     \in [File -> Version] /\ previous \in [File -> Version]
  /\ toSend   \subseteq File /\ toDelete \subseteq File
  /\ request  \in Request /\ late \in Request
  /\ token    \in Token \cup {0}
  /\ row      \in [File -> Version] /\ rowToken \in [File -> Token \cup {0}]
  /\ faults   \in 0..MaxFaults

Empty == [f \in File |-> 0]

Init ==
  /\ disk = Empty /\ deleted = {} /\ settled = {} /\ aged = {} /\ mounted = TRUE
  /\ phase = "idle" /\ snap = Empty /\ previous = Empty
  /\ fullDone = FALSE /\ full = FALSE /\ toSend = {} /\ toDelete = {} /\ token = 0
  /\ request = None /\ late = None
  /\ row = Empty /\ rowToken = Empty
  /\ faults = 0

----------------------------------------------------------------------------
(* The storage                                                             *)

(* A segment appears, or changes; it is not listed before it has settled.  *)
Write(f) ==
  /\ mounted /\ f \notin deleted \cup aged /\ disk[f] < MaxVersion
  /\ disk'    = [disk EXCEPT ![f] = @ + 1]
  /\ settled' = settled \ {f}
  /\ UNCHANGED <<deleted, aged, mounted, agentVars, request, late, rowVars, faults>>

SettleFile(f) ==
  /\ disk[f] > 0 /\ f \notin settled
  /\ settled' = settled \cup {f}
  /\ UNCHANGED <<disk, deleted, aged, mounted, agentVars, request, late, rowVars, faults>>

(* A finished segment grows older than LocalRetentionDays.                 *)
AgeFile(f) ==
  /\ f \in settled /\ f \notin aged
  /\ aged' = aged \cup {f}
  /\ UNCHANGED <<disk, deleted, settled, mounted, agentVars, request, late, rowVars, faults>>

(* EnforceMinimumFreeSpace, in either loop, removes a finished file.       *)
Remove(f) ==
  /\ mounted /\ f \in settled
  /\ disk'    = [disk EXCEPT ![f] = 0]
  /\ deleted' = deleted \cup {f}
  /\ settled' = settled \ {f}
  /\ UNCHANGED <<aged, mounted, agentVars, request, late, rowVars, faults>>

(* A NAS mount disappears and leaves an empty mountpoint, or comes back.   *)
Unmount == /\ mounted
           /\ "unmount" \in Meanwhile \/ phase # "checked"
           /\ mounted' = FALSE
           /\ UNCHANGED <<disk, deleted, settled, aged, agentVars, request, late, rowVars, faults>>

Remount == /\ ~mounted
           /\ mounted' = TRUE
           /\ UNCHANGED <<disk, deleted, settled, aged, agentVars, request, late, rowVars, faults>>

----------------------------------------------------------------------------
(* The agent: runInventorySync                                             *)

(* EnsureRecordingStorage; without the marker this round is skipped.       *)
CheckNothing ==   \* mutant: the marker is not asked for
  /\ phase = "idle"
  /\ phase' = "checked"
  /\ UNCHANGED <<diskVars, snap, previous, fullDone, full, toSend, toDelete, token,
                 request, late, rowVars, faults>>

CheckStorage ==
  /\ phase = "idle" /\ mounted
  /\ phase' = "checked"
  /\ UNCHANGED <<diskVars, snap, previous, fullDone, full, toSend, toDelete, token,
                 request, late, rowVars, faults>>

Visible == IF mounted THEN settled ELSE {}

FreshToken == Min(Token \ ({rowToken[f] : f \in File} \cup {request.token, late.token}))

(* ScanRecordings: the files it lists, and the aged ones it removes. When  *)
(* the other loop has removed an aged file first, os.Remove fails and the  *)
(* walk ends there: what it has listed so far is returned without error.   *)
Walk(listed, gone) ==
  \/ listed = Visible \ aged /\ gone = Visible \cap aged
  \/ /\ "remove" \in Meanwhile
     /\ gone # {}

(* The scan, and the choice of a full or an incremental report: full after *)
(* a start and when FULL_INVENTORY_INTERVAL has passed.                    *)
Scan(f) ==
  /\ phase = "checked"
  /\ ~fullDone => f
  /\ \E listed \in SUBSET (Visible \ aged), gone \in SUBSET (Visible \cap aged) :
       LET next == [x \in File |-> IF x \in listed THEN disk[x] ELSE 0]
       IN /\ Walk(listed, gone)
          /\ snap'     = next
          /\ toSend'   = IF f THEN listed ELSE {x \in listed : previous[x] # next[x]}
          /\ toDelete' = IF f THEN {} ELSE {x \in File : previous[x] # 0 /\ next[x] = 0}
          /\ disk'     = [x \in File |-> IF x \in gone THEN 0 ELSE disk[x]]
          /\ deleted'  = deleted \cup gone
          /\ settled'  = settled \ gone
  /\ phase' = "sync"
  /\ full'  = f
  /\ token' = IF f THEN FreshToken ELSE 0
  /\ UNCHANGED <<aged, mounted, previous, fullDone, request, late, rowVars, faults>>

Pages(S) == {P \in SUBSET S : Cardinality(P) = Min({PageSize, Cardinality(S)})}

(* The next page; a full synchronisation ends with a request of its own    *)
(* that is marked complete.                                                *)
SendPage ==
  /\ phase = "sync" /\ request.st = "none"
  /\ full \/ toSend # {} \/ toDelete # {}
  /\ \E P \in Pages(toSend), D \in Pages(toDelete) :
       /\ request' = [st |-> "running", add |-> P, del |-> D, token |-> token,
                      complete |-> full /\ toSend = {}, data |-> snap]
       /\ toSend'   = toSend \ P
       /\ toDelete' = toDelete \ D
  /\ UNCHANGED <<diskVars, phase, snap, previous, fullDone, full, token, late, rowVars, faults>>

(* The reply to the last request: the state file is saved, then previous   *)
(* and, after a full one, lastFullSync move on.                            *)
FinishedUnanswered == toSend = {} /\ toDelete = {}   \* mutant: does not wait for the reply

Finished == IF full THEN request.st = "done" /\ request.complete
                    ELSE request.st \in {"none", "done"} /\ toSend = {} /\ toDelete = {}

PageReturns ==
  /\ phase = "sync" /\ request.st = "done" /\ ~Finished
  /\ request' = None
  /\ UNCHANGED <<diskVars, agentVars, late, rowVars, faults>>

Leave == /\ phase' = "idle"
         /\ toSend' = {} /\ toDelete' = {} /\ token' = 0
         /\ snap' = Empty /\ full' = FALSE

Commit ==
  /\ phase = "sync" /\ Finished
  /\ Leave
  /\ request'  = None
  /\ previous' = snap
  /\ fullDone' = (fullDone \/ full)
  /\ UNCHANGED <<diskVars, late, rowVars, faults>>

Fault == faults < MaxFaults /\ faults' = faults + 1

(* What the agent does not wait for any more ends, or runs on for a while. *)
GiveUp == /\ request' = None
          /\ \/ UNCHANGED late
             \/ /\ LateRequests /\ request.st \in {"running", "prune"} /\ late = None
                /\ late' = request

(* saveJSONAtomic fails: nothing moves on.                                 *)
SaveFails ==
  /\ phase = "sync" /\ Finished
  /\ Fault /\ Leave
  /\ request' = None
  /\ UNCHANGED <<diskVars, previous, fullDone, late, rowVars>>

(* The request fails, on the agent's side or because a row could not be    *)
(* stored: the rows written so far stay.                                   *)
RequestFails ==
  /\ request.st # "none"
  /\ Fault /\ Leave /\ GiveUp
  /\ UNCHANGED <<diskVars, previous, fullDone, rowVars>>

AgentRestart ==
  /\ Fault /\ Leave /\ GiveUp
  /\ fullDone' = FALSE
  /\ UNCHANGED <<diskVars, previous, rowVars>>

----------------------------------------------------------------------------
(* The cloud: syncAgentRecordings, on the current or on a late request     *)

(* UpsertRecording inserts a row that is missing and leaves one that is    *)
(* there alone; UpsertRecordingInventory also updates it.                  *)
UpsertKeeps(q, f) ==   \* mutant: a row that is there is only marked as seen
  /\ row'      = [row EXCEPT ![f] = IF @ = 0 THEN q.data[f] ELSE @]
  /\ rowToken' = [rowToken EXCEPT ![f] = q.token]

UpsertSkips(q, f) ==   \* mutant: what is as it was is not marked either
  IF row[f] = q.data[f]
    THEN UNCHANGED rowVars
    ELSE row' = [row EXCEPT ![f] = q.data[f]] /\ rowToken' = [rowToken EXCEPT ![f] = q.token]

Upsert(q, f) ==
  IF q.token = 0
    THEN row' = [row EXCEPT ![f] = IF @ = 0 THEN q.data[f] ELSE @] /\ UNCHANGED rowToken
    ELSE /\ row'      = [row EXCEPT ![f] = q.data[f]]
         /\ rowToken' = [rowToken EXCEPT ![f] = q.token]

(* ReconcileRecordingInventory: rows with another token, or none, go.      *)
Reconcile(q) ==
  LET seen == {f \in File : rowToken[f] = q.token}
  IN /\ row'      = [f \in File |-> IF f \in seen THEN row[f] ELSE 0]
     /\ rowToken' = [f \in File |-> IF f \in seen THEN rowToken[f] ELSE 0]

(* One step of the handler: the reported rows, the deleted ones, the       *)
(* reconciliation; then the rows older than the retention go in any case,  *)
(* and the reply is sent.                                                  *)
Handle(q, r) ==
  \/ /\ q.st = "running"
     /\ \/ \E f \in q.add :
             /\ Upsert(q, f)
             /\ r = [q EXCEPT !.add = @ \ {f}]
        \/ \E f \in q.del :
             /\ q.add = {}
             /\ row'      = [row EXCEPT ![f] = 0]
             /\ rowToken' = [rowToken EXCEPT ![f] = 0]
             /\ r = [q EXCEPT !.del = @ \ {f}]
        \/ /\ q.add = {} /\ q.del = {}
           /\ IF q.complete THEN Reconcile(q) ELSE UNCHANGED rowVars
           /\ r = [q EXCEPT !.st = "prune"]
  \/ /\ q.st = "prune"
     /\ row'      = [f \in File |-> IF f \in aged THEN 0 ELSE row[f]]
     /\ rowToken' = [f \in File |-> IF f \in aged THEN 0 ELSE rowToken[f]]
     /\ r = [q EXCEPT !.st = "done"]

After(q) == {[q EXCEPT !.add = @ \ {f}] : f \in q.add}
            \cup {[q EXCEPT !.del = @ \ {f}] : f \in q.del}
            \cup {[q EXCEPT !.st = "prune"], [q EXCEPT !.st = "done"]}

HandleCurrent == /\ \E r \in After(request) : Handle(request, r) /\ request' = r
                 /\ UNCHANGED <<diskVars, agentVars, late, faults>>

HandleLate == /\ \E r \in After(late) : Handle(late, r) /\ late' = r
              /\ UNCHANGED <<diskVars, agentVars, request, faults>>

(* The server notices that nobody waits: the next statement fails.         *)
CancelLate == /\ late.st # "none"
              /\ late' = None
              /\ UNCHANGED <<diskVars, agentVars, request, rowVars, faults>>

----------------------------------------------------------------------------
AgentStep == CheckStorage \/ SendPage \/ PageReturns \/ Commit

Next ==
  \/ \E f \in File : Write(f) \/ SettleFile(f) \/ AgeFile(f) \/ Remove(f)
  \/ Unmount \/ Remount
  \/ AgentStep \/ Scan(TRUE) \/ Scan(FALSE)
  \/ SaveFails \/ RequestFails \/ AgentRestart
  \/ HandleCurrent \/ HandleLate \/ CancelLate

Spec == Init /\ [][Next]_vars

(* Files settle, the ticker ticks, full inventories come due, requests are *)
(* handled, and the storage comes back.                                    *)
FairSpec ==
  /\ Spec
  /\ \A f \in File : WF_vars(SettleFile(f))
  /\ WF_vars(AgentStep) /\ WF_vars(Scan(TRUE) \/ Scan(FALSE)) /\ SF_vars(Scan(TRUE))
  /\ WF_vars(HandleCurrent) /\ WF_vars(Remount)

----------------------------------------------------------------------------
(* Properties                                                              *)

(* storage.go:23-25 and README: a storage that disappears stops the        *)
(* inventory instead of erasing the timeline. A row is therefore deleted   *)
(* only when its file is gone, is not any more what the row says, or is    *)
(* older than the retention.                                               *)
TimelineKept ==
  [][\A f \in File : row[f] # 0 /\ row'[f] = 0 =>
        f \in deleted \/ f \in aged \/ disk[f] # row[f]]_vars

(* ReconcileRecordingInventory "removes database rows whose files were not *)
(* seen in the completed inventory": when a full one is complete, the rows *)
(* are what the scan saw (or pruned, if older than the retention),         *)
(* whatever failed, restarted or was left behind by the synchronisations   *)
(* before.                                                                 *)
CompleteIsExact ==
  phase = "sync" /\ full /\ Finished =>
    \A f \in File : row[f] = snap[f] \/ (f \in aged /\ row[f] = 0)

(* previous is what the next increment is computed against: a file it      *)
(* names has a row, unless this very synchronisation is deleting it, so no *)
(* file is left out for good by a failure in the middle of a page.         *)
PreviousIsIndexed == \A f \in File \ (deleted \cup aged) :
  previous[f] # 0 => row[f] # 0 \/ (phase = "sync" /\ snap[f] = 0)
                                \/ ~fullDone \/ disk[f] # previous[f]

(* The rows are a timeline of the files, Timeline's: beside what           *)
(* TimelineKept says, no report of an older state of a file, from before a *)
(* failure, a restart or a later change, overwrites a newer row. A deleted *)
(* file counts as changed for good.                                        *)
Rows == INSTANCE Timeline WITH
  version <- [f \in File |-> IF f \in deleted THEN MaxVersion ELSE disk[f]],
  lost    <- deleted \cup aged,
  unseen  <- {}

IsTimeline == Rows!Spec

(* README: a full inventory makes MariaDB consistent again. When the files *)
(* stay as they are and the failures end, the rows become the files.       *)
Indexed == \A f \in File \ aged : row[f] = disk[f]

Converges == <>[]mounted => <>[]Indexed
==============================================================================
