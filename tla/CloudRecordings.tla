--------------------------- MODULE CloudRecordings ---------------------------
(***************************************************************************)
(* Recordings that the cloud makes itself: the loop syncCloudRecordings    *)
(* (cmd/cloud/main.go) with the minimum of free space, the staging         *)
(* directory, the scan, its checksums (internal/media) and the rows        *)
(* (internal/store/store.go).                                              *)
(*                                                                         *)
(* FFmpeg writes segments beside the loop. All segments have one size, the *)
(* unit of Total and Minimum. A version of a segment stands for its size,  *)
(* its end and its content. An error of ListAllCameras leaves everything   *)
(* as it is until the next round, so it is no step. While the storage is   *)
(* gone its segments stay what they are, out of reach; what FFmpeg writes  *)
(* to the bare directory meanwhile is not modelled.                        *)
(***************************************************************************)
EXTENDS Naturals, FiniteSetsExt

CONSTANTS File, Camera,
          CameraOf,     \* the camera of a segment
          MaxVersion,   \* bound: versions of a segment
          Total,        \* segments for which the storage has room
          Minimum,      \* CLOUD_MIN_FREE_BYTES, in segments
          MaxNew,       \* new checksums of a round, 4 in the code
          MaxEvents,    \* bound: failures, restarts and changes of a camera's mode
          None

ASSUME CameraAssumption  == CameraOf \in [File -> Camera] /\ None \notin File
ASSUME VersionAssumption == MaxVersion \in Nat \ {0}
ASSUME SpaceAssumption   == Total \in Nat /\ Minimum \in Nat /\ MaxNew \in Nat \ {0}
ASSUME EventAssumption   == MaxEvents \in Nat

VARIABLES
  version,    \* of a segment, 0 before it exists; the last one when it is gone
  staged,     \* segments in .staging
  placed,     \* segments in the directories that are scanned
  older,      \* pairs of segments on the storage, the one modified first in front
  settled,    \* unchanged for 10 s
  cold,       \* unchanged for two segment times
  aged,       \* older than the retention of their camera
  side,       \* version for which the sidecar of a segment is good, 0 for none
  mounted,    \* the storage, with its identity marker, is there
  current,    \* the segment that a camera's FFmpeg has open
  recording,  \* cameras that are enabled and recorded by the cloud
  recorders,  \* cameras in the recorder manager
  pc,         \* of the loop
  streams,    \* cameras of this round
  listed,     \* version of a segment that the scan has listed, 0 for others
  sums,       \* version whose checksum the round reports, 0 for none
  seen,       \* segments whose rows have the token of this round
  missed,     \* segments that the scan could not see: their storage went, or an entry
              \* could not be read, after the round had checked the storage
  rowVersion, \* version in a segment's row, 0 without a row
  rowSum,     \* version whose checksum the row has, 0 for NULL
  events      \* failures and changes so far

storage == <<version, staged, placed, older, settled, cold, aged, side, mounted>>
ffmpeg  == <<current, recorders>>
round   == <<pc, streams, listed, sums, seen, missed>>
rows    == <<rowVersion, rowSum>>
vars    == <<storage, ffmpeg, recording, round, rows, events>>

Version == 0..MaxVersion
Of(C)   == {f \in File : CameraOf[f] \in C}
Blank   == [f \in File |-> 0]
Present == staged \cup placed

(* Of two segments one was modified before the other.                      *)
InOrder ==
  /\ \A f, g \in Present    : f # g => <<f, g>> \in older \/ <<g, f>> \in older
  /\ \A f, g \in Present    : <<f, g>> \in older => <<g, f>> \notin older
  /\ \A f, g, h \in Present : <<f, g>> \in older /\ <<g, h>> \in older => <<f, h>> \in older

TypeOK ==
  /\ {version, side, listed, sums, rowVersion, rowSum} \subseteq [File -> Version]
  /\ staged \subseteq File /\ placed \subseteq File \ staged
  /\ settled \subseteq File /\ cold \subseteq settled /\ aged \subseteq File
  /\ seen \subseteq File /\ missed \subseteq File
  /\ older \subseteq Present \X Present /\ InOrder
  /\ mounted   \in BOOLEAN
  /\ current   \in [Camera -> File \cup {None}]
  /\ recording \subseteq Camera /\ recorders \subseteq Camera /\ streams \subseteq Camera
  /\ pc        \in {"load", "space", "scan", "hash", "index", "reconcile", "prune"}
  /\ events    \in 0..MaxEvents

Init ==
  /\ version = Blank /\ staged = {} /\ placed = {} /\ older = {}
  /\ settled = {} /\ cold = {} /\ aged = {} /\ side = Blank /\ mounted = TRUE
  /\ current = [c \in Camera |-> None] /\ recording = Camera /\ recorders = {}
  /\ pc = "load" /\ streams = {} /\ listed = Blank /\ sums = Blank /\ seen = {}
  /\ missed = {} /\ rowVersion = Blank /\ rowSum = Blank
  /\ events = 0

Event == events < MaxEvents /\ events' = events + 1

Free == Total - Cardinality(Present)

----------------------------------------------------------------------------
(* FFmpeg and time                                                         *)

Written(f) == older' = {p \in older : f \notin {p[1], p[2]}} \cup ((Present \ {f}) \X {f})

(* A recorder opens its next segment.                                      *)
NewSegment(f) ==
  LET c == CameraOf[f]
  IN /\ mounted /\ c \in recorders /\ version[f] = 0 /\ Free > 0
     /\ version' = [version EXCEPT ![f] = 1]
     /\ staged'  = staged \cup {f}
     /\ Written(f)
     /\ current' = [current EXCEPT ![c] = f]
     /\ UNCHANGED <<placed, settled, cold, aged, side, mounted, recorders, recording, round, rows,
                    events>>

(* It writes to the segment it has open, wherever that is by now: a stall  *)
(* of its camera lets a segment settle too early.                          *)
Grow(f) ==
  /\ mounted /\ current[CameraOf[f]] = f /\ f \in Present
  /\ version[f] < MaxVersion
  /\ version' = [version EXCEPT ![f] = @ + 1]
  /\ Written(f)
  /\ settled' = settled \ {f} /\ cold' = cold \ {f} /\ aged' = aged \ {f}
  /\ UNCHANGED <<staged, placed, side, mounted, ffmpeg, recording, round, rows, events>>

Settle(f) == /\ f \in Present \ settled
             /\ settled' = settled \cup {f}
             /\ UNCHANGED <<version, staged, placed, older, cold, aged, side, mounted, ffmpeg,
                            recording, round, rows, events>>

Cool(f) == /\ f \in settled \ cold
           /\ cold' = cold \cup {f}
           /\ UNCHANGED <<version, staged, placed, older, settled, aged, side, mounted, ffmpeg,
                          recording, round, rows, events>>

AgeFile(f) == /\ f \in cold \ aged
              /\ aged' = aged \cup {f}
              /\ UNCHANGED <<version, staged, placed, older, settled, cold, side, mounted, ffmpeg,
                             recording, round, rows, events>>

(* The storage goes, or comes back, whatever the loop is doing.            *)
FlipStorage ==
  /\ IF mounted THEN Event ELSE UNCHANGED events
  /\ mounted' = ~mounted
  /\ missed'  = IF mounted /\ pc = "scan" THEN placed ELSE missed
  /\ UNCHANGED <<version, staged, placed, older, settled, cold, aged, side, ffmpeg, recording,
                 pc, streams, listed, sums, seen, rows>>

(* An administrator changes the mode of a camera.                          *)
ChangeMode(c) == /\ Event
                 /\ recording' = IF c \in recording THEN recording \ {c} ELSE recording \cup {c}
                 /\ UNCHANGED <<storage, ffmpeg, round, rows>>

----------------------------------------------------------------------------
(* A round of the loop                                                     *)

(* RecorderManager.Reconcile; FFmpeg of a camera that is not recorded ends. *)
Record(C) == /\ recorders' = C
             /\ current'   = [c \in Camera |-> IF c \in C THEN current[c] ELSE None]

Load ==
  /\ pc = "load"
  /\ pc' = "space" /\ streams' = recording /\ missed' = {}
  /\ UNCHANGED <<storage, ffmpeg, recording, listed, sums, seen, rows, events>>

(* Files of F leave the storage.                                           *)
Gone(F, S) == /\ placed'  = S \ F
              /\ older'   = {p \in older : {p[1], p[2]} \cap F = {}}
              /\ settled' = settled \ F /\ cold' = cold \ F

(* Finished segments of any camera.                                        *)
Candidates == placed \cap cold

(* How many of them have to go.                                            *)
Needed == IF Free >= Minimum THEN 0 ELSE Minimum - Free

Newest(T, n) == {f \in T : Cardinality({g \in T : <<f, g>> \in older}) < n}   \* mutant: sorted the other way

(* The first n segments of T, sorted by the time of their last change.     *)
Oldest(T, n) == {f \in T : Cardinality({g \in T : <<g, f>> \in older}) < n}

NeverAsked == FALSE   \* mutant: the marker of the storage is not asked for

(* Without a minimum EnforceMinimumFreeSpace returns before it asks for    *)
(* the identity marker.                                                    *)
Unavailable == Minimum # 0 /\ ~mounted

(* EnforceMinimumFreeSpace, where the segments of X cannot be removed, and *)
(* what its result means for the recorders.                                *)
EnforceMinimumFreeSpace ==
  /\ pc = "space" /\ ~Unavailable
  /\ \E X \in SUBSET Candidates :
       LET tried == Candidates \ X
           R     == Oldest(tried, Needed)
       IN /\ IF X = {} THEN UNCHANGED events ELSE Needed > 0 /\ Event
          /\ Gone(R, placed)
          /\ side' = [f \in File |-> IF f \in R THEN 0 ELSE side[f]]
          /\ IF Cardinality(tried) >= Needed
               THEN Record(streams) /\ pc' = "scan"
               ELSE Record({})      /\ pc' = "load"
  /\ UNCHANGED <<version, staged, aged, mounted, recording, streams, listed, sums,
                 seen, missed, rows>>

(* The marker is not there, or the storage cannot be looked through.       *)
StorageUnavailable ==
  /\ pc = "space" /\ Minimum # 0
  /\ IF Unavailable THEN UNCHANGED events ELSE Event
  /\ Record({}) /\ pc' = "load"
  /\ UNCHANGED <<storage, recording, streams, listed, sums,
                 seen, missed, rows>>

Moves(F) == staged' = staged \ F

(* organizeStagedRecordings moves the settled segments of the round's      *)
(* cameras, ScanRecordings lists what has settled, with the checksum of    *)
(* its sidecar, or removes it when it is older than the retention.         *)
Ready == IF mounted THEN staged \cap settled \cap Of(streams) ELSE {}
Found == IF mounted THEN (placed \cup Ready) \cap settled \cap Of(streams) ELSE {}

Lists(F) ==
  /\ listed' = [f \in File |-> IF f \in F THEN version[f] ELSE 0]
  /\ sums'   = [f \in File |-> IF f \in F /\ side[f] = version[f] THEN side[f] ELSE 0]
  /\ pc'     = "hash"

Scan ==
  /\ pc = "scan"
  /\ Moves(Ready)
  /\ Gone(Found \cap aged, placed \cup Ready)
  /\ Lists(Found \ aged)
  /\ missed' = IF mounted THEN {} ELSE missed
  /\ UNCHANGED <<version, aged, side, mounted, ffmpeg, recording, streams, seen, rows, events>>

(* Entries that cannot be read are passed over, and when the storage goes  *)
(* in the middle, what was listed until then is taken for all there is.    *)
ScanCutShort ==
  /\ pc = "scan" /\ mounted /\ Event
  /\ \E M \in SUBSET Ready : \E W \in SUBSET (Found \ (Ready \ M)) :
       /\ Moves(M)
       /\ Gone(W \cap aged, placed \cup M)
       /\ Lists(W \ aged)
       /\ missed' = Found \ W
  /\ mounted' \in BOOLEAN
  /\ UNCHANGED <<version, aged, side, ffmpeg, recording, streams, seen, rows>>

(* A segment cannot be moved or removed; what was done before stays done.  *)
ScanFails ==
  /\ pc = "scan" /\ Event
  /\ \E M \in SUBSET Ready, R \in SUBSET (Found \cap aged) :
       /\ R # {} => M = Ready
       /\ Moves(M)
       /\ Gone(R, placed \cup M)
  /\ pc' = "load"
  /\ UNCHANGED <<version, aged, side, mounted, ffmpeg, recording, streams, listed, sums,
                 seen, missed, rows>>

(* PopulateChecksums: some segments without a checksum are read, if the    *)
(* storage is there, first what the sidecar says of the segment and then   *)
(* its content, which may have been written to in between.                 *)
Hash ==
  /\ pc = "hash"
  /\ LET without == IF mounted THEN {f \in placed : listed[f] # 0 /\ sums[f] = 0} ELSE {}
     IN \E H \in SUBSET without, stat, sum \in [File -> Version] :
          /\ IF Cardinality(H) = Min({MaxNew, Cardinality(without)})
               THEN UNCHANGED events
               ELSE Cardinality(H) < MaxNew /\ Event
          /\ \A f \in H : listed[f] <= stat[f] /\ stat[f] <= sum[f] /\ sum[f] <= version[f]
          /\ \A f \in File \ H : stat[f] = side[f] /\ sum[f] = sums[f]
          /\ side' = stat /\ sums' = sum
  /\ pc' = "index"
  /\ UNCHANGED <<version, staged, placed, older, settled, cold, aged, mounted, ffmpeg, recording,
                 streams, listed, seen, missed, rows>>

SumFirst(f) == IF rowSum[f] # 0 THEN rowSum[f] ELSE sums[f]   \* mutant: COALESCE the other way round

(* COALESCE(NULLIF(?, ''), checksum_sha256).                               *)
Sum(f) == IF sums[f] # 0 THEN sums[f] ELSE rowSum[f]

Listed == {f \in File : listed[f] # 0}

(* UpsertRecordingInventory for each, a failure leaves out that one only.  *)
Index ==
  /\ pc = "index"
  /\ \E D \in SUBSET Listed :
       /\ IF D = Listed THEN UNCHANGED events ELSE Event
       /\ seen'       = D
       /\ rowVersion' = [f \in File |-> IF f \in D THEN listed[f] ELSE rowVersion[f]]
       /\ rowSum'     = [f \in File |-> IF f \in D THEN Sum(f) ELSE rowSum[f]]
  /\ pc' = "reconcile"
  /\ UNCHANGED <<storage, ffmpeg, recording, streams, listed, sums, missed>>

Delete(F) == /\ rowVersion' = [f \in File |-> IF f \in F THEN 0 ELSE rowVersion[f]]
             /\ rowSum'     = [f \in File |-> IF f \in F THEN 0 ELSE rowSum[f]]

AlwaysComplete == TRUE   \* mutant: inventoryComplete is not asked for

InventoryComplete == seen = Listed

(* What ReconcileRecordingInventory deletes: of the cameras of the round.  *)
Unseen == Of(streams) \ seen

Reconcile ==
  /\ pc = "reconcile"
  /\ \/ InventoryComplete /\ Delete(Unseen) /\ UNCHANGED events
     \/ ~InventoryComplete /\ UNCHANGED <<rows, events>>
     \/ InventoryComplete /\ UNCHANGED rows /\ Event
  /\ pc' = "prune"
  /\ UNCHANGED <<storage, ffmpeg, recording, streams, listed, sums, seen, missed>>

(* PruneCloudRecordings for each stream; an error is ignored.              *)
Prune ==
  /\ pc = "prune"
  /\ \E P \in SUBSET streams : /\ Delete(Of(P) \cap aged)
                               /\ IF P = streams THEN UNCHANGED events ELSE Event
  /\ pc' = "load"
  /\ listed' = Blank /\ sums' = Blank /\ seen' = {} /\ streams' = {}
  /\ UNCHANGED <<storage, ffmpeg, recording, missed>>

CloudRestart ==
  /\ Event
  /\ Record({})
  /\ pc' = "load" /\ listed' = Blank /\ sums' = Blank /\ seen' = {} /\ streams' = {}
  /\ UNCHANGED <<storage, recording, missed, rows>>

LoopStep == \/ Load \/ EnforceMinimumFreeSpace \/ StorageUnavailable
            \/ Scan \/ Hash \/ Index \/ Reconcile \/ Prune

Next ==
  \/ \E f \in File : NewSegment(f) \/ Grow(f) \/ Settle(f) \/ Cool(f) \/ AgeFile(f)
  \/ FlipStorage \/ \E c \in Camera : ChangeMode(c)
  \/ LoopStep \/ ScanCutShort \/ ScanFails \/ CloudRestart

Spec == Init /\ [][Next]_vars

(* The ticker of 30 s, and what is not written becomes older.              *)
FairSpec == /\ Spec
            /\ WF_vars(LoopStep)
            /\ \A f \in File : WF_vars(Settle(f)) /\ WF_vars(Cool(f))

----------------------------------------------------------------------------
(* Properties                                                              *)

(* The row of a segment goes that is there, not too old, as the row has it. *)
Erased(f) == /\ rowVersion[f] # 0 /\ rowVersion'[f] = 0
             /\ f \in placed \ aged /\ version[f] = rowVersion[f]

(* What the check of the storage in each round (main.go:103) does for the  *)
(* timeline: whatever fails half-way, starts again, or goes and comes back *)
(* between rounds, the row of a segment that is there is not deleted. A    *)
(* round that loses its storage after it has checked it, or cannot read    *)
(* some entry, deletes the rows of what it missed, and no others.          *)
CloudTimelineKept == [][\A f \in File : Erased(f) => f \in missed]_vars

(* The rows are a timeline of the segments, Timeline's: beside what        *)
(* CloudTimelineKept says, a row is never ahead of its segment, and no     *)
(* round writes to a row what an earlier one has listed.                   *)
Rows == INSTANCE Timeline WITH
  lost   <- (File \ placed) \cup aged,
  unseen <- missed,
  row    <- rowVersion

IsTimeline == Rows!Spec

(* "removes the oldest finalized segments before the filesystem becomes    *)
(* full" (storage.go:77): while one of them could be removed no newer one  *)
(* is, whichever camera they are of, and not one more than needed.         *)
OldestGoFirst ==
  [][pc = "space" =>
       \A f \in placed \ placed' :
         /\ events' = events => \A g \in placed' \cap cold : <<f, g>> \in older
         /\ Total - Cardinality(Present') <= Minimum]_vars

(* When cameras and storage stay as they are and rounds get past the check *)
(* of the free space, the rows become the segments, each with the checksum *)
(* of what it holds, though a round computes only MaxNew of them and a     *)
(* segment may have changed after it was listed.                           *)
Indexed ==
  \A f \in Of(recording) :
    IF f \in placed THEN rowVersion[f] = version[f] /\ rowSum[f] = version[f]
                    ELSE rowVersion[f] = 0

CloudConverges == (<>[]mounted /\ []<>(pc = "scan")) => <>[]Indexed
==============================================================================
