---------------------------- MODULE Storage_proofs ----------------------------
(***************************************************************************)
(* Proofs about the storage of recordings: about CloudRecordings, and      *)
(* about StorageBinding, which the agent's goroutines call before they     *)
(* touch theirs. The two share no state.                                   *)
(***************************************************************************)
EXTENDS CloudRecordings, StorageBinding, TLAPS, FiniteSetTheorems

USE CameraAssumption, VersionAssumption, SpaceAssumption, EventAssumption

----------------------------------------------------------------------------
(* The order of the segments                                               *)

(* Beside the types: the storage is finite, and what is on it was written. *)
TypeInv == TypeOK /\ IsFiniteSet(Present) /\ \A f \in Present : version[f] # 0

(* What is written to goes to the end of the order.                        *)
LEMMA WrittenFacts ==
  ASSUME TypeOK, NEW f \in File, Written(f), Present' = Present \cup {f}
  PROVE  older' \subseteq Present' \X Present' /\ InOrder'
<1>1. \A g, h \in Present' :
        <<g, h>> \in older' <=> \/ h = f /\ g # f
                                \/ <<g, h>> \in older /\ g # f /\ h # f
  BY DEF Written, TypeOK
<1>2. older' \subseteq Present' \X Present'
  BY DEF Written, TypeOK
<1>3. f \in Present' /\ Present' \ {f} \subseteq Present
  OBVIOUS
<1>4. InOrder
  BY DEF TypeOK
<1>5. InOrder'
  BY <1>1, <1>3, <1>4 DEF InOrder
<1> QED BY <1>2, <1>5

(* What goes leaves the order of the others as it is.                      *)
LEMMA GoneFacts ==
  ASSUME TypeOK, NEW F, NEW S, Gone(F, S), Present' = Present \ F
  PROVE  older' \subseteq Present' \X Present' /\ InOrder'
<1>1. \A g, h \in Present' : <<g, h>> \in older' <=> <<g, h>> \in older
  BY DEF Gone, TypeOK
<1>2. older' \subseteq Present' \X Present'
  BY DEF Gone, TypeOK
<1> QED BY <1>1, <1>2 DEF TypeOK, InOrder

LEMMA SameOrder ==
  ASSUME TypeOK, older' = older, Present' = Present
  PROVE  older' \subseteq Present' \X Present' /\ InOrder'
BY DEF TypeOK, InOrder

----------------------------------------------------------------------------
(* Types                                                                   *)

LEMMA TypeInit == Init => TypeInv
<1> SUFFICES ASSUME Init PROVE TypeInv
  OBVIOUS
<1>1. Present = {}
  BY DEF Init, Present
<1> QED BY <1>1, FS_EmptySet DEF Init, TypeInv, TypeOK, InOrder, Blank, Version

LEMMA FFmpegTypes ==
  ASSUME TypeInv, NEW f \in File,
         NewSegment(f) \/ Grow(f) \/ Settle(f) \/ Cool(f) \/ AgeFile(f)
  PROVE  TypeInv'
<1> USE DEF TypeInv
<1>1. CASE NewSegment(f)
  <2>1. Present' = Present \cup {f}
    BY <1>1 DEF NewSegment, Present
  <2>2. IsFiniteSet(Present')
    BY <2>1, FS_AddElement
  <2>3. older' \subseteq Present' \X Present' /\ InOrder'
    BY <1>1, <2>1, WrittenFacts DEF NewSegment
  <2>4. f \notin Present
    BY <1>1 DEF NewSegment
  <2>5. version' \in [File -> Version] /\ \A g \in Present' : version'[g] # 0
    BY <1>1, <2>1 DEF NewSegment, TypeOK, Version
  <2>6. staged' \subseteq File /\ placed' \subseteq File \ staged'
    BY <1>1, <2>4 DEF NewSegment, TypeOK, Present
  <2>7. current' \in [Camera -> File \cup {None}]
    BY <1>1 DEF NewSegment, TypeOK
  <2> QED BY <1>1, <2>2, <2>3, <2>5, <2>6, <2>7 DEF NewSegment, TypeOK, round, rows
<1>2. CASE Grow(f)
  <2>1. Present' = Present /\ Present = Present \cup {f}
    BY <1>2 DEF Grow, Present
  <2>2. older' \subseteq Present' \X Present' /\ InOrder'
    BY <1>2, <2>1, WrittenFacts DEF Grow
  <2>3. version' \in [File -> Version] /\ \A g \in Present' : version'[g] # 0
    BY <1>2, <2>1 DEF Grow, TypeOK, Version
  <2> QED BY <1>2, <2>1, <2>2, <2>3 DEF Grow, TypeOK, ffmpeg, round, rows
<1>3. CASE Settle(f) \/ Cool(f) \/ AgeFile(f)
  <2>1. Present' = Present /\ older' = older
    BY <1>3 DEF Settle, Cool, AgeFile, Present
  <2>2. older' \subseteq Present' \X Present' /\ InOrder'
    BY <2>1, SameOrder
  <2> QED BY <1>3, <2>1, <2>2 DEF Settle, Cool, AgeFile, TypeOK, ffmpeg, round, rows
<1> QED BY <1>1, <1>2, <1>3

LEMMA OutsideTypes ==
  ASSUME TypeInv, FlipStorage \/ CloudRestart \/ \E c \in Camera : ChangeMode(c)
  PROVE  TypeInv'
<1> USE DEF TypeInv
<1>1. Present' = Present /\ older' = older /\ version' = version
  BY DEF FlipStorage, CloudRestart, ChangeMode, storage, Present
<1>2. older' \subseteq Present' \X Present' /\ InOrder'
  BY <1>1, SameOrder
<1>3. CASE FlipStorage
  BY <1>1, <1>2, <1>3 DEF FlipStorage, Event, TypeOK, ffmpeg, round, rows
<1>4. CASE CloudRestart
  <2>1. Blank \in [File -> Version]
    BY DEF Blank, Version
  <2>2. current' \in [Camera -> File \cup {None}] /\ recorders' \subseteq Camera
    BY <1>4 DEF CloudRestart, Record, TypeOK
  <2> QED BY <1>1, <1>2, <1>4, <2>1, <2>2 DEF CloudRestart, Event, TypeOK, storage, rows
<1>5. CASE \E c \in Camera : ChangeMode(c)
  BY <1>1, <1>2, <1>5 DEF ChangeMode, Event, TypeOK, storage, ffmpeg, round, rows
<1> QED BY <1>3, <1>4, <1>5

(* Files that go are all that changes on the storage, in a round.          *)
LEMMA GoneTypes ==
  ASSUME TypeInv, NEW F, NEW S, Gone(F, S), Present' = Present \ F,
         version' = version, staged' \subseteq File, placed' \subseteq File \ staged'
  PROVE  /\ IsFiniteSet(Present') /\ \A f \in Present' : version'[f] # 0
         /\ settled' \subseteq File /\ cold' \subseteq settled'
         /\ older' \subseteq Present' \X Present' /\ InOrder'
<1> USE DEF TypeInv
<1>1. older' \subseteq Present' \X Present' /\ InOrder'
  BY GoneFacts
<1>2. IsFiniteSet(Present')
  BY FS_Subset
<1> QED BY <1>1, <1>2 DEF Gone, TypeOK

LEMMA SpaceTypes ==
  ASSUME TypeInv, EnforceMinimumFreeSpace \/ StorageUnavailable
  PROVE  TypeInv'
<1> USE DEF TypeInv
<1>1. CASE EnforceMinimumFreeSpace
  <2>1. PICK X \in SUBSET Candidates :
          LET tried == Candidates \ X
              R     == Oldest(tried, Needed)
          IN /\ IF X = {} THEN UNCHANGED events ELSE Needed > 0 /\ Event
             /\ Gone(R, placed)
             /\ side' = [f \in File |-> IF f \in R THEN 0 ELSE side[f]]
             /\ IF Cardinality(tried) >= Needed
                  THEN Record(streams) /\ pc' = "scan"
                  ELSE Record({})      /\ pc' = "load"
    BY <1>1 DEF EnforceMinimumFreeSpace
  <2> DEFINE R == Oldest(Candidates \ X, Needed)
  <2>2. Gone(R, placed) /\ side' = [f \in File |-> IF f \in R THEN 0 ELSE side[f]]
    BY <2>1
  <2>3. R \subseteq placed
    BY DEF Oldest, Candidates
  <2> HIDE DEF R
  <2>4. staged' = staged /\ placed' = placed \ R /\ version' = version
    BY <1>1, <2>2 DEF EnforceMinimumFreeSpace, Gone
  <2>5. Present' = Present \ R
    BY <2>3, <2>4 DEF Present, TypeOK
  <2>6. /\ IsFiniteSet(Present') /\ \A f \in Present' : version'[f] # 0
        /\ settled' \subseteq File /\ cold' \subseteq settled'
        /\ older' \subseteq Present' \X Present' /\ InOrder'
    BY <2>2, <2>4, <2>5, GoneTypes DEF TypeOK
  <2>7. side' \in [File -> Version]
    BY <2>2 DEF TypeOK, Version
  <2>8. /\ current' \in [Camera -> File \cup {None}] /\ recorders' \subseteq Camera
        /\ pc' \in {"scan", "load"}
    BY <2>1 DEF Record, TypeOK
  <2>9. events' \in 0..MaxEvents
    BY <2>1 DEF Event, TypeOK
  <2>10. UNCHANGED <<version, staged, aged, mounted, recording, streams, listed, sums, seen,
                     missed, rowVersion, rowSum>>
    BY <1>1 DEF EnforceMinimumFreeSpace, rows
  <2>11. placed' \subseteq File \ staged'
    BY <2>4 DEF TypeOK
  <2> QED BY <2>6, <2>7, <2>8, <2>9, <2>10, <2>11 DEF TypeOK
<1>2. CASE StorageUnavailable
  <2>1. Present' = Present /\ older' = older /\ version' = version
    BY <1>2 DEF StorageUnavailable, storage, Present
  <2>2. older' \subseteq Present' \X Present' /\ InOrder'
    BY <2>1, SameOrder
  <2>3. current' \in [Camera -> File \cup {None}] /\ recorders' \subseteq Camera
    BY <1>2 DEF StorageUnavailable, Record, TypeOK
  <2>4. events' \in 0..MaxEvents
    BY <1>2 DEF StorageUnavailable, Event, TypeOK
  <2>5. /\ UNCHANGED <<staged, placed, settled, cold, aged, side, mounted, recording, streams,
                       listed, sums, seen, missed, rowVersion, rowSum>>
        /\ pc' = "load"
    BY <1>2 DEF StorageUnavailable, storage, rows
  <2> QED BY <2>1, <2>2, <2>3, <2>4, <2>5 DEF TypeOK
<1> QED BY <1>1, <1>2

(* A scan, whole or not, moves segments to their directories and removes   *)
(* some of what it found there.                                            *)
LEMMA MovedTypes ==
  ASSUME TypeInv, NEW M \in SUBSET Ready, NEW F \in SUBSET (placed \cup M),
         Moves(M), Gone(F, placed \cup M), version' = version
  PROVE  /\ staged' \subseteq File /\ placed' \subseteq File \ staged'
         /\ IsFiniteSet(Present') /\ \A f \in Present' : version'[f] # 0
         /\ settled' \subseteq File /\ cold' \subseteq settled'
         /\ older' \subseteq Present' \X Present' /\ InOrder'
<1> USE DEF TypeInv
<1>1. M \subseteq staged
  BY DEF Ready
<1>2. staged' \subseteq File /\ placed' \subseteq File \ staged'
  BY <1>1 DEF Moves, Gone, TypeOK
<1>3. Present' = Present \ F
  BY <1>1 DEF Moves, Gone, Present, TypeOK
<1> QED BY <1>2, <1>3, GoneTypes

LEMMA ScanTypes ==
  ASSUME TypeInv, Scan \/ ScanCutShort \/ ScanFails
  PROVE  TypeInv'
<1> USE DEF TypeInv
<1>1. Found \subseteq placed \cup Ready
  BY DEF Found
<1>2. CASE Scan
  <2>1. /\ staged' \subseteq File /\ placed' \subseteq File \ staged'
        /\ IsFiniteSet(Present') /\ \A f \in Present' : version'[f] # 0
        /\ settled' \subseteq File /\ cold' \subseteq settled'
        /\ older' \subseteq Present' \X Present' /\ InOrder'
    BY <1>1, <1>2, MovedTypes DEF Scan
  <2>2. /\ listed' \in [File -> Version] /\ sums' \in [File -> Version]
        /\ missed' \subseteq File
    BY <1>2 DEF Scan, Lists, TypeOK, Version
  <2> QED BY <1>2, <2>1, <2>2 DEF Scan, Lists, TypeOK, ffmpeg, rows
<1>3. CASE ScanFails
  <2>1. PICK M \in SUBSET Ready, F \in SUBSET (Found \cap aged) :
          (F # {} => M = Ready) /\ Moves(M) /\ Gone(F, placed \cup M)
    BY <1>3 DEF ScanFails
  <2>2. F \subseteq placed \cup M
    BY <1>1, <2>1
  <2>3. version' = version
    BY <1>3 DEF ScanFails
  <2>4. /\ staged' \subseteq File /\ placed' \subseteq File \ staged'
        /\ IsFiniteSet(Present') /\ \A f \in Present' : version'[f] # 0
        /\ settled' \subseteq File /\ cold' \subseteq settled'
        /\ older' \subseteq Present' \X Present' /\ InOrder'
    BY <2>1, <2>2, <2>3, MovedTypes
  <2> QED BY <1>3, <2>3, <2>4 DEF ScanFails, Event, TypeOK, ffmpeg, rows
<1>4. CASE ScanCutShort
  <2>1. PICK M \in SUBSET Ready : \E W \in SUBSET (Found \ (Ready \ M)) :
          /\ Moves(M) /\ Gone(W \cap aged, placed \cup M)
          /\ Lists(W \ aged) /\ missed' = Found \ W
    BY <1>4 DEF ScanCutShort
  <2>2. PICK W \in SUBSET (Found \ (Ready \ M)) :
          /\ Moves(M) /\ Gone(W \cap aged, placed \cup M)
          /\ Lists(W \ aged) /\ missed' = Found \ W
    BY <2>1
  <2>3. W \cap aged \subseteq placed \cup M
    BY <1>1, <2>2
  <2>4. version' = version
    BY <1>4 DEF ScanCutShort
  <2>5. /\ staged' \subseteq File /\ placed' \subseteq File \ staged'
        /\ IsFiniteSet(Present') /\ \A f \in Present' : version'[f] # 0
        /\ settled' \subseteq File /\ cold' \subseteq settled'
        /\ older' \subseteq Present' \X Present' /\ InOrder'
    BY <2>1, <2>2, <2>3, <2>4, MovedTypes
  <2>6. /\ listed' \in [File -> Version] /\ sums' \in [File -> Version] /\ pc' = "hash"
        /\ missed' \subseteq File
    BY <2>2 DEF Lists, Found, Ready, TypeOK, Version
  <2> QED BY <1>4, <2>4, <2>5, <2>6 DEF ScanCutShort, Event, TypeOK, ffmpeg, rows
<1> QED BY <1>2, <1>3, <1>4

LEMMA RestTypes ==
  ASSUME TypeInv, Load \/ Hash \/ Index \/ Reconcile \/ Prune
  PROVE  TypeInv'
<1> USE DEF TypeInv
<1>1. Present' = Present /\ older' = older /\ version' = version
  BY DEF Load, Hash, Index, Reconcile, Prune, storage, Present
<1>2. older' \subseteq Present' \X Present' /\ InOrder'
  BY <1>1, SameOrder
<1>3. CASE Load
  BY <1>1, <1>2, <1>3 DEF Load, TypeOK, storage, ffmpeg, rows
<1>4. CASE Hash
  <2>1. side' \in [File -> Version] /\ sums' \in [File -> Version]
    BY <1>4 DEF Hash
  <2>2. UNCHANGED events \/ Event
    BY <1>4, Zenon DEF Hash
  <2>3. events' \in 0..MaxEvents
    BY <2>2 DEF Event, TypeOK
  <2> QED BY <1>1, <1>2, <1>4, <2>1, <2>3 DEF Hash, TypeOK, ffmpeg, rows
<1>5. CASE Index
  <2>1. PICK D \in SUBSET Listed :
          /\ IF D = Listed THEN UNCHANGED events ELSE Event
          /\ seen'       = D
          /\ rowVersion' = [f \in File |-> IF f \in D THEN listed[f] ELSE rowVersion[f]]
          /\ rowSum'     = [f \in File |-> IF f \in D THEN Sum(f) ELSE rowSum[f]]
    BY <1>5 DEF Index
  <2>2. /\ rowVersion' \in [File -> Version] /\ rowSum' \in [File -> Version]
        /\ seen' \subseteq File
    BY <2>1 DEF TypeOK, Sum, Listed
  <2>3. events' \in 0..MaxEvents
    BY <2>1 DEF Event, TypeOK
  <2> QED BY <1>1, <1>2, <1>5, <2>2, <2>3 DEF Index, TypeOK, storage, ffmpeg
<1>6. ASSUME NEW F, Delete(F)
      PROVE  rowVersion' \in [File -> Version] /\ rowSum' \in [File -> Version]
  BY <1>6 DEF Delete, TypeOK, Version
<1>7. CASE Reconcile
  <2>1. rowVersion' \in [File -> Version] /\ rowSum' \in [File -> Version]
    BY <1>6, <1>7 DEF Reconcile, TypeOK, rows
  <2>2. events' \in 0..MaxEvents
    BY <1>7 DEF Reconcile, Event, TypeOK
  <2> QED BY <1>1, <1>2, <1>7, <2>1, <2>2 DEF Reconcile, TypeOK, storage, ffmpeg
<1>8. CASE Prune
  <2>1. rowVersion' \in [File -> Version] /\ rowSum' \in [File -> Version]
    BY <1>6, <1>8 DEF Prune, TypeOK, rows
  <2>2. events' \in 0..MaxEvents
    BY <1>8 DEF Prune, Event, TypeOK
  <2>3. Blank \in [File -> Version]
    BY DEF Blank, Version
  <2> QED BY <1>1, <1>2, <1>8, <2>1, <2>2, <2>3 DEF Prune, TypeOK, storage, ffmpeg
<1> QED BY <1>3, <1>4, <1>5, <1>7, <1>8

LEMMA TypeStep ==
  ASSUME TypeInv, [Next]_vars
  PROVE  TypeInv'
<1>1. CASE Next
  BY <1>1, FFmpegTypes, OutsideTypes, SpaceTypes, ScanTypes, RestTypes DEF Next, LoopStep
<1>2. CASE UNCHANGED vars
  BY <1>2 DEF vars, storage, ffmpeg, round, rows, TypeInv, TypeOK, InOrder, Present
<1> QED BY <1>1, <1>2

LEMMA TypeHolds == Spec => []TypeInv
BY TypeInit, TypeStep, PTL DEF Spec

(* The scan, the removals and the rows keep their types; in particular a   *)
(* segment is never in two directories, and the order is one of what is    *)
(* there.                                                                  *)
THEOREM TypeCorrect == Spec => []TypeOK
<1>1. TypeInv => TypeOK
  BY DEF TypeInv
<1> QED BY <1>1, TypeHolds, PTL

----------------------------------------------------------------------------
(* The timeline                                                            *)

(* Why a row may be deleted although the scan did not list its segment.    *)
Excused(f) == f \notin placed \/ f \in aged \/ version[f] # rowVersion[f]

(* A row, and what a scan lists, is never ahead of its segment, and of a   *)
(* segment that they have as it is, it is known that it has settled.       *)
RowsInv ==
  /\ \A f \in File   : rowVersion[f] <= version[f] /\ listed[f] <= version[f]
  /\ \A f \in placed : rowVersion[f] = version[f] \/ listed[f] = version[f] => f \in settled

(* When the storage is gone before the scan although it was there at the   *)
(* check, the round misses what is placed; from the scan on a row of a     *)
(* segment that is not listed is excused, or the segment was missed.       *)
RoundInv ==
  /\ pc = "scan" /\ ~mounted => placed \subseteq missed
  /\ pc \in {"hash", "index", "reconcile"} =>
       \A f \in Of(streams) :
         listed[f] = 0 /\ rowVersion[f] # 0 => Excused(f) \/ f \in missed

TimelineInv == TypeInv /\ RowsInv /\ RoundInv

LEMMA TimelineInit == Init => TimelineInv
<1> SUFFICES ASSUME Init PROVE TimelineInv
  OBVIOUS
<1>1. TypeInv
  BY TypeInit
<1> QED BY <1>1 DEF Init, TimelineInv, RowsInv, RoundInv, Blank

(* As long as the segments and their rows stay what they are, it is enough *)
(* that segments settle and age.                                           *)
LEMMA CalmStep ==
  ASSUME TimelineInv,
         UNCHANGED <<version, placed, listed, rowVersion, streams, pc, missed, mounted>>,
         settled \subseteq settled', aged \subseteq aged'
  PROVE  RowsInv' /\ RoundInv'
BY DEF TimelineInv, RowsInv, RoundInv, Excused, Of

LEMMA FFmpegKeeps ==
  ASSUME TimelineInv, NEW f \in File,
         NewSegment(f) \/ Grow(f) \/ Settle(f) \/ Cool(f) \/ AgeFile(f)
  PROVE  RowsInv' /\ RoundInv'
<1> USE DEF TimelineInv
<1>1. \A g \in File : version[g] \in Nat /\ rowVersion[g] \in Nat /\ listed[g] \in Nat
  BY DEF TypeInv, TypeOK, Version
<1>2. placed \subseteq File /\ version \in [File -> Version]
  BY DEF TypeInv, TypeOK
<1>3. CASE NewSegment(f) \/ Grow(f)
  <2>1. /\ version' = [version EXCEPT ![f] = version[f] + 1]
        /\ UNCHANGED <<placed, listed, rowVersion, streams, pc, missed, mounted>>
        /\ settled \ {f} \subseteq settled' /\ aged \ {f} \subseteq aged'
    BY <1>1, <1>2, <1>3 DEF NewSegment, Grow, round, rows
  <2>2. version'[f] = version[f] + 1 /\ \A g \in File \ {f} : version'[g] = version[g]
    BY <1>2, <2>1
  <2>3. rowVersion[f] < version'[f] /\ listed[f] < version'[f]
    BY <1>1, <2>2 DEF RowsInv
  <2>4. RowsInv'
    BY <1>1, <1>2, <2>1, <2>2, <2>3 DEF RowsInv
  <2>5. RoundInv'
    BY <1>1, <1>2, <2>1, <2>2, <2>3 DEF RoundInv, Excused, Of
  <2> QED BY <2>4, <2>5
<1>4. CASE Settle(f) \/ Cool(f) \/ AgeFile(f)
  BY <1>4, CalmStep DEF Settle, Cool, AgeFile, round, rows
<1> QED BY <1>3, <1>4

(* Between two rounds and at their start nothing is listed that matters:   *)
(* what leaves the storage is no longer placed.                            *)
LEMMA RemovalKeeps ==
  ASSUME TimelineInv, NEW F, NEW M \in SUBSET Ready, Gone(F, placed \cup M),
         UNCHANGED <<version, rowVersion>>,
         \A f \in File : listed'[f] <= version[f],
         \A f \in placed' : listed'[f] = version[f] => listed[f] = version[f] \/ f \in settled
  PROVE  RowsInv'
<1> USE DEF TimelineInv
<1>1. Ready \subseteq settled
  BY DEF Ready
<1>2. \A f \in placed' : f \notin F /\ (f \in placed \/ f \in settled)
  BY <1>1 DEF Gone
<1>3. settled' = settled \ F
  BY DEF Gone
<1> QED BY <1>2, <1>3 DEF RowsInv

(* A scan that lists W of what it should have found, and misses the rest.  *)
LEMMA ListKeeps ==
  ASSUME TimelineInv, NEW M \in SUBSET Ready, NEW W \in SUBSET (Found \cap (placed \cup M)),
         Gone(W \cap aged, placed \cup M), Lists(W \ aged), Found \subseteq W \cup missed',
         ~mounted => placed \subseteq missed',
         UNCHANGED <<version, aged, streams, rowVersion>>
  PROVE  RowsInv' /\ RoundInv'
<1> USE DEF TimelineInv
<1>0. /\ \A f \in File : version[f] \in Nat /\ rowVersion[f] \in Nat
      /\ placed \subseteq File /\ Of(streams) \subseteq File
      /\ \A f \in Present : version[f] # 0
  BY DEF TypeInv, TypeOK, Version, Of
<1>1. \A f \in File : listed'[f] = IF f \in W \ aged THEN version[f] ELSE 0
  BY DEF Lists
<1>2. placed' \subseteq placed \cup M /\ M \subseteq staged /\ pc' = "hash"
  BY DEF Gone, Ready, Lists
<1>3. ASSUME NEW f \in placed', listed'[f] = version[f] PROVE f \in settled
  <2>1. f \in Present /\ f \in File
    BY <1>0, <1>2, <1>3 DEF Ready, Present, TypeInv, TypeOK
  <2>2. f \in Found
    BY <1>0, <1>1, <1>3, <2>1
  <2> QED BY <2>2 DEF Found
<1>4. \A f \in File : listed'[f] <= version[f]
  BY <1>0, <1>1
<1>5. RowsInv'
  BY <1>3, <1>4, RemovalKeeps
<1>6. ASSUME NEW f \in Of(streams), f \in placed', f \notin aged, listed'[f] = 0,
             rowVersion[f] # 0, f \notin missed'
      PROVE  version[f] # rowVersion[f]
  <2>1. f \in placed \cup M /\ f \in File
    BY <1>0, <1>2, <1>6
  <2>2. version[f] # 0
    BY <1>0, <1>2, <2>1 DEF Present
  <2>3. f \notin W
    BY <1>1, <1>6, <2>1, <2>2
  <2>4. f \notin Found
    BY <1>6, <2>3
  <2>5. mounted
    BY <1>6, <2>1 DEF Ready
  <2>6. f \in placed => f \notin settled
    BY <1>6, <2>4, <2>5 DEF Found
  <2>7. f \in M => f \in Found
    BY <2>5 DEF Found, Ready
  <2> QED BY <1>0, <2>1, <2>4, <2>6, <2>7 DEF RowsInv
<1> QED BY <1>2, <1>5, <1>6 DEF RoundInv, Excused, Of

LEMMA RoundKeeps ==
  ASSUME TimelineInv, Minimum # 0,
         \/ LoopStep \/ ScanCutShort \/ ScanFails \/ CloudRestart
         \/ FlipStorage \/ \E c \in Camera : ChangeMode(c)
  PROVE  RowsInv' /\ RoundInv'
<1> USE DEF TimelineInv
<1>0. /\ \A f \in File : version[f] \in Nat /\ rowVersion[f] \in Nat /\ listed[f] \in Nat
      /\ placed \subseteq File /\ Of(streams) \subseteq File
      /\ \A f \in Present : version[f] # 0
  BY DEF TypeInv, TypeOK, Version, Of
<1>1. CASE Load
  BY <1>1 DEF Load, RowsInv, RoundInv, storage, rows
<1>2. CASE EnforceMinimumFreeSpace
  <2>1. PICK X \in SUBSET Candidates : Gone(Oldest(Candidates \ X, Needed), placed)
    BY <1>2 DEF EnforceMinimumFreeSpace
  <2>2. RowsInv'
    BY <1>2, <2>1, RemovalKeeps DEF EnforceMinimumFreeSpace, RowsInv, rows
  <2>3. mounted' /\ pc' \in {"scan", "load"}
    BY <1>2 DEF EnforceMinimumFreeSpace, Unavailable, TypeInv, TypeOK
  <2> QED BY <2>2, <2>3 DEF RoundInv
<1>3. CASE StorageUnavailable
  BY <1>3 DEF StorageUnavailable, RowsInv, RoundInv, storage, rows
<1>4. CASE Scan
  <2>1. /\ Gone(Found \cap aged, placed \cup Ready) /\ Lists(Found \ aged)
        /\ UNCHANGED <<version, aged, streams, rowVersion>>
    BY <1>4 DEF Scan, rows
  <2>2. ~mounted => placed \subseteq missed'
    BY <1>4 DEF Scan, RoundInv
  <2>3. Found \subseteq placed \cup Ready
    BY DEF Found
  <2> QED BY <2>1, <2>2, <2>3, ListKeeps
<1>12. CASE ScanCutShort
  <2>1. PICK M \in SUBSET Ready : \E W \in SUBSET (Found \ (Ready \ M)) :
          /\ Moves(M) /\ Gone(W \cap aged, placed \cup M)
          /\ Lists(W \ aged) /\ missed' = Found \ W
    BY <1>12 DEF ScanCutShort
  <2>2. PICK W \in SUBSET (Found \ (Ready \ M)) :
          /\ Gone(W \cap aged, placed \cup M) /\ Lists(W \ aged) /\ missed' = Found \ W
    BY <2>1
  <2>3. UNCHANGED <<version, aged, streams, rowVersion>> /\ mounted
    BY <1>12 DEF ScanCutShort, rows
  <2>4. W \subseteq placed \cup M /\ W \subseteq Found /\ Found \subseteq W \cup missed'
    BY <2>2 DEF Found
  <2> QED BY <2>1, <2>2, <2>3, <2>4, ListKeeps
<1>5. CASE ScanFails
  <2>1. PICK M \in SUBSET Ready, F \in SUBSET (Found \cap aged) : Gone(F, placed \cup M)
    BY <1>5 DEF ScanFails
  <2>2. RowsInv'
    BY <1>5, <2>1, RemovalKeeps DEF ScanFails, RowsInv, rows, Gone
  <2> QED BY <1>5, <2>2 DEF ScanFails, RoundInv
<1>6. CASE Hash
  BY <1>6 DEF Hash, RowsInv, RoundInv, Excused, Of, rows
<1>7. CASE Index
  <2>1. PICK D \in SUBSET Listed :
          rowVersion' = [f \in File |-> IF f \in D THEN listed[f] ELSE rowVersion[f]]
    BY <1>7 DEF Index
  <2>2. UNCHANGED <<version, placed, settled, aged, mounted, streams, listed>> /\ pc' = "reconcile"
    BY <1>7 DEF Index, storage
  <2>3. RowsInv'
    BY <1>0, <2>1, <2>2 DEF RowsInv
  <2>4. \A f \in File : listed[f] = 0 => rowVersion'[f] = rowVersion[f]
    BY <2>1 DEF Listed
  <2> QED BY <1>0, <1>7, <2>2, <2>3, <2>4 DEF Index, RoundInv, Excused, Of
<1>8. CASE Reconcile \/ Prune
  <2>1. \A f \in File : rowVersion'[f] \in {0, rowVersion[f]}
    BY <1>8 DEF Reconcile, Prune, Delete, rows
  <2>2. \A f \in File : listed'[f] \in {0, listed[f]}
    BY <1>8 DEF Reconcile, Prune, Blank
  <2>3. UNCHANGED <<version, placed, settled, mounted>> /\ pc' \in {"prune", "load"}
    BY <1>8 DEF Reconcile, Prune, storage
  <2>4. RowsInv'
    BY <1>0, <2>1, <2>2, <2>3 DEF RowsInv, Present
  <2> QED BY <1>8, <2>3, <2>4 DEF Reconcile, Prune, RoundInv
<1>9. CASE CloudRestart
  <2>1. UNCHANGED <<version, placed, settled, rowVersion>> /\ listed' = Blank /\ pc' = "load"
    BY <1>9 DEF CloudRestart, storage, rows
  <2> QED BY <1>0, <2>1 DEF RowsInv, RoundInv, Blank, Present
<1>10. CASE FlipStorage
  BY <1>10 DEF FlipStorage, RowsInv, RoundInv, Excused, Of, rows
<1>11. CASE \E c \in Camera : ChangeMode(c)
  BY <1>11, CalmStep DEF ChangeMode, storage, round, rows
<1> QED BY <1>1, <1>2, <1>3, <1>4, <1>5, <1>6, <1>7, <1>8, <1>9, <1>10, <1>11,
     <1>12 DEF LoopStep

LEMMA TimelineStep ==
  ASSUME TimelineInv, Minimum # 0, [Next]_vars
  PROVE  TimelineInv'
<1>1. TypeInv'
  BY TypeStep DEF TimelineInv
<1>2. CASE Next
  BY <1>2, <1>1, FFmpegKeeps, RoundKeeps DEF Next, TimelineInv
<1>3. CASE UNCHANGED vars
  BY <1>1, <1>3, CalmStep DEF vars, storage, round, rows, TimelineInv
<1> QED BY <1>2, <1>3

LEMMA RowsGoExcused ==
  ASSUME TimelineInv, [Next]_vars, NEW f \in File, rowVersion[f] # 0, rowVersion'[f] = 0
  PROVE  Excused(f) \/ f \in missed
<1> USE DEF TimelineInv
<1>1. CASE Index
  <2>1. PICK D \in SUBSET Listed :
          rowVersion' = [g \in File |-> IF g \in D THEN listed[g] ELSE rowVersion[g]]
    BY <1>1 DEF Index
  <2> QED BY <2>1 DEF Listed
<1>2. CASE Reconcile
  <2>1. InventoryComplete /\ f \in Of(streams) \ seen
    BY <1>2 DEF Reconcile, Delete, Unseen, rows
  <2>2. listed[f] = 0
    BY <2>1 DEF InventoryComplete, Listed
  <2> QED BY <1>2, <2>1, <2>2 DEF Reconcile, RoundInv
<1>3. CASE Prune
  BY <1>3 DEF Prune, Delete, rows, Excused
<1>4. CASE UNCHANGED rows
  BY <1>4 DEF rows
<1> QED BY <1>1, <1>2, <1>3, <1>4
     DEF Next, LoopStep, NewSegment, Grow, Settle, Cool, AgeFile, FlipStorage, ChangeMode, Load,
         EnforceMinimumFreeSpace, StorageUnavailable, Scan, ScanCutShort, ScanFails, Hash,
         CloudRestart, vars

(* The check of the storage's identity in each round, storage.go:84 by     *)
(* main.go:103: with a minimum of free space no failure, no restart and no *)
(* storage that is gone at the check makes a round delete the row of a     *)
(* segment that is there; a storage that goes later costs the rows of what *)
(* that round missed, no others.                                           *)
THEOREM CloudTimelineSurvives == ASSUME Minimum # 0 PROVE Spec => CloudTimelineKept
<1>1. TimelineInv /\ [Next]_vars => [\A f \in File : Erased(f) => f \in missed]_vars
  BY RowsGoExcused DEF Excused, Erased
<1> QED BY <1>1, TimelineInit, TimelineStep, PTL DEF Spec, CloudTimelineKept

(* What is in staging has no row yet and is not listed, and no row is      *)
(* newer than what the round has listed.                                   *)
FreshInv ==
  /\ \A f \in staged : rowVersion[f] = 0 /\ listed[f] = 0
  /\ \A f \in File   : listed[f] # 0 => rowVersion[f] <= listed[f]

LEMMA FreshStep ==
  ASSUME TimelineInv, FreshInv, [Next]_vars
  PROVE  FreshInv'
<1> USE DEF TimelineInv
<1>1. /\ \A f \in File : version[f] \in Nat /\ rowVersion[f] \in Nat /\ listed[f] \in Nat
      /\ \A f \in File : rowVersion[f] <= version[f] /\ listed[f] <= version[f]
      /\ staged \subseteq File /\ placed \cap staged = {}
  BY DEF TypeInv, TypeOK, Version, RowsInv
<1>2. ASSUME UNCHANGED <<rowVersion, listed>>, staged' \subseteq staged PROVE FreshInv'
  BY <1>2 DEF FreshInv
<1>3. ASSUME NEW f \in File, NewSegment(f) PROVE FreshInv'
  <2>1. staged' = staged \cup {f} /\ version[f] = 0 /\ UNCHANGED <<rowVersion, listed>>
    BY <1>3 DEF NewSegment, round, rows
  <2>2. rowVersion[f] = 0 /\ listed[f] = 0
    BY <1>1, <2>1
  <2> QED BY <2>1, <2>2 DEF FreshInv
<1>4. ASSUME NEW f \in File, Grow(f) \/ Settle(f) \/ Cool(f) \/ AgeFile(f) PROVE FreshInv'
  BY <1>2, <1>4 DEF Grow, Settle, Cool, AgeFile, round, rows
<1>5. CASE FlipStorage \/ (\E c \in Camera : ChangeMode(c)) \/ Load \/ EnforceMinimumFreeSpace
           \/ StorageUnavailable \/ Hash
  BY <1>2, <1>5 DEF FlipStorage, ChangeMode, Load, EnforceMinimumFreeSpace, StorageUnavailable,
                    Hash, storage, round, rows
<1>6. CASE ScanFails
  BY <1>2, <1>6 DEF ScanFails, Moves, rows
<1>7. CASE Scan
  <2>1. /\ \A f \in File : listed'[f] = IF f \in Found \ aged THEN version[f] ELSE 0
        /\ staged' = staged \ Ready /\ rowVersion' = rowVersion
    BY <1>7 DEF Scan, Lists, Moves, rows
  <2>2. \A f \in staged' : f \notin Found
    BY <1>1, <2>1 DEF Found
  <2> QED BY <1>1, <2>1, <2>2 DEF FreshInv
<1>11. CASE ScanCutShort
  <2>1. PICK M \in SUBSET Ready : \E W \in SUBSET (Found \ (Ready \ M)) :
          Moves(M) /\ Lists(W \ aged)
    BY <1>11 DEF ScanCutShort
  <2>2. PICK W \in SUBSET (Found \ (Ready \ M)) : Moves(M) /\ Lists(W \ aged)
    BY <2>1
  <2>3. /\ \A f \in File : listed'[f] = IF f \in W \ aged THEN version[f] ELSE 0
        /\ staged' = staged \ M /\ rowVersion' = rowVersion
    BY <1>11, <2>2 DEF ScanCutShort, Lists, Moves, rows
  <2>4. \A f \in staged' : f \notin W
    BY <1>1, <2>2, <2>3 DEF Found
  <2> QED BY <1>1, <2>3, <2>4 DEF FreshInv
<1>8. CASE Index
  <2>1. PICK D \in SUBSET Listed :
          rowVersion' = [f \in File |-> IF f \in D THEN listed[f] ELSE rowVersion[f]]
    BY <1>8 DEF Index
  <2>2. UNCHANGED <<staged, listed>>
    BY <1>8 DEF Index, storage
  <2> QED BY <1>1, <2>1, <2>2 DEF FreshInv
<1>9. CASE Reconcile \/ Prune \/ CloudRestart
  <2>1. \A f \in File : rowVersion'[f] \in {0, rowVersion[f]} /\ listed'[f] \in {0, listed[f]}
    BY <1>9 DEF Reconcile, Prune, CloudRestart, Delete, rows, Blank
  <2>2. staged' = staged
    BY <1>9 DEF Reconcile, Prune, CloudRestart, storage
  <2> QED BY <1>1, <2>1, <2>2 DEF FreshInv
<1>10. CASE UNCHANGED vars
  BY <1>2, <1>10 DEF vars, storage, round, rows
<1> QED BY <1>3, <1>4, <1>5, <1>6, <1>7, <1>8, <1>9, <1>10, <1>11
     DEF Next, LoopStep

(* What is found again, because it is moved to its place or written to     *)
(* when it was too old already, is not what its row says.                  *)
LEMMA FilesFacts ==
  ASSUME TimelineInv, FreshInv, [Next]_vars, NEW f \in File
  PROVE  /\ version[f] <= version'[f]
         /\ f \in placed' \ aged' => f \in placed \ aged \/ rowVersion[f] # version'[f]
<1> USE DEF TimelineInv
<1>1. /\ version \in [File -> Version] /\ version[f] \in Nat /\ rowVersion[f] \in Nat
      /\ rowVersion[f] <= version[f]
      /\ \A g \in Present : version[g] # 0
  BY DEF TypeInv, TypeOK, Version, RowsInv
<1>2. CASE version' = version /\ placed' \subseteq placed /\ aged \subseteq aged'
  BY <1>1, <1>2
<1>3. ASSUME NEW g \in File, NewSegment(g) \/ Grow(g)
      PROVE  /\ version[f] <= version'[f]
             /\ f \in placed' \ aged' => f \in placed \ aged \/ rowVersion[f] # version'[f]
  <2>1. /\ version' = [version EXCEPT ![g] = version[g] + 1]
        /\ placed' = placed /\ aged \ {g} \subseteq aged'
    BY <1>1, <1>3 DEF NewSegment, Grow
  <2>2. version'[f] = IF f = g THEN version[f] + 1 ELSE version[f]
    BY <1>1, <2>1
  <2> QED BY <1>1, <2>1, <2>2
<1>4. CASE Scan \/ ScanCutShort \/ ScanFails
  <2>1. placed' \subseteq placed \cup Ready /\ UNCHANGED <<version, aged>>
    BY <1>4 DEF Scan, ScanCutShort, ScanFails, Gone
  <2>2. f \in Ready => rowVersion[f] = 0 /\ version[f] # 0
    BY <1>1 DEF Ready, FreshInv, Present
  <2> QED BY <1>1, <2>1, <2>2
<1>5. CASE EnforceMinimumFreeSpace
  BY <1>1, <1>5 DEF EnforceMinimumFreeSpace, Gone
<1>6. CASE UNCHANGED storage
  BY <1>1, <1>6 DEF storage
<1> QED BY <1>2, <1>3, <1>4, <1>5, <1>6
     DEF Next, LoopStep, Settle, Cool, AgeFile, FlipStorage, ChangeMode, Load,
         StorageUnavailable, Hash, Index, Reconcile, Prune, CloudRestart, vars

(* Every step of FFmpeg, the loop and the storage is a step of Timeline:   *)
(* the rows only follow their segments, forward, whatever fails, is left   *)
(* half-way or starts again.                                               *)
THEOREM ImplementsTimeline == ASSUME Minimum # 0 PROVE Spec => IsTimeline
<1> DEFINE Lost == (File \ placed) \cup aged
<1>1. Init => FreshInv /\ Rows!Init
  BY DEF Init, FreshInv, Rows!Init, Blank
<1>2. ASSUME TimelineInv, FreshInv, [Next]_vars PROVE [Rows!Next]_(Rows!vars)
  <2>t. /\ version \in [File -> Version] /\ version' \in [File -> Version]
        /\ rowVersion \in [File -> Version] /\ rowVersion' \in [File -> Version]
        /\ listed \in [File -> Version]
        /\ aged' \subseteq File /\ missed' \subseteq File /\ Version \subseteq Nat /\ 0 \in Version
    BY <1>2, TypeStep DEF TimelineInv, TypeInv, TypeOK, Version
  <2>1. CASE rowVersion' = rowVersion
    <3>1. /\ \A f \in File : version[f] <= version'[f]
          /\ \A f \in Lost \ Lost' : rowVersion[f] # version'[f]
      BY <1>2, FilesFacts DEF TimelineInv, TypeInv, TypeOK
    <3>2. Rows!FilesChange
      BY <2>t, <2>1, <3>1 DEF Rows!FilesChange, Rows!Version, Version
    <3> QED BY <3>2 DEF Rows!Next
  <2>2. CASE Index
    <3>1. PICK D \in SUBSET Listed :
            rowVersion' = [f \in File |-> IF f \in D THEN listed[f] ELSE rowVersion[f]]
      BY <2>2 DEF Index
    <3>2. UNCHANGED <<version, placed, aged, missed>>
      BY <2>2 DEF Index, storage
    <3>3. ASSUME NEW f \in File
          PROVE  rowVersion'[f] = rowVersion[f] \/ rowVersion'[f] \in (rowVersion[f] + 1)..version[f]
      <4>1. rowVersion[f] \in Nat /\ listed[f] \in Nat /\ version[f] \in Nat /\ listed[f] <= version[f]
        BY <1>2, <2>t DEF TimelineInv, RowsInv
      <4>2. f \in D => rowVersion[f] <= listed[f]
        BY <1>2 DEF FreshInv, Listed
      <4>3. rowVersion'[f] = IF f \in D THEN listed[f] ELSE rowVersion[f]
        BY <3>1
      <4> QED BY <4>1, <4>2, <4>3
    <3>4. Rows!Record
      BY <2>t, <3>2, <3>3 DEF Rows!Record, Rows!Version, Version
    <3> QED BY <3>4 DEF Rows!Next
  <2>3. CASE (Reconcile \/ Prune) /\ rowVersion' # rowVersion
    <3> DEFINE F == {f \in File : rowVersion'[f] # rowVersion[f]}
    <3>1. \A f \in File : rowVersion'[f] \in {0, rowVersion[f]}
      BY <2>3 DEF Reconcile, Prune, Delete, rows
    <3>2. UNCHANGED <<version, placed, aged, missed>>
      BY <2>3 DEF Reconcile, Prune, storage
    <3>3. rowVersion' = [f \in File |-> IF f \in F THEN 0 ELSE rowVersion[f]]
      BY <2>t, <3>1
    <3>4. ASSUME NEW f \in F PROVE f \in Lost \cup missed \/ rowVersion[f] # version[f]
      BY <1>2, <3>1, RowsGoExcused DEF Excused
    <3> HIDE DEF F
    <3>5. F \in SUBSET {f \in File : f \in Lost \cup missed \/ rowVersion[f] # version[f]}
      BY <3>4 DEF F
    <3>6. Rows!Forget
      BY <3>2, <3>3, <3>5 DEF Rows!Forget
    <3> QED BY <3>6 DEF Rows!Next
  <2>4. rowVersion' = rowVersion \/ Index \/ Reconcile \/ Prune
    BY <1>2 DEF Next, LoopStep, NewSegment, Grow, Settle, Cool, AgeFile, FlipStorage, ChangeMode,
                Load, EnforceMinimumFreeSpace, StorageUnavailable, Scan, ScanCutShort, ScanFails,
                Hash, CloudRestart, vars, rows
  <2> QED BY <2>1, <2>2, <2>3, <2>4
<1>3. TimelineInv /\ FreshInv /\ [Next]_vars => (TimelineInv /\ FreshInv)'
  BY TimelineStep, FreshStep
<1> QED BY <1>1, <1>2, <1>3, TimelineInit, PTL DEF Spec, IsTimeline, Rows!Spec

----------------------------------------------------------------------------
(* The oldest segments                                                     *)

Before(T, f) == {g \in T : <<g, f>> \in older}

(* The place of a segment among those of T grows with the order.           *)
LEMMA BeforeFacts ==
  ASSUME TypeInv, NEW T \in SUBSET Present, NEW f \in T
  PROVE  /\ IsFiniteSet(T) /\ Cardinality(Before(T, f)) \in Nat
         /\ \A g \in T : <<g, f>> \in older => Cardinality(Before(T, g)) < Cardinality(Before(T, f))
<1> USE DEF TypeInv
<1>1. IsFiniteSet(T) /\ \A g \in T : IsFiniteSet(Before(T, g)) /\ Cardinality(Before(T, g)) \in Nat
  BY FS_Subset, FS_CardinalityType DEF Before
<1>2. ASSUME NEW g \in T, <<g, f>> \in older
      PROVE  Cardinality(Before(T, g)) < Cardinality(Before(T, f))
  <2>1. Before(T, g) \subseteq Before(T, f)
    BY <1>2 DEF Before, TypeOK, InOrder
  <2>2. g \in Before(T, f) /\ g \notin Before(T, g)
    BY <1>2 DEF Before, TypeOK, InOrder
  <2>3. Before(T, g) # Before(T, f)
    BY <2>2
  <2> QED BY <1>1, <2>1, <2>3, FS_Subset
<1> QED BY <1>1, <1>2

(* What Oldest leaves of T is newer than what it takes.                    *)
LEMMA OldestIsOld ==
  ASSUME TypeInv, NEW T \in SUBSET Present, NEW n \in Nat,
         NEW f \in Oldest(T, n), NEW g \in T \ Oldest(T, n)
  PROVE  <<f, g>> \in older
<1>1. f \in T /\ Cardinality(Before(T, f)) < n /\ ~(Cardinality(Before(T, g)) < n)
  BY DEF Oldest, Before
<1>2. <<g, f>> \in older => Cardinality(Before(T, g)) < Cardinality(Before(T, f))
  BY <1>1, BeforeFacts
<1>3. Cardinality(Before(T, f)) \in Nat /\ Cardinality(Before(T, g)) \in Nat
  BY <1>1, BeforeFacts
<1>4. <<g, f>> \notin older
  BY <1>1, <1>2, <1>3
<1> QED BY <1>1, <1>4 DEF TypeInv, TypeOK, InOrder

(* It takes no more than it is asked for: no two have the same place.      *)
LEMMA OldestIsFew ==
  ASSUME TypeInv, NEW T \in SUBSET Present, NEW n \in Nat
  PROVE  IsFiniteSet(Oldest(T, n)) /\ Cardinality(Oldest(T, n)) <= n
<1> DEFINE R == Oldest(T, n)
           place == [f \in R |-> Cardinality(Before(T, f)) + 1]
<1>1. \A f \in R : f \in T /\ Cardinality(Before(T, f)) < n
  BY DEF Oldest, Before
<1>2. \A f \in R : Cardinality(Before(T, f)) \in Nat
  BY <1>1, BeforeFacts
<1>3. place \in [R -> 1..n]
  BY <1>1, <1>2
<1>4. ASSUME NEW f \in R, NEW g \in R, f # g PROVE place[f] # place[g]
  <2>1. <<f, g>> \in older \/ <<g, f>> \in older
    BY <1>1, <1>4 DEF TypeInv, TypeOK, InOrder
  <2>2. \/ Cardinality(Before(T, f)) < Cardinality(Before(T, g))
        \/ Cardinality(Before(T, g)) < Cardinality(Before(T, f))
    BY <1>1, <2>1, BeforeFacts
  <2> QED BY <1>2, <2>2
<1>5. place \in Injection(R, 1..n)
  BY <1>3, <1>4 DEF Injection, IsInjective
<1>6. IsFiniteSet(1..n) /\ Cardinality(1..n) = n
  BY FS_Interval
<1> QED BY <1>5, <1>6, FS_Injection

LEMMA RemovesOldest ==
  ASSUME TypeInv, [Next]_vars, pc = "space", NEW f \in placed \ placed'
  PROVE  /\ events' = events => \A g \in placed' \cap cold : <<f, g>> \in older
         /\ Total - Cardinality(Present') <= Minimum
<1> USE DEF TypeInv
<1>1. EnforceMinimumFreeSpace
  BY DEF Next, LoopStep, NewSegment, Grow, Settle, Cool, AgeFile, FlipStorage, ChangeMode, Load,
         StorageUnavailable, Scan, ScanCutShort, ScanFails, Hash, Index, Reconcile, Prune, CloudRestart, vars,
         storage
<1>2. PICK X \in SUBSET Candidates :
        /\ IF X = {} THEN UNCHANGED events ELSE Needed > 0 /\ Event
        /\ Gone(Oldest(Candidates \ X, Needed), placed)
  BY <1>1 DEF EnforceMinimumFreeSpace
<1> DEFINE T == Candidates \ X
           R == Oldest(T, Needed)
<1>3. T \in SUBSET Present /\ R \subseteq T /\ T \subseteq placed
  BY DEF Candidates, Oldest, Present
<1>4. placed' = placed \ R /\ staged' = staged /\ f \in R
  BY <1>1, <1>2 DEF Gone, EnforceMinimumFreeSpace
<1>5. Cardinality(Present) \in Nat /\ Needed \in Nat
  BY FS_CardinalityType DEF Needed, Free
<1>6. ASSUME events' = events, NEW g \in placed' \cap cold PROVE <<f, g>> \in older
  <2>1. X = {}
    BY <1>2, <1>6 DEF Event, TypeOK
  <2>2. g \in T \ R
    BY <1>4, <1>6, <2>1 DEF Candidates
  <2> QED BY <1>3, <1>4, <1>5, <2>2, OldestIsOld
<1>7. Total - Cardinality(Present') <= Minimum
  <2>1. IsFiniteSet(R) /\ Cardinality(R) \in Nat /\ Cardinality(R) <= Needed
    BY <1>3, <1>5, OldestIsFew, FS_CardinalityType
  <2>2. Present' = Present \ R /\ Present \cap R = R
    BY <1>3, <1>4 DEF Present, TypeOK
  <2>3. Cardinality(Present') = Cardinality(Present) - Cardinality(R)
    BY <2>1, <2>2, FS_Difference
  <2>4. Needed # 0
    <3>1. f \in T /\ Cardinality(Before(T, f)) < Needed
      BY <1>4 DEF Oldest, Before
    <3> HIDE DEF T
    <3>2. Cardinality(Before(T, f)) \in Nat
      BY <1>3, <3>1, BeforeFacts
    <3> QED BY <3>1, <3>2
  <2> QED BY <1>5, <2>1, <2>3, <2>4 DEF Needed, Free
<1> QED BY <1>6, <1>7

(* storage.go:77-138: whatever cannot be removed, and whichever cameras    *)
(* the segments are of, a round removes no more than the minimum asks for, *)
(* and, when all can be removed, none that is newer than one it leaves.    *)
THEOREM OldestAreRemoved == Spec => OldestGoFirst
<1>1. TypeInv /\ [Next]_vars =>
        [pc = "space" =>
           \A f \in placed \ placed' :
             /\ events' = events => \A g \in placed' \cap cold : <<f, g>> \in older
             /\ Total - Cardinality(Present') <= Minimum]_vars
  BY RemovesOldest
<1> QED BY <1>1, TypeHolds, PTL DEF Spec, OldestGoFirst

----------------------------------------------------------------------------
(* The identity of the agent's storage                                     *)

USE BoundAssumption, IdAssumption

(* Only a call that found no identity file is on its way to write one.     *)
BindInv == BindingTypeOK /\ \A t \in Thread : at[t] \in Writing => read[t] = "absent"

LEMMA BindInit ==
  ASSUME BindingInit
  PROVE  BindInv
BY DEF BindInv, Writing, BindingInit, BindingTypeOK, Content, Place, Stage

LEMMA BindStep ==
  ASSUME BindInv, [BindingNext]_bindingVars
  PROVE  BindInv'
<1> USE DEF BindInv, Writing, BindingTypeOK, Content, Place, Stage, files, calls, Go
<1>1. ASSUME NEW t \in Thread, CallStep(t) PROVE BindInv'
  <2>1. CASE ReadIdentity(t)
    BY <2>1 DEF ReadIdentity
  <2>2. CASE Adopt(t)
    BY <2>2 DEF Adopt, Adopts, Path
  <2>3. CASE Create(t)
    BY <2>3 DEF Create, Creates, Fresh
  <2>4. CASE Judge(t)
    BY <2>4 DEF Judge, Return
  <2>5. CASE OpenMarker(t)
    BY <2>5 DEF OpenMarker, Path
  <2>6. CASE WriteMarker(t)
    BY <2>6 DEF WriteMarker
  <2>7. CASE WriteFails(t)
    BY <2>7 DEF WriteFails, Fault, Return
  <2>8. CASE OpenIdentity(t)
    BY <2>8 DEF OpenIdentity
  <2>9. CASE WriteIdentity(t)
    BY <2>9 DEF WriteIdentity, Return
  <2> QED BY <1>1, <2>1, <2>2, <2>3, <2>4, <2>5, <2>6, <2>7, <2>8, <2>9 DEF CallStep
<1>2. CASE Crash
  BY <1>2 DEF Crash, Fault
<1>3. CASE Flip
  BY <1>3 DEF Flip
<1>4. CASE UNCHANGED bindingVars
  BY <1>4 DEF bindingVars
<1> QED BY <1>1, <1>2, <1>3, <1>4 DEF BindingNext

LEMMA BindHolds == BindingSpec => []BindInv
BY BindInit, BindStep, PTL DEF BindingSpec

(* The files and the calls keep their types, and a call that is about to   *)
(* write holds an identity.                                                *)
THEOREM BindingTypes == BindingSpec => []BindingTypeOK
<1>1. BindInv => BindingTypeOK
  BY DEF BindInv
<1> QED BY <1>1, BindHolds, PTL

(* A call that begins when there is an identity file reads something, so   *)
(* it is not one of those that write.                                      *)
LEMMA BoundStep ==
  ASSUME BindInv, identity # "absent", [BindingNext]_bindingVars
  PROVE  /\ identity' # "absent" /\ Unsure' \subseteq Unsure
         /\ Unsure = {} => UNCHANGED files
<1> USE DEF BindInv, Writing, BindingTypeOK, Content, Place, Stage, files, calls, Go, Unsure
<1>1. ASSUME NEW t \in Thread, CallStep(t)
      PROVE  /\ identity' # "absent" /\ Unsure' \subseteq Unsure
             /\ Unsure = {} => UNCHANGED files
  <2>1. CASE ReadIdentity(t)
    BY <2>1 DEF ReadIdentity
  <2>2. CASE Adopt(t) \/ Create(t)
    BY <2>2 DEF Adopt, Adopts, Create, Creates
  <2>3. CASE Judge(t) \/ WriteFails(t)
    BY <2>3 DEF Judge, WriteFails, Return
  <2>4. CASE OpenMarker(t) \/ WriteMarker(t) \/ OpenIdentity(t)
    BY <2>4, IdAssumption DEF OpenMarker, WriteMarker, OpenIdentity
  <2>5. CASE WriteIdentity(t)
    BY <2>5, IdAssumption DEF WriteIdentity, Return
  <2> QED BY <1>1, <2>1, <2>2, <2>3, <2>4, <2>5 DEF CallStep
<1>2. CASE Crash
  BY <1>2 DEF Crash
<1>3. CASE Flip
  BY <1>3 DEF Flip
<1>4. CASE UNCHANGED bindingVars
  BY <1>4 DEF bindingVars
<1> QED BY <1>1, <1>2, <1>3, <1>4 DEF BindingNext

(* storage.go:23-25: once there is an identity file, no call that begins,  *)
(* no restart, no failure and no storage that comes or goes changes it or  *)
(* any marker; only calls that read before it existed may, as long as they *)
(* last.                                                                   *)
THEOREM BindingIsForGood == BindingSpec => BoundForGood
<1>1. BindInv /\ [BindingNext]_bindingVars
        => [identity # "absent" => /\ identity' # "absent" /\ Unsure' \subseteq Unsure
                                   /\ Unsure = {} => UNCHANGED files]_bindingVars
  BY BoundStep
<1> QED BY <1>1, BindHolds, PTL DEF BindingSpec, BoundForGood
==============================================================================
