------------------------------- MODULE Timeline -------------------------------
(***************************************************************************)
(* What the table recordings promises about the files of a storage,        *)
(* whoever fills it and however: rows follow their files, never ahead of   *)
(* them and never back, and no row is forgotten whose file is there as the *)
(* row has it and was not hidden. Inventory, which fills it from an        *)
(* agent's reports, and CloudRecordings, which fills it from the cloud's   *)
(* own storage, are checked to implement this specification.               *)
(***************************************************************************)
EXTENDS Naturals

CONSTANTS File, MaxVersion

VARIABLES version,  \* how often a file has been written to
          lost,     \* files that are not in their place, or too old
          unseen,   \* files that are hidden from whoever fills the table
          row       \* the version a file's row is of, 0 without a row

vars == <<version, lost, unseen, row>>

Version == 0..MaxVersion

Init == /\ version = [f \in File |-> 0]
        /\ lost \in SUBSET File /\ unseen \in SUBSET File
        /\ row = [f \in File |-> 0]

(* Files are written to, get lost, and are lost no more if they are not    *)
(* what their row says.                                                    *)
FilesChange ==
  /\ UNCHANGED row
  /\ version' \in [File -> Version] /\ lost' \in SUBSET File /\ unseen' \in SUBSET File
  /\ \A f \in File        : version[f] <= version'[f]
  /\ \A f \in lost \ lost' : row[f] # version'[f]

(* Rows move forward, not further than their files.                        *)
Record ==
  /\ UNCHANGED <<version, lost, unseen>>
  /\ row' \in [File -> Version]
  /\ \A f \in File : row'[f] = row[f] \/ row'[f] \in (row[f] + 1)..version[f]

(* Rows go, of files that are lost, hidden or not what the row says.       *)
Forget ==
  /\ UNCHANGED <<version, lost, unseen>>
  /\ \E F \in SUBSET {f \in File : f \in lost \cup unseen \/ row[f] # version[f]} :
       row' = [f \in File |-> IF f \in F THEN 0 ELSE row[f]]

Next == FilesChange \/ Record \/ Forget

Spec == Init /\ [][Next]_vars
==============================================================================
