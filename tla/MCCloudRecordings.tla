-------------------------- MODULE MCCloudRecordings --------------------------
(* Instances of CloudRecordings for TLC.                                    *)
EXTENDS CloudRecordings, TLC

CONSTANTS f1, f2, c1, c2

TwoCameras == (f1 :> c1) @@ (f2 :> c2)
==============================================================================
