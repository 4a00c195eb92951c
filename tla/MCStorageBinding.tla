-------------------------- MODULE MCStorageBinding --------------------------
(* Instances of StorageBinding for TLC.                                     *)
EXTENDS StorageBinding
==============================================================================
