----------------------------- MODULE MCInventory -----------------------------
(* Instances of Inventory for TLC.                                          *)
EXTENDS Inventory, TLC

FileSymmetry == Permutations(File)
==============================================================================
