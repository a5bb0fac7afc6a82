------------------------------ MODULE MCDiskLog ------------------------------
(* Instances of DiskLog for TLC. *)
EXTENDS DiskLog

CONSTANT none

MCValue == 1..MaxSaves
=============================================================================
