--------------------------- MODULE MCPartitionLog ---------------------------
(***************************************************************************)
(* Instances of PartitionLog for TLC.                                      *)
(***************************************************************************)
EXTENDS PartitionLog, TLC

CONSTANTS r1

=============================================================================
