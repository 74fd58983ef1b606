--------------------------- MODULE MCOffsetStore ---------------------------
(***************************************************************************)
(* Instances of OffsetStore for TLC.  Any thread commits any key.          *)
(***************************************************************************)
EXTENDS OffsetStore, TLC

CONSTANTS w1, w2, k1, k2

Interchangeable == Permutations({w1, w2}) \cup Permutations({k1, k2})
=============================================================================
