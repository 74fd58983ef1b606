------------------------------ MODULE RecordLog ------------------------------
(***************************************************************************)
(* What a partition with the Delete policy promises (the public interface  *)
(* of src/src/storage/log.hpp): offsets are handed out one after the       *)
(* other and never again, a batch is there once and complete, and records  *)
(* only ever go from the old end.                                          *)
(***************************************************************************)
EXTENDS Integers

CONSTANTS
    Sizes,      \* how many records a batch may have
    Timestamps  \* what a producer may stamp it with

VARIABLES
    batches,    \* the batches a reader can be given
    end         \* the offset the next record gets

rlvars == <<batches, end>>

Init ==
    /\ batches = {}
    /\ end = 0

\* A producer's batch of n records takes the next n offsets.
Append(n, ts) ==
    /\ batches' = batches \cup {[first |-> end, last |-> end + n - 1, ts |-> ts]}
    /\ end' = end + n

\* Everything below an offset is forgotten.
Forget(o) ==
    /\ batches' = {x \in batches : x.first >= o}
    /\ UNCHANGED end

Next ==
    \/ \E n \in Sizes, ts \in Timestamps : Append(n, ts)
    \/ \E o \in 0 .. end : Forget(o)

Spec == Init /\ [][Next]_rlvars
=============================================================================
