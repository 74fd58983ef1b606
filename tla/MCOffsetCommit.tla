--------------------------- MODULE MCOffsetCommit ---------------------------
(***************************************************************************)
(* Instances of OffsetCommit for TLC: one topic of one partition.          *)
(***************************************************************************)
EXTENDS OffsetCommit, TLC

MCProtocolLists == {<<"range">>}
MCPartitionCount == 1 :> 1
MCSubscriptions == {{1}}
MCAssignments == SUBSET {<<1, 0>>}
OneTopic == [c \in Consumers |-> {1}]
AllRange == [c \in Consumers |-> "range"]
Interchangeable == Permutations(Consumers)
=============================================================================
