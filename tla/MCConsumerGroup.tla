--------------------------- MODULE MCConsumerGroup ---------------------------
(***************************************************************************)
(* Instances of ConsumerGroup for TLC.  Topics are numbered.               *)
(***************************************************************************)
EXTENDS ConsumerGroup, TLC

CONSTANTS c1, c2

MCProtocolLists == {<<"range">>}
MCPartitionCount == (1 :> 2) @@ (2 :> 1)
MCSubscriptions == {{1}, {2}}
MCAssignments == SUBSET {<<1, 0>>, <<1, 1>>, <<2, 0>>}

\* Everyone consumes topic 1.
OneTopic == [c \in Consumers |-> {1}]

\* c2 consumes another topic under the same group name.
TwoTopics == [c \in Consumers |-> IF c = c2 THEN {2} ELSE {1}]

AllRange == [c \in Consumers |-> "range"]
=============================================================================
