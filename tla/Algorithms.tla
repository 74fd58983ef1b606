----------------------------- MODULE Algorithms -----------------------------
(***************************************************************************)
(* What the assignors and the varint routines compute, asked one question  *)
(* at a time: a behaviour picks a bench and a question and answers it.     *)
(***************************************************************************)
EXTENDS Assignor, Varint

CONSTANTS
    Ids, TopicIds, MaxCount,   \* assignors: members, topics, partitions of a topic
    VarintWidth, VarintChunk   \* bits of the type, payload bits of a byte

ASSUME AlgorithmsAssumption ==
    /\ IsFiniteSet(Ids) /\ Ids \subseteq Int
    /\ IsFiniteSet(TopicIds) /\ TopicIds \subseteq Int /\ MaxCount \in Nat
    /\ VarintWidth \in Nat \ {0} /\ VarintChunk \in Nat \ {0}

VARIABLES bench, question, answer

Unanswered == <<>>
Result == answer[1]

Maps(D, R) == UNION {[S -> R] : S \in SUBSET D}

AskAssignor ==
    bench = "assign" /\ question \in [members : Maps(Ids, SUBSET TopicIds),
                                      counts : Maps(TopicIds, 0..MaxCount),
                                      strategy : {"range", "roundrobin"}]

\* Every byte sequence a varint reader may meet, one byte too long included.
VarintInputs ==
    UNION {[1..n -> 0..(2 * TwoTo(VarintChunk) - 1)] :
            n \in 0..(MaxVarintBytes(VarintWidth, VarintChunk) + 1)}

AskVarint == bench = "varint" /\ question \in VarintInputs

AlgorithmsInit == answer = Unanswered /\ (AskAssignor \/ AskVarint)

Answers(b, value) == bench = b /\ answer = Unanswered /\ answer' = <<value>>
                     /\ UNCHANGED <<bench, question>>

ComputeAssignment ==
    Answers("assign", Assign(question.strategy, question.members, question.counts))

ComputeVarint == Answers("varint", DecodeVarint(question, 0, VarintWidth, VarintChunk))

AlgorithmsNext == ComputeAssignment \/ ComputeVarint

AlgorithmsSpec == AlgorithmsInit /\ [][AlgorithmsNext]_<<bench, question, answer>>

Answered(b) == bench = b /\ answer # Unanswered

-----------------------------------------------------------------------------

\* Both strategies hand out every wanted partition exactly once and evenly, more
\* members than partitions and members without a topic in common included; range
\* has only one possible result then.
FairPartition ==
    Answered("assign") =>
        LET members == question.members
            counts  == question.counts
        IN  /\ EveryPartitionOnce(Result, members, counts)
            /\ question.strategy = "range" => RangeIsContiguous(Result, members, counts)
            /\ question.strategy = "roundrobin" => RoundRobinIsEven(Result, members, counts)

\* The number that the payloads of the first n bytes carry, by n.
Carried(bytes, chunk) ==
    LET sum[n \in 0..Len(bytes)] ==
            IF n = 0 THEN 0
            ELSE sum[n - 1] + (bytes[n] % TwoTo(chunk)) * TwoTo(chunk * (n - 1))
    IN  sum

\* A number that is read is the number that is written there: no byte sequence
\* is taken for a number by dropping bits the type has no room for, and a number
\* that was read is one of the type and survives being written and read again.
VarintKeepsEveryBit ==
    Answered("varint") =>
        LET back == DecodeVarint(EncodeVarint(Result.value, VarintWidth, VarintChunk), 0,
                                 VarintWidth, VarintChunk)
        IN  Result.ok => /\ ZigZag(Result.value) = Carried(question, VarintChunk)[Result.pos]
                         /\ Result.value \in Signed(VarintWidth)
                         /\ back.ok /\ back.value = Result.value
=============================================================================
