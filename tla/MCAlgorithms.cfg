\* Up to three members, two topics, four partitions each; every message with
\* arrays of up to two elements; an 8-bit type in bytes of 3 payload bits; a
\* segment that is rolled at five bytes, its index at the latest every two.
CONSTANTS
    None = None
    Ids = {1, 2, 3}
    TopicIds = {1, 2}
    MaxCount = 4
    Seeds = {0, 1, 2, 300}
    VarintWidth = 8
    VarintChunk = 3
    MaxUint32 = 8
    Base = 10
    Capacities = {1, 2}
    IndexInterval = 2
    MaxSegmentBytes = 5
    BatchShapes <- MCBatchShapes
    Readers = {r1}
    FetchSizes = {0, 3}
    NoBatch = NoBatch
SPECIFICATION Spec
INVARIANTS FairPartition MessagesSurvive ErrorsStayErrors VarintKeepsEveryBit IndexIsOnlyAHint ConsumedIsProduced
CHECK_DEADLOCK FALSE
