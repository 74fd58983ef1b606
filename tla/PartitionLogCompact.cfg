\* A partition with the Compact policy: the cleaner drops any records of any sealed segment, and segments, between appends, fetches, sweeps and crashes.
\* After a swap cut in two the partition may not open again, and the model stops.
CONSTANTS
    r1 = r1
    Readers = {r1}
    Compact = TRUE
    MaxSegment = 2
    SegmentAge = 1
    MaxEntries = 9
    IndexInterval = 1
    RetentionMs = 9
    RetentionBytes = 3
    DeleteDelay = 1
    Reuse = {TRUE}
    Lag = 0
    Skew = 0
    MaxBatch = 2
    MaxOffset = 4
    MaxTime = 2
    NoAppend = NoAppend
    NoRange = NoRange
CHECK_DEADLOCK FALSE
SPECIFICATION Spec
INVARIANTS Reopens SurvivorsAreFound
