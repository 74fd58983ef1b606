\* A compacted partition: a fetch for an offset the cleaner removed from the end of a segment.
CONSTANTS
    r1 = r1
    Readers = {r1}
    Compact = TRUE
    MaxSegment = 2
    SegmentAge = 2
    MaxEntries = 3
    IndexInterval = 1
    RetentionMs = 9
    RetentionBytes = 9
    DeleteDelay = 1
    Reuse = {TRUE}
    Lag = 0
    Skew = 0
    MaxBatch = 2
    MaxOffset = 5
    MaxTime = 1
    NoAppend = NoAppend
    NoRange = NoRange
SPECIFICATION Spec
INVARIANTS NextSurvivorIsFound
