\* A partition with the Delete policy: appends, rolls, fetches, retention by age and by size, crashes at any file operation.
CONSTANTS
    r1 = r1
    Readers = {r1}
    Compact = FALSE
    MaxSegment = 2
    SegmentAge = 2
    MaxEntries = 3
    IndexInterval = 1
    RetentionMs = 3
    RetentionBytes = 3
    DeleteDelay = 2
    Reuse = {TRUE, FALSE}
    Lag = 1
    Skew = 1
    MaxBatch = 2
    MaxOffset = 4
    MaxTime = 3
    NoAppend = NoAppend
    NoRange = NoRange
SPECIFICATION Spec
INVARIANTS TypeOK Reopens StampFits EveryOffsetIsFound RangeOutlivesSegment
PROPERTY YoungRecordsStay KeepsRecords
