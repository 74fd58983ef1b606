\* One compacted partition, two keys and unkeyed records, a key map that holds one key, passes interleaved with appends, rolls, retention and restarts.
CONSTANTS
    Keys = {k1, k2}
    NoKey = NoKey
    MaxKeys = 1
    MinDirty = 40
    DeleteRetention = 1
    RetentionMs = 2
    RetentionBytes = 3
    MaxSegment = 2
    SegmentAge = 1
    MaxOffset = 4
    MaxTime = 2
    NoPass = NoPass
    Gone = Gone
SPECIFICATION FairSpec
INVARIANT OnePerKeyBelowMark
PROPERTIES NewestIsKept CatchesUp
CHECK_DEADLOCK FALSE
