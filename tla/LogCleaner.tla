----------------------------- MODULE LogCleaner -----------------------------
(***************************************************************************)
(* The cleaner thread (src/src/storage/log_cleaner, key_offset_map) over   *)
(* one compacted partition.  A pass works on a snapshot of the sealed      *)
(* segments: it maps the newest offset of every key in the dirty ones,     *)
(* within the budget of its key map, and then rewrites all segments up to  *)
(* the end of what it mapped, the oldest first.  Between any two of its    *)
(* steps producers append and roll, retention deletes segments, and the    *)
(* process may die, which forgets the mark.                                *)
(*                                                                         *)
(* The partition is what the cleaner sees of it: PartitionLog models the   *)
(* files and descriptors, and lets the cleaner drop any record.            *)
(***************************************************************************)
EXTENDS Integers, FiniteSets, FiniteSetsExt

CONSTANTS
    Keys,               \* record keys
    NoKey,              \* a record without a key
    MaxKeys,            \* CleanerConfig::maxKeyMapEntries
    MinDirty,           \* CleanerConfig::minCleanableDirtyRatio, in percent
    DeleteRetention,    \* CompactionPolicy::deleteRetentionMs
    RetentionMs,        \* RetentionPolicy::retentionMs
    RetentionBytes,     \* RetentionPolicy::retentionBytes, in records
    MaxSegment,         \* RollPolicy::maxSegmentBytes, in records
    SegmentAge,         \* RollPolicy::maxSegmentAgeMs
    MaxOffset,          \* bound: records appended
    MaxTime,            \* bound: time
    NoPass, Gone        \* no pass under way; no record of a key

ASSUME LogCleanerAssumption ==
    /\ NoKey \notin Keys
    /\ Gone \notin [off : Nat, key : Keys \cup {NoKey}, tomb : BOOLEAN, ts : Nat]
    /\ MaxSegment \in Nat \ {0}
    /\ {MaxKeys, MinDirty, DeleteRetention, RetentionMs, RetentionBytes, SegmentAge,
        MaxOffset, MaxTime} \subseteq Nat

VARIABLES
    segments,   \* base offset to the records in the segment [off, key, tomb, ts]
    active,     \* base offset of the active segment
    end,        \* the log end offset
    mark,       \* firstDirty_ of this partition
    pass,       \* the pass under way
    clock

log == <<segments, active, end>>
vars == <<segments, active, end, mark, pass, clock>>

Sealed == DOMAIN segments \ {active}

\* SealedInfo::nextOffset, of a segment that has records.
NextOffset(b) == 1 + Max({r.off : r \in segments[b]})

Records == UNION {segments[b] : b \in DOMAIN segments}

-----------------------------------------------------------------------------
\* The partition.

\* append() rolls a full segment first; the sweep rolls an old one.
Produce(k, tomb) ==
    /\ end < MaxOffset
    /\ LET r == [off |-> end, key |-> k, tomb |-> tomb, ts |-> clock]
       IN  IF Cardinality(segments[active]) >= MaxSegment
           THEN /\ segments' = [b \in DOMAIN segments \cup {end} |->
                                    IF b = end THEN {r} ELSE segments[b]]
                /\ active' = end
           ELSE /\ segments' = [segments EXCEPT ![active] = @ \cup {r}]
                /\ UNCHANGED active
    /\ end' = end + 1
    /\ UNCHANGED <<mark, pass, clock>>

Roll ==
    /\ \E r \in segments[active] : clock - r.ts >= SegmentAge
    /\ segments' = [b \in DOMAIN segments \cup {end} |-> IF b = end THEN {} ELSE segments[b]]
    /\ active' = end
    /\ UNCHANGED <<end, mark, pass, clock>>

AgedOut(b) == \A r \in segments[b] : clock - r.ts >= RetentionMs

\* What is left when the segments before b are gone.
SizeFrom(b) == Cardinality(UNION {segments[c] : c \in {d \in DOMAIN segments : d >= b}})

\* applyRetention(), which does not ask for the cleanup policy: oldest first, by
\* age and then while there is too much.
Doomed ==
    {b \in Sealed :
        \/ \A c \in Sealed : c <= b => AgedOut(c)
        \/ \A c \in Sealed : c <= b => SizeFrom(c) > RetentionBytes}

Drop(S) == segments' = [b \in DOMAIN segments \ S |-> segments[b]]

ApplyRetention ==
    /\ Doomed # {}
    /\ Drop(Doomed)
    /\ UNCHANGED <<active, end, mark, pass, clock>>

-----------------------------------------------------------------------------
\* A pass, phase one: the map.

SealedBytes == Cardinality(UNION {segments[b] : b \in Sealed})

DirtyBytes == Cardinality(UNION {segments[b] : b \in {c \in Sealed : c >= mark}})

\* The most dirty bytes of n that do not make a pass worth while.
Tolerated == [n \in 0 .. MaxOffset |-> (MinDirty * n) \div 100]

\* dirtyRatio() above the threshold, as pickDirtiest() and cleanOnce() ask.
DirtyEnough == DirtyBytes > Tolerated[SealedBytes]

Keyed(S) == {r \in UNION {segments[b] : b \in S} : r.key # NoKey}

\* The records of the dirty segments that put() takes before it refuses a new
\* key because the map is full.
Accepted(dirty) ==
    {r \in Keyed(dirty) :
        Cardinality({s.key : s \in {t \in Keyed(dirty) : t.off <= r.off}}) <= MaxKeys}

\* Mutant: the segment that filled the map counts as mapped.
MappedTouched(dirty) ==
    {b \in dirty : \A c \in dirty : c < b => Keyed({c}) \subseteq Accepted(dirty)}

\* Mutant: the newest dirty segment is left for the next pass.
MappedButLast(dirty) ==
    {b \in dirty \ {Max(dirty)} :
        \A c \in dirty : c <= b => Keyed({c}) \subseteq Accepted(dirty)}

\* The segments mapped completely.
Mapped(dirty) ==
    {b \in dirty : \A c \in dirty : c <= b => Keyed({c}) \subseteq Accepted(dirty)}

\* Mutant: only the dirty segments are rewritten.
ToRewriteDirty(through) == {b \in Sealed : mark <= b /\ b < through}

\* From the log start through the end of the mapped range.
ToRewrite(through) == {b \in Sealed : b < through}

\* Sealed segments do not change, so the scans of phase one are one step; when
\* retention takes a segment first, the scan throws and nothing has happened.
BeginPass ==
    /\ pass = NoPass
    /\ DirtyEnough
    /\ LET dirty   == {b \in Sealed : NextOffset(b) > mark}
           newest  == [k \in {r.key : r \in Accepted(dirty)} |->
                          Max({r.off : r \in {s \in Accepted(dirty) : s.key = k}})]
           through == Max({mark} \cup {NextOffset(b) : b \in Mapped(dirty)})
       IN  pass' = [map |-> newest, through |-> through, now |-> clock,
                    todo |-> IF Accepted(dirty) = {} THEN {} ELSE ToRewrite(through)]
    /\ UNCHANGED <<log, mark, clock>>

-----------------------------------------------------------------------------
\* Phase two: the rewrite.

\* isLatest(): a key that was not mapped may be.
IsLatest(r) == r.key \in DOMAIN pass.map => r.off >= pass.map[r.key]

\* retain()
Retain(r) ==
    \/ r.key = NoKey
    \/ IsLatest(r) /\ (r.tomb => pass.now - r.ts < DeleteRetention)

\* wouldDropAnything(), rewriteSegment() and the swap: the segment is replaced,
\* removed when nothing is left of it, or kept when it would lose nothing.
CleanSegment(b) ==
    /\ b = Min(pass.todo)
    /\ b \in DOMAIN segments
    /\ LET kept == {r \in segments[b] : Retain(r)}
       IN  IF kept = {} THEN Drop({b}) ELSE segments' = [segments EXCEPT ![b] = kept]
    /\ pass' = [pass EXCEPT !.todo = @ \ {b}]
    /\ UNCHANGED <<active, end, mark, clock>>

\* Retention took the segment between the rewrite and the swap.
SwapRefused(b) ==
    /\ b = Min(pass.todo)
    /\ b \notin DOMAIN segments
    /\ pass' = [pass EXCEPT !.todo = @ \ {b}]
    /\ UNCHANGED <<log, mark, clock>>

\* A scan cannot open the segment, because retention took it, or the rewrite
\* cannot be written: the exception ends the pass.
PassFails ==
    /\ pass.todo # {}
    /\ pass' = NoPass
    /\ UNCHANGED <<log, mark, clock>>

\* What fitted in the map is clean.
FinishPass ==
    /\ pass.todo = {}
    /\ mark' = pass.through
    /\ pass' = NoPass
    /\ UNCHANGED <<log, clock>>

-----------------------------------------------------------------------------
\* The process dies and opens the partition again: the marks are in memory only.
Restart ==
    /\ pass # NoPass \/ mark # 0
    /\ pass' = NoPass
    /\ mark' = 0
    /\ UNCHANGED <<log, clock>>

Tick ==
    /\ clock < MaxTime
    /\ clock' = clock + 1
    /\ UNCHANGED <<log, mark, pass>>

Init ==
    /\ segments = [b \in {0} |-> {}]
    /\ active = 0
    /\ end = 0
    /\ mark = 0
    /\ pass = NoPass
    /\ clock = 0

Cleaning ==
    /\ pass # NoPass
    /\ \/ FinishPass
       \/ PassFails
       \/ \E b \in pass.todo : CleanSegment(b) \/ SwapRefused(b)

Next ==
    \/ \E k \in Keys, tomb \in BOOLEAN : Produce(k, tomb)
    \/ Produce(NoKey, FALSE)
    \/ Roll
    \/ ApplyRetention
    \/ BeginPass
    \/ Cleaning
    \/ Restart
    \/ Tick

Spec == Init /\ [][Next]_vars

\* The cleaner thread keeps running.
FairSpec == Spec /\ WF_vars(BeginPass \/ Cleaning)

-----------------------------------------------------------------------------
\* A pass leaves one record of every key below the mark, also when the map
\* filled halfway and whatever retention deleted under it.  The next pass relies
\* on it: it does not map those segments again, and takes an unmapped record for
\* the newest of its key.
OnePerKeyBelowMark ==
    \A r, s \in Records :
        r.key = s.key /\ r.key # NoKey /\ r.off < mark /\ s.off < mark => r = s

Newest(k) == CHOOSE r \in Records : r.key = k /\ \A s \in Records : s.key = k => s.off <= r.off

View == [k \in Keys |-> IF \E r \in Records : r.key = k THEN Newest(k) ELSE Gone]

Promise == INSTANCE KeyedView WITH view <- View, full <- Cardinality(Records) > RetentionBytes

\* Compaction is invisible to whoever wants the newest record of each key: it
\* changes only when a newer one is written, when a tombstone is as old as
\* deleteRetentionMs, or when retention takes it, from the old end of the log.  In
\* particular an older value never comes back, not even when a tombstone is
\* collected in a pass that did not map the values it hides, or one that fails or
\* dies halfway.  It is not said that the newest record of a key stays: retention
\* is applied to a compacted partition like to any other, and takes it by age and
\* by size, although CleanupPolicy says that Compact keeps it forever.
NewestIsKept == Promise!Spec

\* Segments whose keys do not all fit in the key map.
Oversized == {b \in Sealed : Cardinality({r.key : r \in Keyed({b})}) > MaxKeys}

\* The cleaner catches up: unless it keeps being interrupted, or one
\* segment alone has more keys than the map may hold, the partition is again and
\* again clean enough, although a pass maps only what fits.
CatchesUp == []<><<Restart \/ (pass # NoPass /\ PassFails)>>_vars \/ []<>(Oversized # {}) \/ []<>~DirtyEnough
=============================================================================
