---------------------------- MODULE PartitionLog ----------------------------
(***************************************************************************)
(* One partition (src/src/storage/log, segment): a sequence of sealed      *)
(* segments and one active segment, each a .log file named for its first   *)
(* offset and an .index file.  Producers append under appendMutex_; reads, *)
(* rolls, retention and the cleaner's swaps take segmentsMutex_ and are    *)
(* one step each, so other threads run between them.                       *)
(*                                                                         *)
(* A read returns a FileRange, a descriptor and a place in the file, which *)
(* a connection thread sends later.  Closing the descriptor in between is  *)
(* what the graveyard is there to prevent.                                 *)
(*                                                                         *)
(* A crash is the death of the process: completed writes survive, the      *)
(* batch being written may be torn, and any file operation may have been   *)
(* the last.  A batch is one unit of size.                                 *)
(***************************************************************************)
EXTENDS Integers, FiniteSets, FiniteSetsExt

CONSTANTS
    Readers,            \* connection threads that answer fetches
    Compact,            \* CleanupPolicy: TRUE for Compact, FALSE for Delete
    MaxSegment,         \* RollPolicy::maxSegmentBytes, in batches
    SegmentAge,         \* RollPolicy::maxSegmentAgeMs
    MaxEntries,         \* RollPolicy::maxIndexBytes, in entries
    IndexInterval,      \* RollPolicy::indexIntervalBytes, in batches
    RetentionMs,        \* RetentionPolicy::retentionMs
    RetentionBytes,     \* RetentionPolicy::retentionBytes, in batches
    DeleteDelay,        \* RetentionPolicy::segmentDeleteDelayMs
    Reuse,              \* whether the descriptor number that sealing a segment
                        \* frees is the one its file is opened with again
    Lag,                \* how old the time may be that a background pass works with
    Skew,               \* how far a producer's clock may be off
    MaxBatch,           \* bound: records in a batch
    MaxOffset,          \* bound: records appended
    MaxTime,            \* bound: time
    NoAppend, NoRange   \* nothing under way

\* What became of the descriptor in a FileRange: it is open, or was closed when
\* its segment was sealed, or with the segment's last copy in the graveyard.
Fates == {"open", "rolled", "closed"}

ASSUME PartitionLogAssumption ==
    /\ {Compact} \cup Reuse \subseteq BOOLEAN
    /\ {MaxSegment, IndexInterval, MaxBatch} \subseteq Nat \ {0}
    /\ {SegmentAge, MaxEntries, RetentionMs, RetentionBytes, DeleteDelay,
        Lag, Skew, MaxOffset, MaxTime} \subseteq Nat
    /\ NoAppend \notin [base : Nat, n : Nat, ts : Int]
    /\ NoRange \notin [base : Nat, fd : Nat, at : Nat, fate : Fates]

VARIABLES
    files,      \* the .log files: base offset to the batches in it
    indexes,    \* the base offsets that have an .index file
    mixed,      \* whether one of these describes a .log that was replaced since
    running,    \* whether the process is up and has the partition open
    sealed,     \* sealed_: base offset to the descriptor of the .log file
    active,     \* active_: base offset, descriptor and firstAppendMs_
    logEnd,     \* logEndOffset_, and highWatermark_, which follows it
    graveyard,  \* graveyard_: descriptors kept open, and since when
    appending,  \* the batch append() has stamped and not yet written
    ranges,     \* the FileRange each reader has still to send
    clock

disk == <<files, indexes, mixed>>
vars == <<files, indexes, mixed, running, sealed, active, logEnd, graveyard, appending, ranges, clock>>

-----------------------------------------------------------------------------
\* Segments.  Descriptors are numbered per file name: what matters is only
\* whether the one in a FileRange is still open.

Batch == [first : Nat, last : Nat, ts : Int, whole : BOOLEAN]

FileRange == [base : Nat, fd : Nat, at : Nat, fate : Fates]

\* Mutant: the last offset, not one past it.
LastOf(b, S) ==
    IF S = {} THEN b - 1 ELSE (CHOOSE x \in S : \A y \in S : y.last <= x.last).last

\* One past the last offset of the batches S in a file based at b.
EndOf(b, S) ==
    IF S = {} THEN b ELSE 1 + (CHOOSE x \in S : \A y \in S : y.last <= x.last).last

NextOffset(b) == EndOf(b, files[b])

Entries(n) == IF n = 0 THEN 0 ELSE (n - 1) \div IndexInterval

\* What is read when a sealed segment is opened: from the last index entry on.
Tail(b) ==
    LET from == IndexInterval * Entries(Cardinality(files[b]))
    IN  {x \in files[b] : Cardinality({y \in files[b] : y.first < x.first}) >= from}

LargestTimestamp(b) == Max({-1} \cup {x.ts : x \in Tail(b)})

\* Mutant: no checksum, what parses is kept.
RecoveredUnchecked(b) == files[b]

\* The batches recover() keeps: complete, and each where the one before ended.
Recovered(b) ==
    {x \in files[b] :
        \A o \in b .. x.last : \E y \in files[b] : y.whole /\ o \in y.first .. y.last}

\* The files of the segments in S are gone.
Without(S) == [b \in DOMAIN files \ S |-> files[b]]

\* The ranges of descriptors in S, pairs of a base offset and a number, break.
Ranges(S, fate) ==
    [r \in Readers |->
        IF ranges[r] # NoRange /\ <<ranges[r].base, ranges[r].fd>> \in S
        THEN [ranges[r] EXCEPT !.fate = fate]
        ELSE ranges[r]]

\* The times a background thread may have read from the clock when its pass began.
Recent == {t \in 0 .. clock : clock - t <= Lag}

-----------------------------------------------------------------------------
\* Opening.

\* The base offset of the segment after the one at b.
Following(b) == CHOOSE c \in DOMAIN files : c > b /\ \A d \in DOMAIN files : d <= b \/ d >= c

Newest == CHOOSE b \in DOMAIN files : \A c \in DOMAIN files : c <= b

\* open() does not throw: every sealed segment has its own index, and none is
\* missing between two others (or, on a compacted log, overlaps the next).
Openable ==
    /\ ~mixed
    /\ \A b \in DOMAIN files \ {Newest} :
            /\ b \in indexes
            /\ IF Compact THEN NextOffset(b) <= Following(b) ELSE NextOffset(b) = Following(b)

\* A directory with no segment in it gets its first.
Create ==
    /\ ~running
    /\ DOMAIN files = {}
    /\ running' = TRUE
    /\ files' = [b \in {0} |-> {}]
    /\ indexes' = {0}
    /\ active' = [base |-> 0, fd |-> 0, since |-> -1]
    /\ logEnd' = 0
    /\ UNCHANGED <<mixed, sealed, graveyard, appending, ranges, clock>>

\* The newest segment is recovered and becomes the active one.
Open ==
    /\ ~running
    /\ DOMAIN files # {}
    /\ Openable
    /\ running' = TRUE
    /\ files' = [files EXCEPT ![Newest] = Recovered(Newest)]
    /\ indexes' = indexes \cup {Newest}
    /\ sealed' = [b \in DOMAIN files \ {Newest} |-> 0]
    /\ active' = [base  |-> Newest, fd |-> 0,
                  since |-> IF Recovered(Newest) = {} THEN -1 ELSE clock]
    /\ logEnd' = EndOf(Newest, Recovered(Newest))
    /\ UNCHANGED <<mixed, graveyard, appending, ranges, clock>>

-----------------------------------------------------------------------------
\* Writing.

ShouldRoll(now) ==
    LET n == Cardinality(files[active.base])
    IN  /\ n # 0
        /\ \/ n >= MaxSegment
           \/ Entries(n) >= MaxEntries
           \/ now - active.since >= SegmentAge

\* seal() closes the descriptor readers may hold and opens the file again.
Roll(reused) ==
    /\ files' = [b \in DOMAIN files \cup {logEnd} |-> IF b = logEnd THEN {} ELSE files[b]]
    /\ indexes' = indexes \cup {logEnd}
    /\ sealed' = [b \in DOMAIN sealed \cup {active.base} |->
                    IF b # active.base THEN sealed[b]
                    ELSE IF reused THEN active.fd ELSE active.fd + 1]
    /\ active' = [base |-> logEnd, fd |-> 0, since |-> -1]
    /\ ranges' = IF reused THEN ranges ELSE Ranges({<<active.base, active.fd>>}, "rolled")

MaybeRoll(now) ==
    \/ ShouldRoll(now) /\ \E reused \in Reuse : Roll(reused)
    \/ ~ShouldRoll(now) /\ UNCHANGED <<files, indexes, sealed, active, ranges>>

\* append() takes the append lock, rolls if it must, and stamps the batch; the
\* maintenance thread may get in before the batch is written.
Append(n, ts) ==
    /\ running
    /\ appending = NoAppend
    /\ logEnd + n <= MaxOffset
    /\ MaybeRoll(clock)
    /\ appending' = [base |-> logEnd, n |-> n, ts |-> ts]
    /\ UNCHANGED <<mixed, running, logEnd, graveyard, clock>>

Stamped(whole) ==
    [first |-> appending.base, last |-> appending.base + appending.n - 1,
     ts |-> appending.ts, whole |-> whole]

\* Mutant: the end moves by one, however many records the batch has.
WriteCountsBatches ==
    /\ running
    /\ appending # NoAppend
    /\ appending.base = NextOffset(active.base)
    /\ files' = [files EXCEPT ![active.base] = @ \cup {Stamped(TRUE)}]
    /\ active' = [active EXCEPT !.since = IF @ < 0 THEN clock ELSE @]
    /\ logEnd' = appending.base + 1
    /\ appending' = NoAppend
    /\ UNCHANGED <<indexes, mixed, running, sealed, graveyard, ranges, clock>>

\* The active segment refuses a batch that does not start where it ends.
Write ==
    /\ running
    /\ appending # NoAppend
    /\ appending.base = NextOffset(active.base)
    /\ files' = [files EXCEPT ![active.base] = @ \cup {Stamped(TRUE)}]
    /\ active' = [active EXCEPT !.since = IF @ < 0 THEN clock ELSE @]
    /\ logEnd' = appending.base + appending.n
    /\ appending' = NoAppend
    /\ UNCHANGED <<indexes, mixed, running, sealed, graveyard, ranges, clock>>

-----------------------------------------------------------------------------
\* Reading.

\* Mutant: lower_bound for upper_bound.
RoutedBelow(o) ==
    IF o >= active.base
    THEN {active.base}
    ELSE {b \in DOMAIN sealed : b < o /\ \A c \in DOMAIN sealed : c < o => c <= b}

\* The segment a read of o is routed to, if any: the active one or the sealed
\* one with the greatest base offset at or below o.
Routed(o) ==
    IF o >= active.base
    THEN {active.base}
    ELSE {b \in DOMAIN sealed : b <= o /\ \A c \in DOMAIN sealed : c <= o => c <= b}

\* The batch the answer starts with: the first of the segment that reaches o.
Found(o) ==
    {x \in UNION {files[b] : b \in Routed(o)} :
        /\ x.last >= o
        /\ \A y \in UNION {files[b] : b \in Routed(o)} : y.last >= o => x.first <= y.first}

\* read(), when it answers with bytes.
Read(r, o) ==
    /\ running
    /\ ranges[r] = NoRange
    /\ o < logEnd
    /\ Found(o) # {}
    /\ \E b \in Routed(o) :
        ranges' = [ranges EXCEPT ![r] =
            [base |-> b, fd |-> IF b = active.base THEN active.fd ELSE sealed[b],
             at |-> clock, fate |-> "open"]]
    /\ UNCHANGED <<files, indexes, mixed, running, sealed, active, logEnd, graveyard, appending, clock>>

\* The connection thread has sent the bytes, or failed to.
Send(r) ==
    /\ ranges[r] # NoRange
    /\ ranges' = [ranges EXCEPT ![r] = NoRange]
    /\ UNCHANGED <<files, indexes, mixed, running, sealed, active, logEnd, graveyard, appending, clock>>

-----------------------------------------------------------------------------
\* Maintenance: the three calls of a sweep, each under the lock.

SweepRolls(now) ==
    /\ running
    /\ ShouldRoll(now)
    /\ MaybeRoll(now)
    /\ UNCHANGED <<mixed, running, logEnd, graveyard, appending, clock>>

\* Mutant: a segment without timestamps counts as old.
AgedOutUntimed(b, now) ==
    \/ files[b] = {}
    \/ now - LargestTimestamp(b) >= RetentionMs

AgedOut(b, now) ==
    \/ files[b] = {}
    \/ LargestTimestamp(b) >= 0 /\ now - LargestTimestamp(b) >= RetentionMs

\* Bytes in the segments from b on, the active one included.
SizeFrom(b) == Cardinality(UNION {files[c] : c \in {d \in DOMAIN files : d >= b}})

\* What applyRetention() deletes, oldest first: the age pass stops at the first
\* segment worth keeping, the byte pass once the rest is within the limit.
Doomed(now) ==
    {b \in DOMAIN sealed :
        \/ \A c \in DOMAIN sealed : c <= b => AgedOut(c, now)
        \/ SizeFrom(b) > RetentionBytes}

\* Mutant: the segment is destroyed with its files.
BuryNothing(S, now) ==
    /\ files' = Without(S)
    /\ indexes' = indexes \ S
    /\ sealed' = [b \in DOMAIN sealed \ S |-> sealed[b]]
    /\ ranges' = Ranges({<<b, sealed[b]>> : b \in S}, "closed")
    /\ UNCHANGED graveyard

\* The files go at once, the descriptors are kept.
Bury(S, now) ==
    /\ files' = Without(S)
    /\ indexes' = indexes \ S
    /\ sealed' = [b \in DOMAIN sealed \ S |-> sealed[b]]
    /\ graveyard' = graveyard \cup {[base |-> b, fd |-> sealed[b], at |-> now] : b \in S}
    /\ UNCHANGED ranges

ApplyRetention(now) ==
    /\ running
    /\ Doomed(now) # {}
    /\ Bury(Doomed(now), now)
    /\ UNCHANGED <<mixed, running, active, logEnd, appending, clock>>

Closable(now) == {g \in graveyard : now - g.at >= DeleteDelay}

SweepGraveyard(now) ==
    /\ running
    /\ Closable(now) # {}
    /\ graveyard' = graveyard \ Closable(now)
    /\ ranges' = Ranges({<<g.base, g.fd>> : g \in Closable(now)}, "closed")
    /\ UNCHANGED <<files, indexes, mixed, running, sealed, active, logEnd, appending, clock>>

-----------------------------------------------------------------------------
\* The cleaner's swaps, on a compacted log.  Which records lose is the cleaner's
\* business: here it is any of them.

Survivors(x) ==
    {[first |-> l, last |-> m, ts |-> x.ts, whole |-> x.whole] : l, m \in x.first .. x.last}

Cleanings(S) ==
    {K \in SUBSET UNION {{y \in Survivors(x) : y.first <= y.last} : x \in S} :
        /\ K # S
        /\ \A y, z \in K : y = z \/ \A x \in S : y \notin Survivors(x) \/ z \notin Survivors(x)}

\* The cleaned files are renamed over the old ones, whose descriptor is kept.
ReplaceSegment(b, K, now) ==
    /\ running
    /\ Compact
    /\ b \in DOMAIN sealed
    /\ K # {}
    /\ files' = [files EXCEPT ![b] = K]
    /\ sealed' = [sealed EXCEPT ![b] = @ + 1]
    /\ graveyard' = graveyard \cup {[base |-> b, fd |-> sealed[b], at |-> now]}
    /\ UNCHANGED <<indexes, mixed, running, active, logEnd, appending, ranges, clock>>

RemoveSegment(b, now) ==
    /\ running
    /\ Compact
    /\ b \in DOMAIN sealed
    /\ Bury({b}, now)
    /\ UNCHANGED <<mixed, running, active, logEnd, appending, clock>>

-----------------------------------------------------------------------------
\* The process dies.

Dies ==
    /\ running
    /\ running' = FALSE
    /\ sealed' = [b \in {} |-> 0]
    /\ active' = [base |-> 0, fd |-> 0, since |-> -1]
    /\ logEnd' = 0
    /\ graveyard' = {}
    /\ appending' = NoAppend
    /\ ranges' = [r \in Readers |-> NoRange]
    /\ UNCHANGED clock

Crash ==
    /\ Dies
    /\ UNCHANGED disk

\* In write(): the batch is in the file, torn or whole, and nobody was told.
CrashInWrite(whole) ==
    /\ Dies
    /\ appending # NoAppend
    /\ files' = [files EXCEPT ![active.base] = @ \cup {Stamped(whole)}]
    /\ UNCHANGED <<indexes, mixed>>

\* In maybeRoll(), after the new segment's files, or only its .log, were created.
CrashInRoll(indexed) ==
    /\ Dies
    /\ ShouldRoll(clock)
    /\ files' = [b \in DOMAIN files \cup {logEnd} |-> IF b = logEnd THEN {} ELSE files[b]]
    /\ indexes' = IF indexed THEN indexes \cup {logEnd} ELSE indexes \ {logEnd}
    /\ UNCHANGED mixed

\* Mutant: the .index is removed first.
CrashIndexFirst(now, cut, orphan) ==
    /\ Dies
    /\ cut \in Doomed(now)
    /\ files' = Without({b \in Doomed(now) : b <= cut} \ (IF orphan THEN {cut} ELSE {}))
    /\ indexes' = indexes \ {b \in Doomed(now) : b <= cut}
    /\ UNCHANGED mixed

\* In applyRetention(), with the segments up to `cut` gone and perhaps its
\* .index left over: unlinkFiles() removes the .log first.
CrashInRetention(now, cut, orphan) ==
    /\ Dies
    /\ cut \in Doomed(now)
    /\ files' = Without({b \in Doomed(now) : b <= cut})
    /\ indexes' = (indexes \ {b \in Doomed(now) : b <= cut}) \cup (IF orphan THEN {cut} ELSE {})
    /\ UNCHANGED mixed

\* Mutant: the .index is removed first.
CrashRemovingIndex(b, orphan) ==
    /\ Dies
    /\ Compact
    /\ b \in DOMAIN sealed
    /\ files' = Without({b} \ (IF orphan THEN {b} ELSE {}))
    /\ indexes' = indexes \ {b}
    /\ UNCHANGED mixed

\* In removeSegment(), likewise.
CrashInRemove(b, orphan) ==
    /\ Dies
    /\ Compact
    /\ b \in DOMAIN sealed
    /\ files' = Without({b})
    /\ indexes' = (indexes \ {b}) \cup (IF orphan THEN {b} ELSE {})
    /\ UNCHANGED mixed

\* In replaceSegment(), between the two renames: the .index of the old .log is
\* left beside the new one, which matters if it has an entry.
CrashInReplace(b, K) ==
    /\ Dies
    /\ Compact
    /\ b \in DOMAIN sealed
    /\ K # {}
    /\ mixed' = (Entries(Cardinality(files[b])) > 0)
    /\ files' = [files EXCEPT ![b] = K]
    /\ UNCHANGED indexes

Tick ==
    /\ clock < MaxTime
    /\ clock' = clock + 1
    /\ UNCHANGED <<files, indexes, mixed, running, sealed, active, logEnd, graveyard, appending, ranges>>

-----------------------------------------------------------------------------
Init ==
    /\ files = [b \in {} |-> {}]
    /\ indexes = {}
    /\ mixed = FALSE
    /\ running = FALSE
    /\ sealed = [b \in {} |-> 0]
    /\ active = [base |-> 0, fd |-> 0, since |-> -1]
    /\ logEnd = 0
    /\ graveyard = {}
    /\ appending = NoAppend
    /\ ranges = [r \in Readers |-> NoRange]
    /\ clock = 0

\* Timestamps come from producers; -1 is "none".
Stamps == {-1} \cup (((clock - Skew) .. (clock + Skew)) \cap Nat)

Background ==
    \E now \in Recent :
        \/ SweepRolls(now)
        \/ ApplyRetention(now)
        \/ SweepGraveyard(now)
        \/ \E b \in DOMAIN sealed : RemoveSegment(b, now)
        \/ \E b \in DOMAIN sealed : \E K \in Cleanings(files[b]) : ReplaceSegment(b, K, now)

Failure ==
    \/ Crash
    \/ \E whole \in BOOLEAN : CrashInWrite(whole)
    \/ \E indexed \in BOOLEAN : CrashInRoll(indexed)
    \/ \E now \in Recent, cut \in DOMAIN sealed, orphan \in BOOLEAN :
            CrashInRetention(now, cut, orphan)
    \/ \E b \in DOMAIN sealed, orphan \in BOOLEAN : CrashInRemove(b, orphan)
    \/ \E b \in DOMAIN sealed : \E K \in Cleanings(files[b]) : CrashInReplace(b, K)

Next ==
    \/ Create
    \/ Open
    \/ \E n \in 1 .. MaxBatch, ts \in Stamps : Append(n, ts)
    \/ Write
    \/ \E r \in Readers : Send(r) \/ \E o \in 0 .. MaxOffset : Read(r, o)
    \/ Background
    \/ Failure
    \/ Tick

Spec == Init /\ [][Next]_vars

-----------------------------------------------------------------------------
\* The state is well formed: what is in memory names files that exist, and the
\* published end is the end of the active segment.
TypeOK ==
    /\ DOMAIN files \subseteq Nat
    /\ \A b \in DOMAIN files : files[b] \subseteq Batch
    /\ indexes \subseteq Nat
    /\ mixed \in BOOLEAN /\ (running => ~mixed)
    /\ running \in BOOLEAN
    /\ DOMAIN sealed \subseteq Nat
    /\ \A b \in DOMAIN sealed : sealed[b] \in Nat
    /\ active \in [base : Nat, fd : Nat, since : Nat \cup {-1}]
    /\ logEnd \in Nat
    /\ graveyard \subseteq [base : Nat, fd : Nat, at : Nat]
    /\ appending \in [base : Nat, n : Nat \ {0}, ts : Int] \cup {NoAppend}
    /\ ranges \in [Readers -> FileRange \cup {NoRange}]
    /\ clock \in Nat

\* Wherever the process dies - between the files of a roll, halfway through
\* retention, between the two files of a removed segment, with a torn batch -
\* Log::open() accepts what is left.  Not so, and not claimed, of a death between
\* the two renames of a swap: the old .index sends the reader to the middle of a
\* batch of the new .log, or past its end.
Reopens == ~running /\ ~mixed /\ DOMAIN files # {} => Openable

\* A batch that was stamped still fits when it is written, although the lock was
\* free in between: otherwise ActiveSegment::append() throws, for ever.
StampFits == appending # NoAppend => appending.base = NextOffset(active.base)

\* The oldest offset a fetch may ask for: logStartOffset().
LogStart == CHOOSE b \in DOMAIN files : \A c \in DOMAIN files : b <= c

\* Delete policy: a fetch inside the log is answered with the batch that holds
\* the offset, complete, in whichever segment it is.
EveryOffsetIsFound ==
    running /\ ~Compact =>
        \A o \in LogStart .. (logEnd - 1) :
            \E x \in Found(o) : x.whole /\ x.first <= o /\ \A y \in Found(o) : y = x

\* Compact policy: every surviving record is found at its own offset.
SurvivorsAreFound ==
    running => \A b \in DOMAIN files : \A x \in files[b] :
        \A o \in x.first .. x.last : Found(o) = {x}

\* Compact policy, DESIGN.md: a fetch for an offset the cleaner removed is
\* answered with the next surviving batch.
NextSurvivorIsFound ==
    running => \A o \in LogStart .. (logEnd - 1) :
        (\E b \in DOMAIN files : \E x \in files[b] : x.last >= o) => Found(o) # {}

\* segmentDeleteDelayMs is the time a FileRange has to be sent: what is deleted,
\* swapped or swept meanwhile, its descriptor is not closed earlier but by as much
\* as the pass that deleted the segment was behind the clock.  Sealing closes the
\* descriptor of the active segment at once: a range on it breaks with the roll,
\* unless the number is reused at once for the same file.
RangeOutlivesSegment ==
    \A r \in Readers :
        ranges[r] # NoRange /\ ranges[r].fate = "closed" => clock - ranges[r].at >= DeleteDelay - Lag

\* Delete policy: a segment only goes when some record has a timestamp and all are
\* older than retentionMs, or when the partition is over its byte limit.  The
\* timestamps are the producers', and retention looks for the largest only behind
\* the last index entry: a record may go as much early as two clocks differ.
YoungRecordsStay ==
    [][\A b \in DOMAIN files \ DOMAIN files' :
            ~Compact => \/ SizeFrom(b) > RetentionBytes
                        \/ /\ \E x \in files[b] : x.ts >= 0
                           /\ \A x \in files[b] : clock - x.ts >= RetentionMs - 2 * Skew]_vars

\* What a restart would find of a batch being written is not part of the log.
Promise == INSTANCE RecordLog WITH
    Sizes <- 1 .. MaxBatch,
    Timestamps <- -1 .. (MaxTime + Skew),
    batches <- {[first |-> x.first, last |-> x.last, ts |-> x.ts] :
                   x \in {y \in UNION {files[b] : b \in DOMAIN files} : y.whole}},
    end <- IF running \/ DOMAIN files = {} THEN logEnd
           ELSE EndOf(Newest, Recovered(Newest))

\* Delete policy: rolls, sweeps, crashes and recovery are invisible, retention
\* takes records from the old end only, and an offset is never given out twice.
KeepsRecords == Promise!Spec
=============================================================================
