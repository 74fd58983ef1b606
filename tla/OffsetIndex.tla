---------------------------- MODULE OffsetIndex ----------------------------
(***************************************************************************)
(* One segment and its sparse index (src/src/storage/offset_index and the  *)
(* read, append and reopen paths of segment).                              *)
(*                                                                         *)
(* A batch is [first, last, size]; the log file is a sequence of batches   *)
(* and a position the number of bytes before one.  An index file is a      *)
(* sequence of entries [relative, position], preallocated with zeroes.     *)
(***************************************************************************)
EXTENDS Integers, Sequences

CONSTANT MaxUint32   \* numeric_limits<uint32_t>::max()

Entry(relative, position) == [relative |-> relative, position |-> position]
Padding == Entry(0, 0)

\* How many bytes the first n batches take, by n.
BytesAfter(batches) ==
    LET bytes[n \in 0..Len(batches)] == IF n = 0 THEN 0 ELSE bytes[n - 1] + batches[n].size
    IN  bytes

SizeOf(batches) == BytesAfter(batches)[Len(batches)]

\* Where the n-th batch of a log begins.
StartOf(batches, n) == BytesAfter(batches)[n - 1]

\* One past the last offset, of a log that begins at base.
EndOf(base, batches) == IF batches = <<>> THEN base ELSE batches[Len(batches)].last + 1

-----------------------------------------------------------------------------
(* OffsetIndex *)

\* create(): room for `capacity` entries, all zeroes.
CreateIndex(capacity) == [file |-> [i \in 1..capacity |-> Padding], count |-> 0]

\* One turn of the loop of countEntries(), while low < high; indexes count from 0
\* as in the code.
HalveForZero(file, search) ==
    LET mid == search.low + (search.high - search.low) \div 2
    IN  IF search.low >= search.high THEN search
        ELSE IF file[mid + 1].position = 0 THEN [search EXCEPT !.high = mid]
        ELSE [search EXCEPT !.low = mid + 1]

\* The search for the first zero position after so many turns.
ZeroSearch(file) ==
    LET search[i \in 0..Len(file)] ==
            IF i = 0 THEN [low |-> 0, high |-> Len(file) - 1]
            ELSE HalveForZero(file, search[i - 1])
    IN  search

CountEntries(file) ==
    IF file = <<>> THEN 0
    ELSE IF file[Len(file)].position # 0 THEN Len(file)
    ELSE ZeroSearch(file)[Len(file)].low

\* openSealed(), on a file that was trimmed or not.
OpenIndex(file) == [file |-> file, count |-> CountEntries(file)]

\* The exceptions of append() and the one of maybeAddIndexEntry().
AppendThrows(index, relative, position) ==
    \/ position = 0
    \/ relative < 0 \/ relative > MaxUint32 \/ position > MaxUint32
    \/ index.count > 0 /\ \/ relative <= index.file[index.count].relative
                          \/ position <= index.file[index.count].position

\* A full index drops the entry.
AppendEntry(index, relative, position) ==
    IF index.count >= Len(index.file) THEN index
    ELSE [file  |-> [index.file EXCEPT ![index.count + 1] = Entry(relative, position)],
          count |-> index.count + 1]

\* One turn of the loop of lookup(): the middle is rounded up, so that low advances.
HalveForGreatest(file, target, search) ==
    LET mid == search.low + (search.high - search.low + 1) \div 2
    IN  IF search.low >= search.high THEN search
        ELSE IF file[mid + 1].relative <= target THEN [search EXCEPT !.low = mid]
        ELSE [search EXCEPT !.high = mid - 1]

\* The search for the greatest entry at or below the target after so many turns.
GreatestSearch(file, target, count) ==
    LET search[i \in 0..count] ==
            IF i = 0 THEN [low |-> 0, high |-> count - 1]
            ELSE HalveForGreatest(file, target, search[i - 1])
    IN  search

\* Mutant: the entry just past the target will do.
LookupPast(index, target) ==
    IF index.count = 0 \/ index.file[1].relative > target THEN Padding
    ELSE index.file[GreatestSearch(index.file, target + 1, index.count)[index.count].low + 1]

Lookup(index, target) ==
    IF index.count = 0 \/ index.file[1].relative > target THEN Padding
    ELSE index.file[GreatestSearch(index.file, target, index.count)[index.count].low + 1]

-----------------------------------------------------------------------------
(* Segment.  What the appender has made visible: batches up to `size` bytes,*)
(* the index, nextOffset.                                                   *)

\* Everything readers see of a new segment, and what the appender keeps.
CreateSegment(base, capacity) ==
    [base |-> base, batches |-> <<>>, size |-> 0, next |-> base,
     index |-> CreateIndex(capacity), since |-> 0, thrown |-> FALSE]

\* maybeAddIndexEntry(), the first step of append().
AddIndexEntry(seg, interval, batch) ==
    IF seg.since < interval \/ seg.size = 0 THEN seg
    ELSE LET relative == batch.first - seg.base
         IN  [seg EXCEPT !.thrown = @ \/ AppendThrows(seg.index, relative, seg.size),
                         !.index  = AppendEntry(@, relative, seg.size),
                         !.since  = 0]

\* log_.append().
WriteBatch(seg, batch) ==
    [seg EXCEPT !.batches = Append(@, batch),
                !.size    = @ + batch.size,
                !.since   = @ + batch.size]

\* nextOffset_.store().
PublishBatch(seg, batch) == [seg EXCEPT !.next = batch.last + 1]

\* A segment after a whole append().
Appended(seg, interval, batch) ==
    PublishBatch(WriteBatch(AddIndexEntry(seg, interval, batch), batch), batch)

\* batchAt(): the number of the batch that begins at the position and ends within
\* the limit, one or none.
BatchAt(batches, position, limit) ==
    {n \in DOMAIN batches : /\ StartOf(batches, n) = position
                            /\ position + batches[n].size <= limit}

\* The loop of read(): where it stands after so many turns.  It stops where the
\* batch reaches the offset and where there is none.
ScannedTo(batches, from, limit, offset) ==
    LET at[i \in 0..Len(batches)] ==
            IF i = 0 THEN from
            ELSE LET here  == at[i - 1]
                     short == {n \in BatchAt(batches, here, limit) : batches[n].last < offset}
                 IN  IF short = {} THEN here
                     ELSE here + batches[CHOOSE n \in short : TRUE].size
    IN  at

\* What begins where the loop ended: as much as was asked for and is there, but
\* never less than one batch; no bytes when the scan ran off the end.
RangeAt(batches, position, limit, maxBytes) ==
    LET found == BatchAt(batches, position, limit)
        size  == batches[CHOOSE n \in found : TRUE].size
        asked == IF maxBytes < limit - position THEN maxBytes ELSE limit - position
    IN  IF found = {} THEN [position |-> limit, length |-> 0]
        ELSE [position |-> position, length |-> IF asked < size THEN size ELSE asked]

\* read(): the index is consulted after the size was taken, and the scan reads
\* the file as it is then.
ReadSegment(base, batches, limit, index, offset, maxBytes) ==
    RangeAt(batches,
            ScannedTo(batches, Lookup(index, offset - base).position, limit, offset)[Len(batches)],
            limit, maxBytes)

\* The loop of deriveEndStateFromLog(): position and next offset after so many
\* turns.
WalkedTo(base, batches, from) ==
    LET walk[i \in 0..Len(batches)] ==
            IF i = 0 THEN [position |-> from, next |-> base]
            ELSE LET so   == walk[i - 1]
                     here == BatchAt(batches, so.position, SizeOf(batches))
                     n    == CHOOSE m \in here : TRUE
                 IN  IF here = {} THEN so
                     ELSE [position |-> so.position + batches[n].size,
                           next     |-> batches[n].last + 1]
    IN  walk

\* deriveEndStateFromLog(): from the last index entry to the end.
DeriveNext(base, batches, index) ==
    WalkedTo(base, batches, Lookup(index, MaxUint32).position)[Len(batches)].next

\* flushAndTrim(): the file is cut back to the entries in use.
TrimmedFile(index) == SubSeq(index.file, 1, index.count)

\* SealedSegment::open(), and what the index it opens has seen go wrong.
OpenSealed(base, batches, file, thrown) ==
    [base |-> base, batches |-> batches, size |-> SizeOf(batches),
     next |-> DeriveNext(base, batches, OpenIndex(file)),
     index |-> OpenIndex(file), since |-> 0, thrown |-> thrown]

\* The loop of recover() after so many turns: the index is built again from the
\* batches as long as they follow each other; the rest of the file is cut off.
RecoveredAfter(base, capacity, interval, batches) ==
    LET seg[i \in 0..Len(batches)] ==
            IF i = 0 THEN CreateSegment(base, capacity)
            ELSE LET so == seg[i - 1]
                 IN  IF Len(so.batches) < i - 1 \/ batches[i].first # so.next THEN so
                     ELSE Appended(so, interval, batches[i])
    IN  seg

Recovered(base, capacity, interval, batches) ==
    RecoveredAfter(base, capacity, interval, batches)[Len(batches)]

\* rewriteSegment(): the loop over the batches that are left; nothing says that
\* they follow each other.
RewrittenAfter(base, capacity, interval, batches) ==
    LET seg[i \in 0..Len(batches)] ==
            IF i = 0 THEN CreateSegment(base, capacity)
            ELSE Appended(seg[i - 1], interval, batches[i])
    IN  seg

Rewritten(base, capacity, interval, batches) ==
    RewrittenAfter(base, capacity, interval, batches)[Len(batches)]
=============================================================================
