------------------------------ MODULE Segment ------------------------------
(***************************************************************************)
(* The life of one segment (src/src/storage/segment): one thread appends,  *)
(* others read, and it is sealed, compacted, and opened again after the    *)
(* process died.                                                           *)
(*                                                                         *)
(* Log (src/src/storage/log) holds its segments lock shared over append()  *)
(* and over read(), and exclusively over the roll and the swap of a        *)
(* compacted segment.  So appends and reads interleave, and nothing else   *)
(* does.                                                                   *)
(***************************************************************************)
EXTENDS OffsetIndex

CONSTANTS
    Base,              \* the segment's base offset
    Capacities,        \* entries an index may have room for: maxIndexBytes at each start
    IndexInterval,     \* indexIntervalBytes
    MaxSegmentBytes,
    BatchShapes,       \* [records, size] of what producers send
    Readers, FetchSizes,
    NoBatch

\* Every record takes at least a byte, and what a segment holds fits into 32 bits.
ASSUME SegmentAssumption ==
    /\ Base \in Nat /\ IndexInterval \in Nat \ {0}
    /\ MaxSegmentBytes \in Nat \ {0} /\ MaxUint32 \in Nat
    /\ Capacities \subseteq Nat \ {0} /\ FetchSizes \subseteq Nat
    /\ BatchShapes \subseteq [records : Nat \ {0}, size : Nat \ {0}]
    /\ \A shape \in BatchShapes : /\ shape.records <= shape.size
                                  /\ MaxSegmentBytes + shape.size <= MaxUint32

VARIABLES
    phase,      \* "active", "sealed", "cleaned": sealed and compacted, or "damaged"
    seg,        \* what readers can see, and what the appender keeps for itself
    tail,       \* bytes that failed appends left in the file behind its size
    end,        \* Log's end offset; once sealed, where the next segment begins
    step,       \* how far append() is: "idle", "indexed", "written"
    incoming,   \* the batch it appends
    readers     \* of each reader how far its last read() got

segvars == <<phase, seg, tail, end, step, incoming, readers>>

Idle == [at |-> "idle"]
Unread == \A r \in Readers : readers[r].at \in {"idle", "done"}

SegmentInit ==
    /\ phase = "active"
    /\ \E capacity \in Capacities : seg = CreateSegment(Base, capacity)
    /\ tail = 0 /\ end = Base
    /\ step = "idle" /\ incoming = NoBatch
    /\ readers = [r \in Readers |-> Idle]

-----------------------------------------------------------------------------
(* append() *)

\* shouldRoll() without the age, which may always be enough.
MustRoll == seg.batches # <<>> /\ \/ seg.size >= MaxSegmentBytes
                                  \/ seg.index.count >= Len(seg.index.file)

\* Log::append() after maybeRoll(): the offsets are stamped, and the index gets
\* its entry before the bytes are written.
BeginAppend(shape) ==
    /\ phase = "active" /\ step = "idle" /\ ~MustRoll
    /\ incoming' = [first |-> end, last |-> end + shape.records - 1, size |-> shape.size]
    /\ seg' = AddIndexEntry(seg, IndexInterval, incoming')
    /\ step' = "indexed"
    /\ UNCHANGED <<phase, tail, end, readers>>

\* log_.append(): the bytes, then the size that admits them.
WriteBytes ==
    /\ step = "indexed"
    /\ seg' = WriteBatch(seg, incoming)
    /\ tail' = (IF tail > incoming.size THEN tail - incoming.size ELSE 0)
    /\ step' = "written"
    /\ UNCHANGED <<phase, end, incoming, readers>>

\* pwrite() fails and log_.append() throws: the producer gets an error, the entry
\* stays, and so does what was written before, where the next append begins.
FailToWrite ==
    /\ step = "indexed"
    /\ \E written \in 0..(incoming.size - 1) :
            tail' = IF written > tail THEN written ELSE tail
    /\ step' = "idle" /\ incoming' = NoBatch
    /\ UNCHANGED <<phase, seg, end, readers>>

\* nextOffset_ and the log's end offset are stored.
Publish ==
    /\ step = "written"
    /\ seg' = PublishBatch(seg, incoming)
    /\ end' = seg'.next
    /\ step' = "idle" /\ incoming' = NoBatch
    /\ UNCHANGED <<phase, tail, readers>>

-----------------------------------------------------------------------------
(* read() *)

\* Log::read(): below the end offset, so that the segment has it, or had.
StartRead(r) ==
    /\ phase # "damaged"
    /\ readers[r].at \in {"idle", "done"}
    /\ \E offset \in Base..(end - 1), maxBytes \in FetchSizes :
            readers' = [readers EXCEPT ![r] =
                            [at |-> "started", offset |-> offset, maxBytes |-> maxBytes]]
    /\ UNCHANGED <<phase, seg, tail, end, step, incoming>>

\* The one snapshot of the size.
TakeSize(r) ==
    /\ readers[r].at = "started"
    /\ readers' = [readers EXCEPT ![r] =
                        [at |-> "bounded", offset |-> @.offset, maxBytes |-> @.maxBytes,
                         limit |-> seg.size]]
    /\ UNCHANGED <<phase, seg, tail, end, step, incoming>>

\* The index is asked, and the scan only reads bytes below the limit, which no
\* append changes.
Scan(r) ==
    /\ readers[r].at = "bounded"
    /\ readers' = [readers EXCEPT ![r] =
                        [at |-> "done", offset |-> @.offset, maxBytes |-> @.maxBytes,
                         limit |-> @.limit,
                         range |-> ReadSegment(Base, seg.batches, @.limit, seg.index,
                                               @.offset, @.maxBytes)]]
    /\ UNCHANGED <<phase, seg, tail, end, step, incoming>>

-----------------------------------------------------------------------------
(* Sealing, compaction, restarts *)

\* What has something in it can be rolled, for whatever reason.
Rollable == phase = "active" /\ step = "idle" /\ seg.next # Base /\ Unread

\* ActiveSegment::seal() in Log::maybeRoll().
Seal ==
    /\ Rollable /\ tail = 0
    /\ phase' = "sealed"
    /\ seg' = OpenSealed(Base, seg.batches, TrimmedFile(seg.index), seg.thrown)
    /\ UNCHANGED <<tail, end, step, incoming, readers>>

\* The same, or a restart after a roll that was cut short, with the rest of a
\* failed append behind the last batch: the file is opened with its real length,
\* and the rest is read as a batch.  That may throw, in the middle of the roll or
\* of startup, or find a batch that was never sent.  Nothing is claimed from then on.
SealTheRest ==
    /\ Rollable /\ tail > 0
    /\ phase' = "damaged"
    /\ UNCHANGED <<seg, tail, end, step, incoming, readers>>

Forgotten ==
    /\ step' = "idle" /\ incoming' = NoBatch
    /\ readers' = [r \in Readers |-> Idle]

\* The process dies in the roll once the next segment exists, and startup opens
\* this one as it is, untrimmed.
DieInRoll ==
    /\ Rollable /\ tail = 0
    /\ phase' = "sealed"
    /\ seg' = OpenSealed(Base, seg.batches, seg.index.file, seg.thrown)
    /\ Forgotten
    /\ UNCHANGED <<tail, end>>

\* The process dies at any time and recover() builds the index again, with the
\* capacity that is configured then.  What follows the last batch is cut off.
DieAndRecover ==
    /\ phase = "active"
    /\ \E capacity \in Capacities :
            seg' = Recovered(Base, capacity, IndexInterval, seg.batches)
    /\ tail' = 0 /\ end' = seg'.next
    /\ Forgotten
    /\ UNCHANGED phase

\* The same for a segment that is not the newest.
DieAndReopen ==
    /\ phase \in {"sealed", "cleaned"}
    /\ seg' = OpenSealed(Base, seg.batches, seg.index.file, seg.thrown)
    /\ Forgotten
    /\ UNCHANGED <<phase, tail, end>>

\* What may be left of a batch: based at the first record kept, ending with the
\* last one.
LeftOf(batch) ==
    {b \in [first : batch.first..batch.last, last : batch.first..batch.last, size : 1..batch.size] :
        b.first <= b.last}

\* Which of the batches are still there, in their order.
Survivors(batches) ==
    {from \in UNION {[1..m -> DOMAIN batches] : m \in DOMAIN batches} :
        \A i, j \in DOMAIN from : i < j => from[i] < from[j]}

\* What may be left of some of the batches.
Thinned(batches) ==
    UNION {{kept \in [DOMAIN from -> UNION {LeftOf(batches[from[i]]) : i \in DOMAIN from}] :
                \A i \in DOMAIN from : kept[i] \in LeftOf(batches[from[i]])}
            : from \in Survivors(batches)}

\* The cleaner's rewriteSegment() and Log::replaceSegment().  Ranges handed out
\* are on the old file.
Compact ==
    /\ phase \in {"sealed", "cleaned"} /\ Unread
    /\ phase' = "cleaned"
    /\ \E kept \in Thinned(seg.batches) \ {seg.batches}, capacity \in Capacities :
            LET rewritten == Rewritten(Base, capacity, IndexInterval, kept)
            IN  seg' = OpenSealed(Base, kept, TrimmedFile(rewritten.index),
                                  seg.thrown \/ rewritten.thrown)
    /\ readers' = [r \in Readers |-> Idle]
    /\ UNCHANGED <<tail, end, step, incoming>>

SegmentNext ==
    \/ \E shape \in BatchShapes : BeginAppend(shape)
    \/ WriteBytes \/ FailToWrite \/ Publish
    \/ \E r \in Readers : StartRead(r) \/ TakeSize(r) \/ Scan(r)
    \/ Seal \/ SealTheRest \/ DieInRoll \/ DieAndRecover \/ DieAndReopen \/ Compact

SegmentSpec == SegmentInit /\ [][SegmentNext]_segvars

-----------------------------------------------------------------------------
(* What the index must not make a difference to *)

\* The index ends with an entry for a batch that was never written.
Dangling == seg.index.count > 0 /\ seg.index.file[seg.index.count].position = seg.size

\* What a read() should return: from the first batch that reaches the offset on,
\* that batch whole and no more than the file had.
RangeFor(read) ==
    LET reaching == {n \in DOMAIN seg.batches : seg.batches[n].last >= read.offset}
        range    == read.range
    IN  IF reaching = {} THEN range = [position |-> read.limit, length |-> 0]
        ELSE \E n \in reaching :
                /\ \A m \in reaching : n <= m
                /\ range.position = StartOf(seg.batches, n)
                /\ seg.batches[n].size <= range.length
                /\ range.length <= seg.batches[n].size \/ range.length <= read.maxBytes
                /\ range.position + range.length <= read.limit

\* A reader that saw the end offset at one moment, took the size of the file at a
\* later and looked into the index at a still later one, with appends going on
\* and failing all the while, gets the batch with its offset.
ReadersFindTheirBatch ==
    \A r \in Readers : readers[r].at = "done" => RangeFor(readers[r])

\* A sealed segment ends where its last batch does, although only what follows
\* the last index entry is looked at: unless the last append failed, and left an
\* entry (Dangling) or bytes (tail) behind the last batch.
EndsAsItDid ==
    /\ phase = "sealed" /\ ~Dangling => seg.next = end
    /\ phase = "cleaned" => seg.next = EndOf(Base, seg.batches)

\* A recovered index is what appending the same batches would have produced.
RebuiltAsItWas ==
    phase = "active" /\ step = "idle" /\ ~Dangling =>
        seg = Recovered(Base, Len(seg.index.file), IndexInterval, seg.batches)

\* The index may be behind, ahead, full, trimmed, preallocated or rebuilt: it
\* only ever saves time, and its invariants are never violated (append() would
\* throw).  Two cases are left out, both of a segment that is sealed after an
\* append failed: an entry for the batch that is not there has it taken for empty,
\* and bytes of that batch are taken for another.
IndexIsOnlyAHint ==
    ReadersFindTheirBatch /\ EndsAsItDid /\ RebuiltAsItWas /\ ~seg.thrown
=============================================================================
