----------------------------- MODULE OffsetStore -----------------------------
(***************************************************************************)
(* The store of committed positions (src/src/group/offset_store): a map in *)
(* memory that answers fetches, and one partition of __offsets that        *)
(* rebuilds it.  coordinatorPartition() puts every key of a group in one   *)
(* partition and partitions share nothing, so one is enough.               *)
(*                                                                         *)
(* commit() takes the log's append lock and then the map's lock, never     *)
(* both, so a commit is two atomic steps and other threads run in between, *)
(* some of them committing the same key: standalone clients, whose commits *)
(* no coordinator checks, and the retry of a commit that is still running. *)
(* A crash is a crash of the process: what was appended is still there.    *)
(*                                                                         *)
(* __offsets is a compacted topic.  While the broker serves, its partition *)
(* rolls and the cleaner drops records from sealed segments, which leaves  *)
(* holes between the offsets; LogCleaner models how it decides, here it    *)
(* drops anything it may.  A replay reads segment by segment and ends at   *)
(* the first read that finds nothing.                                      *)
(***************************************************************************)
EXTENDS Integers, Sequences, FiniteSets, FiniteSetsExt

CONSTANTS
    Writers,        \* threads that serve commits
    Keys,           \* CommitKeys: group, topic and partition
    Positions,      \* CommitValues
    Tombstone,      \* the null value forget() writes
    NoPosition,     \* no entry in the map
    NoOp,           \* no commit under way
    MaxLog          \* bound: records appended

ASSUME OffsetStoreAssumption ==
    /\ Tombstone \notin Positions
    /\ NoPosition \notin Positions
    /\ MaxLog \in Nat

VARIABLES
    log,        \* the records ever appended to the partition, in offset order
    kept,       \* the offsets of those the cleaner has left there
    bases,      \* the base offsets of its segments; the greatest is active
    committed,  \* committed_
    stage,      \* how far each writer's commit() has got
    op,         \* the record that commit() is writing
    phase,      \* whether the broker is down, replaying or serving
    cursor,     \* the offset replayPartition() will read next
    strayed     \* history: the keys whose map entry may differ from the log

partition == <<log, kept, bases>>
vars == <<partition, committed, stage, op, phase, cursor, strayed>>

-----------------------------------------------------------------------------
Record == [key : Keys, value : Positions \cup {Tombstone}]

NoPositions == [k \in Keys |-> NoPosition]

\* Mutant: a tombstone is stored like a position.
ValueOf(record) == record.value

\* What a record leaves in the map: a position, or nothing after a tombstone.
PositionOf(record) == IF record.value = Tombstone THEN NoPosition ELSE record.value

Apply(map, record) == [map EXCEPT ![record.key] = PositionOf(record)]

\* The offsets read from the segment with base b: up to the next base.
Segment(b) == {i \in 1..Len(log) : b <= i /\ \A c \in bases : b < c => i < c}

Active == Max(bases)

\* w is not the only thread between its append and its map update for its key.
Overlaps(w) == \E v \in Writers \ {w} : stage[v] = "appended" /\ op[v].key = op[w].key

-----------------------------------------------------------------------------
\* Mutant: the map is updated before the append.
AdmitPublishes(w, record) ==
    /\ phase = "serving"
    /\ stage[w] = "idle"
    /\ stage' = [stage EXCEPT ![w] = "admitted"]
    /\ op' = [op EXCEPT ![w] = record]
    /\ committed' = Apply(committed, record)
    /\ UNCHANGED <<partition, phase, cursor, strayed>>

\* The handler decided to call commit() or forget().  It holds no lock.
Admit(w, record) ==
    /\ phase = "serving"
    /\ stage[w] = "idle"
    /\ stage' = [stage EXCEPT ![w] = "admitted"]
    /\ op' = [op EXCEPT ![w] = record]
    /\ UNCHANGED <<partition, committed, phase, cursor, strayed>>

\* log->append(batch).  An append that overlaps no other of its key settles
\* which record is the last; two that overlap may reach the map in any order.
AppendRecord(w) ==
    /\ stage[w] = "admitted"
    /\ Len(log) < MaxLog
    /\ log' = Append(log, op[w])
    /\ kept' = kept \cup {Len(log) + 1}
    /\ stage' = [stage EXCEPT ![w] = "appended"]
    /\ strayed' = IF Overlaps(w) THEN strayed \cup {op[w].key} ELSE strayed \ {op[w].key}
    /\ UNCHANGED <<bases, committed, op, phase, cursor>>

\* The partition is not hosted, or the append throws: the client is told.
AppendFails(w) ==
    /\ stage[w] = "admitted"
    /\ stage' = [stage EXCEPT ![w] = "idle"]
    /\ op' = [op EXCEPT ![w] = NoOp]
    /\ UNCHANGED <<partition, committed, phase, cursor, strayed>>

\* committed_[key] = value, or committed_.erase(key): the client is answered.
Publish(w) ==
    /\ stage[w] = "appended"
    /\ committed' = Apply(committed, op[w])
    /\ stage' = [stage EXCEPT ![w] = "idle"]
    /\ op' = [op EXCEPT ![w] = NoOp]
    /\ UNCHANGED <<partition, phase, cursor, strayed>>

-----------------------------------------------------------------------------
\* The active segment is sealed, by its size or its age, unless it is empty.
Roll ==
    /\ phase = "serving"
    /\ Active <= Len(log)
    /\ bases' = bases \cup {Len(log) + 1}
    /\ UNCHANGED <<log, kept, committed, stage, op, phase, cursor, strayed>>

\* A newer record of the same key is in a sealed segment too.
Superseded(i) == \E j \in kept : i < j /\ j < Active /\ log[j].key = log[i].key

\* Segments are rewritten oldest first, and what is older than a record that is
\* dropped is dropped before it or with it.
NothingOlder(i, D) == \A j \in kept : j < i /\ log[j].key = log[i].key => j \in D

\* Mutant: tombstones are collected while older values are still there.
CleanEager(b, D) ==
    /\ phase = "serving"
    /\ b \in bases \ {Active}
    /\ D # {} /\ D \subseteq kept \cap Segment(b)
    /\ \A i \in D : Superseded(i) \/ log[i].value = Tombstone
    /\ kept' = kept \ D
    /\ bases' = IF kept \cap Segment(b) = D THEN bases \ {b} ELSE bases
    /\ UNCHANGED <<log, committed, stage, op, phase, cursor, strayed>>

\* The cleaner rewrites a sealed segment without the records D, or removes it
\* when nothing is left: values that were replaced, and aged tombstones.
Clean(b, D) ==
    /\ phase = "serving"
    /\ b \in bases \ {Active}
    /\ D # {} /\ D \subseteq kept \cap Segment(b)
    /\ \A i \in D : NothingOlder(i, D) /\ (Superseded(i) \/ log[i].value = Tombstone)
    /\ kept' = kept \ D
    /\ bases' = IF kept \cap Segment(b) = D THEN bases \ {b} ELSE bases
    /\ UNCHANGED <<log, committed, stage, op, phase, cursor, strayed>>

-----------------------------------------------------------------------------
\* The process dies, with commits half done or in the middle of a replay.
Crash ==
    /\ phase # "down"
    /\ phase' = "down"
    /\ committed' = NoPositions
    /\ stage' = [w \in Writers |-> "idle"]
    /\ op' = [w \in Writers |-> NoOp]
    /\ cursor' = Min(bases)
    /\ strayed' = {}
    /\ UNCHANGED partition

\* replay(), before the broker listens and before the cleaner starts: the map is
\* cleared, then rebuilt from the log start on.
BeginReplay ==
    /\ phase = "down"
    /\ phase' = "replaying"
    /\ committed' = NoPositions
    /\ cursor' = Min(bases)
    /\ UNCHANGED <<partition, stage, op, strayed>>

\* What Log::read(cursor) finds: the records from there on in the segment the
\* offset is routed to, and in no other.
Readable == {i \in kept \cap Segment(Max({b \in bases : b <= cursor})) : cursor <= i}

\* replayPartition(): last write wins, in log order.
ReplayRecord ==
    /\ phase = "replaying"
    /\ Readable # {}
    /\ LET i == Min(Readable) IN
        /\ committed' = Apply(committed, log[i])
        /\ cursor' = i + 1
    /\ UNCHANGED <<partition, stage, op, phase, strayed>>

\* An offset where a segment starts and the one before it, which the cleaner
\* rewrote or removed, no longer reaches: a read from there finds nothing.
Hole(c) == c \in bases \ {Min(bases)} /\ c - 1 \notin kept

Behind(i) == \E c \in bases : Hole(c) /\ c <= i

\* Mutant: the broker listens before its offsets are loaded.
ServeEarly ==
    /\ phase = "replaying"
    /\ phase' = "serving"
    /\ strayed' = {log[i].key : i \in {j \in kept : Behind(j)}}
    /\ UNCHANGED <<partition, committed, stage, op, cursor>>

\* The read is empty, at the end of the log or at a hole: the replay is over and
\* the broker starts to listen.
Serve ==
    /\ phase = "replaying"
    /\ Readable = {}
    /\ phase' = "serving"
    /\ strayed' = {log[i].key : i \in {j \in kept : Behind(j)}}
    /\ UNCHANGED <<partition, committed, stage, op, cursor>>

-----------------------------------------------------------------------------
\* The first life of the broker: __offsets was just created, empty.
Init ==
    /\ log = <<>>
    /\ kept = {}
    /\ bases = {1}
    /\ committed = NoPositions
    /\ stage = [w \in Writers |-> "idle"]
    /\ op = [w \in Writers |-> NoOp]
    /\ phase = "serving"
    /\ cursor = 1
    /\ strayed = {}

Next ==
    \/ \E w \in Writers :
        \/ \E record \in Record : Admit(w, record)
        \/ AppendRecord(w)
        \/ AppendFails(w)
        \/ Publish(w)
    \/ Roll
    \/ \E b \in bases : \E D \in SUBSET (kept \cap Segment(b)) : Clean(b, D)
    \/ Crash
    \/ BeginReplay
    \/ ReplayRecord
    \/ Serve

Spec == Init /\ [][Next]_vars

-----------------------------------------------------------------------------
(* Properties *)

\* The type invariant.
TypeOK ==
    /\ log \in Seq(Record)
    /\ kept \subseteq 1..Len(log)
    /\ bases \subseteq 1..(Len(log) + 1) /\ bases # {}
    /\ committed \in [Keys -> Positions \cup {NoPosition}]
    /\ stage \in [Writers -> {"idle", "admitted", "appended"}]
    /\ op \in [Writers -> Record \cup {NoOp}]
    /\ phase \in {"down", "replaying", "serving"}
    /\ cursor \in 1..(Len(log) + 1)
    /\ strayed \subseteq Keys

\* The records of s about key k at the offsets S, and the position they leave
\* for it: that of the last of them.
About(s, S, k) == {i \in S : s[i].key = k}

LastIn(s, S, k) ==
    IF About(s, S, k) = {} THEN NoPosition ELSE PositionOf(s[Max(About(s, S, k))])

\* The position the last commit of k left in the topic.
LastOf(k) == LastIn(log, 1..Len(log), k)

\* A commit of k is between its append and its map update.
InFlight(k) == \E w \in Writers : stage[w] = "appended" /\ op[w].key = k

\* Nothing is served that the log did not hold: a position commit() reports
\* was in the partition before it was in the map, whichever threads commit one
\* key together, whatever the cleaner dropped and wherever the broker crashed.
ServedWasLogged ==
    \A k \in Keys : committed[k] # NoPosition =>
        \E i \in DOMAIN log : log[i] = [key |-> k, value |-> committed[k]]

\* The map "IS the answer, and the topic is how it survives a restart"
\* (offset_store.hpp:17).  A fetch is answered with something else than the last
\* commit in the topic only for one of three reasons: a commit of that key is
\* half done; two of them overlapped, and none was made since; or the last
\* restart stopped its replay at a hole in front of that commit.  Neither the
\* cleaner nor a crash at any other point sets the two apart.
DifferencesAreExplained ==
    phase = "serving" =>
        \A k \in Keys : committed[k] # LastOf(k) => InFlight(k) \/ k \in strayed
=============================================================================
