-------------------------- MODULE OffsetStoreProofs --------------------------
(***************************************************************************)
(* Proofs about OffsetStore, for any threads, keys, positions and any      *)
(* length of the log, whichever threads commit the same keys.              *)
(***************************************************************************)
EXTENDS OffsetStore, WellFoundedInduction, TLAPS

\* A commit under way has a record, and there is none while the broker is down
\* or replaying.
OpsAreReal ==
    \A w \in Writers : stage[w] # "idle" => phase = "serving" /\ op[w] \in Record

\* Every record is in some segment.
Routable == \A i \in kept : \E b \in bases : b <= i

\* The offsets kept in front of c.
KeptBefore(c) == {i \in kept : i < c}

\* The cleaner leaves the last record of every key, or the key had no position.
CompactionIsExact == \A k \in Keys : LastIn(log, kept, k) = LastOf(k)

\* While it replays, the map is what the records read so far leave.
ReplayIsPrefix ==
    phase = "replaying" =>
        /\ \E b \in bases : b <= cursor
        /\ \A k \in Keys : committed[k] = LastIn(log, KeptBefore(cursor), k)

\* For a key that has not strayed at most one append waits for its map update,
\* and its record is the last one of the key; without one the map is up to date.
InStep(k) ==
    /\ \A v, w \in Writers :
            stage[v] = "appended" /\ stage[w] = "appended" /\ op[v].key = k /\ op[w].key = k => v = w
    /\ \A w \in Writers : stage[w] = "appended" /\ op[w].key = k => PositionOf(op[w]) = LastOf(k)
    /\ ~InFlight(k) => committed[k] = LastOf(k)

OthersInStep == phase = "serving" => \A k \in Keys \ strayed : InStep(k)

BaseInv == TypeOK /\ OpsAreReal /\ Routable

IndInv == BaseInv /\ CompactionIsExact /\ ReplayIsPrefix /\ OthersInStep

-----------------------------------------------------------------------------
(* Greatest and least offsets *)

\* A non-empty set of numbers below a bound has a greatest element.
LEMMA GreatestExists ==
    ASSUME NEW n \in Nat, NEW S \in SUBSET (1..n), S # {}
    PROVE  \E m \in S : \A i \in S : i <= m
<1> DEFINE T == {n - i : i \in S}
<1>1. \A i \in S : n - i \in Nat
  OBVIOUS
<1>2. T \in SUBSET Nat
  BY <1>1
<1>3. T # {}
  <2>1. PICK i \in S : TRUE
    OBVIOUS
  <2> QED
    BY <2>1
<1>4. PICK x \in T : \A y \in T : ~(<<y, x>> \in OpToRel(<, Nat))
  BY <1>2, <1>3, NatLessThanWellFounded, WFMin, Zenon
<1>5. \A y \in T : ~(y < x)
  BY <1>2, <1>4 DEF OpToRel
<1>6. PICK m \in S : x = n - m
  BY <1>4
<1>7. \A i \in S : ~(n - i < n - m)
  BY <1>5, <1>6
<1> HIDE DEF T
<1>8. S \subseteq Int
  <2>1. \A i \in 1..n : i \in Int
    BY SMT
  <2> QED
    BY <2>1, Zenon
<1> QED
  BY <1>6, <1>7, <1>8

\* A set of offsets or of bases.
Bounded(S) == \E n \in Nat : S \in SUBSET (1..n)

\* Max() of a non-empty set of offsets is its greatest element.
LEMMA MaxIsGreatest ==
    ASSUME NEW S, Bounded(S), S # {}
    PROVE  Max(S) \in S /\ Max(S) \in Int /\ \A i \in S : i \in Int /\ i <= Max(S)
<1>1. PICK n \in Nat : S \in SUBSET (1..n)
  BY DEF Bounded
<1>2. \A i \in S : i \in Int
  BY <1>1
<1>3. PICK m \in S : \A i \in S : m >= i
  BY <1>1, <1>2, GreatestExists
<1>4. Max(S) \in S /\ \A i \in S : Max(S) >= i
  BY <1>3 DEF Max
<1> QED
  BY <1>2, <1>4

\* Min() of a non-empty set of offsets is its least element.
LEMMA MinIsLeast ==
    ASSUME NEW S, Bounded(S), S # {}
    PROVE  Min(S) \in S /\ Min(S) \in Int /\ \A i \in S : i \in Int /\ Min(S) <= i
<1>1. S \in SUBSET Nat
  BY DEF Bounded
<1>2. PICK x \in S : \A y \in S : ~(<<y, x>> \in OpToRel(<, Nat))
  BY <1>1, NatLessThanWellFounded, WFMin, Zenon
<1>3. \A y \in S : ~(y < x)
  BY <1>1, <1>2 DEF OpToRel
<1>4. \A y \in S : x <= y
  BY <1>1, <1>3
<1>5. Min(S) \in S /\ \A y \in S : Min(S) <= y
  BY <1>4 DEF Min
<1>6. \A i \in S : i \in Int
  BY <1>1
<1> QED
  BY <1>5, <1>6

\* A part of a bounded set is bounded.
LEMMA BoundedPart == ASSUME NEW S, NEW T, Bounded(S), T \subseteq S PROVE Bounded(T)
BY DEF Bounded

-----------------------------------------------------------------------------
(* The last record of a key *)

\* What a record leaves in the map is a position or none.
LEMMA PositionType ==
    ASSUME NEW e \in Record
    PROVE  e.key \in Keys /\ PositionOf(e) \in Positions \cup {NoPosition}
BY DEF Record, PositionOf

\* The last of the records about a key, when there is one.
LEMMA LastIs ==
    ASSUME NEW s, NEW S, Bounded(S), NEW k, NEW m \in S, s[m].key = k,
           \A i \in S : s[i].key = k => i <= m
    PROVE  LastIn(s, S, k) = PositionOf(s[m])
<1> DEFINE A == About(s, S, k)
<1>1. m \in A /\ A \subseteq S /\ \A i \in A : i <= m
  BY DEF About
<1> HIDE DEF A
<1>2. Bounded(A)
  BY <1>1, BoundedPart
<1>3. Max(A) \in A /\ Max(A) \in Int /\ m \in Int /\ m <= Max(A)
  BY <1>1, <1>2, MaxIsGreatest
<1>4. Max(A) = m
  BY <1>1, <1>3
<1> QED
  BY <1>1, <1>4 DEF LastIn, A

\* No record about the key: no position.
LEMMA LastIsNone ==
    ASSUME NEW s, NEW S, NEW k, \A i \in S : s[i].key # k
    PROVE  LastIn(s, S, k) = NoPosition
<1>1. About(s, S, k) = {}
  BY DEF About
<1> QED
  BY <1>1 DEF LastIn

\* One of the two is the case.
LEMMA LastCases ==
    ASSUME NEW s, NEW S, Bounded(S), NEW k
    PROVE  \/ \A i \in S : s[i].key # k
           \/ \E m \in S : s[m].key = k /\ \A i \in S : s[i].key = k => i <= m
<1> DEFINE A == {i \in S : s[i].key = k}
<1>1. A \subseteq S
  OBVIOUS
<1>2. CASE A # {}
  <2>1. \A i \in S : s[i].key = k => i \in A
    OBVIOUS
  <2>2. \A i \in A : s[i].key = k
    OBVIOUS
  <2> HIDE DEF A
  <2>3. Max(A) \in A /\ \A i \in A : i <= Max(A)
    BY <1>1, <1>2, BoundedPart, MaxIsGreatest
  <2> QED
    BY <1>1, <2>1, <2>2, <2>3
<1> QED
  BY <1>2

\* LastIn() is a position or none.
LEMMA LastType ==
    ASSUME NEW s, NEW S, Bounded(S), \A i \in S : s[i] \in Record, NEW k
    PROVE  LastIn(s, S, k) \in Positions \cup {NoPosition}
<1>1. CASE \A i \in S : s[i].key # k
  BY <1>1, LastIsNone
<1>2. CASE \E m \in S : s[m].key = k /\ \A i \in S : s[i].key = k => i <= m
  <2>1. PICK m \in S : s[m].key = k /\ \A i \in S : s[i].key = k => i <= m
    BY <1>2
  <2>2. LastIn(s, S, k) = PositionOf(s[m])
    BY <2>1, LastIs
  <2> QED
    BY <2>2, PositionType
<1> QED
  BY <1>1, <1>2, LastCases

\* One record more, behind all others: it decides its own key and no other.
LEMMA LastStep ==
    ASSUME NEW s, NEW t, NEW S, Bounded(S), NEW i \in Nat \ {0}, NEW k,
           \A j \in S : j < i /\ t[j] = s[j]
    PROVE  LastIn(t, S \cup {i}, k) = IF t[i].key = k THEN PositionOf(t[i]) ELSE LastIn(s, S, k)
<1>1. Bounded(S \cup {i})
  <2>1. PICK n \in Nat : S \in SUBSET (1..n)
    BY DEF Bounded
  <2>2. S \cup {i} \in SUBSET (1..(n + i)) /\ n + i \in Nat
    BY <2>1
  <2> QED
    BY <2>2 DEF Bounded
<1>2. CASE t[i].key = k
  <2>1. \A j \in S \cup {i} : j <= i
    <3>1. \A j \in S : j \in Int
      BY DEF Bounded
    <3> QED
      BY <3>1
  <2>2. i \in S \cup {i}
    OBVIOUS
  <2>3. LastIn(t, S \cup {i}, k) = PositionOf(t[i])
    BY <1>1, <1>2, <2>1, <2>2, LastIs
  <2> QED
    BY <1>2, <2>3
<1>3. CASE t[i].key # k
  <2>1. CASE \A j \in S : s[j].key # k
    <3>1. LastIn(s, S, k) = NoPosition
      BY <2>1, LastIsNone
    <3>2. \A j \in S \cup {i} : t[j].key # k
      BY <1>3, <2>1
    <3>3. LastIn(t, S \cup {i}, k) = NoPosition
      BY <3>2, LastIsNone
    <3> QED
      BY <1>3, <3>1, <3>3
  <2>2. CASE \E m \in S : s[m].key = k /\ \A j \in S : s[j].key = k => j <= m
    <3>1. PICK m \in S : s[m].key = k /\ \A j \in S : s[j].key = k => j <= m
      BY <2>2
    <3>2. LastIn(s, S, k) = PositionOf(s[m])
      BY <3>1, LastIs
    <3>3. m \in S \cup {i} /\ t[m].key = k /\ \A j \in S \cup {i} : t[j].key = k => j <= m
      BY <1>3, <3>1
    <3>4. LastIn(t, S \cup {i}, k) = PositionOf(t[m])
      BY <1>1, <3>3, LastIs
    <3> QED
      BY <1>3, <3>1, <3>2, <3>4
  <2> QED
    BY <2>1, <2>2, LastCases
<1> QED
  BY <1>2, <1>3

\* What the cleaner drops leaves every key its position.
LEMMA LastDrop ==
    ASSUME NEW s, NEW S, Bounded(S), NEW D \in SUBSET S, NEW k,
           \A i \in D : /\ \A j \in S : j < i /\ s[j].key = s[i].key => j \in D
                        /\ \/ \E j \in S : i < j /\ s[j].key = s[i].key
                           \/ s[i].value = Tombstone
    PROVE  LastIn(s, S \ D, k) = LastIn(s, S, k)
<1>1. CASE \A i \in S : s[i].key # k
  <2>1. \A i \in S \ D : s[i].key # k
    BY <1>1
  <2>2. LastIn(s, S \ D, k) = NoPosition
    BY <2>1, LastIsNone
  <2> QED
    BY <1>1, <2>2, LastIsNone
<1>2. CASE \E m \in S : s[m].key = k /\ \A i \in S : s[i].key = k => i <= m
  <2>1. PICK m \in S : s[m].key = k /\ \A i \in S : s[i].key = k => i <= m
    BY <1>2
  <2>2. LastIn(s, S, k) = PositionOf(s[m])
    BY <2>1, LastIs
  <2>3. Bounded(S \ D) /\ \A i \in S : i \in Int
    <3>1. S \ D \subseteq S
      OBVIOUS
    <3> QED
      BY <3>1, BoundedPart DEF Bounded
  <2>4. CASE m \notin D
    <3>1. m \in S \ D /\ \A i \in S \ D : s[i].key = k => i <= m
      BY <2>1, <2>4
    <3>2. LastIn(s, S \ D, k) = PositionOf(s[m])
      BY <2>1, <2>3, <3>1, LastIs
    <3> QED
      BY <2>2, <3>2
  <2>5. CASE m \in D
    <3>1. ~\E j \in S : m < j /\ s[j].key = s[m].key
      BY <2>1, <2>3
    <3>2. s[m].value = Tombstone
      BY <2>5, <3>1
    <3>3. \A i \in S \ D : s[i].key # k
      <4>1. SUFFICES ASSUME NEW i \in S, s[i].key = k PROVE i \in D
        OBVIOUS
      <4>2. s[i].key = s[m].key /\ (i < m \/ i = m)
        BY <2>1, <2>3, <4>1
      <4> QED
        BY <2>5, <4>2
    <3>4. LastIn(s, S \ D, k) = NoPosition
      BY <3>3, LastIsNone
    <3> QED
      BY <2>2, <3>2, <3>4 DEF PositionOf
  <2> QED
    BY <2>4, <2>5
<1> QED
  BY <1>1, <1>2, LastCases

-----------------------------------------------------------------------------
(* Types, segments and records *)

\* The offsets kept and the bases are bounded.
LEMMA PartitionBounded ==
    ASSUME TypeOK
    PROVE  /\ Bounded(kept) /\ Bounded(bases) /\ Bounded(1..Len(log)) /\ Len(log) \in Nat
           /\ bases # {} /\ \A i \in kept : i \in 1..Len(log) /\ log[i] \in Record
<1>1. /\ log \in Seq(Record) /\ kept \in SUBSET (1..Len(log))
      /\ bases \in SUBSET (1..(Len(log) + 1)) /\ bases # {}
  BY DEF TypeOK
<1>2. Len(log) \in Nat /\ Len(log) + 1 \in Nat
  BY <1>1
<1>3. Bounded(kept) /\ Bounded(1..Len(log))
  BY <1>1, <1>2 DEF Bounded
<1>4. Bounded(bases)
  BY <1>1, <1>2 DEF Bounded
<1>5. \A i \in kept : i \in 1..Len(log) /\ log[i] \in Record
  BY <1>1
<1> QED
  BY <1>1, <1>2, <1>3, <1>4, <1>5

\* The active segment and the log start are bases.
LEMMA EndsAreBases ==
    ASSUME TypeOK
    PROVE  /\ Active \in bases /\ Min(bases) \in bases
           /\ \A b \in bases : Min(bases) <= b /\ b <= Active
BY PartitionBounded, MaxIsGreatest, MinIsLeast DEF Active

\* What a replay reads next is the first record kept behind the cursor.
LEMMA NextIsFirst ==
    ASSUME TypeOK, NEW b \in bases, b <= cursor, Readable # {}
    PROVE  /\ Min(Readable) \in kept /\ cursor <= Min(Readable)
           /\ \A i \in kept : cursor <= i => Min(Readable) <= i
<1> DEFINE B == {c \in bases : c <= cursor}
           base == Max(B)
<1>1. B \subseteq bases /\ b \in B /\ \A c \in bases : c \in B <=> c <= cursor
  OBVIOUS
<1> HIDE DEF B
<1>2. base \in B /\ base \in Int /\ \A c \in B : c <= base
  BY <1>1, PartitionBounded, BoundedPart, MaxIsGreatest
<1>3. Readable = {i \in kept \cap Segment(base) : cursor <= i}
  BY DEF Readable, B
<1>4. Readable \subseteq kept
  BY <1>3
<1>5. Min(Readable) \in Readable /\ \A i \in Readable : Min(Readable) <= i
  BY <1>4, PartitionBounded, BoundedPart, MinIsLeast
<1>6. /\ cursor \in Int /\ \A c \in bases : c \in Int
      /\ \A i \in kept : i \in 1..Len(log) /\ i \in Int
  BY PartitionBounded DEF TypeOK
<1> DEFINE m == Min(Readable)
<1>7. m \in kept /\ cursor <= m /\ m \in Segment(base)
  BY <1>3, <1>5
<1>8. ASSUME NEW i \in kept, cursor <= i, i < m PROVE i \in Readable
  <2> HIDE DEF m, base
  <2>1. base <= i
    BY <1>1, <1>2, <1>6, <1>8
  <2>2. \A c \in bases : base < c => i < c
    BY <1>6, <1>7, <1>8 DEF Segment
  <2> QED
    BY <1>3, <1>6, <1>8, <2>1, <2>2 DEF Segment
<1> HIDE DEF base
<1>9. \A i \in kept : cursor <= i => m <= i
  BY <1>5, <1>6, <1>7, <1>8
<1> QED
  BY <1>7, <1>9

\* Where a replay finds nothing more, every record left is behind a hole.
LEMMA RestIsBehind ==
    ASSUME TypeOK, NEW b \in bases, b <= cursor, Readable = {}, NEW i \in kept, cursor <= i
    PROVE  Behind(i)
<1> DEFINE B == {c \in bases : c <= cursor}
           base == Max(B)
<1>1. B \subseteq bases /\ b \in B /\ \A c \in bases : c \in B <=> c <= cursor
  OBVIOUS
<1> HIDE DEF B
<1>2. base \in B /\ base \in Int /\ \A c \in B : c <= base
  BY <1>1, PartitionBounded, BoundedPart, MaxIsGreatest
<1>3. \A j \in kept : cursor <= j => j \notin Segment(base)
  BY DEF Readable, B
<1>4. /\ cursor \in Int /\ \A c \in bases : c \in Int
      /\ \A j \in kept : j \in 1..Len(log) /\ j \in Int
  BY PartitionBounded DEF TypeOK
<1> HIDE DEF base
<1> DEFINE N == {c \in bases : base < c}
           next == Min(N)
<1>5. N \subseteq bases /\ \A c \in bases : c \in N <=> base < c
  OBVIOUS
<1> HIDE DEF N
<1>6. PICK c \in N : c <= i
  <2>1. base <= i
    BY <1>1, <1>2, <1>4
  <2>2. \E c \in bases : base < c /\ c <= i
    BY <1>2, <1>3, <1>4, <2>1 DEF Segment
  <2> QED
    BY <1>5, <2>2
<1>7. next \in N /\ \A d \in N : next <= d
  BY <1>5, <1>6, PartitionBounded, BoundedPart, MinIsLeast
<1> HIDE DEF next
<1>8. next \in bases /\ base < next /\ cursor < next /\ next <= i
  BY <1>1, <1>2, <1>4, <1>5, <1>6, <1>7
<1>9. next # Min(bases)
  BY <1>1, <1>2, <1>4, <1>8, EndsAreBases
<1>10. next - 1 \notin kept
  <2>1. SUFFICES ASSUME next - 1 \in kept PROVE FALSE
    OBVIOUS
  <2>2. cursor <= next - 1 /\ base <= next - 1
    BY <1>1, <1>2, <1>4, <1>8
  <2>3. \A d \in bases : base < d => next - 1 < d
    BY <1>4, <1>5, <1>7, <1>8
  <2>4. next - 1 \in Segment(base)
    BY <1>4, <2>1, <2>2, <2>3 DEF Segment
  <2> QED
    BY <1>3, <2>1, <2>2, <2>4
<1> QED
  BY <1>8, <1>9, <1>10 DEF Behind, Hole

\* Applying a record keeps the map well typed, and changes its key only.
LEMMA ApplyType ==
    ASSUME NEW map \in [Keys -> Positions \cup {NoPosition}], NEW e \in Record
    PROVE  /\ Apply(map, e) \in [Keys -> Positions \cup {NoPosition}]
           /\ \A k \in Keys : Apply(map, e)[k] = IF k = e.key THEN PositionOf(e) ELSE map[k]
BY PositionType DEF Apply

-----------------------------------------------------------------------------
(* What holds for every key *)

\* An append, with the types of what it changes.
LEMMA AppendTypes ==
    ASSUME BaseInv, NEW w \in Writers, AppendRecord(w)
    PROVE  /\ phase = "serving" /\ op[w] \in Record
           /\ log' \in Seq(Record) /\ Len(log') = Len(log) + 1 /\ Len(log) \in Nat
           /\ log'[Len(log) + 1] = op[w]
           /\ \A i \in 1..Len(log) : log'[i] = log[i]
<1>1. /\ phase = "serving" /\ op[w] \in Record /\ log \in Seq(Record)
      /\ log' = Append(log, op[w])
  BY DEF BaseInv, OpsAreReal, TypeOK, AppendRecord
<1> QED
  BY <1>1

\* Cleaning a segment keeps a base in front of every record left.
LEMMA CleanRoutable ==
    ASSUME BaseInv, NEW b \in bases, NEW D, Clean(b, D)
    PROVE  Routable'
<1>1. /\ kept' = kept \ D
      /\ bases' = IF kept \cap Segment(b) = D THEN bases \ {b} ELSE bases
  BY DEF Clean
<1>2. SUFFICES ASSUME NEW i \in kept, i \notin D PROVE \E c \in bases' : c <= i
  BY <1>1 DEF Routable
<1>3. PICK c \in bases : c <= i
  BY DEF BaseInv, Routable
<1>4. CASE c \in bases'
  BY <1>3, <1>4
<1>5. CASE c \notin bases'
  <2>1. c = b /\ bases' = bases \ {b} /\ kept \cap Segment(b) = D
    BY <1>1, <1>5
  <2>2. i \notin Segment(b) /\ i \in 1..Len(log)
    BY <1>2, <2>1, PartitionBounded DEF BaseInv
  <2>3. PICK d \in bases : b < d /\ ~(i < d)
    BY <1>3, <2>1, <2>2 DEF Segment
  <2>4. d \in bases' /\ d \in Int /\ b \in Int /\ i \in Int
    BY <2>1, <2>2, <2>3 DEF BaseInv, TypeOK
  <2> QED
    BY <2>3, <2>4
<1> QED
  BY <1>4, <1>5

\* BaseInv holds at the start and every step keeps it.
LEMMA BaseInductive ==
    /\ Init => BaseInv
    /\ BaseInv /\ [Next]_vars => BaseInv'
<1>1. ASSUME Init PROVE BaseInv
  <2>1. Len(log) = 0 /\ log \in Seq(Record)
    BY <1>1 DEF Init
  <2> QED
    BY <1>1, <2>1 DEF Init, BaseInv, TypeOK, OpsAreReal, Routable, NoPositions
<1>2. ASSUME BaseInv, [Next]_vars PROVE BaseInv'
  <2>0. /\ TypeOK /\ OpsAreReal /\ Routable
        /\ log \in Seq(Record) /\ Len(log) \in Nat
    BY <1>2 DEF BaseInv, TypeOK
  <2>1. ASSUME NEW w \in Writers, NEW record \in Record, Admit(w, record) PROVE BaseInv'
    BY <2>0, <2>1 DEF Admit, partition, BaseInv, TypeOK, OpsAreReal, Routable
  <2>2. ASSUME NEW w \in Writers, AppendRecord(w) PROVE BaseInv'
    <3>1. /\ op[w] \in Record /\ phase = "serving" /\ Len(log') = Len(log) + 1
          /\ log' \in Seq(Record)
      BY <1>2, <2>2, AppendTypes
    <3>2. /\ cursor' \in 1..(Len(log') + 1) /\ kept' \subseteq 1..Len(log')
          /\ bases' \subseteq 1..(Len(log') + 1) /\ bases' # {}
      <4>1. /\ cursor' = cursor /\ bases' = bases /\ kept' = kept \cup {Len(log) + 1}
            /\ cursor \in 1..(Len(log) + 1) /\ kept \subseteq 1..Len(log)
            /\ bases \subseteq 1..(Len(log) + 1) /\ bases # {}
        BY <2>0, <2>2 DEF AppendRecord, TypeOK
      <4> DEFINE n == Len(log)
      <4>2. n \in Nat /\ Len(log') = n + 1
        BY <2>0, <3>1
      <4> HIDE DEF n
      <4>3. 1..n \subseteq 1..(n + 1) /\ 1..(n + 1) \subseteq 1..(n + 1 + 1) /\ n + 1 \in 1..(n + 1)
        BY <4>2
      <4>4. cursor \in 1..(n + 1) /\ kept \subseteq 1..n /\ bases \subseteq 1..(n + 1)
        BY <4>1 DEF n
      <4>5. kept' = kept \cup {n + 1}
        BY <4>1 DEF n
      <4> QED
        BY <4>1, <4>2, <4>3, <4>4, <4>5
    <3>3. TypeOK'
      <4>1. op[w].key \in Keys
        BY <3>1, PositionType
      <4>2. strayed' \subseteq Keys
        BY <2>0, <2>2, <4>1 DEF AppendRecord, TypeOK
      <4> QED
        BY <2>0, <2>2, <3>1, <3>2, <4>2 DEF AppendRecord, TypeOK
    <3>4. OpsAreReal'
      BY <2>0, <2>2, <3>1 DEF AppendRecord, TypeOK, OpsAreReal
    <3>5. Routable'
      <4>1. PICK b \in bases : TRUE
        BY <2>0 DEF TypeOK
      <4>2. b \in 1..(Len(log) + 1)
        BY <2>0, <4>1 DEF TypeOK
      <4>3. b <= Len(log) + 1
        BY <2>0, <4>2
      <4> QED
        BY <2>0, <2>2, <4>1, <4>3 DEF AppendRecord, Routable
    <3> QED
      BY <3>3, <3>4, <3>5 DEF BaseInv
  <2>3. ASSUME NEW w \in Writers, AppendFails(w) PROVE BaseInv'
    BY <2>0, <2>3 DEF AppendFails, partition, BaseInv, TypeOK, OpsAreReal, Routable
  <2>4. ASSUME NEW w \in Writers, Publish(w) PROVE BaseInv'
    <3>1. op[w] \in Record /\ phase = "serving"
      BY <2>0, <2>4 DEF Publish, OpsAreReal
    <3>2. committed' \in [Keys -> Positions \cup {NoPosition}]
      BY <2>0, <2>4, <3>1, ApplyType DEF Publish, TypeOK
    <3> QED
      BY <2>0, <2>4, <3>2 DEF Publish, partition, BaseInv, TypeOK, OpsAreReal, Routable
  <2>5. CASE Roll
    <3>1. bases' \subseteq 1..(Len(log') + 1) /\ bases' # {}
      <4>1. /\ log' = log /\ bases' = bases \cup {Len(log) + 1}
            /\ bases \subseteq 1..(Len(log) + 1)
        BY <2>0, <2>5 DEF Roll, TypeOK
      <4>2. Len(log) + 1 \in 1..(Len(log) + 1)
        BY <2>0
      <4> QED
        BY <4>1, <4>2
    <3> QED
      BY <2>0, <2>5, <3>1 DEF Roll, BaseInv, TypeOK, OpsAreReal, Routable
  <2>6. ASSUME NEW b \in bases, NEW D \in SUBSET (kept \cap Segment(b)), Clean(b, D)
        PROVE BaseInv'
    <3>1. Routable'
      BY <1>2, <2>6, CleanRoutable
    <3>2. Active \in bases'
      BY <2>0, <2>6, EndsAreBases DEF Clean
    <3>3. TypeOK'
      BY <2>0, <2>6, <3>2 DEF Clean, TypeOK
    <3> QED
      BY <2>0, <2>6, <3>1, <3>3 DEF Clean, BaseInv, OpsAreReal
  <2>7. CASE Crash
    <3>1. cursor' \in 1..(Len(log') + 1)
      BY <2>0, <2>7, EndsAreBases DEF Crash, partition, TypeOK
    <3> QED
      BY <2>0, <2>7, <3>1 DEF Crash, partition, NoPositions, BaseInv, TypeOK, OpsAreReal, Routable
  <2>8. CASE BeginReplay
    <3>1. cursor' \in 1..(Len(log') + 1)
      BY <2>0, <2>8, EndsAreBases DEF BeginReplay, partition, TypeOK
    <3> QED
      BY <2>0, <2>8, <3>1 DEF BeginReplay, partition, NoPositions, BaseInv, TypeOK, OpsAreReal,
                              Routable
  <2>9. CASE ReplayRecord
    <3>1. Min(Readable) \in kept
      <4>1. Readable \subseteq kept /\ Readable # {}
        BY <2>9 DEF ReplayRecord, Readable
      <4> QED
        BY <2>0, <4>1, PartitionBounded, BoundedPart, MinIsLeast
    <3>2. Min(Readable) \in 1..Len(log) /\ log[Min(Readable)] \in Record
      BY <2>0, <3>1, PartitionBounded
    <3>3. committed' \in [Keys -> Positions \cup {NoPosition}]
      BY <2>0, <2>9, <3>2, ApplyType DEF ReplayRecord, TypeOK
    <3>4. cursor' \in 1..(Len(log') + 1)
      <4>1. cursor' = Min(Readable) + 1 /\ log' = log
        BY <2>9 DEF ReplayRecord, partition
      <4> QED
        BY <2>0, <3>2, <4>1
    <3> QED
      BY <2>0, <2>9, <3>3, <3>4 DEF ReplayRecord, partition, BaseInv, TypeOK, OpsAreReal, Routable
  <2>10. CASE Serve
    <3>1. strayed' \subseteq Keys
      <4>1. \A i \in kept : log[i].key \in Keys
        BY <2>0, PartitionBounded, PositionType
      <4> QED
        BY <2>10, <4>1 DEF Serve
    <3> QED
      BY <2>0, <2>10, <3>1 DEF Serve, partition, BaseInv, TypeOK, OpsAreReal, Routable
  <2>11. CASE UNCHANGED vars
    BY <2>0, <2>11 DEF vars, partition, BaseInv, TypeOK, OpsAreReal, Routable
  <2> QED
    BY <1>2, <2>1, <2>2, <2>3, <2>4, <2>5, <2>6, <2>7, <2>8, <2>9, <2>10, <2>11 DEF Next
<1> QED
  BY <1>1, <1>2

\* Every reachable state of the store is well typed.
THEOREM TypeCorrect == Spec => []TypeOK
<1>1. BaseInv => TypeOK
  BY DEF BaseInv
<1> QED
  BY <1>1, BaseInductive, PTL DEF Spec

\* Nothing is served that the log did not hold, whichever threads commit the
\* same keys, whatever the cleaner drops and wherever the broker crashes.
THEOREM ServedIsLogged == Spec => []ServedWasLogged
<1> DEFINE Inv == BaseInv /\ ServedWasLogged
               /\ \A w \in Writers : stage[w] = "appended" =>
                        \E i \in 1..Len(log) : log[i] = op[w]
<1>0. ASSUME BaseInv
      PROVE  /\ log \in Seq(Record) /\ Len(log) \in Nat /\ DOMAIN log = 1..Len(log)
             /\ committed \in [Keys -> Positions \cup {NoPosition}]
             /\ stage \in [Writers -> {"idle", "admitted", "appended"}]
             /\ op \in [Writers -> Record \cup {NoOp}]
  BY <1>0 DEF BaseInv, TypeOK
<1>1. Init => Inv
  <2>1. ASSUME Init PROVE ServedWasLogged
    BY <2>1 DEF Init, ServedWasLogged, NoPositions
  <2>2. ASSUME Init PROVE \A w \in Writers : stage[w] # "appended"
    BY <2>2 DEF Init
  <2> QED
    BY <2>1, <2>2, BaseInductive
<1>2. ASSUME Inv, [Next]_vars PROVE Inv'
  <2>0. BaseInv'
    BY <1>2, BaseInductive
  <2>1. ASSUME log' = log, committed' = committed,
               \A w \in Writers : stage'[w] = "appended" => stage[w] = "appended" /\ op'[w] = op[w]
        PROVE  Inv'
    BY <1>2, <2>0, <2>1 DEF ServedWasLogged
  <2>2. ASSUME NEW w \in Writers, NEW record \in Record, Admit(w, record) PROVE Inv'
    BY <1>0, <1>2, <2>1, <2>2 DEF Admit, partition
  <2>3. ASSUME NEW w \in Writers, AppendRecord(w) PROVE Inv'
    <3>1. /\ op[w] \in Record /\ Len(log') = Len(log) + 1 /\ Len(log) \in Nat
          /\ log'[Len(log) + 1] = op[w] /\ \A i \in 1..Len(log) : log'[i] = log[i]
          /\ log' \in Seq(Record)
      BY <1>2, <2>3, AppendTypes
    <3>2. /\ committed' = committed /\ op' = op /\ stage' = [stage EXCEPT ![w] = "appended"]
      BY <2>3 DEF AppendRecord
    <3>3. /\ \A i \in 1..Len(log) : i \in 1..Len(log') /\ log'[i] = log[i]
          /\ \E i \in 1..Len(log') : log'[i] = op[w]
      BY <3>1
    <3>4. DOMAIN log' = 1..Len(log') /\ DOMAIN log = 1..Len(log)
      BY <1>0, <1>2, <3>1
    <3>5. ServedWasLogged'
      BY <1>2, <3>2, <3>3, <3>4 DEF ServedWasLogged
    <3>6. \A v \in Writers : stage'[v] = "appended" => \E i \in 1..Len(log') : log'[i] = op'[v]
      BY <1>0, <1>2, <3>2, <3>3
    <3> QED
      BY <2>0, <3>5, <3>6
  <2>4. ASSUME NEW w \in Writers, AppendFails(w) PROVE Inv'
    BY <1>0, <1>2, <2>1, <2>4 DEF AppendFails, partition
  <2>5. ASSUME NEW w \in Writers, Publish(w) PROVE Inv'
    <3>1. op[w] \in Record /\ log' = log /\ committed' = Apply(committed, op[w])
      BY <1>2, <2>5 DEF Publish, partition, BaseInv, OpsAreReal
    <3>2. \A k \in Keys : committed'[k] = IF k = op[w].key THEN PositionOf(op[w]) ELSE committed[k]
      BY <1>0, <1>2, <3>1, ApplyType
    <3>3. PositionOf(op[w]) # NoPosition =>
              op[w] = [key |-> op[w].key, value |-> PositionOf(op[w])]
      BY <3>1 DEF PositionOf, Record
    <3>4. PICK i \in DOMAIN log : log[i] = op[w]
      BY <1>0, <1>2, <2>5 DEF Publish
    <3>5. ServedWasLogged'
      BY <1>2, <3>1, <3>2, <3>3, <3>4 DEF ServedWasLogged
    <3> QED
      BY <1>0, <1>2, <2>0, <2>5, <3>5 DEF Publish, partition
  <2>6. CASE Roll
    BY <1>0, <1>2, <2>1, <2>6 DEF Roll
  <2>7. ASSUME NEW b \in bases, NEW D \in SUBSET (kept \cap Segment(b)), Clean(b, D) PROVE Inv'
    BY <1>0, <1>2, <2>1, <2>7 DEF Clean
  <2>8. CASE Crash \/ BeginReplay
    <3>1. log' = log /\ committed' = NoPositions
      BY <2>8 DEF Crash, BeginReplay, partition
    <3>2. ServedWasLogged'
      BY <3>1 DEF ServedWasLogged, NoPositions
    <3>3. \A w \in Writers : stage'[w] # "appended"
      BY <1>0, <1>2, <2>8 DEF Crash, BeginReplay, BaseInv, OpsAreReal
    <3> QED
      BY <2>0, <3>2, <3>3
  <2>9. CASE ReplayRecord
    <3> DEFINE i == Min(Readable)
    <3>1. i \in kept
      <4>1. Readable \subseteq kept /\ Readable # {}
        BY <2>9 DEF ReplayRecord, Readable
      <4> QED
        BY <1>2, <4>1, PartitionBounded, BoundedPart, MinIsLeast DEF BaseInv
    <3>2. i \in 1..Len(log) /\ log[i] \in Record
      BY <1>2, <3>1, PartitionBounded DEF BaseInv
    <3>3. /\ committed' = Apply(committed, log[i]) /\ log' = log
          /\ stage' = stage /\ op' = op
      BY <2>9 DEF ReplayRecord, partition
    <3> HIDE DEF i
    <3>4. \A k \in Keys : committed'[k] = IF k = log[i].key THEN PositionOf(log[i])
                                          ELSE committed[k]
      BY <1>0, <1>2, <3>2, <3>3, ApplyType
    <3>5. PositionOf(log[i]) # NoPosition =>
              log[i] = [key |-> log[i].key, value |-> PositionOf(log[i])]
      BY <3>2 DEF PositionOf, Record
    <3>6. i \in DOMAIN log
      BY <1>0, <1>2, <3>2
    <3>7. ServedWasLogged'
      BY <1>2, <3>3, <3>4, <3>5, <3>6 DEF ServedWasLogged
    <3> QED
      BY <1>2, <2>0, <3>3, <3>7
  <2>10. CASE Serve
    BY <1>0, <1>2, <2>1, <2>10 DEF Serve, partition
  <2>11. CASE UNCHANGED vars
    BY <1>0, <1>2, <2>1, <2>11 DEF vars, partition
  <2> QED
    BY <1>2, <2>2, <2>3, <2>4, <2>5, <2>6, <2>7, <2>8, <2>9, <2>10, <2>11 DEF Next
<1>3. Inv => ServedWasLogged
  OBVIOUS
<1> QED
  BY <1>1, <1>2, <1>3, PTL DEF Spec

-----------------------------------------------------------------------------
(* What holds for the keys that have not strayed *)

\* The parts of IndInv about records and map stay true in a step that leaves the
\* log, the map, the phase and the appended records alone.
LEMMA QuietStep ==
    ASSUME IndInv, BaseInv', log' = log, kept' = kept, bases' = bases, committed' = committed,
           phase' = phase, cursor' = cursor, strayed' = strayed,
           \A w \in Writers : stage[w] = "appended" <=> stage'[w] = "appended",
           \A w \in Writers : stage[w] = "appended" => op'[w] = op[w]
    PROVE  IndInv'
<1>1. \A k : LastOf(k)' = LastOf(k)
  BY DEF LastOf
<1>2. \A k : InFlight(k)' <=> InFlight(k)
  BY DEF InFlight
<1>3. CompactionIsExact' /\ ReplayIsPrefix'
  BY <1>1 DEF IndInv, CompactionIsExact, ReplayIsPrefix, KeptBefore
<1>4. \A k : InStep(k) => InStep(k)'
  BY <1>1, <1>2 DEF InStep
<1>5. OthersInStep'
  BY <1>4 DEF IndInv, OthersInStep
<1> QED
  BY <1>3, <1>5 DEF IndInv

\* An append that overlaps no other of its key makes its record the last one;
\* the other keys see nothing of it.
LEMMA AppendKeepsInv ==
    ASSUME IndInv, BaseInv', NEW w \in Writers, AppendRecord(w)
    PROVE  IndInv'
<1>1. /\ phase = "serving" /\ op[w] \in Record /\ Len(log') = Len(log) + 1 /\ Len(log) \in Nat
      /\ log'[Len(log) + 1] = op[w] /\ \A i \in 1..Len(log) : log'[i] = log[i]
  BY AppendTypes DEF IndInv
<1>2. /\ committed' = committed /\ op' = op /\ phase' = phase
      /\ stage' = [stage EXCEPT ![w] = "appended"] /\ stage[w] = "admitted"
      /\ stage \in [Writers -> {"idle", "admitted", "appended"}]
      /\ kept' = kept \cup {Len(log) + 1}
      /\ strayed' = IF Overlaps(w) THEN strayed \cup {op[w].key} ELSE strayed \ {op[w].key}
  BY DEF AppendRecord, IndInv, BaseInv, TypeOK
<1> DEFINE n == Len(log) + 1
           e == op[w]
<1>3. /\ Bounded(kept) /\ Bounded(1..Len(log)) /\ n \in Nat \ {0}
      /\ \A j \in kept : j < n /\ log'[j] = log[j]
      /\ \A j \in 1..Len(log) : j < n /\ log'[j] = log[j]
      /\ (1..Len(log)) \cup {n} = 1..Len(log')
  BY <1>1, PartitionBounded DEF IndInv, BaseInv
<1> HIDE DEF n
<1>4. \A k : LastOf(k)' = IF e.key = k THEN PositionOf(e) ELSE LastOf(k)
  <2>1. \A k : LastIn(log', (1..Len(log)) \cup {n}, k) =
                IF log'[n].key = k THEN PositionOf(log'[n]) ELSE LastIn(log, 1..Len(log), k)
    BY <1>3, LastStep
  <2> QED
    BY <1>1, <1>3, <2>1 DEF LastOf, n
<1>5. \A k : LastIn(log', kept', k) = IF e.key = k THEN PositionOf(e) ELSE LastIn(log, kept, k)
  <2>1. \A k : LastIn(log', kept \cup {n}, k) =
                IF log'[n].key = k THEN PositionOf(log'[n]) ELSE LastIn(log, kept, k)
    BY <1>3, LastStep
  <2> QED
    BY <1>1, <1>2, <2>1 DEF n
<1>6. CompactionIsExact'
  BY <1>4, <1>5 DEF IndInv, CompactionIsExact
<1>7. ReplayIsPrefix'
  BY <1>1, <1>2 DEF ReplayIsPrefix
<1>8. ASSUME NEW k \in Keys \ strayed' PROVE InStep(k)'
  <2>1. CASE k = e.key
    <3>1. ~Overlaps(w)
      BY <1>2, <1>8, <2>1
    <3>2. \A v \in Writers : stage'[v] = "appended" /\ op'[v].key = k => v = w
      BY <1>2, <2>1, <3>1 DEF Overlaps
    <3>3. InFlight(k)'
      BY <1>2, <2>1 DEF InFlight
    <3>4. LastOf(k)' = PositionOf(op'[w])
      BY <1>2, <1>4, <2>1
    <3> QED
      BY <3>2, <3>3, <3>4 DEF InStep
  <2>2. CASE k # e.key
    <3>1. InStep(k)
      BY <1>1, <1>2, <1>8, <2>2 DEF IndInv, OthersInStep
    <3>2. \A v \in Writers : stage'[v] = "appended" /\ op'[v].key = k <=>
                             stage[v] = "appended" /\ op[v].key = k
      BY <1>2, <2>2
    <3>3. InFlight(k)' <=> InFlight(k)
      BY <3>2 DEF InFlight
    <3>4. LastOf(k)' = LastOf(k)
      BY <1>4, <2>2
    <3> QED
      BY <1>2, <3>1, <3>2, <3>3, <3>4 DEF InStep
  <2> QED
    BY <2>1, <2>2
<1> QED
  BY <1>6, <1>7, <1>8 DEF IndInv, OthersInStep

\* The map update of the only append of a key brings the map up to the log.
LEMMA PublishKeepsInv ==
    ASSUME IndInv, BaseInv', NEW w \in Writers, Publish(w)
    PROVE  IndInv'
<1>1. /\ op[w] \in Record /\ phase = "serving" /\ stage[w] = "appended"
      /\ committed \in [Keys -> Positions \cup {NoPosition}]
      /\ committed' = Apply(committed, op[w]) /\ log' = log /\ kept' = kept /\ bases' = bases
      /\ phase' = phase /\ strayed' = strayed
      /\ stage \in [Writers -> {"idle", "admitted", "appended"}]
      /\ op \in [Writers -> Record \cup {NoOp}]
      /\ stage' = [stage EXCEPT ![w] = "idle"] /\ op' = [op EXCEPT ![w] = NoOp]
  BY DEF Publish, partition, IndInv, BaseInv, TypeOK, OpsAreReal
<1>2. \A k : LastOf(k)' = LastOf(k)
  BY <1>1 DEF LastOf
<1>3. \A v \in Writers : stage'[v] = "appended" <=> v # w /\ stage[v] = "appended"
  BY <1>1
<1>4. \A v \in Writers : v # w => op'[v] = op[v]
  BY <1>1
<1>5. CompactionIsExact' /\ ReplayIsPrefix'
  BY <1>1, <1>2 DEF IndInv, CompactionIsExact, ReplayIsPrefix
<1>6. \A k \in Keys : committed'[k] = IF k = op[w].key THEN PositionOf(op[w]) ELSE committed[k]
  BY <1>1, ApplyType
<1>7. ASSUME NEW k \in Keys \ strayed' PROVE InStep(k)'
  <2>1. InStep(k)
    BY <1>1, <1>7 DEF IndInv, OthersInStep
  <2>2. ~InFlight(k)' => committed'[k] = LastOf(k)
    <3>1. CASE k = op[w].key
      BY <1>1, <1>6, <2>1, <3>1 DEF InStep
    <3>2. CASE k # op[w].key
      <4>1. InFlight(k) => InFlight(k)'
        BY <1>3, <1>4, <3>2 DEF InFlight
      <4> QED
        BY <1>6, <2>1, <3>2, <4>1 DEF InStep
    <3> QED
      BY <3>1, <3>2
  <2> QED
    BY <1>2, <1>3, <1>4, <2>1, <2>2 DEF InStep
<1> QED
  BY <1>1, <1>5, <1>7 DEF IndInv, OthersInStep

\* Rolling and cleaning change what the partition keeps, not what it says.
LEMMA CleaningKeepsInv ==
    ASSUME IndInv, BaseInv',
           Roll \/ \E b \in bases : \E D \in SUBSET (kept \cap Segment(b)) : Clean(b, D)
    PROVE  IndInv'
<1>1. /\ log' = log /\ committed' = committed /\ stage' = stage /\ op' = op
      /\ phase = "serving" /\ phase' = phase /\ strayed' = strayed
  BY DEF Roll, Clean
<1>2. \A k : LastOf(k)' = LastOf(k)
  BY <1>1 DEF LastOf
<1>3. \A k : InFlight(k)' <=> InFlight(k)
  BY <1>1 DEF InFlight
<1>4. OthersInStep'
  BY <1>1, <1>2, <1>3 DEF IndInv, OthersInStep, InStep
<1>5. ReplayIsPrefix'
  BY <1>1 DEF ReplayIsPrefix
<1>6. ASSUME NEW k \in Keys PROVE LastIn(log, kept', k) = LastIn(log, kept, k)
  <2>1. CASE Roll
    BY <2>1 DEF Roll
  <2>2. ASSUME NEW b \in bases, NEW D \in SUBSET (kept \cap Segment(b)), Clean(b, D)
        PROVE  LastIn(log, kept', k) = LastIn(log, kept, k)
    <3>1. /\ Bounded(kept) /\ D \in SUBSET kept /\ kept' = kept \ D
      BY <2>2, PartitionBounded DEF Clean, IndInv, BaseInv
    <3>2. \A i \in D : /\ \A j \in kept : j < i /\ log[j].key = log[i].key => j \in D
                       /\ \/ \E j \in kept : i < j /\ log[j].key = log[i].key
                          \/ log[i].value = Tombstone
      BY <2>2 DEF Clean, NothingOlder, Superseded
    <3> QED
      BY <3>1, <3>2, LastDrop
  <2> QED
    BY <2>1, <2>2
<1>7. CompactionIsExact'
  BY <1>1, <1>2, <1>6 DEF IndInv, CompactionIsExact
<1> QED
  BY <1>4, <1>5, <1>7 DEF IndInv

\* A crash, and the start of a replay: nothing is left before the log start.
LEMMA RestartKeepsInv ==
    ASSUME IndInv, BaseInv', Crash \/ BeginReplay
    PROVE  IndInv'
<1>1. /\ log' = log /\ kept' = kept /\ bases' = bases /\ cursor' = Min(bases)
      /\ committed' = NoPositions /\ phase' # "serving"
  BY DEF Crash, BeginReplay, partition
<1>2. CompactionIsExact'
  BY <1>1 DEF IndInv, CompactionIsExact, LastOf
<1>3. OthersInStep'
  BY <1>1 DEF OthersInStep
<1>4. Min(bases) \in bases /\ \A b \in bases : Min(bases) <= b /\ b \in Int
  BY EndsAreBases DEF IndInv, BaseInv, TypeOK
<1>5. KeptBefore(Min(bases)) = {}
  <2>1. SUFFICES ASSUME NEW i \in kept, i < Min(bases) PROVE FALSE
    BY DEF KeptBefore
  <2>2. PICK b \in bases : b <= i
    BY DEF IndInv, BaseInv, Routable
  <2>3. i \in Int
    BY PartitionBounded DEF IndInv, BaseInv
  <2> QED
    BY <1>4, <2>1, <2>2, <2>3
<1>6. \A k \in Keys : LastIn(log, {}, k) = NoPosition
  BY LastIsNone
<1>7. KeptBefore(cursor)' = {}
  BY <1>1, <1>5 DEF KeptBefore
<1>8. /\ \E b \in bases' : b <= cursor'
      /\ \A k \in Keys : committed'[k] = LastIn(log', KeptBefore(cursor)', k)
  BY <1>1, <1>4, <1>6, <1>7 DEF NoPositions
<1>9. ReplayIsPrefix'
  BY <1>8 DEF ReplayIsPrefix
<1> QED
  BY <1>2, <1>3, <1>9 DEF IndInv

\* One record more is read: the first that is kept behind the cursor.
LEMMA ReplayKeepsInv ==
    ASSUME IndInv, BaseInv', ReplayRecord
    PROVE  IndInv'
<1> DEFINE i == Min(Readable)
<1>1. /\ phase = "replaying" /\ phase' = "replaying" /\ Readable # {}
      /\ committed' = Apply(committed, log[i]) /\ cursor' = i + 1
      /\ log' = log /\ kept' = kept /\ bases' = bases
      /\ committed \in [Keys -> Positions \cup {NoPosition}] /\ TypeOK
  BY DEF ReplayRecord, partition, IndInv, BaseInv, TypeOK
<1>2. PICK b \in bases : b <= cursor
  BY <1>1 DEF IndInv, ReplayIsPrefix
<1>3. i \in kept /\ cursor <= i /\ \A j \in kept : cursor <= j => i <= j
  BY <1>1, <1>2, NextIsFirst
<1> HIDE DEF i
<1>4. /\ Bounded(kept) /\ \A j \in kept : j \in Int
      /\ i \in 1..Len(log) /\ log[i] \in Record
  BY <1>1, <1>3, PartitionBounded
<1>5. cursor \in Int /\ b \in Int /\ i \in Int /\ 0 < i
  BY <1>1, <1>4 DEF TypeOK
<1>6. KeptBefore(i + 1) = KeptBefore(cursor) \cup {i}
  <2>1. \A j \in kept : j < i + 1 <=> j < cursor \/ j = i
    BY <1>3, <1>4, <1>5
  <2> QED
    BY <1>3, <2>1 DEF KeptBefore
<1> DEFINE S == KeptBefore(cursor)
<1>7. Bounded(S) /\ \A j \in S : j < i
  <2>1. S \subseteq kept
    BY DEF KeptBefore
  <2> QED
    BY <1>3, <1>4, <1>5, <2>1, BoundedPart DEF KeptBefore
<1> HIDE DEF S
<1>8. \A k : LastIn(log, S \cup {i}, k) = IF log[i].key = k THEN PositionOf(log[i])
                                         ELSE LastIn(log, S, k)
  BY <1>5, <1>7, LastStep
<1>9. \A k \in Keys : committed'[k] = IF k = log[i].key THEN PositionOf(log[i]) ELSE committed[k]
  BY <1>1, <1>4, ApplyType
<1>10. \A k \in Keys : committed[k] = LastIn(log, S, k)
  BY <1>1 DEF IndInv, ReplayIsPrefix, S
<1>11. \A k \in Keys : committed'[k] = LastIn(log, S \cup {i}, k)
  BY <1>8, <1>9, <1>10
<1>12. KeptBefore(cursor)' = S \cup {i}
  BY <1>1, <1>6 DEF KeptBefore, S
<1>13. b <= i + 1
  BY <1>2, <1>3, <1>5
<1>14. ReplayIsPrefix'
  BY <1>1, <1>11, <1>12, <1>13 DEF ReplayIsPrefix
<1>15. CompactionIsExact'
  BY <1>1 DEF IndInv, CompactionIsExact, LastOf
<1>16. OthersInStep'
  BY <1>1 DEF OthersInStep
<1> QED
  BY <1>14, <1>15, <1>16 DEF IndInv

\* A replay is over: only keys with a record behind a hole have strayed.
LEMMA ServeKeepsInv ==
    ASSUME IndInv, BaseInv', Serve
    PROVE  IndInv'
<1>1. /\ phase = "replaying" /\ Readable = {} /\ TypeOK
      /\ log' = log /\ kept' = kept /\ bases' = bases /\ phase' = "serving"
      /\ committed' = committed /\ stage' = stage /\ op' = op
      /\ strayed' = {log[i].key : i \in {j \in kept : Behind(j)}}
  BY DEF Serve, partition, IndInv, BaseInv
<1>2. \A w \in Writers : stage'[w] # "appended"
  BY <1>1 DEF IndInv, BaseInv, OpsAreReal
<1>3. PICK b \in bases : b <= cursor
  BY <1>1 DEF IndInv, ReplayIsPrefix
<1>4. /\ Bounded(kept) /\ (\A j \in kept : j \in Int) /\ cursor \in Int
  BY <1>1, PartitionBounded DEF TypeOK
<1>5. ASSUME NEW k \in Keys \ strayed' PROVE committed[k] = LastOf(k)
  <2> DEFINE S == KeptBefore(cursor)
  <2>1. \A i \in kept : log[i].key = k => i \in S
    <3>1. SUFFICES ASSUME NEW i \in kept, log[i].key = k PROVE i < cursor
      BY DEF KeptBefore
    <3>2. ~Behind(i)
      BY <1>1, <1>5, <3>1
    <3>3. ~(cursor <= i)
      BY <1>1, <1>3, <3>1, <3>2, RestIsBehind
    <3> QED
      BY <1>4, <3>1, <3>3
  <2>2. S \subseteq kept /\ Bounded(S)
    BY <1>4, BoundedPart DEF KeptBefore
  <2>3. committed[k] = LastIn(log, S, k)
    BY <1>1 DEF IndInv, ReplayIsPrefix
  <2>4. LastIn(log, kept, k) = LastOf(k)
    BY DEF IndInv, CompactionIsExact
  <2> HIDE DEF S
  <2>5. LastIn(log, S, k) = LastIn(log, kept, k)
    <3>1. CASE \A i \in S : log[i].key # k
      <4>1. \A i \in kept : log[i].key # k
        BY <2>1, <3>1
      <4>2. LastIn(log, S, k) = NoPosition
        BY <3>1, LastIsNone
      <4>3. LastIn(log, kept, k) = NoPosition
        BY <4>1, LastIsNone
      <4> QED
        BY <4>2, <4>3
    <3>2. CASE \E m \in S : log[m].key = k /\ \A i \in S : log[i].key = k => i <= m
      <4>1. PICK m \in S : log[m].key = k /\ \A i \in S : log[i].key = k => i <= m
        BY <3>2
      <4>2. m \in kept /\ \A i \in kept : log[i].key = k => i <= m
        BY <2>1, <2>2, <4>1
      <4>3. LastIn(log, S, k) = PositionOf(log[m])
        BY <2>2, <4>1, LastIs
      <4>4. LastIn(log, kept, k) = PositionOf(log[m])
        BY <1>4, <4>1, <4>2, LastIs
      <4> QED
        BY <4>3, <4>4
    <3> QED
      BY <2>2, <3>1, <3>2, LastCases
  <2> QED
    BY <2>3, <2>4, <2>5
<1>6. \A k : LastOf(k)' = LastOf(k)
  BY <1>1 DEF LastOf
<1>7. \A k \in Keys \ strayed' : InStep(k)'
  BY <1>1, <1>2, <1>5, <1>6 DEF InStep
<1>8. OthersInStep'
  BY <1>7 DEF OthersInStep
<1>9. CompactionIsExact'
  BY <1>1, <1>6 DEF IndInv, CompactionIsExact
<1>10. ReplayIsPrefix'
  BY <1>1 DEF ReplayIsPrefix
<1> QED
  BY <1>8, <1>9, <1>10 DEF IndInv

\* IndInv holds at the start and every step keeps it.
LEMMA Inductive ==
    /\ Init => IndInv
    /\ IndInv /\ [Next]_vars => IndInv'
<1>1. ASSUME Init PROVE IndInv
  <2>1. BaseInv
    BY <1>1, BaseInductive
  <2>2. kept = {} /\ 1..Len(log) = {}
    BY <1>1 DEF Init
  <2>3. \A k \in Keys : LastIn(log, {}, k) = NoPosition
    BY LastIsNone
  <2>4. \A k \in Keys : LastOf(k) = NoPosition /\ LastIn(log, kept, k) = NoPosition
    BY <2>2, <2>3 DEF LastOf
  <2>5. \A k \in Keys : committed[k] = NoPosition
    BY <1>1 DEF Init, NoPositions
  <2>6. \A w \in Writers : stage[w] # "appended"
    BY <1>1 DEF Init
  <2>7. OthersInStep
    BY <2>4, <2>5, <2>6 DEF OthersInStep, InStep
  <2>8. ReplayIsPrefix
    BY <1>1 DEF Init, ReplayIsPrefix
  <2> QED
    BY <2>1, <2>4, <2>7, <2>8 DEF IndInv, CompactionIsExact
<1>2. ASSUME IndInv, [Next]_vars PROVE IndInv'
  <2>0. /\ BaseInv'
        /\ stage \in [Writers -> {"idle", "admitted", "appended"}]
        /\ op \in [Writers -> Record \cup {NoOp}]
    BY <1>2, BaseInductive DEF IndInv, BaseInv, TypeOK
  <2>1. ASSUME NEW w \in Writers, NEW record \in Record, Admit(w, record) PROVE IndInv'
    <3>1. /\ log' = log /\ kept' = kept /\ bases' = bases /\ committed' = committed
          /\ phase' = phase /\ cursor' = cursor /\ strayed' = strayed
      BY <2>1 DEF Admit, partition
    <3>2. /\ \A v \in Writers : stage[v] = "appended" <=> stage'[v] = "appended"
          /\ \A v \in Writers : stage[v] = "appended" => op'[v] = op[v]
      BY <2>0, <2>1 DEF Admit
    <3> QED
      BY <1>2, <2>0, <3>1, <3>2, QuietStep
  <2>2. ASSUME NEW w \in Writers, AppendFails(w) PROVE IndInv'
    <3>1. /\ log' = log /\ kept' = kept /\ bases' = bases /\ committed' = committed
          /\ phase' = phase /\ cursor' = cursor /\ strayed' = strayed
      BY <2>2 DEF AppendFails, partition
    <3>2. /\ \A v \in Writers : stage[v] = "appended" <=> stage'[v] = "appended"
          /\ \A v \in Writers : stage[v] = "appended" => op'[v] = op[v]
      BY <2>0, <2>2 DEF AppendFails
    <3> QED
      BY <1>2, <2>0, <3>1, <3>2, QuietStep
  <2>3. CASE UNCHANGED vars
    BY <1>2, <2>0, <2>3, QuietStep DEF vars, partition
  <2> QED
    BY <1>2, <2>0, <2>1, <2>2, <2>3, AppendKeepsInv, PublishKeepsInv, CleaningKeepsInv,
       RestartKeepsInv, ReplayKeepsInv, ServeKeepsInv DEF Next
<1> QED
  BY <1>1, <1>2

\* The map differs from the last commit in the topic only while a commit of that
\* key is half done, after two of them overlapped, or when the last replay
\* stopped at a hole in front of it: rolls, the cleaner, and crashes at any
\* point, also in a replay, set them apart in no other way.
THEOREM DifferencesHaveAReason == Spec => []DifferencesAreExplained
<1>1. IndInv => DifferencesAreExplained
  BY DEF IndInv, OthersInStep, InStep, DifferencesAreExplained
<1> QED
  BY <1>1, Inductive, PTL DEF Spec
=============================================================================
