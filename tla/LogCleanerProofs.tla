--------------------------- MODULE LogCleanerProofs ---------------------------
(***************************************************************************)
(* Proofs about LogCleaner, for any keys, any budget of the key map, any   *)
(* thresholds, segment sizes and ages, and any interleaving of a pass with *)
(* appends, rolls, retention and restarts.                                 *)
(***************************************************************************)
EXTENDS LogCleaner, FiniteSetTheorems, WellFoundedInduction, TLAPS

Record == [off : Nat, key : Keys \cup {NoKey}, tomb : BOOLEAN, ts : Nat]

TypeOK ==
    /\ DOMAIN segments \subseteq Nat
    /\ \A b \in DOMAIN segments : segments[b] \subseteq Record
    /\ active \in DOMAIN segments
    /\ end \in Nat /\ mark \in Nat /\ clock \in Nat

\* Segments hold consecutive ranges of offsets, each offset once; the active one
\* is the last, and only it may be empty.
Ordered ==
    /\ \A b \in DOMAIN segments : b <= active
    /\ active <= end
    /\ \A b \in DOMAIN segments : \A r \in segments[b] :
            /\ b <= r.off /\ r.off < end
            /\ \A c \in DOMAIN segments : b < c => r.off < c
    /\ \A r, s \in Records : r.off = s.off => r = s
    /\ \A b \in Sealed : segments[b] # {}
    /\ \A r \in Records : r.ts <= clock

\* Offset o is the end of a sealed segment, or what such an end has become: the
\* segments that begin before it end before it.
Boundary(o, segs, last) ==
    /\ o <= last
    /\ \A b \in DOMAIN segs : b < o => \A r \in segs[b] : r.off < o

\* p has the four parts of a pass, and no others.
IsPass(p) == p = [map |-> p.map, through |-> p.through, now |-> p.now, todo |-> p.todo]

\* One pass: what it mapped lies above the mark, and below its end everything
\* from the mark on is mapped; the segments it has rewritten have nothing older
\* than what is mapped; and as long as one it has not rewritten has, the mapped
\* record itself is still there.
PassInv ==
    pass # NoPass =>
        /\ IsPass(pass)
        /\ pass.now \in Nat /\ pass.now <= clock
        /\ pass.through \in Nat /\ mark <= pass.through
        /\ Boundary(pass.through, segments, active)
        /\ pass.todo \subseteq Nat /\ \A b \in pass.todo : b < pass.through
        /\ NoKey \notin DOMAIN pass.map
        /\ \A k \in DOMAIN pass.map : pass.map[k] \in Nat /\ mark <= pass.map[k]
        /\ \A r \in Records : r.key # NoKey /\ mark <= r.off /\ r.off < pass.through =>
                r.key \in DOMAIN pass.map /\ r.off <= pass.map[r.key]
        /\ \A b \in DOMAIN segments : \A r \in segments[b] :
                r.key \in DOMAIN pass.map /\ b < pass.through /\ b \notin pass.todo =>
                    pass.map[r.key] <= r.off
        /\ \A b \in DOMAIN segments : \A r \in segments[b] :
                b \in pass.todo /\ r.key \in DOMAIN pass.map /\ r.off < pass.map[r.key] =>
                    \E s \in Records : s.key = r.key /\ s.off = pass.map[r.key]

IInv ==
    /\ TypeOK /\ Ordered /\ Boundary(mark, segments, active)
    /\ OnePerKeyBelowMark /\ PassInv

-----------------------------------------------------------------------------
\* Lemmas about the operators of the model.

\* A non-empty set of offsets has a least one.
LEMMA LeastExists ==
    ASSUME NEW S \in SUBSET Nat, S # {}
    PROVE  \E x \in S : \A y \in S : x <= y
<1>1. PICK x \in S : \A y \in S : ~ (<<y, x>> \in OpToRel(<, Nat))
    BY NatLessThanWellFounded, WFMin, Zenon
<1>2. \A y \in S : ~ (y < x)
    BY <1>1 DEF OpToRel
<1> QED
    BY <1>2

\* The next segment to be rewritten is the oldest of those left.
LEMMA MinIsLeast ==
    ASSUME NEW S \in SUBSET Nat, S # {}
    PROVE  Min(S) \in S /\ \A y \in S : Min(S) <= y
<1>1. \E x \in S : \A y \in S : x <= y
    BY LeastExists
<1> QED
    BY <1>1 DEF Min

\* The newest offset of a non-empty set of offsets the log has reached.
LEMMA MaxIsGreatest ==
    ASSUME NEW S \in SUBSET Nat, S # {}, NEW bound \in Nat, \A x \in S : x <= bound
    PROVE  Max(S) \in S /\ \A y \in S : y <= Max(S)
<1> DEFINE Left == {bound - x : x \in S}
<1>1. Left \in SUBSET Nat /\ Left # {}
    <2>1. \A x \in S : bound - x \in Nat
        OBVIOUS
    <2>2. PICK x \in S : TRUE
        OBVIOUS
    <2> QED
        BY <2>1, <2>2
<1>2. PICK d \in Left : \A e \in Left : d <= e
    <2> HIDE DEF Left
    <2> QED
        BY <1>1, LeastExists
<1>3. PICK x \in S : d = bound - x
    BY <1>2
<1>4. \A y \in S : x >= y
    <2>1. ASSUME NEW y \in S PROVE x >= y
        <3>1. bound - y \in Left
            OBVIOUS
        <3>2. bound - x <= bound - y
            BY <1>2, <1>3, <3>1
        <3>3. x \in Nat /\ y \in Nat
            OBVIOUS
        <3> QED
            BY <3>2, <3>3
    <2> QED
        BY <2>1
<1>5. Max(S) \in S /\ \A y \in S : Max(S) >= y
    BY <1>4 DEF Max
<1> QED
    BY <1>5

\* A record that is there is in a segment, and every record of a segment is there.
LEMMA RecordsAreIn ==
    /\ \A r \in Records : \E b \in DOMAIN segments : r \in segments[b]
    /\ \A b \in DOMAIN segments : \A r \in segments[b] : r \in Records
BY DEF Records

\* Records have the types of append().
LEMMA RecordsAreRecords ==
    ASSUME TypeOK
    PROVE  \A r \in Records : r \in Record /\ r.off \in Nat /\ r.ts \in Nat
BY DEF TypeOK, Records, Record

\* What NextOffset() says of a segment that has records.
LEMMA NextOffsetIs ==
    ASSUME TypeOK, Ordered, NEW b \in DOMAIN segments, segments[b] # {}
    PROVE  /\ NextOffset(b) \in Nat
           /\ \A r \in segments[b] : r.off < NextOffset(b)
           /\ \E r \in segments[b] : NextOffset(b) = r.off + 1
<1> DEFINE S == {r.off : r \in segments[b]}
<1>1. \A r \in segments[b] : r.off \in Nat /\ r.off <= end
    BY DEF TypeOK, Ordered, Record
<1>2. S \in SUBSET Nat /\ S # {} /\ (\A x \in S : x <= end) /\ end \in Nat
    BY <1>1 DEF TypeOK
<1>3. Max(S) \in S /\ \A y \in S : y <= Max(S)
    <2> HIDE DEF S
    <2> QED
        BY <1>2, MaxIsGreatest
<1>4. NextOffset(b) = 1 + Max(S)
    BY DEF NextOffset
<1>5. PICK r \in segments[b] : Max(S) = r.off
    BY <1>3
<1>6. Max(S) \in Nat
    BY <1>1, <1>5
<1>7. \A s \in segments[b] : s.off <= Max(S)
    BY <1>3
<1> HIDE DEF S
<1> QED
    BY <1>1, <1>4, <1>5, <1>6, <1>7

-----------------------------------------------------------------------------
\* What holds between the steps of a pass and of the partition.

\* Records are where Ordered says: each in one segment, sealed segments before the
\* active one.
LEMMA WhereRecordsAre ==
    ASSUME TypeOK, Ordered
    PROVE  /\ \A b, c \in DOMAIN segments : \A r \in segments[b] : \A s \in segments[c] :
                  r.off <= s.off => b <= c
           /\ \A b \in DOMAIN segments : b \in Nat /\ (b \in Sealed <=> b < active)
           /\ active \in Nat
<1>1. ASSUME NEW b \in DOMAIN segments, NEW c \in DOMAIN segments,
             NEW r \in segments[b], NEW s \in segments[c], r.off <= s.off, ~(b <= c)
      PROVE  FALSE
    <2>1. /\ b \in Nat /\ c \in Nat /\ r.off \in Nat /\ s.off \in Nat
          /\ r \in segments[b] /\ s \in segments[c]
        BY DEF TypeOK, Record
    <2>2. c < b
        BY <1>1, <2>1
    <2>3. s.off < b /\ b <= r.off
        BY <2>1, <2>2 DEF Ordered
    <2> QED
        BY <1>1, <2>1, <2>3
<1>2. \A b \in DOMAIN segments : b \in Nat /\ b <= active
    BY DEF TypeOK, Ordered
<1>3. active \in Nat /\ active \in DOMAIN segments
    BY DEF TypeOK
<1>4. ASSUME NEW b \in DOMAIN segments PROVE b \in Sealed <=> b < active
    BY <1>2, <1>3 DEF Sealed
<1> QED
    BY <1>1, <1>2, <1>3, <1>4

\* Steps that only take records away, as the swap and retention do, and that
\* leave no sealed segment empty, keep everything but what the pass knows.
LEMMA RemovalKeeps ==
    ASSUME IInv,
           DOMAIN segments' \subseteq DOMAIN segments,
           \A b \in DOMAIN segments' : segments'[b] \subseteq segments[b],
           active \in DOMAIN segments',
           \A b \in DOMAIN segments' : b # active => segments'[b] # {},
           UNCHANGED <<active, end, mark, clock>>
    PROVE  /\ Records' \subseteq Records
           /\ TypeOK' /\ Ordered'
           /\ Boundary(mark, segments, active)'
           /\ OnePerKeyBelowMark'
           /\ \A o : Boundary(o, segments, active) => Boundary(o, segments', active')
<1>1. Records' \subseteq Records
    BY DEF Records
<1>2. TypeOK'
    BY DEF IInv, TypeOK
<1>3. Ordered'
    <2>1. \A b \in DOMAIN segments' : b <= active'
        BY DEF IInv, Ordered
    <2>2. \A b \in DOMAIN segments' : \A r \in segments'[b] :
              /\ b <= r.off /\ r.off < end'
              /\ \A c \in DOMAIN segments' : b < c => r.off < c
        BY DEF IInv, Ordered
    <2>3. \A r, s \in Records' : r.off = s.off => r = s
        BY <1>1 DEF IInv, Ordered
    <2>4. \A b \in Sealed' : segments'[b] # {}
        BY DEF Sealed
    <2>5. \A r \in Records' : r.ts <= clock'
        BY <1>1 DEF IInv, Ordered
    <2>6. active' <= end'
        BY DEF IInv, Ordered
    <2> QED
        BY <2>1, <2>2, <2>3, <2>4, <2>5, <2>6 DEF Ordered
<1>4. \A o : Boundary(o, segments, active) => Boundary(o, segments', active')
    BY DEF Boundary
<1>5. Boundary(mark, segments, active)'
    BY <1>4 DEF IInv
<1>6. OnePerKeyBelowMark'
    BY <1>1 DEF IInv, OnePerKeyBelowMark
<1> QED
    BY <1>1, <1>2, <1>3, <1>4, <1>5, <1>6

\* The record that Produce() appends.
Appended(k, tomb) == [off |-> end, key |-> k, tomb |-> tomb, ts |-> clock]

\* append() puts it at the end of the active segment, or of a new one.
LEMMA ProduceAppends ==
    ASSUME TypeOK, Ordered, NEW k \in Keys \cup {NoKey}, NEW tomb \in BOOLEAN,
           Produce(k, tomb)
    PROVE  LET r == Appended(k, tomb)
           IN  /\ r \in Record /\ r.off = end /\ r.ts = clock /\ r.key = k
               /\ active' = active \/ segments[active] # {}
               /\ active' \in DOMAIN segments' /\ active' \in Nat
               /\ active <= active' /\ active' <= end
               /\ \A b \in DOMAIN segments : b \in DOMAIN segments' /\ b <= active
               /\ \A b \in DOMAIN segments' : b \in DOMAIN segments \/ (b = end /\ b = active')
               /\ \A b \in DOMAIN segments :
                     /\ segments'[b] = segments[b] \/ segments'[b] = segments[b] \cup {r}
                     /\ b # active' => segments'[b] = segments[b]
               /\ \A b \in DOMAIN segments' : b \notin DOMAIN segments => segments'[b] = {r}
               /\ \E b \in DOMAIN segments' : r \in segments'[b]
               /\ Records' = Records \cup {r}
<1> USE LogCleanerAssumption
<1> DEFINE r == Appended(k, tomb)
<1>1. end \in Nat /\ clock \in Nat /\ active \in Nat
    BY DEF TypeOK
<1>2. r \in Record /\ r.off = end /\ r.ts = clock /\ r.key = k
    BY <1>1 DEF Record, Appended
<1>3. \/ /\ segments[active] # {}
         /\ segments' = [b \in DOMAIN segments \cup {end} |->
                             IF b = end THEN {r} ELSE segments[b]]
         /\ active' = end
      \/ /\ segments' = [segments EXCEPT ![active] = @ \cup {r}]
         /\ active' = active
    <2>1. CASE Cardinality(segments[active]) >= MaxSegment
        <3>1. segments[active] # {}
            <4>1. Cardinality({}) = 0
                BY FS_EmptySet
            <4> QED
                BY <4>1, <2>1
        <3> QED
            BY <2>1, <3>1 DEF Produce, Appended
    <2>2. CASE ~(Cardinality(segments[active]) >= MaxSegment)
        BY <2>2 DEF Produce, Appended
    <2> QED
        BY <2>1, <2>2
<1> HIDE DEF r
<1>4. /\ active' \in DOMAIN segments' /\ active' \in Nat
      /\ active <= active' /\ active' <= end
      /\ \A b \in DOMAIN segments : b \in DOMAIN segments' /\ b <= active
      /\ \A b \in DOMAIN segments' : b \in DOMAIN segments \/ (b = end /\ b = active')
      /\ \A b \in DOMAIN segments :
            /\ segments'[b] = segments[b] \/ segments'[b] = segments[b] \cup {r}
            /\ b # active' => segments'[b] = segments[b]
      /\ \A b \in DOMAIN segments' : b \notin DOMAIN segments => segments'[b] = {r}
      /\ \E b \in DOMAIN segments' : r \in segments'[b]
    <2>1. active \in DOMAIN segments /\ active <= end /\ \A b \in DOMAIN segments : b <= active
        BY DEF TypeOK, Ordered
    <2>2. CASE /\ segments[active] # {}
               /\ segments' = [b \in DOMAIN segments \cup {end} |->
                                   IF b = end THEN {r} ELSE segments[b]]
               /\ active' = end
        <3>1. active < end
            <4>1. PICK s \in segments[active] : TRUE
                BY <2>2
            <4>2. active <= s.off /\ s.off < end /\ s.off \in Nat
                BY <2>1 DEF Ordered, TypeOK, Record
            <4> QED
                BY <4>2, <1>1
        <3>2. end \notin DOMAIN segments
            BY <3>1, <2>1, <1>1
        <3> QED
            BY <1>1, <2>1, <2>2, <3>1, <3>2
    <2>3. CASE /\ segments' = [segments EXCEPT ![active] = @ \cup {r}]
               /\ active' = active
        BY <1>1, <2>1, <2>3
    <2> QED
        BY <1>3, <2>2, <2>3
<1>5. Records' = Records \cup {r}
    <2>1. ASSUME NEW s \in Records' PROVE s \in Records \cup {r}
        BY <1>4 DEF Records
    <2>2. ASSUME NEW s \in Records PROVE s \in Records'
        BY <1>4 DEF Records
    <2>3. r \in Records'
        BY <1>4 DEF Records
    <2> QED
        BY <2>1, <2>2, <2>3
<1>6. active' = active \/ segments[active] # {}
    BY <1>3
<1> QED
    BY <1>2, <1>4, <1>5, <1>6, Zenon DEF r

\* Producers append: below the mark and below the end of a pass nothing changes.
LEMMA ProduceKeeps ==
    ASSUME IInv, NEW k \in Keys \cup {NoKey}, NEW tomb \in BOOLEAN, Produce(k, tomb)
    PROVE  IInv'
<1> DEFINE r == Appended(k, tomb)
<1>1. /\ TypeOK /\ Ordered /\ end' = end + 1
      /\ mark' = mark /\ pass' = pass /\ clock' = clock
      /\ end \in Nat /\ clock \in Nat /\ active \in Nat /\ mark \in Nat
    BY DEF IInv, Produce, TypeOK
<1> HIDE DEF r
<1>2. r \in Record /\ r.off = end /\ r.ts = clock /\ r.key = k
    BY <1>1, ProduceAppends DEF r
<1>3. active' = active \/ segments[active] # {}
    BY <1>1, ProduceAppends
<1>4. /\ active' \in DOMAIN segments' /\ active' \in Nat
      /\ active <= active' /\ active' <= end
      /\ \A b \in DOMAIN segments : b \in DOMAIN segments' /\ b <= active
      /\ \A b \in DOMAIN segments' : b \in DOMAIN segments \/ (b = end /\ b = active')
      /\ \A b \in DOMAIN segments :
            /\ segments'[b] = segments[b] \/ segments'[b] = segments[b] \cup {r}
            /\ b # active' => segments'[b] = segments[b]
      /\ \A b \in DOMAIN segments' : b \notin DOMAIN segments => segments'[b] = {r}
      /\ \E b \in DOMAIN segments' : r \in segments'[b]
    BY <1>1, ProduceAppends DEF r
<1>5. Records' = Records \cup {r}
    BY <1>1, ProduceAppends DEF r
<1>6. \A s \in Records : s \in Record /\ s.off \in Nat /\ s.off < end
    BY <1>1, RecordsAreRecords, RecordsAreIn DEF Ordered
<1>7. \A b \in DOMAIN segments' : \A s \in segments'[b] :
          s = r \/ (b \in DOMAIN segments /\ s \in segments[b])
    BY <1>4
<1>8. TypeOK'
    <2>1. DOMAIN segments' \subseteq Nat
        BY <1>1, <1>4 DEF TypeOK
    <2>2. \A b \in DOMAIN segments' : segments'[b] \subseteq Record
        BY <1>1, <1>2, <1>7 DEF TypeOK
    <2> QED
        BY <1>1, <1>4, <2>1, <2>2 DEF TypeOK
<1>9. Ordered'
    <2>1. \A b \in DOMAIN segments' : b <= active'
        BY <1>1, <1>4 DEF TypeOK
    <2>2. active' <= end'
        BY <1>1, <1>4
    <2>3. ASSUME NEW b \in DOMAIN segments', NEW s \in segments'[b]
          PROVE  /\ b <= s.off /\ s.off < end'
                 /\ \A c \in DOMAIN segments' : b < c => s.off < c
        <3>1. CASE s = r
            <4>1. b = active'
                BY <3>1, <2>3, <1>2, <1>4, <1>6, RecordsAreIn
            <4>2. ~ (\E c \in DOMAIN segments' : b < c)
                BY <4>1, <2>1, <1>4, <1>8 DEF TypeOK
            <4> QED
                BY <3>1, <4>1, <4>2, <1>1, <1>2, <1>4
        <3>2. CASE b \in DOMAIN segments /\ s \in segments[b]
            <4>1. b <= s.off /\ s.off < end /\ s.off \in Nat
                BY <3>2, <1>1 DEF Ordered, TypeOK, Record
            <4>2. \A c \in DOMAIN segments : b < c => s.off < c
                BY <3>2, <1>1 DEF Ordered
            <4> QED
                BY <4>1, <4>2, <1>1, <1>4
        <3> QED
            BY <2>3, <3>1, <3>2, <1>7
    <2>4. \A s, t \in Records' : s.off = t.off => s = t
        BY <1>1, <1>2, <1>5, <1>6 DEF Ordered
    <2>5. \A b \in Sealed' : segments'[b] # {}
        <3>1. SUFFICES ASSUME NEW b \in DOMAIN segments', b # active' PROVE segments'[b] # {}
            BY DEF Sealed
        <3>2. b \in DOMAIN segments /\ segments'[b] = segments[b]
            BY <3>1, <1>4
        <3>3. CASE b = active
            BY <3>1, <3>2, <3>3, <1>3
        <3>4. CASE b # active
            BY <3>2, <3>4, <1>1 DEF Ordered, Sealed
        <3> QED
            BY <3>3, <3>4
    <2>6. \A s \in Records' : s.ts <= clock'
        BY <1>1, <1>2, <1>5 DEF Ordered
    <2> QED
        BY <2>1, <2>2, <2>3, <2>4, <2>5, <2>6 DEF Ordered
<1>10. \A o \in Nat : Boundary(o, segments, active) => Boundary(o, segments', active')
    <2>1. SUFFICES ASSUME NEW o \in Nat, o <= active,
                          \A b \in DOMAIN segments : b < o => \A s \in segments[b] : s.off < o
                   PROVE  Boundary(o, segments', active')
        BY DEF Boundary
    <2>2. o <= active'
        BY <2>1, <1>1, <1>4
    <2>3. ASSUME NEW b \in DOMAIN segments', b < o
          PROVE  b # active' /\ b \in DOMAIN segments /\ segments'[b] = segments[b]
        BY <2>2, <2>3, <1>1, <1>4
    <2> QED
        BY <2>1, <2>2, <2>3 DEF Boundary
<1>11. Boundary(mark, segments, active)'
    BY <1>1, <1>10 DEF IInv
<1>12. OnePerKeyBelowMark'
    <2>1. mark <= end
        BY <1>1, <1>4 DEF IInv, Boundary
    <2>2. ~ (r.off < mark)
        BY <2>1, <1>1, <1>2
    <2> QED
        BY <2>2, <1>1, <1>5 DEF IInv, OnePerKeyBelowMark
<1>13. PassInv'
    <2>1. SUFFICES ASSUME pass # NoPass PROVE PassInv'
        BY <1>1 DEF PassInv
    <2>2. PassInv
        BY DEF IInv
    <2>3. /\ pass.through \in Nat /\ pass.through <= active
          /\ Boundary(pass.through, segments', active')
        <3>1. /\ mark <= pass.through /\ Boundary(pass.through, segments, active)
              /\ pass.through \in Nat
            BY <2>1, <2>2 DEF PassInv
        <3> QED
            BY <3>1, <1>10 DEF Boundary
    <2>4. ~ (r.off < pass.through)
        BY <2>3, <1>1, <1>2, <1>4
    <2>5. \A s \in Records' : s.key # NoKey /\ mark <= s.off /\ s.off < pass.through =>
              s.key \in DOMAIN pass.map /\ s.off <= pass.map[s.key]
        BY <2>1, <2>2, <2>4, <1>5 DEF PassInv
    <2>6. \A b \in DOMAIN segments' : b < pass.through => b \in DOMAIN segments /\ b # active'
        BY <2>3, <1>1, <1>4
    <2>7. \A b \in DOMAIN segments' : \A s \in segments'[b] :
              s.key \in DOMAIN pass.map /\ b < pass.through /\ b \notin pass.todo =>
                  pass.map[s.key] <= s.off
        BY <2>1, <2>2, <2>6, <1>4 DEF PassInv
    <2>8. \A b \in DOMAIN segments' : \A s \in segments'[b] :
              b \in pass.todo /\ s.key \in DOMAIN pass.map /\ s.off < pass.map[s.key] =>
                  \E t \in Records' : t.key = s.key /\ t.off = pass.map[s.key]
        BY <2>1, <2>2, <2>6, <1>4, <1>5 DEF PassInv
    <2> QED
        BY <1>1, <2>1, <2>2, <2>3, <2>5, <2>7, <2>8 DEF PassInv
<1> QED
    BY <1>8, <1>9, <1>11, <1>12, <1>13 DEF IInv

\* The sweep rolls the active segment.
LEMMA RollKeeps ==
    ASSUME IInv, Roll
    PROVE  IInv'
<1>1. /\ TypeOK /\ Ordered /\ PassInv
      /\ end' = end /\ mark' = mark /\ pass' = pass /\ clock' = clock
      /\ segments' = [b \in DOMAIN segments \cup {end} |-> IF b = end THEN {} ELSE segments[b]]
      /\ active' = end
      /\ end \in Nat /\ active \in Nat /\ mark \in Nat /\ active \in DOMAIN segments
    BY DEF IInv, Roll, TypeOK
<1>2. PICK r \in segments[active] : TRUE
    BY DEF Roll
<1>3. active < end
    <2>1. active <= r.off /\ r.off < end /\ r.off \in Nat
        BY <1>1 DEF Ordered, TypeOK, Record
    <2> QED
        BY <2>1, <1>1
<1>4. \A b \in DOMAIN segments : b <= active /\ b \in Nat /\ b # end
    BY <1>1, <1>3 DEF Ordered, TypeOK
<1>5. /\ DOMAIN segments' = DOMAIN segments \cup {end}
      /\ segments'[end] = {}
      /\ \A b \in DOMAIN segments : segments'[b] = segments[b]
    BY <1>1, <1>4
<1>6. Records' = Records
    BY <1>5 DEF Records
<1>7. TypeOK'
    BY <1>1, <1>5 DEF TypeOK
<1>8. Ordered'
    <2>1. \A b \in DOMAIN segments' : b <= active'
        BY <1>1, <1>3, <1>4, <1>5
    <2>2. \A b \in DOMAIN segments' : \A s \in segments'[b] :
              /\ b <= s.off /\ s.off < end'
              /\ \A c \in DOMAIN segments' : b < c => s.off < c
        BY <1>1, <1>5 DEF Ordered
    <2>3. \A b \in Sealed' : segments'[b] # {}
        BY <1>1, <1>2, <1>5 DEF Ordered, Sealed
    <2> QED
        BY <1>1, <1>6, <2>1, <2>2, <2>3 DEF Ordered
<1>9. \A o \in Nat : Boundary(o, segments, active) => Boundary(o, segments', active')
    BY <1>1, <1>3, <1>5 DEF Boundary
<1>10. Boundary(mark, segments, active)'
    BY <1>1, <1>9 DEF IInv
<1>11. OnePerKeyBelowMark'
    BY <1>1, <1>6 DEF IInv, OnePerKeyBelowMark
<1>12. PassInv'
    <2>1. pass # NoPass => Boundary(pass.through, segments', active')
        BY <1>1, <1>9 DEF PassInv
    <2> QED
        BY <1>1, <1>5, <1>6, <2>1 DEF PassInv
<1> QED
    BY <1>7, <1>8, <1>10, <1>11, <1>12 DEF IInv

\* applyRetention() takes a beginning of the sealed segments.
LEMMA RetentionTakesABeginning ==
    ASSUME IInv, ApplyRetention
    PROVE  /\ DOMAIN segments' \subseteq DOMAIN segments
           /\ \A b \in DOMAIN segments' : segments'[b] = segments[b]
           /\ active \in DOMAIN segments'
           /\ \A b \in DOMAIN segments \ DOMAIN segments' :
                 /\ AgedOut(b) \/ Cardinality(Records) > RetentionBytes
                 /\ \A c \in DOMAIN segments : c <= b => c \notin DOMAIN segments'
<1>1. segments' = [b \in DOMAIN segments \ Doomed |-> segments[b]]
    BY DEF ApplyRetention, Drop
<1>2. /\ active \in DOMAIN segments /\ active \notin Doomed
      /\ \A b \in DOMAIN segments : b \in Nat /\ b <= active
    BY DEF IInv, TypeOK, Ordered, Doomed, Sealed
<1>3. ASSUME NEW b \in Doomed
      PROVE  /\ AgedOut(b) \/ Cardinality(Records) > RetentionBytes
             /\ \A c \in DOMAIN segments : c <= b => c \in Doomed
    <2>1. b \in Sealed /\ b \in DOMAIN segments /\ b # active
        BY DEF Doomed, Sealed
    <2>2. b < active /\ b \in Nat /\ active \in Nat
        BY <2>1, <1>2
    <2>3. \A c \in DOMAIN segments : c <= b => c \in Sealed
        BY <2>2, <1>2 DEF Sealed
    <2>4. \/ \A c \in Sealed : c <= b => AgedOut(c)
          \/ \A c \in Sealed : c <= b => SizeFrom(c) > RetentionBytes
        BY DEF Doomed
    <2>5. AgedOut(b) \/ Cardinality(Records) > RetentionBytes
        <3>1. CASE \A c \in Sealed : c <= b => AgedOut(c)
            BY <2>1, <2>2, <3>1
        <3>2. CASE \A c \in Sealed : c <= b => SizeFrom(c) > RetentionBytes
            <4>1. PICK c \in DOMAIN segments : \A d \in DOMAIN segments : c <= d
                BY <1>2, LeastExists
            <4>2. {d \in DOMAIN segments : d >= c} = DOMAIN segments
                BY <1>2, <4>1
            <4>3. SizeFrom(c) = Cardinality(Records)
                BY <4>2 DEF SizeFrom, Records
            <4>4. c \in Sealed /\ c <= b
                BY <2>1, <2>3, <4>1
            <4> QED
                BY <3>2, <4>3, <4>4
        <3> QED
            BY <2>4, <3>1, <3>2
    <2>6. ASSUME NEW c \in DOMAIN segments, c <= b PROVE c \in Doomed
        <3>1. c \in Sealed /\ c \in Nat
            BY <2>3, <2>6, <1>2
        <3>2. \A d \in Sealed : d <= c => d <= b
            BY <3>1, <2>2, <2>6, <1>2 DEF Sealed
        <3> QED
            BY <3>1, <3>2, <2>4 DEF Doomed
    <2> QED
        BY <2>5, <2>6
<1> QED
    BY <1>1, <1>2, <1>3

\* Retention deletes segments, also under a pass: the older records a pass still
\* has to drop go with the newest ones.
LEMMA ApplyRetentionKeeps ==
    ASSUME IInv, ApplyRetention
    PROVE  IInv'
<1>1. /\ DOMAIN segments' \subseteq DOMAIN segments
      /\ \A b \in DOMAIN segments' : segments'[b] = segments[b]
      /\ active \in DOMAIN segments'
      /\ \A b \in DOMAIN segments \ DOMAIN segments' :
            \A c \in DOMAIN segments : c <= b => c \notin DOMAIN segments'
    BY RetentionTakesABeginning
<1>2. UNCHANGED <<active, end, mark, pass, clock>>
    BY DEF ApplyRetention
<1>3. \A b \in DOMAIN segments' : b # active => segments'[b] # {}
    BY <1>1 DEF IInv, Ordered, Sealed
<1>4. /\ Records' \subseteq Records
      /\ TypeOK' /\ Ordered'
      /\ Boundary(mark, segments, active)'
      /\ OnePerKeyBelowMark'
      /\ \A o : Boundary(o, segments, active) => Boundary(o, segments', active')
    BY <1>1, <1>2, <1>3, RemovalKeeps
<1>5. PassInv'
    <2>1. SUFFICES ASSUME pass # NoPass PROVE PassInv'
        BY <1>2 DEF PassInv
    <2>2. PassInv /\ TypeOK /\ Ordered
        BY DEF IInv
    <2>3. Boundary(pass.through, segments', active')
        BY <2>1, <2>2, <1>4 DEF PassInv
    <2>4. ASSUME NEW b \in DOMAIN segments', NEW r \in segments'[b], b \in pass.todo,
                 r.key \in DOMAIN pass.map, r.off < pass.map[r.key]
          PROVE  \E s \in Records' : s.key = r.key /\ s.off = pass.map[r.key]
        <3>1. b \in DOMAIN segments /\ r \in segments[b]
            BY <1>1
        <3>2. PICK s \in Records : s.key = r.key /\ s.off = pass.map[r.key]
            BY <3>1, <2>1, <2>2, <2>4 DEF PassInv
        <3>3. PICK c \in DOMAIN segments : s \in segments[c]
            BY RecordsAreIn
        <3>4. r.off <= s.off
            BY <3>1, <3>2, <3>3, <2>2, <2>4 DEF TypeOK, Record
        <3>5. b <= c
            BY <3>1, <3>3, <3>4, <2>2, WhereRecordsAre
        <3>6. c \in DOMAIN segments'
            BY <3>1, <3>5, <1>1
        <3>7. s \in Records'
            BY <3>3, <3>6, <1>1 DEF Records
        <3> QED
            BY <3>2, <3>7
    <2> QED
        BY <1>1, <1>2, <1>4, <2>1, <2>2, <2>3, <2>4 DEF PassInv
<1> QED
    BY <1>4, <1>5 DEF IInv

\* The entry of key k in the map of a pass.
NewestIn(dirty, k) == Max({r.off : r \in {s \in Accepted(dirty) : s.key = k}})

\* Phase one: an entry of the map is the newest offset put() took for its key.
LEMMA MapIsNewest ==
    ASSUME TypeOK, Ordered, NEW dirty \in SUBSET Sealed, NEW k \in {r.key : r \in Accepted(dirty)}
    PROVE  /\ NewestIn(dirty, k) \in Nat
           /\ \E r \in Accepted(dirty) : r.key = k /\ r.off = NewestIn(dirty, k)
           /\ \A r \in Accepted(dirty) : r.key = k => r.off <= NewestIn(dirty, k)
<1> DEFINE S == {r.off : r \in {s \in Accepted(dirty) : s.key = k}}
<1>1. \A r \in Accepted(dirty) : r.off \in Nat /\ r.off <= end
    <2>1. \A r \in Accepted(dirty) : \E b \in DOMAIN segments : r \in segments[b]
        BY DEF Accepted, Keyed, Sealed
    <2> QED
        BY <2>1 DEF TypeOK, Ordered, Record
<1>2. S \in SUBSET Nat /\ S # {} /\ (\A x \in S : x <= end) /\ end \in Nat
    BY <1>1 DEF TypeOK
<1>3. Max(S) \in S /\ \A y \in S : y <= Max(S)
    <2> HIDE DEF S
    <2> QED
        BY <1>2, MaxIsGreatest
<1>4. PICK r \in Accepted(dirty) : r.key = k /\ Max(S) = r.off
    BY <1>3
<1>5. \A s \in Accepted(dirty) : s.key = k => s.off <= Max(S)
    BY <1>3
<1> HIDE DEF S
<1>6. Max(S) \in Nat
    BY <1>1, <1>4
<1> QED
    BY <1>4, <1>5, <1>6 DEF S, NewestIn

\* The end of the mapped range is the mark or the end of a mapped segment, and no
\* mapped segment reaches beyond it.
LEMMA ThroughIs ==
    ASSUME TypeOK, Ordered, mark <= active, NEW dirty \in SUBSET Sealed
    PROVE  LET through == Max({mark} \cup {NextOffset(b) : b \in Mapped(dirty)})
           IN  /\ through \in Nat /\ mark <= through
               /\ through = mark \/ \E b \in Mapped(dirty) : through = NextOffset(b)
<1> DEFINE S == {mark} \cup {NextOffset(b) : b \in Mapped(dirty)}
<1>1. \A b \in Mapped(dirty) : b \in Sealed /\ b \in DOMAIN segments /\ segments[b] # {}
    BY DEF Mapped, Sealed, Ordered
<1>2. \A b \in Mapped(dirty) : NextOffset(b) \in Nat /\ NextOffset(b) <= end
    <2> SUFFICES ASSUME NEW b \in Mapped(dirty)
                 PROVE  NextOffset(b) \in Nat /\ NextOffset(b) <= end
        OBVIOUS
    <2>1. PICK r \in segments[b] : NextOffset(b) = r.off + 1
        BY <1>1, NextOffsetIs
    <2>2. r.off < end /\ r.off \in Nat /\ end \in Nat
        BY <1>1 DEF Ordered, TypeOK, Record
    <2> QED
        BY <2>1, <2>2
<1>3. S \in SUBSET Nat /\ S # {} /\ (\A x \in S : x <= end) /\ end \in Nat
    <2>1. mark \in Nat /\ active \in Nat /\ end \in Nat /\ active <= end /\ mark <= end
        BY DEF TypeOK, Ordered
    <2> QED
        BY <1>2, <2>1
<1>4. Max(S) \in S /\ \A y \in S : y <= Max(S)
    <2> HIDE DEF S
    <2> QED
        BY <1>3, MaxIsGreatest
<1>5. Max(S) = mark \/ \E b \in Mapped(dirty) : Max(S) = NextOffset(b)
    BY <1>4
<1>6. mark <= Max(S) /\ Max(S) \in Nat
    BY <1>3, <1>4
<1> HIDE DEF S
<1> QED
    BY <1>5, <1>6 DEF S

\* A pass begins: the map has the newest offset of every key in what it covers.
LEMMA BeginPassKeeps ==
    ASSUME IInv, BeginPass
    PROVE  IInv'
<1> DEFINE dirty == {b \in Sealed : NextOffset(b) > mark}
           newest == [k \in {r.key : r \in Accepted(dirty)} |->
                         Max({r.off : r \in {s \in Accepted(dirty) : s.key = k}})]
           through == Max({mark} \cup {NextOffset(b) : b \in Mapped(dirty)})
           todo == IF Accepted(dirty) = {} THEN {} ELSE ToRewrite(through)
<1>1. /\ UNCHANGED <<segments, active, end, mark, clock>>
      /\ pass' = [map |-> newest, through |-> through, now |-> clock, todo |-> todo]
    BY DEF BeginPass, log
<1>2. /\ TypeOK /\ Ordered /\ Boundary(mark, segments, active)
      /\ mark \in Nat /\ active \in Nat /\ clock \in Nat /\ mark <= active
    BY DEF IInv, TypeOK, Boundary
<1>3. dirty \in SUBSET Sealed
    OBVIOUS
<1>4. /\ DOMAIN newest = {r.key : r \in Accepted(dirty)}
      /\ \A k \in DOMAIN newest :
            /\ newest[k] \in Nat
            /\ \E r \in Accepted(dirty) : r.key = k /\ r.off = newest[k]
            /\ \A r \in Accepted(dirty) : r.key = k => r.off <= newest[k]
    <2>1. DOMAIN newest = {r.key : r \in Accepted(dirty)}
        OBVIOUS
    <2>2. ASSUME NEW k \in DOMAIN newest
          PROVE  /\ newest[k] \in Nat
                 /\ \E r \in Accepted(dirty) : r.key = k /\ r.off = newest[k]
                 /\ \A r \in Accepted(dirty) : r.key = k => r.off <= newest[k]
        <3>1. newest[k] = NewestIn(dirty, k)
            BY DEF NewestIn
        <3> HIDE DEF newest, dirty
        <3> QED
            BY <3>1, <2>1, <2>2, <1>2, <1>3, MapIsNewest
    <2> QED
        BY <2>1, <2>2
<1>5. /\ through \in Nat /\ mark <= through
      /\ through = mark \/ \E b \in Mapped(dirty) : through = NextOffset(b)
    <2> HIDE DEF dirty
    <2> QED
        BY <1>2, <1>3, ThroughIs
<1>6. \A b \in dirty : \A r \in segments[b] : mark <= r.off
    <2> SUFFICES ASSUME NEW b \in dirty, NEW r \in segments[b] PROVE mark <= r.off
        OBVIOUS
    <2>1. b \in Sealed /\ b \in DOMAIN segments /\ segments[b] # {} /\ NextOffset(b) > mark
        BY <1>2 DEF Sealed, Ordered
    <2>2. PICK s \in segments[b] : NextOffset(b) = s.off + 1
        BY <1>2, <2>1, NextOffsetIs
    <2>3. s.off \in Nat /\ r.off \in Nat
        BY <1>2, <2>1 DEF TypeOK, Record
    <2>4. ~ (s.off < mark)
        BY <2>1, <2>2, <2>3, <1>2
    <2>5. ~ (b < mark)
        BY <2>1, <2>4, <1>2 DEF Boundary
    <2>6. b <= r.off /\ b \in Nat
        BY <2>1, <1>2 DEF Ordered, TypeOK
    <2> QED
        BY <2>3, <2>5, <2>6, <1>2
<1>7. \A r \in Accepted(dirty) :
          \E b \in dirty : r \in segments[b] /\ b \in DOMAIN segments
    BY DEF Accepted, Keyed, Sealed
<1> HIDE DEF newest, through, todo
<1>8. Boundary(through, segments, active)
    <2>1. CASE through = mark
        BY <2>1, <1>2
    <2>2. ASSUME NEW b \in Mapped(dirty), through = NextOffset(b)
          PROVE  Boundary(through, segments, active)
        <3>1. b \in Sealed /\ b \in DOMAIN segments /\ segments[b] # {} /\ b \in Nat /\ b < active
            BY <1>2, WhereRecordsAre DEF Mapped, Ordered, Sealed
        <3>2. PICK s \in segments[b] : through = s.off + 1
            BY <2>2, <3>1, <1>2, NextOffsetIs
        <3>3. s.off \in Nat /\ \A c \in DOMAIN segments : b < c => s.off < c
            BY <3>1, <1>2 DEF Ordered, TypeOK, Record
        <3>4. through <= active
            BY <3>1, <3>2, <3>3, <1>2 DEF TypeOK
        <3>5. \A r \in segments[b] : r.off < through
            BY <2>2, <3>1, <1>2, NextOffsetIs
        <3>6. ASSUME NEW c \in DOMAIN segments, c < b
              PROVE  \A r \in segments[c] : r.off < through
            <4> SUFFICES ASSUME NEW r \in segments[c] PROVE r.off < through
                OBVIOUS
            <4>1. r.off < b /\ r.off \in Nat
                BY <3>1, <3>6, <1>2 DEF Ordered, TypeOK, Record
            <4>2. b <= s.off
                BY <3>1, <1>2 DEF Ordered
            <4> QED
                BY <4>1, <4>2, <3>1, <3>2, <3>3
        <3>7. ASSUME NEW c \in DOMAIN segments, b < c
              PROVE  ~ (c < through)
            <4>1. s.off < c /\ c \in Nat
                BY <3>3, <3>7, <1>2 DEF TypeOK
            <4> QED
                BY <4>1, <3>2, <3>3
        <3>8. \A c \in DOMAIN segments : c = b \/ c < b \/ b < c
            BY <3>1, <1>2 DEF TypeOK
        <3> QED
            BY <3>4, <3>5, <3>6, <3>7, <3>8 DEF Boundary
    <2> QED
        BY <1>5, <2>1, <2>2
<1>9. ASSUME NEW r \in Records, r.key # NoKey, mark <= r.off, r.off < through
      PROVE  r.key \in DOMAIN newest /\ r.off <= newest[r.key]
    <2>1. r.off \in Nat
        BY <1>2, RecordsAreRecords
    <2>2. PICK m \in Mapped(dirty) : through = NextOffset(m)
        BY <1>2, <1>5, <1>9, <2>1
    <2>3. /\ m \in dirty /\ m \in Sealed /\ m \in DOMAIN segments /\ segments[m] # {}
          /\ \A c \in dirty : c <= m => Keyed({c}) \subseteq Accepted(dirty)
        BY <1>2 DEF Mapped, Ordered, Sealed
    <2>4. PICK s \in segments[m] : through = s.off + 1
        BY <2>2, <2>3, <1>2, NextOffsetIs
    <2>5. PICK b \in DOMAIN segments : r \in segments[b]
        BY RecordsAreIn
    <2>6. r.off <= s.off
        <3>1. s.off \in Nat
            BY <2>3, <1>2 DEF TypeOK, Record
        <3> QED
            BY <3>1, <2>1, <2>4, <1>9
    <2>7. b <= m /\ b \in Nat /\ m \in Nat /\ m < active
        BY <2>3, <2>5, <2>6, <1>2, WhereRecordsAre
    <2>8. b \in Sealed /\ segments[b] # {}
        BY <2>5, <2>7, <1>2, WhereRecordsAre
    <2>9. NextOffset(b) \in Nat /\ r.off < NextOffset(b)
        BY <2>5, <2>8, <1>2, NextOffsetIs
    <2>10. b \in dirty
        BY <2>1, <2>8, <2>9, <1>2, <1>9
    <2>11. r \in Accepted(dirty)
        BY <2>3, <2>5, <2>7, <2>10, <1>9 DEF Keyed
    <2> QED
        BY <2>11, <1>4
<1>10. NoKey \notin DOMAIN newest
    BY <1>4 DEF Accepted, Keyed
<1>11. \A k \in DOMAIN newest : newest[k] \in Nat /\ mark <= newest[k]
    BY <1>4, <1>6, <1>7
<1>12. /\ todo \subseteq Nat
       /\ \A b \in todo : b < through
    BY <1>2 DEF todo, ToRewrite, Sealed, TypeOK
<1>13. ASSUME NEW b \in DOMAIN segments, NEW r \in segments[b],
              r.key \in DOMAIN newest, b < through, b \notin todo
       PROVE  FALSE
    <2>1. Accepted(dirty) # {}
        BY <1>13, <1>4
    <2>2. b \in Sealed
        <3>1. b \in Nat /\ b < active
            BY <1>2, <1>5, <1>8, <1>13 DEF TypeOK, Boundary
        <3> QED
            BY <3>1, <1>2, WhereRecordsAre
    <2> QED
        BY <2>1, <2>2, <1>13 DEF todo, ToRewrite
<1>14. ASSUME NEW k \in DOMAIN newest
       PROVE  \E s \in Records : s.key = k /\ s.off = newest[k]
    <2>1. PICK s \in Accepted(dirty) : s.key = k /\ s.off = newest[k]
        BY <1>4
    <2>2. s \in Records
        BY <1>7, RecordsAreIn
    <2> QED
        BY <2>1, <2>2
<1>15. /\ Records' = Records
       /\ TypeOK' /\ Ordered' /\ Boundary(mark, segments, active)' /\ OnePerKeyBelowMark'
    BY <1>1, <1>2 DEF IInv, TypeOK, Ordered, Boundary, OnePerKeyBelowMark, Records, Sealed
<1>16. /\ pass'.map = newest /\ pass'.through = through
       /\ pass'.now = clock /\ pass'.todo = todo
       /\ IsPass(pass')
    BY <1>1 DEF IsPass
<1>17. PassInv'
    <2>1. pass'.now \in Nat /\ pass'.now <= clock'
        BY <1>1, <1>2, <1>16
    <2>2. /\ pass'.through \in Nat /\ mark' <= pass'.through
          /\ Boundary(pass'.through, segments', active')
          /\ pass'.todo \subseteq Nat /\ \A b \in pass'.todo : b < pass'.through
          /\ NoKey \notin DOMAIN pass'.map
          /\ \A k \in DOMAIN pass'.map : pass'.map[k] \in Nat /\ mark' <= pass'.map[k]
        BY <1>1, <1>5, <1>8, <1>10, <1>11, <1>12, <1>16
    <2>3. \A r \in Records' : r.key # NoKey /\ mark' <= r.off /\ r.off < pass'.through =>
              r.key \in DOMAIN pass'.map /\ r.off <= pass'.map[r.key]
        BY <1>1, <1>9, <1>15, <1>16
    <2>4. \A b \in DOMAIN segments' : \A r \in segments'[b] :
              r.key \in DOMAIN pass'.map /\ b < pass'.through /\ b \notin pass'.todo =>
                  pass'.map[r.key] <= r.off
        BY <1>1, <1>13, <1>16
    <2>5. \A b \in DOMAIN segments' : \A r \in segments'[b] :
              b \in pass'.todo /\ r.key \in DOMAIN pass'.map /\ r.off < pass'.map[r.key] =>
                  \E s \in Records' : s.key = r.key /\ s.off = pass'.map[r.key]
        BY <1>14, <1>15, <1>16
    <2> QED
        BY <1>16, <2>1, <2>2, <2>3, <2>4, <2>5 DEF PassInv
<1> QED
    BY <1>15, <1>17 DEF IInv

\* The swap: one sealed segment, the oldest of those left, loses what retain()
\* does not keep, and with that itself if nothing is left.
LEMMA SwapIs ==
    ASSUME IInv, pass # NoPass, NEW b \in pass.todo, CleanSegment(b)
    PROVE  /\ b \in DOMAIN segments /\ b # active /\ b < pass.through
           /\ \A c \in pass.todo : b <= c
           /\ DOMAIN segments' \subseteq DOMAIN segments
           /\ \A c \in DOMAIN segments : c # b => c \in DOMAIN segments'
           /\ \A c \in DOMAIN segments' : c # b => segments'[c] = segments[c]
           /\ b \in DOMAIN segments' =>
                segments'[b] = {r \in segments[b] : Retain(r)} /\ segments'[b] # {}
           /\ b \notin DOMAIN segments' => \A r \in segments[b] : ~Retain(r)
           /\ IsPass(pass')
           /\ pass'.todo = pass.todo \ {b} /\ pass'.map = pass.map
           /\ pass'.through = pass.through /\ pass'.now = pass.now
           /\ UNCHANGED <<active, end, mark, clock>>
<1> DEFINE kept == {r \in segments[b] : Retain(r)}
<1>1. /\ b = Min(pass.todo) /\ b \in DOMAIN segments
      /\ IF kept = {} THEN Drop({b}) ELSE segments' = [segments EXCEPT ![b] = kept]
      /\ pass' = [pass EXCEPT !.todo = @ \ {b}]
      /\ UNCHANGED <<active, end, mark, clock>>
    BY DEF CleanSegment
<1>2. /\ pass.todo \subseteq Nat /\ \A c \in pass.todo : c < pass.through
      /\ Boundary(pass.through, segments, active) /\ active \in Nat /\ pass.through \in Nat
    BY DEF IInv, PassInv, TypeOK
<1>3. \A c \in pass.todo : b <= c
    BY <1>1, <1>2, MinIsLeast
<1>4. b < pass.through /\ b # active
    BY <1>2 DEF Boundary
<1>5. /\ IsPass(pass')
      /\ pass'.todo = pass.todo \ {b} /\ pass'.map = pass.map
      /\ pass'.through = pass.through /\ pass'.now = pass.now
    <2>1. IsPass(pass)
        BY DEF IInv, PassInv
    <2>2. pass' = [map |-> pass.map, through |-> pass.through, now |-> pass.now,
                   todo |-> pass.todo \ {b}]
        BY <1>1, <2>1 DEF IsPass
    <2> QED
        BY <2>2 DEF IsPass
<1>6. CASE kept = {}
    BY <1>1, <1>3, <1>4, <1>5, <1>6 DEF Drop
<1>7. CASE kept # {}
    BY <1>1, <1>3, <1>4, <1>5, <1>7
<1> QED
    BY <1>6, <1>7

\* What the mapped range and the mark say of the records of one key below the end
\* of a pass: at most one of them is the latest.
LEMMA OneLatest ==
    ASSUME IInv, pass # NoPass, NEW r \in Records, NEW s \in Records,
           r.key = s.key, r.key # NoKey, r.off < pass.through, s.off < pass.through,
           IsLatest(r), IsLatest(s)
    PROVE  r = s
<1>1. /\ PassInv /\ TypeOK /\ Ordered /\ OnePerKeyBelowMark
      /\ r.off \in Nat /\ s.off \in Nat /\ mark \in Nat
    BY RecordsAreRecords DEF IInv, TypeOK
<1>2. CASE r.key \notin DOMAIN pass.map
    <2>1. r.off < mark /\ s.off < mark
        BY <1>1, <1>2 DEF PassInv
    <2> QED
        BY <1>1, <2>1 DEF OnePerKeyBelowMark
<1>3. CASE r.key \in DOMAIN pass.map
    <2>1. /\ pass.map[r.key] \in Nat /\ mark <= pass.map[r.key]
          /\ pass.map[r.key] <= r.off /\ pass.map[r.key] <= s.off
        BY <1>1, <1>3 DEF PassInv, IsLatest
    <2>2. mark <= r.off /\ mark <= s.off
        BY <1>1, <2>1
    <2>3. r.off <= pass.map[r.key] /\ s.off <= pass.map[r.key]
        BY <1>1, <2>2 DEF PassInv
    <2>4. r.off = s.off
        BY <1>1, <2>1, <2>3
    <2> QED
        BY <1>1, <2>4 DEF Ordered
<1> QED
    BY <1>2, <1>3

\* retain() drops a keyed record that is the newest of its key only when it is a
\* tombstone that has been there for deleteRetentionMs.
LEMMA NewestIsDroppedAsTombstone ==
    ASSUME IInv, pass # NoPass, NEW b \in pass.todo, NEW r \in segments[b],
           b \in DOMAIN segments, ~Retain(r),
           \A s \in Records : s.key = r.key => s.off <= r.off
    PROVE  IsLatest(r) /\ r.tomb /\ pass.now - r.ts >= DeleteRetention
<1>1. PassInv /\ TypeOK
    BY DEF IInv
<1>2. IsLatest(r)
    <2>1. SUFFICES ASSUME r.key \in DOMAIN pass.map, ~ (r.off >= pass.map[r.key])
                   PROVE  FALSE
        BY DEF IsLatest
    <2>2. r.off \in Nat /\ pass.map[r.key] \in Nat
        BY <1>1, <2>1 DEF PassInv, TypeOK, Record
    <2>3. PICK s \in Records : s.key = r.key /\ s.off = pass.map[r.key]
        BY <1>1, <2>1, <2>2 DEF PassInv
    <2> QED
        BY <2>1, <2>2, <2>3
<1>3. r.tomb /\ ~ (pass.now - r.ts < DeleteRetention)
    BY <1>2 DEF Retain
<1>4. pass.now \in Nat /\ r.ts \in Nat /\ DeleteRetention \in Nat
    BY <1>1, LogCleanerAssumption DEF PassInv, TypeOK, Record
<1> QED
    BY <1>2, <1>3, <1>4

\* The oldest segment left is rewritten.  A mapped record that is dropped takes the
\* older ones of its key with it: they are in this segment, or were in one before.
LEMMA CleanSegmentKeeps ==
    ASSUME IInv, pass # NoPass, NEW b \in pass.todo, CleanSegment(b)
    PROVE  IInv'
<1>1. /\ b \in DOMAIN segments /\ b # active /\ b < pass.through
      /\ \A c \in pass.todo : b <= c
      /\ DOMAIN segments' \subseteq DOMAIN segments
      /\ \A c \in DOMAIN segments : c # b => c \in DOMAIN segments'
      /\ \A c \in DOMAIN segments' : c # b => segments'[c] = segments[c]
      /\ b \in DOMAIN segments' =>
           segments'[b] = {r \in segments[b] : Retain(r)} /\ segments'[b] # {}
      /\ IsPass(pass')
      /\ pass'.todo = pass.todo \ {b} /\ pass'.map = pass.map
      /\ pass'.through = pass.through /\ pass'.now = pass.now
      /\ UNCHANGED <<active, end, mark, clock>>
    BY SwapIs
<1>2. PassInv /\ TypeOK /\ Ordered
    BY DEF IInv
<1>3. \A c \in DOMAIN segments' : segments'[c] \subseteq segments[c]
    BY <1>1
<1>4. /\ active \in DOMAIN segments'
      /\ \A c \in DOMAIN segments' : c # active => segments'[c] # {}
    BY <1>1, <1>2 DEF TypeOK, Ordered, Sealed
<1>5. /\ Records' \subseteq Records
      /\ TypeOK' /\ Ordered'
      /\ Boundary(mark, segments, active)'
      /\ OnePerKeyBelowMark'
      /\ \A o : Boundary(o, segments, active) => Boundary(o, segments', active')
    BY <1>1, <1>3, <1>4, RemovalKeeps
<1>6. ASSUME NEW c \in DOMAIN segments', NEW r \in segments'[c], r.key \in DOMAIN pass.map,
             c < pass.through, c \notin pass.todo \ {b}
      PROVE  pass.map[r.key] <= r.off
    <2>1. CASE c = b
        <3>1. Retain(r) /\ r \in segments[b]
            BY <2>1, <1>1, <1>6
        <3>2. pass.map[r.key] \in Nat /\ r.off \in Nat
            BY <3>1, <1>1, <1>2, <1>6 DEF PassInv, TypeOK, Record
        <3>3. CASE r.key = NoKey
            BY <3>3, <1>2, <1>6 DEF PassInv
        <3>4. CASE r.key # NoKey
            BY <3>1, <3>2, <3>4, <1>6 DEF Retain, IsLatest
        <3> QED
            BY <3>3, <3>4
    <2>2. CASE c # b
        BY <2>2, <1>1, <1>2, <1>6 DEF PassInv
    <2> QED
        BY <2>1, <2>2
<1>7. ASSUME NEW c \in DOMAIN segments', NEW r \in segments'[c], c \in pass.todo, c # b,
             r.key \in DOMAIN pass.map, r.off < pass.map[r.key]
      PROVE  \E s \in Records' : s.key = r.key /\ s.off = pass.map[r.key]
    <2>1. c \in DOMAIN segments /\ r \in segments[c]
        BY <1>1, <1>7
    <2>2. PICK s \in Records : s.key = r.key /\ s.off = pass.map[r.key]
        BY <2>1, <1>2, <1>7 DEF PassInv
    <2>3. PICK d \in DOMAIN segments : s \in segments[d]
        BY RecordsAreIn
    <2>4. r.off <= s.off
        BY <2>1, <2>2, <2>3, <1>2, <1>7 DEF TypeOK, Record
    <2>5. c <= d /\ b <= c /\ b \in Nat /\ c \in Nat /\ d \in Nat
        BY <2>1, <2>3, <2>4, <1>1, <1>2, <1>7, WhereRecordsAre
    <2>6. d # b
        BY <2>5, <1>7
    <2>7. s \in Records'
        BY <2>3, <2>6, <1>1 DEF Records
    <2> QED
        BY <2>2, <2>7
<1>8. PassInv'
    <2>1. Boundary(pass'.through, segments', active')
        BY <1>1, <1>2, <1>5 DEF PassInv
    <2>2. /\ pass'.now \in Nat /\ pass'.now <= clock'
          /\ pass'.through \in Nat /\ mark' <= pass'.through
          /\ pass'.todo \subseteq Nat /\ \A c \in pass'.todo : c < pass'.through
          /\ NoKey \notin DOMAIN pass'.map
          /\ \A k \in DOMAIN pass'.map : pass'.map[k] \in Nat /\ mark' <= pass'.map[k]
        BY <1>1, <1>2 DEF PassInv
    <2>3. \A r \in Records' : r.key # NoKey /\ mark' <= r.off /\ r.off < pass'.through =>
              r.key \in DOMAIN pass'.map /\ r.off <= pass'.map[r.key]
        BY <1>1, <1>2, <1>5 DEF PassInv
    <2>4. \A c \in DOMAIN segments' : \A r \in segments'[c] :
              r.key \in DOMAIN pass'.map /\ c < pass'.through /\ c \notin pass'.todo =>
                  pass'.map[r.key] <= r.off
        BY <1>1, <1>6
    <2>5. \A c \in DOMAIN segments' : \A r \in segments'[c] :
              c \in pass'.todo /\ r.key \in DOMAIN pass'.map /\ r.off < pass'.map[r.key] =>
                  \E s \in Records' : s.key = r.key /\ s.off = pass'.map[r.key]
        BY <1>1, <1>7
    <2> QED
        BY <1>1, <2>1, <2>2, <2>3, <2>4, <2>5 DEF PassInv
<1> QED
    BY <1>5, <1>8 DEF IInv

\* The pass is over: every segment up to its end was rewritten, so what is left
\* there of a key is the one record that is the latest.
LEMMA FinishPassKeeps ==
    ASSUME IInv, pass # NoPass, FinishPass
    PROVE  IInv'
<1>1. /\ TypeOK /\ Ordered /\ PassInv /\ pass.todo = {}
      /\ mark' = pass.through /\ pass' = NoPass /\ Records' = Records
      /\ UNCHANGED <<segments, active, end, clock>>
    BY DEF IInv, FinishPass, log, Records
<1>2. pass.through \in Nat /\ Boundary(pass.through, segments, active)
    BY <1>1 DEF PassInv
<1>3. TypeOK' /\ Ordered'
    BY <1>1, <1>2 DEF TypeOK, Ordered, Sealed
<1>4. Boundary(mark, segments, active)'
    BY <1>1, <1>2 DEF Boundary
<1>5. ASSUME NEW r \in Records, r.key # NoKey, r.off < pass.through
      PROVE  IsLatest(r)
    <2>1. PICK b \in DOMAIN segments : r \in segments[b]
        BY RecordsAreIn
    <2>2. r.off \in Nat /\ b \in Nat /\ b <= r.off
        BY <1>1, <2>1 DEF TypeOK, Ordered, Record
    <2>3. b < pass.through /\ b \notin pass.todo
        BY <1>1, <1>2, <1>5, <2>2
    <2>4. r.key \in DOMAIN pass.map => pass.map[r.key] <= r.off /\ pass.map[r.key] \in Nat
        BY <1>1, <2>1, <2>3 DEF PassInv
    <2> QED
        BY <2>2, <2>4 DEF IsLatest
<1>6. OnePerKeyBelowMark'
    <2>1. SUFFICES ASSUME NEW r \in Records, NEW s \in Records, r.key = s.key,
                          r.key # NoKey, r.off < pass.through, s.off < pass.through
                   PROVE  r = s
        BY <1>1 DEF OnePerKeyBelowMark
    <2>2. IsLatest(r) /\ IsLatest(s)
        BY <1>5, <2>1
    <2> QED
        BY <2>1, <2>2, OneLatest
<1>7. PassInv'
    BY <1>1 DEF PassInv
<1> QED
    BY <1>3, <1>4, <1>6, <1>7 DEF IInv

\* The process dies, or the pass ends early: what it has rewritten stays as it is,
\* and the mark is where it was, or nowhere.
LEMMA PassEndsKeeps ==
    ASSUME IInv, UNCHANGED <<segments, active, end, clock>>, pass' = NoPass,
           mark' = mark \/ mark' = 0
    PROVE  IInv'
<1>1. /\ TypeOK /\ Ordered /\ Boundary(mark, segments, active) /\ OnePerKeyBelowMark
      /\ Records' = Records
    BY DEF IInv, Records
<1>2. TypeOK' /\ Ordered'
    BY <1>1 DEF TypeOK, Ordered, Sealed
<1>3. Boundary(mark, segments, active)'
    <2>1. CASE mark' = mark
        BY <1>1, <2>1 DEF Boundary
    <2>2. CASE mark' = 0
        BY <1>1, <2>2 DEF Boundary, TypeOK, Record
    <2> QED
        BY <2>1, <2>2
<1>4. OnePerKeyBelowMark'
    <2>1. CASE mark' = mark
        BY <1>1, <2>1 DEF OnePerKeyBelowMark
    <2>2. CASE mark' = 0
        <3>1. \A r \in Records : ~ (r.off < 0)
            BY <1>1, RecordsAreRecords
        <3> QED
            BY <1>1, <2>2, <3>1 DEF OnePerKeyBelowMark
    <2> QED
        BY <2>1, <2>2
<1>5. PassInv'
    BY DEF PassInv
<1> QED
    BY <1>2, <1>3, <1>4, <1>5 DEF IInv

\* A segment that retention took first is left out.
LEMMA SwapRefusedKeeps ==
    ASSUME IInv, pass # NoPass, NEW b \in pass.todo, SwapRefused(b)
    PROVE  IInv'
<1>1. /\ b \notin DOMAIN segments
      /\ pass' = [pass EXCEPT !.todo = @ \ {b}]
      /\ UNCHANGED <<segments, active, end, mark, clock>>
      /\ PassInv /\ Records' = Records
    BY DEF IInv, SwapRefused, log, Records
<1>2. /\ IsPass(pass')
      /\ pass'.todo = pass.todo \ {b} /\ pass'.map = pass.map
      /\ pass'.through = pass.through /\ pass'.now = pass.now
    <2>1. pass' = [map |-> pass.map, through |-> pass.through, now |-> pass.now,
                   todo |-> pass.todo \ {b}]
        BY <1>1 DEF PassInv, IsPass
    <2> QED
        BY <2>1 DEF IsPass
<1>3. TypeOK' /\ Ordered' /\ Boundary(mark, segments, active)' /\ OnePerKeyBelowMark'
    BY <1>1 DEF IInv, TypeOK, Ordered, Sealed, OnePerKeyBelowMark
<1>4. PassInv'
    BY <1>1, <1>2 DEF PassInv
<1> QED
    BY <1>3, <1>4 DEF IInv

LEMMA TickKeeps ==
    ASSUME IInv, Tick
    PROVE  IInv'
<1>1. /\ clock \in Nat /\ clock' = clock + 1 /\ Records' = Records
      /\ UNCHANGED <<segments, active, end, mark, pass>>
    BY DEF IInv, TypeOK, Tick, log, Records
<1>2. TypeOK'
    BY <1>1 DEF IInv, TypeOK
<1>3. Ordered'
    <2>1. \A r \in Records : r.ts <= clock'
        BY <1>1, RecordsAreRecords DEF IInv, Ordered
    <2> QED
        BY <1>1, <2>1 DEF IInv, Ordered, Sealed
<1>4. Boundary(mark, segments, active)' /\ OnePerKeyBelowMark'
    BY <1>1 DEF IInv, OnePerKeyBelowMark
<1>5. PassInv'
    BY <1>1 DEF IInv, PassInv
<1> QED
    BY <1>2, <1>3, <1>4, <1>5 DEF IInv

LEMMA StepKeeps ==
    ASSUME IInv, [Next]_vars
    PROVE  IInv'
<1>1. ASSUME NEW k \in Keys, NEW tomb \in BOOLEAN, Produce(k, tomb) PROVE IInv'
    BY <1>1, ProduceKeeps
<1>2. ASSUME Produce(NoKey, FALSE) PROVE IInv'
    BY <1>2, ProduceKeeps
<1>3. CASE Roll
    BY <1>3, RollKeeps
<1>4. CASE ApplyRetention
    BY <1>4, ApplyRetentionKeeps
<1>5. CASE BeginPass
    BY <1>5, BeginPassKeeps
<1>6. CASE Cleaning
    <2>1. CASE FinishPass
        BY <2>1, <1>6, FinishPassKeeps DEF Cleaning
    <2>2. CASE PassFails
        BY <2>2, PassEndsKeeps DEF PassFails, log
    <2>3. ASSUME NEW b \in pass.todo, CleanSegment(b) PROVE IInv'
        BY <2>3, <1>6, CleanSegmentKeeps DEF Cleaning
    <2>4. ASSUME NEW b \in pass.todo, SwapRefused(b) PROVE IInv'
        BY <2>4, <1>6, SwapRefusedKeeps DEF Cleaning
    <2> QED
        BY <1>6, <2>1, <2>2, <2>3, <2>4 DEF Cleaning
<1>7. CASE Restart
    BY <1>7, PassEndsKeeps DEF Restart, log
<1>8. CASE Tick
    BY <1>8, TickKeeps
<1>9. CASE UNCHANGED vars
    BY <1>9 DEF IInv, TypeOK, Ordered, Boundary, OnePerKeyBelowMark, PassInv, Records, Sealed, vars
<1> QED
    BY <1>1, <1>2, <1>3, <1>4, <1>5, <1>6, <1>7, <1>8, <1>9 DEF Next

LEMMA InitKeeps ==
    ASSUME Init
    PROVE  IInv
<1>1. Records = {}
    BY DEF Init, Records
<1>2. TypeOK /\ Ordered /\ Boundary(mark, segments, active) /\ OnePerKeyBelowMark
    BY <1>1 DEF Init, TypeOK, Ordered, Boundary, OnePerKeyBelowMark, Sealed
<1>3. PassInv
    BY DEF Init, PassInv
<1> QED
    BY <1>2, <1>3 DEF IInv

\* The conjuncts of IInv hold in every reachable state.
LEMMA Invariance == Spec => []IInv
<1>1. Init => IInv
    BY InitKeeps
<1>2. IInv /\ [Next]_vars => IInv'
    BY StepKeeps
<1> QED
    BY <1>1, <1>2, PTL DEF Spec

-----------------------------------------------------------------------------
\* The theorems.

\* Types, and the shape the cleaner and retention leave the partition in: an
\* ordered row of segments, no sealed one empty.
THEOREM TypeCorrect == Spec => [](TypeOK /\ Ordered)
<1>1. IInv => TypeOK /\ Ordered
    BY DEF IInv
<1> QED
    BY <1>1, Invariance, PTL

\* Below the mark of the cleaner there is at most one record of every key, however
\* little of it fitted in the key map and whatever retention did meanwhile.
THEOREM CleanedIsClean == Spec => []OnePerKeyBelowMark
<1>1. IInv => OnePerKeyBelowMark
    BY DEF IInv
<1> QED
    BY <1>1, Invariance, PTL

-----------------------------------------------------------------------------
\* The refinement: what a reader sees of the partition.

\* r is the newest record of key k in R.
IsNewest(R, k, r) == r \in R /\ r.key = k /\ \A s \in R : s.key = k => s.off <= r.off

ViewOf(R) ==
    [k \in Keys |-> IF \E r \in R : r.key = k
                    THEN CHOOSE r \in R : r.key = k /\ \A s \in R : s.key = k => s.off <= r.off
                    ELSE Gone]

\* A set of records that a log of length e can hold: each offset once.
Sound(R, e) ==
    /\ R \subseteq Record /\ e \in Nat
    /\ \A r \in R : r.off < e
    /\ \A r, s \in R : r.off = s.off => r = s

LEMMA RecordsAreSound == TypeOK /\ Ordered => Sound(Records, end)
BY RecordsAreRecords, RecordsAreIn DEF Sound, Ordered, TypeOK

LEMMA RecordsStaySound == (TypeOK /\ Ordered)' => Sound(Records', end')
<1>1. (TypeOK /\ Ordered => Sound(Records, end))'
    BY RecordsAreSound, PTL
<1> QED
    BY <1>1 DEF Sound

\* Every key of which there is a record has one newest record, and the view shows it.
LEMMA ViewIs ==
    ASSUME NEW R, NEW e, Sound(R, e), NEW k \in Keys
    PROVE  /\ (\E r \in R : r.key = k) => \E r \in R : IsNewest(R, k, r)
           /\ \A r \in R : IsNewest(R, k, r) => ViewOf(R)[k] = r
           /\ ~(\E r \in R : r.key = k) => ViewOf(R)[k] = Gone
<1>1. \A r \in R : r \in Record /\ r.off \in Nat /\ r.off <= e
    BY DEF Sound, Record
<1>2. ASSUME NEW q \in R, q.key = k
      PROVE  \E r \in R : IsNewest(R, k, r)
    <2> DEFINE S == {r.off : r \in {s \in R : s.key = k}}
    <2>1. S \in SUBSET Nat /\ S # {} /\ (\A x \in S : x <= e) /\ e \in Nat
        BY <1>1, <1>2 DEF Sound
    <2>2. Max(S) \in S /\ \A y \in S : y <= Max(S)
        <3> HIDE DEF S
        <3> QED
            BY <2>1, MaxIsGreatest
    <2>3. PICK r \in R : r.key = k /\ Max(S) = r.off
        BY <2>2
    <2>4. \A s \in R : s.key = k => s.off <= Max(S)
        BY <2>2
    <2> HIDE DEF S
    <2> QED
        BY <2>3, <2>4 DEF IsNewest
<1>3. ASSUME NEW r \in R, IsNewest(R, k, r), NEW s \in R, IsNewest(R, k, s)
      PROVE  r = s
    <2>1. r.off <= s.off /\ s.off <= r.off /\ r.off \in Nat /\ s.off \in Nat
        BY <1>1, <1>3 DEF IsNewest
    <2>2. r.off = s.off
        BY <2>1
    <2> QED
        BY <2>2 DEF Sound
<1>4. ASSUME NEW r \in R, IsNewest(R, k, r)
      PROVE  ViewOf(R)[k] = r
    <2>1. \E s \in R : s.key = k
        BY <1>4 DEF IsNewest
    <2>2. ViewOf(R)[k] = CHOOSE s \in R : s.key = k /\ \A t \in R : t.key = k => t.off <= s.off
        BY <2>1 DEF ViewOf
    <2>3. /\ ViewOf(R)[k] \in R
          /\ ViewOf(R)[k].key = k
          /\ \A t \in R : t.key = k => t.off <= ViewOf(R)[k].off
        BY <2>2, <1>4 DEF IsNewest
    <2>4. IsNewest(R, k, ViewOf(R)[k])
        BY <2>3 DEF IsNewest
    <2> QED
        BY <1>3, <1>4, <2>3, <2>4
<1> QED
    BY <1>2, <1>4 DEF ViewOf

\* Taking records away leaves the view of a key alone if its newest record stays.
LEMMA ViewStays ==
    ASSUME NEW R, NEW S, NEW e, NEW f, Sound(R, e), Sound(S, f), S \subseteq R,
           NEW k \in Keys,
           \A r \in R : IsNewest(R, k, r) => r \in S
    PROVE  ViewOf(S)[k] = ViewOf(R)[k]
<1>1. CASE \E r \in R : r.key = k
    <2>1. PICK r \in R : IsNewest(R, k, r)
        BY <1>1, ViewIs
    <2>2. r \in S /\ IsNewest(S, k, r)
        BY <2>1 DEF IsNewest
    <2> QED
        BY <2>1, <2>2, ViewIs
<1>2. CASE ~ (\E r \in R : r.key = k)
    <2>1. ~ (\E r \in S : r.key = k)
        BY <1>2
    <2> QED
        BY <1>2, <2>1, ViewIs
<1> QED
    BY <1>1, <1>2

\* View is the view of the records there are.
LEMMA ViewIsOfRecords == View = ViewOf(Records) /\ View' = ViewOf(Records')
BY DEF View, ViewOf, Newest

\* A newer record of one key is all that Produce() changes in the view.
LEMMA ProducePuts ==
    ASSUME IInv, IInv', NEW k \in Keys \cup {NoKey}, NEW tomb \in BOOLEAN, Produce(k, tomb)
    PROVE  IF k = NoKey THEN View' = View /\ clock' = clock
                        ELSE k \in Keys /\ Promise!Put(k)
<1> USE LogCleanerAssumption
<1> DEFINE r == Appended(k, tomb)
<1>1. /\ Sound(Records, end) /\ Sound(Records', end')
      /\ end \in Nat /\ clock \in Nat /\ clock' = clock
    BY RecordsAreSound, RecordsStaySound DEF IInv, TypeOK, Produce
<1> HIDE DEF r
<1>2. r \in Record /\ r.off = end /\ r.key = k
    BY ProduceAppends DEF IInv, r
<1>3. Records' = Records \cup {r}
    BY ProduceAppends DEF IInv, r
<1>4. \A s \in Records : s \in Record /\ s.off < end /\ s.off \in Nat
    BY <1>1 DEF Sound, Record
<1>5. ASSUME NEW l \in Keys, l # k
      PROVE  ViewOf(Records')[l] = ViewOf(Records)[l]
    <2>1. CASE \E s \in Records : s.key = l
        <3>1. PICK s \in Records : IsNewest(Records, l, s)
            BY <2>1, <1>1, ViewIs
        <3>2. s \in Records' /\ IsNewest(Records', l, s)
            BY <3>1, <1>2, <1>3, <1>5 DEF IsNewest
        <3> QED
            BY <3>1, <3>2, <1>1, ViewIs
    <2>2. CASE ~ (\E s \in Records : s.key = l)
        <3>1. ~ (\E s \in Records' : s.key = l)
            BY <2>2, <1>2, <1>3, <1>5
        <3> QED
            BY <2>2, <3>1, <1>1, ViewIs
    <2> QED
        BY <2>1, <2>2
<1>6. CASE k = NoKey
    <2>1. \A l \in Keys : ViewOf(Records')[l] = ViewOf(Records)[l]
        BY <1>5, <1>6
    <2>2. ViewOf(Records') = ViewOf(Records)
        BY <2>1 DEF ViewOf
    <2> QED
        BY <1>1, <1>6, <2>2, ViewIsOfRecords
<1>7. CASE k # NoKey
    <2>1. k \in Keys
        BY <1>7
    <2>2. r \in Records' /\ IsNewest(Records', k, r)
        <3>1. \A s \in Records' : s.off <= r.off
            BY <1>1, <1>2, <1>3, <1>4
        <3> QED
            BY <3>1, <1>2, <1>3 DEF IsNewest
    <2>3. View'[k] = r
        BY <2>1, <2>2, <1>1, ViewIs, ViewIsOfRecords
    <2>4. View'[k] # Gone
        BY <2>3, <1>2 DEF Record
    <2>5. ASSUME View[k] # Gone PROVE View'[k].off > View[k].off
        <3>1. \E s \in Records : s.key = k
            BY <2>1, <2>5, <1>1, ViewIs, ViewIsOfRecords
        <3>2. PICK s \in Records : IsNewest(Records, k, s)
            BY <2>1, <3>1, <1>1, ViewIs
        <3>3. View[k] = s
            BY <2>1, <3>2, <1>1, ViewIs, ViewIsOfRecords
        <3> QED
            BY <3>2, <3>3, <2>3, <1>1, <1>2, <1>4
    <2>6. \A l \in Keys \ {k} : View'[l] = View[l]
        BY <1>5, ViewIsOfRecords
    <2> QED
        BY <1>1, <1>7, <2>1, <2>4, <2>5, <2>6 DEF Promise!Put
<1> QED
    BY <1>6, <1>7

\* Retention takes the newest record of a key only with all older ones of any key,
\* and only when it is retentionMs old or the partition is over its limit.
LEMMA RetentionRetires ==
    ASSUME IInv, IInv', ApplyRetention
    PROVE  Promise!Retire
<1>1. /\ Sound(Records, end) /\ Sound(Records', end')
      /\ TypeOK /\ Ordered /\ clock' = clock
    BY RecordsAreSound, RecordsStaySound DEF IInv, ApplyRetention
<1>2. /\ DOMAIN segments' \subseteq DOMAIN segments
      /\ \A b \in DOMAIN segments' : segments'[b] = segments[b]
      /\ \A b \in DOMAIN segments \ DOMAIN segments' :
            /\ AgedOut(b) \/ Cardinality(Records) > RetentionBytes
            /\ \A c \in DOMAIN segments : c <= b => c \notin DOMAIN segments'
    BY RetentionTakesABeginning
<1>3. Records' \subseteq Records
    BY <1>2 DEF Records
\* With the newest record of a key go all records at or before it.
<1>4. ASSUME NEW r \in Records, r \notin Records', NEW s \in Records, s.off <= r.off
      PROVE  s \notin Records'
    <2>1. PICK b \in DOMAIN segments : r \in segments[b]
        BY RecordsAreIn
    <2>2. b \notin DOMAIN segments'
        BY <2>1, <1>4, <1>2 DEF Records
    <2>3. ASSUME s \in Records' PROVE FALSE
        <3>1. PICK c \in DOMAIN segments' : s \in segments'[c]
            BY <2>3 DEF Records
        <3>2. c \in DOMAIN segments /\ s \in segments[c]
            BY <3>1, <1>2
        <3>3. c <= b
            BY <2>1, <3>2, <1>4, <1>1, WhereRecordsAre
        <3> QED
            BY <2>2, <3>1, <3>2, <3>3, <1>2
    <2> QED
        BY <2>3
<1>5. ASSUME NEW k \in Keys, View'[k] # View[k]
      PROVE  \E r \in Records : r \notin Records' /\ View[k] = r
    <2>1. PICK r \in Records : IsNewest(Records, k, r) /\ r \notin Records'
        BY <1>5, <1>1, <1>3, ViewStays, ViewIsOfRecords
    <2> QED
        BY <2>1, <1>1, ViewIs, ViewIsOfRecords
<1>6. ASSUME NEW r \in Records, r \notin Records', NEW l \in Keys,
             View[l] # Gone, View[l].off <= r.off
      PROVE  View'[l] = Gone
    <2>1. PICK s \in Records : IsNewest(Records, l, s)
        BY <1>6, <1>1, ViewIs, ViewIsOfRecords
    <2>2. View[l] = s
        BY <2>1, <1>1, ViewIs, ViewIsOfRecords
    <2>3. ASSUME NEW t \in Records', t.key = l PROVE FALSE
        <3>1. t \in Records /\ t.off <= s.off
            BY <2>1, <2>3, <1>3 DEF IsNewest
        <3>2. t.off <= r.off
            <4>1. t \in Record /\ s \in Record /\ r \in Record
                BY <3>1, <1>1 DEF Sound
            <4> QED
                BY <1>6, <2>2, <3>1, <4>1 DEF Record
        <3> QED
            BY <1>4, <1>6, <2>3, <3>1, <3>2
    <2> QED
        BY <2>3, <1>1, ViewIs, ViewIsOfRecords
<1>7. ASSUME NEW k \in Keys, View'[k] # View[k]
      PROVE  /\ View'[k] = Gone
             /\ Cardinality(Records) > RetentionBytes \/ (View[k] # Gone /\ clock - View[k].ts >= RetentionMs)
             /\ \A l \in Keys : View[l] # Gone /\ View[l].off <= View[k].off => View'[l] = Gone
    <2>1. PICK r \in Records : r \notin Records' /\ View[k] = r
        BY <1>5, <1>7
    <2>2. r \in Record /\ r # Gone
        BY <1>1, LogCleanerAssumption DEF Sound, Record
    <2>3. PICK b \in DOMAIN segments : r \in segments[b]
        BY RecordsAreIn
    <2>4. b \notin DOMAIN segments'
        BY <2>1, <2>3, <1>2 DEF Records
    <2>5. clock - r.ts >= RetentionMs \/ Cardinality(Records) > RetentionBytes
        BY <2>3, <2>4, <1>2 DEF AgedOut
    <2>6. \A l \in Keys : View[l] # Gone /\ View[l].off <= View[k].off => View'[l] = Gone
        BY <1>6, <2>1
    <2>7. r.off <= r.off
        BY <2>2 DEF Record
    <2>8. View'[k] = Gone
        BY <2>1, <2>2, <2>6, <2>7
    <2> QED
        BY <2>1, <2>2, <2>5, <2>6, <2>8
<1> QED
    BY <1>1, <1>7 DEF Promise!Retire, Promise!Old

\* A swap takes the newest record of a key only when it is a tombstone of
\* deleteRetentionMs, and then no older record of the key is left.
LEMMA SwapCollects ==
    ASSUME IInv, IInv', pass # NoPass, NEW b \in pass.todo, CleanSegment(b)
    PROVE  Promise!Collect
<1>1. /\ Sound(Records, end) /\ Sound(Records', end')
      /\ TypeOK /\ Ordered /\ PassInv /\ pass.now \in Nat /\ pass.now <= clock /\ clock \in Nat
    BY RecordsAreSound, RecordsStaySound DEF IInv, PassInv, TypeOK
<1>2. /\ b \in DOMAIN segments /\ b < pass.through
      /\ \A c \in pass.todo : b <= c
      /\ DOMAIN segments' \subseteq DOMAIN segments
      /\ \A c \in DOMAIN segments : c # b => c \in DOMAIN segments'
      /\ \A c \in DOMAIN segments' : c # b => segments'[c] = segments[c]
      /\ b \in DOMAIN segments' => segments'[b] = {r \in segments[b] : Retain(r)}
      /\ b \notin DOMAIN segments' => \A r \in segments[b] : ~Retain(r)
      /\ clock' = clock
    BY SwapIs
<1>3. Records' \subseteq Records
    <2>1. \A c \in DOMAIN segments' : segments'[c] \subseteq segments[c]
        BY <1>2
    <2> QED
        BY <2>1, <1>2 DEF Records
<1>4. ASSUME NEW k \in Keys
      PROVE  \/ View'[k] = View[k]
             \/ /\ View'[k] = Gone /\ View[k] # Gone
                /\ clock - View[k].ts >= DeleteRetention /\ View[k].tomb
    <2>1. CASE \A r \in Records : IsNewest(Records, k, r) => r \in Records'
        BY <2>1, <1>1, <1>3, ViewStays, ViewIsOfRecords
    <2>2. ASSUME NEW r \in Records, IsNewest(Records, k, r), r \notin Records'
          PROVE  /\ View'[k] = Gone /\ View[k] # Gone
                 /\ clock - View[k].ts >= DeleteRetention /\ View[k].tomb
        <3>1. PICK c \in DOMAIN segments : r \in segments[c]
            BY RecordsAreIn
        <3>2. c = b
            BY <3>1, <2>2, <1>2 DEF Records
        <3>3. r \in segments[b] /\ ~Retain(r)
            BY <3>1, <3>2, <2>2, <1>2 DEF Records
        <3>4. r.key = k /\ r.key # NoKey /\ r.ts \in Nat /\ r.off \in Nat /\ r # Gone
            <4>1. r \in Record
                BY <1>1 DEF Sound
            <4> QED
                BY <4>1, <2>2, LogCleanerAssumption DEF IsNewest, Record
        <3>5. IsLatest(r) /\ r.tomb /\ pass.now - r.ts >= DeleteRetention
            BY <3>3, <3>4, <2>2, <1>2, NewestIsDroppedAsTombstone DEF IsNewest
        <3>6. clock - r.ts >= DeleteRetention
            BY <3>4, <3>5, <1>1, LogCleanerAssumption
        <3>7. r.off < pass.through
            BY <3>3, <1>1, <1>2 DEF PassInv, Boundary
        <3>8. ASSUME NEW s \in Records', s.key = k PROVE FALSE
            <4>1. PICK d \in DOMAIN segments' : s \in segments'[d]
                BY DEF Records
            <4>2. d \in DOMAIN segments /\ s \in segments[d] /\ s \in Records
                BY <4>1, <1>2, <1>3
            <4>3. s.off <= r.off /\ s.off \in Nat /\ pass.through \in Nat
                BY <3>8, <4>2, <2>2, <1>1 DEF IsNewest, TypeOK, Record, PassInv
            <4>4. d <= b /\ d \in Nat /\ b \in Nat
                BY <3>3, <4>2, <4>3, <1>1, <1>2, WhereRecordsAre
            <4>5. s.off < pass.through
                BY <3>4, <3>7, <4>3
            <4>6. IsLatest(s)
                <5>1. CASE d = b
                    BY <5>1, <4>1, <1>2, <3>4, <3>8 DEF Retain
                <5>2. CASE d # b
                    <6>1. d \notin pass.todo /\ d < pass.through
                        BY <5>2, <4>3, <4>4, <1>2
                    <6>2. s.key \in DOMAIN pass.map => pass.map[s.key] <= s.off
                        BY <6>1, <4>2, <1>1 DEF PassInv
                    <6>3. s.key \in DOMAIN pass.map => pass.map[s.key] \in Nat
                        BY <1>1 DEF PassInv
                    <6> QED
                        BY <6>2, <6>3, <4>3 DEF IsLatest
                <5> QED
                    BY <5>1, <5>2
            <4>7. s = r
                BY <4>2, <4>5, <4>6, <3>4, <3>5, <3>7, <3>8, OneLatest
            <4> QED
                BY <4>7, <2>2
        <3>9. View'[k] = Gone
            BY <3>8, <1>1, ViewIs, ViewIsOfRecords
        <3>10. View[k] = r
            BY <2>2, <1>1, ViewIs, ViewIsOfRecords
        <3> QED
            BY <3>4, <3>5, <3>6, <3>9, <3>10
    <2> QED
        BY <2>1, <2>2
<1> QED
    BY <1>2, <1>4 DEF Promise!Collect, Promise!Old

\* Steps that leave the records alone leave the view alone.
LEMMA ViewStutters ==
    ASSUME Records' = Records
    PROVE  View' = View
BY ViewIsOfRecords

LEMMA RollKeepsRecords ==
    ASSUME IInv, Roll
    PROVE  Records' = Records
<1>1. /\ segments' = [b \in DOMAIN segments \cup {end} |-> IF b = end THEN {} ELSE segments[b]]
      /\ \E r \in segments[active] : TRUE
    BY DEF Roll
<1>2. \A b \in DOMAIN segments : b # end
    <2>1. PICK r \in segments[active] : TRUE
        BY <1>1
    <2>2. /\ active <= r.off /\ r.off < end /\ r.off \in Nat /\ active \in Nat /\ end \in Nat
          /\ \A b \in DOMAIN segments : b <= active /\ b \in Nat
        BY DEF IInv, Ordered, TypeOK, Record
    <2> QED
        BY <2>2
<1>3. /\ DOMAIN segments' = DOMAIN segments \cup {end}
      /\ segments'[end] = {}
      /\ \A b \in DOMAIN segments : segments'[b] = segments[b]
    BY <1>1, <1>2
<1> QED
    BY <1>3 DEF Records

\* Compaction is invisible to a reader who wants the newest record of each key:
\* every step of the partition and of the cleaner is a step of KeyedView.
THEOREM CompactionKeepsNewest == Spec => NewestIsKept
<1> DEFINE Step == Promise!Collect \/ Promise!Retire \/ Promise!Wait \/ \E k \in Keys : Promise!Put(k)
<1>1. ASSUME Init PROVE View = [k \in Keys |-> Gone] /\ clock = 0
    <2>1. Records = {}
        BY <1>1 DEF Init, Records
    <2> QED
        BY <1>1, <2>1 DEF View, Init
<1>2. ASSUME IInv, IInv', [Next]_vars PROVE [Step]_<<View, clock>>
    <2> HIDE DEF Step
    <2>1. ASSUME NEW k \in Keys \cup {NoKey}, NEW tomb \in BOOLEAN, Produce(k, tomb)
          PROVE  Step \/ UNCHANGED <<View, clock>>
        BY <2>1, <1>2, ProducePuts DEF Step
    <2>2. CASE Roll
        <3>1. View' = View
            BY <2>2, <1>2, RollKeepsRecords, ViewStutters
        <3> QED
            BY <3>1, <2>2 DEF Roll
    <2>3. CASE ApplyRetention
        BY <2>3, <1>2, RetentionRetires DEF Step
    <2>4. ASSUME UNCHANGED segments PROVE View' = View
        BY <2>4, ViewStutters DEF Records
    <2>5. CASE BeginPass \/ Restart
        BY <2>4, <2>5 DEF BeginPass, Restart, log
    <2>6. CASE Cleaning
        <3>1. CASE FinishPass \/ PassFails
            BY <2>4, <3>1 DEF FinishPass, PassFails, log
        <3>2. ASSUME NEW b \in pass.todo, CleanSegment(b) PROVE Step
            BY <2>6, <3>2, <1>2, SwapCollects DEF Cleaning, Step
        <3>3. ASSUME NEW b \in pass.todo, SwapRefused(b) PROVE UNCHANGED <<View, clock>>
            BY <2>4, <3>3 DEF SwapRefused, log
        <3> QED
            BY <2>6, <3>1, <3>2, <3>3 DEF Cleaning
    <2>7. CASE Tick
        <3>1. clock' > clock
            BY <2>7, <1>2 DEF Tick, IInv, TypeOK
        <3>2. View' = View
            BY <2>4, <2>7 DEF Tick, log
        <3> QED
            BY <3>1, <3>2 DEF Step, Promise!Wait
    <2>8. CASE UNCHANGED vars
        BY <2>4, <2>8 DEF vars
    <2> QED
        BY <1>2, <2>1, <2>2, <2>3, <2>5, <2>6, <2>7, <2>8 DEF Next
<1> QED
    BY <1>1, <1>2, Invariance, PTL DEF Spec, NewestIsKept, Promise!Spec
=============================================================================
