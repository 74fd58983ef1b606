------------------------- MODULE PartitionLogProofs -------------------------
(***************************************************************************)
(* Proofs about PartitionLog, for any number of readers, any segment size, *)
(* index interval, retention and bounds.  The directory of a partition is  *)
(* described by Directory(f, i, top): f the .log files, i the .index files *)
(* and top the newest segment, whether the process runs or not.            *)
(***************************************************************************)
EXTENDS PartitionLog, WellFoundedInduction, FiniteSetTheorems, TLAPS

\* Complete batches at or above b, none of which overlap.
Within(b, S) ==
    /\ S \subseteq Batch
    /\ \A x \in S : x.whole /\ b <= x.first /\ x.first <= x.last
    /\ \A x, y \in S : x.first <= y.last /\ y.first <= x.last => x = y

\* They hold every offset from b up to e, and nothing beyond.
Dense(b, S, e) ==
    /\ e \in Nat
    /\ b <= e
    /\ \A x \in S : x.last < e
    /\ \A o \in Nat : b <= o /\ o < e => \E x \in S : x.first <= o /\ o <= x.last

Complete(S) == {x \in S : x.whole}

\* A segment that is not the newest of directory f.
SealedOK(f, i, b) ==
    /\ f[b] # {}
    /\ Within(b, f[b])
    /\ \A x \in f[b] : \A c \in DOMAIN f : c <= b \/ x.last < c
    /\ b \in i
    /\ ~Compact => Dense(b, f[b], EndOf(b, f[b])) /\ EndOf(b, f[b]) \in DOMAIN f

\* The newest: its complete batches, and perhaps a torn one after them.
NewestOK(b, S) ==
    /\ Within(b, Complete(S))
    /\ Dense(b, Complete(S), EndOf(b, Complete(S)))
    /\ \A x \in S :
        /\ x \in Batch
        /\ x.whole \/ (EndOf(b, Complete(S)) <= x.first /\ x.first <= x.last)

Directory(f, i, top) ==
    /\ DOMAIN f \subseteq Nat
    /\ top \in DOMAIN f
    /\ \A c \in DOMAIN f : c <= top
    /\ \A b \in DOMAIN f \ {top} : SealedOK(f, i, b)
    /\ NewestOK(top, f[top])

-----------------------------------------------------------------------------
(* Numbers and ends *)

\* A non-empty set of naturals has a least element.
LEMMA LeastExists ==
    ASSUME NEW S \in SUBSET Nat, S # {}
    PROVE  \E m \in S : \A n \in S : m <= n
<1>1. PICK x \in S : \A y \in S : ~(<<y, x>> \in OpToRel(<, Nat))
  BY NatLessThanWellFounded, WFMin, Zenon
<1>2. \A y \in S : ~(y < x)
  BY <1>1 DEF OpToRel
<1> QED
  BY <1>2

\* Batches that end below a bound have one that ends last, and EndOf() finds it.
LEMMA EndIsLast ==
    ASSUME NEW b \in Nat, NEW S \in SUBSET Batch, S # {}, NEW e \in Nat,
           \A x \in S : x.last <= e
    PROVE  \E x \in S : /\ EndOf(b, S) = x.last + 1
                        /\ \A y \in S : y.last <= x.last
<1> DEFINE D == {e - x.last : x \in S}
<1>1. \A x \in S : x.last \in Nat
  BY DEF Batch
<1>2. D \in SUBSET Nat /\ D # {}
  BY <1>1
<1>3. PICK m \in D : \A n \in D : m <= n
  BY <1>2, LeastExists
<1>4. PICK z \in S : m = e - z.last
  BY <1>3
<1>5. ASSUME NEW y \in S
      PROVE  y.last <= z.last
  <2>1. e - y.last \in D
    OBVIOUS
  <2>2. e - z.last <= e - y.last
    BY <1>3, <1>4, <2>1
  <2> QED
    BY <1>1, <2>2
<1> DEFINE w == CHOOSE x \in S : \A y \in S : y.last <= x.last
<1>6. w \in S /\ \A y \in S : y.last <= w.last
  BY <1>5
<1>7. EndOf(b, S) = w.last + 1
  BY <1>1, <1>6 DEF EndOf
<1> QED
  BY <1>6, <1>7

\* Where dense batches end.
LEMMA EndOfDense ==
    ASSUME NEW b \in Nat, NEW S, NEW e, Within(b, S), Dense(b, S, e)
    PROVE  /\ EndOf(b, S) = e
           /\ S = {} <=> e = b
<1>1. \A x \in S : x.first \in Nat /\ x.last \in Nat
  BY DEF Within, Batch
<1>2. CASE S = {}
  <2>1. e = b
    BY <1>2 DEF Dense
  <2> QED
    BY <1>2, <2>1 DEF EndOf
<1>3. CASE S # {}
  <2>1. e > b
    BY <1>1, <1>3 DEF Dense, Within
  <2>2. PICK z \in S : z.first <= e - 1 /\ e - 1 <= z.last
    BY <2>1 DEF Dense
  <2>3. z.last = e - 1
    BY <1>1, <2>2 DEF Dense
  <2>4. PICK x \in S : EndOf(b, S) = x.last + 1 /\ \A y \in S : y.last <= x.last
    <3>1. S \in SUBSET Batch /\ \A x \in S : x.last <= e
      BY <1>1 DEF Within, Dense
    <3> QED
      BY <1>3, <3>1, EndIsLast DEF Dense
  <2>5. x.last = e - 1
    BY <1>1, <2>3, <2>4 DEF Dense
  <2> QED
    BY <1>1, <1>3, <2>1, <2>4, <2>5 DEF Dense
<1> QED
  BY <1>2, <1>3

\* A complete batch that starts where the others end.
LEMMA OneMore ==
    ASSUME NEW b \in Nat, NEW S, NEW e, Within(b, S), Dense(b, S, e),
           NEW x \in Batch, x.whole, x.first = e, x.first <= x.last
    PROVE  /\ Within(b, S \cup {x})
           /\ Dense(b, S \cup {x}, x.last + 1)
<1>1. \A y \in S : y.first \in Nat /\ y.last \in Nat /\ y.last < e
  BY DEF Within, Dense, Batch
<1>2. x.first \in Nat /\ x.last \in Nat /\ e \in Nat /\ b <= e
  BY DEF Batch, Dense
<1>3. Within(b, S \cup {x})
  BY <1>1, <1>2 DEF Within
<1>4. ASSUME NEW o \in Nat, b <= o, o < x.last + 1
      PROVE  \E y \in S \cup {x} : y.first <= o /\ o <= y.last
  <2>1. CASE o < e
    BY <1>4, <2>1 DEF Dense
  <2>2. CASE o >= e
    BY <1>2, <1>4, <2>2
  <2> QED
    BY <1>2, <2>1, <2>2
<1>5. Dense(b, S \cup {x}, x.last + 1)
  BY <1>1, <1>2, <1>4 DEF Dense
<1> QED
  BY <1>3, <1>5

-----------------------------------------------------------------------------
(* What an operation does to the directory *)

\* A new, empty segment after a newest one that is not empty: maybeRoll().
LEMMA AddSegment ==
    ASSUME NEW f, NEW i, NEW top, Directory(f, i, top),
           f[top] # {}, \A x \in f[top] : x.whole, top \in i,
           NEW j, i \ {EndOf(top, f[top])} \subseteq j
    PROVE  LET e == EndOf(top, f[top])
               g == [b \in DOMAIN f \cup {e} |-> IF b = e THEN {} ELSE f[b]]
           IN  top < e /\ e \in Nat /\ Directory(g, j, e)
<1> DEFINE e == EndOf(top, f[top])
           g == [b \in DOMAIN f \cup {e} |-> IF b = e THEN {} ELSE f[b]]
<1>1. Complete(f[top]) = f[top]
  BY DEF Complete
<1>2. top \in Nat /\ Within(top, f[top]) /\ Dense(top, f[top], e)
  BY <1>1 DEF Directory, NewestOK
<1>3. top < e /\ e \in Nat
  <2>1. e # top
    BY <1>2, EndOfDense
  <2> QED
    BY <1>2, <2>1 DEF Dense
<1>4. e \notin DOMAIN f /\ \A c \in DOMAIN g : c <= e
  BY <1>2, <1>3 DEF Directory
<1>5. ASSUME NEW b \in DOMAIN g \ {e}
      PROVE  SealedOK(g, j, b)
  <2>1. b \in DOMAIN f /\ g[b] = f[b] /\ b \in Nat /\ b <= top
    BY <1>5 DEF Directory
  <2>2. CASE b = top
    <3>1. \A x \in f[top] : x.last < e
      BY <1>2 DEF Dense
    <3>2. \A c \in DOMAIN g : c <= top \/ c = e
      BY DEF Directory
    <3>3. top \in j
      BY <1>3
    <3> QED
      BY <1>2, <2>1, <2>2, <3>1, <3>2, <3>3 DEF SealedOK
  <2>3. CASE b # top
    <3>1. SealedOK(f, i, b)
      BY <2>1, <2>3 DEF Directory
    <3>2. \A x \in f[b] : x.last < e
      BY <1>2, <1>3, <2>1, <2>3, <3>1 DEF SealedOK, Within, Batch, Directory
    <3>3. b \in j
      BY <1>3, <2>1, <3>1 DEF SealedOK
    <3> QED
      BY <2>1, <3>1, <3>2, <3>3 DEF SealedOK
  <2> QED
    BY <2>2, <2>3
<1>6. NewestOK(e, g[e])
  <2>1. g[e] = {} /\ Complete(g[e]) = {}
    BY DEF Complete
  <2>2. EndOf(e, Complete(g[e])) = e
    BY <2>1 DEF EndOf
  <2> QED
    BY <1>3, <2>1, <2>2 DEF NewestOK, Within, Dense
<1>7. Directory(g, j, e)
  BY <1>3, <1>4, <1>5, <1>6 DEF Directory
<1> QED
  BY <1>3, <1>7

\* The newest segment gets other contents that start at the same offset.
LEMMA ChangeNewest ==
    ASSUME NEW f, NEW i, NEW top, Directory(f, i, top), NEW S, NewestOK(top, S),
           NEW j, i \subseteq j
    PROVE  Directory([f EXCEPT ![top] = S], j, top)
<1> DEFINE g == [f EXCEPT ![top] = S]
<1>1. DOMAIN g = DOMAIN f /\ g[top] = S /\ \A b \in DOMAIN f \ {top} : g[b] = f[b]
  BY DEF Directory
<1>2. ASSUME NEW b \in DOMAIN g \ {top}
      PROVE  SealedOK(g, j, b)
  <2>1. SealedOK(f, i, b) /\ g[b] = f[b]
    BY <1>1 DEF Directory
  <2> QED
    BY <1>1, <2>1 DEF SealedOK
<1> HIDE DEF g
<1> QED
  BY <1>1, <1>2 DEF Directory, g

\* A batch that starts where the newest segment ends, complete or torn: append().
LEMMA AddBatch ==
    ASSUME NEW b \in Nat, NEW S, NewestOK(b, S), \A x \in S : x.whole,
           NEW x \in Batch, x.first = EndOf(b, S), x.first <= x.last
    PROVE  /\ NewestOK(b, S \cup {x})
           /\ x.whole => EndOf(b, S \cup {x}) = x.last + 1
<1>1. Complete(S) = S
  BY DEF Complete
<1>2. Within(b, S) /\ Dense(b, S, EndOf(b, S))
  BY <1>1 DEF NewestOK
<1>3. CASE x.whole
  <2>1. Within(b, S \cup {x}) /\ Dense(b, S \cup {x}, x.last + 1)
    BY <1>2, <1>3, OneMore
  <2>2. EndOf(b, S \cup {x}) = x.last + 1
    BY <2>1, EndOfDense
  <2>3. Complete(S \cup {x}) = S \cup {x}
    BY <1>3 DEF Complete
  <2> QED
    BY <2>1, <2>2, <2>3 DEF NewestOK, Within
<1>4. CASE ~x.whole
  <2>1. Complete(S \cup {x}) = S
    BY <1>4 DEF Complete
  <2>2. x.first <= x.last /\ EndOf(b, S) <= x.first
    BY DEF Batch
  <2>3. \A y \in S \cup {x} :
            /\ y \in Batch
            /\ y.whole \/ (EndOf(b, S) <= y.first /\ y.first <= y.last)
    BY <1>2, <2>2 DEF Within
  <2>4. NewestOK(b, S \cup {x})
    BY <1>2, <2>1, <2>3 DEF NewestOK
  <2> QED
    BY <1>4, <2>4
<1> QED
  BY <1>3, <1>4

\* Sealed segments go, from the old end on a Delete log: applyRetention(),
\* removeSegment().
LEMMA DropSegments ==
    ASSUME NEW f, NEW i, NEW top, Directory(f, i, top),
           NEW D, top \notin D,
           ~Compact => \A b \in DOMAIN f : \A d \in D : b <= d => b \in D,
           NEW j, i \ D \subseteq j
    PROVE  Directory([b \in DOMAIN f \ D |-> f[b]], j, top)
<1> DEFINE g == [b \in DOMAIN f \ D |-> f[b]]
<1>1. ASSUME NEW b \in DOMAIN g \ {top}
      PROVE  SealedOK(g, j, b)
  <2>1. SealedOK(f, i, b) /\ g[b] = f[b] /\ b \in DOMAIN f /\ b \notin D
    BY DEF Directory
  <2>2. ~Compact => EndOf(b, f[b]) \in DOMAIN g
    <3> SUFFICES ASSUME ~Compact
                 PROVE  EndOf(b, f[b]) \notin D
      BY <2>1 DEF SealedOK
    <3>1. b \in Nat /\ b <= EndOf(b, f[b])
      BY <2>1 DEF SealedOK, Dense, Directory
    <3> QED
      BY <2>1, <3>1
  <2> QED
    BY <2>1, <2>2 DEF SealedOK
<1> QED
  BY <1>1 DEF Directory

\* What is left of a segment is made of parts of its batches, one part of each.
LEMMA CleaningsAreParts ==
    ASSUME NEW S \in SUBSET Batch, NEW K \in Cleanings(S)
    PROVE  /\ \A y \in K :
                /\ y \in Batch
                /\ y.first <= y.last
                /\ \E x \in S : /\ x.first <= y.first /\ y.last <= x.last
                               /\ y.whole = x.whole
                               /\ y \in Survivors(x)
           /\ \A y, z \in K : y = z \/ \A x \in S : y \notin Survivors(x) \/ z \notin Survivors(x)
<1>1. ASSUME NEW y \in K
      PROVE  /\ y \in Batch
             /\ y.first <= y.last
             /\ \E x \in S : /\ x.first <= y.first /\ y.last <= x.last
                            /\ y.whole = x.whole
                            /\ y \in Survivors(x)
  <2>1. PICK x \in S : y \in Survivors(x) /\ y.first <= y.last
    BY DEF Cleanings
  <2>2. PICK l, m \in x.first .. x.last : 
            y = [first |-> l, last |-> m, ts |-> x.ts, whole |-> x.whole]
    BY <2>1 DEF Survivors
  <2>3. x \in Batch /\ l \in Nat /\ m \in Nat
    BY DEF Batch
  <2>4. y.first = l /\ y.last = m /\ y.whole = x.whole /\ y \in Batch
    BY <2>2, <2>3 DEF Batch
  <2> QED
    BY <2>1, <2>3, <2>4 DEF Batch
<1>2. \A y, z \in K : y = z \/ \A x \in S : y \notin Survivors(x) \/ z \notin Survivors(x)
  BY DEF Cleanings
<1> QED
  BY <1>1, <1>2

\* The cleaner swaps a sealed segment: replaceSegment().
LEMMA SwapSegment ==
    ASSUME NEW f, NEW i, NEW top, Directory(f, i, top), Compact,
           NEW b \in DOMAIN f \ {top}, NEW K \in Cleanings(f[b]), K # {}
    PROVE  Directory([f EXCEPT ![b] = K], i, top)
<1> DEFINE g == [f EXCEPT ![b] = K]
<1>1. DOMAIN g = DOMAIN f /\ g[b] = K /\ \A c \in DOMAIN f \ {b} : g[c] = f[c]
  OBVIOUS
<1>2. SealedOK(f, i, b) /\ b \in Nat /\ DOMAIN f \subseteq Nat
  BY DEF Directory
<1>3. f[b] \in SUBSET Batch
  BY <1>2 DEF SealedOK, Within
<1>4. \A y \in K :
        /\ y \in Batch
        /\ y.first <= y.last
        /\ \E x \in f[b] : /\ x.first <= y.first /\ y.last <= x.last
                          /\ y.whole = x.whole
                          /\ y \in Survivors(x)
  BY <1>3, CleaningsAreParts
<1>5. \A y, z \in K : y = z \/ \A x \in f[b] : y \notin Survivors(x) \/ z \notin Survivors(x)
  BY <1>3, CleaningsAreParts
<1>6. Within(b, K)
  <2>1. ASSUME NEW y \in K
        PROVE  y \in Batch /\ y.whole /\ b <= y.first /\ y.first <= y.last
    <3>1. PICK x \in f[b] : x.first <= y.first /\ y.whole = x.whole
      BY <1>4
    <3>2. x \in Batch /\ x.whole /\ b <= x.first
      BY <1>2, <1>3 DEF SealedOK, Within
    <3> QED
      BY <1>2, <1>4, <3>1, <3>2 DEF Batch
  <2>2. ASSUME NEW y \in K, NEW z \in K, y.first <= z.last, z.first <= y.last
        PROVE  y = z
    <3>1. PICK x \in f[b] : x.first <= y.first /\ y.last <= x.last /\ y \in Survivors(x)
      BY <1>4
    <3>2. PICK w \in f[b] : w.first <= z.first /\ z.last <= w.last /\ z \in Survivors(w)
      BY <1>4
    <3>3. x \in Batch /\ w \in Batch /\ y \in Batch /\ z \in Batch
      BY <1>3, <1>4
    <3>4. x.first <= w.last /\ w.first <= x.last
      BY <2>2, <3>1, <3>2, <3>3 DEF Batch
    <3>5. x = w
      BY <1>2, <3>4 DEF SealedOK, Within
    <3> QED
      BY <1>5, <3>1, <3>2, <3>5
  <2> QED
    BY <2>1, <2>2 DEF Within
<1>7. ASSUME NEW y \in K, NEW c \in DOMAIN f
      PROVE  c <= b \/ y.last < c
  <2>1. PICK x \in f[b] : y.last <= x.last
    BY <1>4
  <2>2. x \in Batch /\ y \in Batch /\ c \in Nat /\ (c <= b \/ x.last < c)
    BY <1>2, <1>3, <1>4 DEF SealedOK
  <2> QED
    BY <2>1, <2>2 DEF Batch
<1>8. SealedOK(g, i, b)
  BY <1>1, <1>2, <1>6, <1>7 DEF SealedOK
<1>9. ASSUME NEW c \in DOMAIN g \ {top, b}
      PROVE  SealedOK(g, i, c)
  <2>1. SealedOK(f, i, c) /\ g[c] = f[c]
    BY <1>1 DEF Directory
  <2> QED
    BY <1>1, <2>1 DEF SealedOK
<1> HIDE DEF g
<1>10. Directory(g, i, top)
  BY <1>1, <1>8, <1>9 DEF Directory
<1> QED
  BY <1>10 DEF g

-----------------------------------------------------------------------------
(* Opening a directory *)

LEMMA NewestIsTop ==
    ASSUME NEW top, Directory(files, indexes, top)
    PROVE  Newest = top
<1>1. \A c, d \in DOMAIN files : c <= d /\ d <= c => c = d
  BY DEF Directory
<1>2. Newest \in DOMAIN files /\ \A c \in DOMAIN files : c <= Newest
  BY DEF Newest, Directory
<1> QED
  BY <1>1, <1>2 DEF Directory

\* The segment after a sealed one is there, and CHOOSE finds it.
LEMMA FollowingIsNext ==
    ASSUME NEW top, Directory(files, indexes, top), NEW b \in DOMAIN files \ {top}
    PROVE  /\ Following(b) \in DOMAIN files
           /\ b < Following(b)
           /\ \A d \in DOMAIN files : d <= b \/ d >= Following(b)
<1> DEFINE Above == {c \in DOMAIN files : c > b}
<1>1. DOMAIN files \subseteq Nat /\ top \in Above
  BY DEF Directory
<1>2. PICK c \in Above : \A d \in Above : c <= d
  BY <1>1, LeastExists
<1>3. c > b /\ \A d \in DOMAIN files : d <= b \/ d >= c
  BY <1>1, <1>2
<1>4. /\ Following(b) \in DOMAIN files
      /\ Following(b) > b /\ \A d \in DOMAIN files : d <= b \/ d >= Following(b)
  BY <1>3 DEF Following
<1> QED
  BY <1>1, <1>4

\* open() accepts every such directory.
LEMMA DirectoryOpens ==
    ASSUME NEW top, Directory(files, indexes, top), ~mixed
    PROVE  Openable
<1> SUFFICES ASSUME NEW b \in DOMAIN files \ {top}
             PROVE  /\ b \in indexes
                    /\ IF Compact THEN NextOffset(b) <= Following(b)
                       ELSE NextOffset(b) = Following(b)
  BY NewestIsTop DEF Openable
<1> DEFINE S == files[b]
           c == Following(b)
<1>1. SealedOK(files, indexes, b) /\ b \in Nat /\ DOMAIN files \subseteq Nat
  BY DEF Directory
<1>2. c \in Nat /\ c \in DOMAIN files /\ b < c /\ \A d \in DOMAIN files : d <= b \/ d >= c
  BY <1>1, FollowingIsNext
<1> HIDE DEF c
<1>3. S \in SUBSET Batch /\ S # {} /\ \A x \in S : x.last < c
  BY <1>1, <1>2 DEF SealedOK, Within
<1>4. \A x \in S : x.last \in Nat /\ x.last <= c
  BY <1>2, <1>3 DEF Batch
<1>5. PICK z \in S : NextOffset(b) = z.last + 1
  BY <1>1, <1>2, <1>3, <1>4, EndIsLast DEF NextOffset
<1>6. NextOffset(b) <= c
  BY <1>2, <1>3, <1>4, <1>5
<1>7. CASE ~Compact
  <2>1. NextOffset(b) \in DOMAIN files /\ NextOffset(b) \in Nat
    BY <1>1, <1>7 DEF SealedOK, NextOffset
  <2>2. b < NextOffset(b)
    BY <1>1, <1>3, <1>4, <1>5 DEF SealedOK, Within, Batch
  <2>3. NextOffset(b) = c
    BY <1>1, <1>2, <1>6, <2>1, <2>2
  <2> QED
    BY <1>1, <1>7, <2>3 DEF SealedOK, c
<1>8. CASE Compact
  BY <1>1, <1>6, <1>8 DEF SealedOK, c
<1> QED
  BY <1>7, <1>8

\* recover() keeps exactly the complete batches of the newest segment.
LEMMA RecoveredIsComplete ==
    ASSUME NEW top, Directory(files, indexes, top)
    PROVE  Recovered(top) = Complete(files[top])
<1> DEFINE S == files[top]
           W == Complete(S)
           e == EndOf(top, W)
<1>1. top \in Nat /\ Within(top, W) /\ Dense(top, W, e)
  BY DEF Directory, NewestOK
<1>2. \A x \in S : x \in Batch /\ (x \in W \/ (e <= x.first /\ x.first <= x.last))
  BY DEF Directory, NewestOK, Complete
<1>3. \A y \in W : y \in S /\ y.whole /\ y.first \in Nat /\ y.last \in Nat /\ y.last < e
  <2>1. \A y \in W : y \in S /\ y.whole
    BY DEF Complete
  <2>2. \A y \in W : y.first \in Nat /\ y.last \in Nat /\ y.last < e
    BY <1>1 DEF Within, Dense, Batch
  <2> QED
    BY <2>1, <2>2, Zenon
<1>4. e \in Nat
  BY <1>1 DEF Dense
<1>5. ASSUME NEW x \in W
      PROVE  x \in Recovered(top)
  <2>1. x.last \in Nat /\ x.last < e /\ x \in S
    BY <1>3
  <2>2. ASSUME NEW o \in top .. x.last
        PROVE  \E y \in S : y.whole /\ o \in y.first .. y.last
    <3>1. o \in Nat /\ top <= o /\ o < e
      BY <1>1, <1>4, <2>1
    <3>2. PICK y \in W : y.first <= o /\ o <= y.last
      BY <1>1, <3>1 DEF Dense
    <3> QED
      BY <1>3, <3>1, <3>2
  <2> QED
    BY <2>1, <2>2 DEF Recovered
<1>6. ASSUME NEW x \in Recovered(top)
      PROVE  x \in W
  <2>1. x \in S /\ \A o \in top .. x.last : \E y \in S : y.whole /\ o \in y.first .. y.last
    BY DEF Recovered
  <2> SUFFICES ASSUME x \notin W
               PROVE  FALSE
    OBVIOUS
  <2>2. x.last \in Nat /\ x.first \in Nat /\ e <= x.first /\ x.first <= x.last
    <3>1. x \in Batch /\ e <= x.first /\ x.first <= x.last
      BY <1>2, <2>1
    <3> QED
      BY <3>1 DEF Batch
  <2>3. top <= e
    BY <1>1 DEF Dense
  <2>4. x.last \in top .. x.last
    BY <1>1, <1>4, <2>2, <2>3
  <2>5. PICK y \in S : y.whole /\ x.last \in y.first .. y.last
    BY <2>1, <2>4
  <2>6. y \in W
    BY <2>5 DEF Complete
  <2> QED
    BY <1>3, <1>4, <2>2, <2>5, <2>6
<1> QED
  BY <1>5, <1>6

\* The recovered segment is a newest segment with nothing torn in it.
LEMMA RecoveredIsOK ==
    ASSUME NEW top, Directory(files, indexes, top)
    PROVE  /\ NewestOK(top, Recovered(top))
           /\ \A x \in Recovered(top) : x.whole
           /\ EndOf(top, Recovered(top)) \in Nat
<1>1. Recovered(top) = Complete(files[top])
  BY RecoveredIsComplete
<1>2. Complete(Complete(files[top])) = Complete(files[top])
  BY DEF Complete
<1>3. NewestOK(top, files[top])
  BY DEF Directory
<1>4. \A x \in Complete(files[top]) : x.whole
  BY DEF Complete
<1> QED
  BY <1>1, <1>2, <1>3, <1>4 DEF NewestOK, Dense, Within

-----------------------------------------------------------------------------
(* The inductive invariant *)

\* The process serves a partition from files f and i with the sealed segments s,
\* the active segment a and the published end e.
Serves(f, i, s, a, e) ==
    /\ DOMAIN f = DOMAIN s \cup {a.base}
    /\ a.base \notin DOMAIN s
    /\ Directory(f, i, a.base)
    /\ \A x \in f[a.base] : x.whole
    /\ a.base \in i
    /\ e = EndOf(a.base, f[a.base])

\* What a dead process leaves behind.
Leaves(f, i) == DOMAIN f = {} \/ \E top : Directory(f, i, top)

Up == running =>
    /\ Serves(files, indexes, sealed, active, logEnd)
    /\ appending # NoAppend => /\ appending.base = logEnd
                               /\ appending.n \in 1 .. MaxBatch
                               /\ appending.ts \in -1 .. (MaxTime + Skew)

Down == ~running =>
    /\ Leaves(files, indexes)
    /\ mixed => DOMAIN files # {}
    /\ DOMAIN sealed = {}
    /\ graveyard = {}
    /\ appending = NoAppend
    /\ logEnd = 0
    /\ ranges = [r \in Readers |-> NoRange]

Inv == TypeOK /\ Up /\ Down /\ clock <= MaxTime

LEMMA BoundsAreNumbers ==
    /\ MaxBatch \in Nat /\ MaxTime \in Nat /\ Skew \in Nat /\ Lag \in Nat
    /\ DeleteDelay \in Nat /\ RetentionBytes \in Nat /\ Compact \in BOOLEAN
    /\ Reuse \subseteq BOOLEAN
  BY PartitionLogAssumption

LEMMA DirectoryType ==
    ASSUME NEW f, NEW i, NEW top, Directory(f, i, top)
    PROVE  /\ DOMAIN f \subseteq Nat
           /\ \A b \in DOMAIN f : f[b] \subseteq Batch
<1>1. \A b \in DOMAIN f \ {top} : f[b] \subseteq Batch
  BY DEF Directory, SealedOK, Within
<1>2. f[top] \subseteq Batch
  BY DEF Directory, NewestOK
<1> QED
  BY <1>1, <1>2 DEF Directory

LEMMA RangesType ==
    ASSUME ranges \in [Readers -> FileRange \cup {NoRange}], NEW S, NEW fate \in Fates
    PROVE  Ranges(S, fate) \in [Readers -> FileRange \cup {NoRange}]
<1> SUFFICES ASSUME NEW r \in Readers
             PROVE  (IF ranges[r] # NoRange /\ <<ranges[r].base, ranges[r].fd>> \in S
                     THEN [ranges[r] EXCEPT !.fate = fate]
                     ELSE ranges[r]) \in FileRange \cup {NoRange}
  BY DEF Ranges
<1>1. CASE ranges[r] # NoRange
  <2>1. ranges[r] \in FileRange
    BY <1>1
  <2>2. [ranges[r] EXCEPT !.fate = fate] \in FileRange
    BY <2>1 DEF FileRange
  <2> QED
    BY <2>1, <2>2
<1>2. CASE ranges[r] = NoRange
  BY <1>2
<1> QED
  BY <1>1, <1>2

\* maybeRoll() leaves a partition that is served up to the same end.
LEMMA MaybeRollServes ==
    ASSUME TypeOK, Serves(files, indexes, sealed, active, logEnd),
           NEW now, MaybeRoll(now)
    PROVE  /\ Serves(files', indexes', sealed', active', logEnd)
           /\ indexes' \subseteq Nat
           /\ DOMAIN sealed' \subseteq Nat
           /\ \A b \in DOMAIN sealed' : sealed'[b] \in Nat
           /\ active' \in [base : Nat, fd : Nat, since : Nat \cup {-1}]
           /\ ranges' \in [Readers -> FileRange \cup {NoRange}]
<1>1. CASE UNCHANGED <<files, indexes, sealed, active, ranges>>
  BY <1>1 DEF TypeOK
<1>2. ASSUME ShouldRoll(now), NEW reused \in Reuse, Roll(reused)
      PROVE  /\ Serves(files', indexes', sealed', active', logEnd)
             /\ indexes' \subseteq Nat
             /\ DOMAIN sealed' \subseteq Nat
             /\ \A b \in DOMAIN sealed' : sealed'[b] \in Nat
             /\ active' \in [base : Nat, fd : Nat, since : Nat \cup {-1}]
             /\ ranges' \in [Readers -> FileRange \cup {NoRange}]
  <2>1. files[active.base] # {}
    BY <1>2, FS_EmptySet DEF ShouldRoll
  <2> DEFINE g == [b \in DOMAIN files \cup {logEnd} |-> IF b = logEnd THEN {} ELSE files[b]]
  <2>2. active.base < logEnd /\ logEnd \in Nat /\ Directory(g, indexes', logEnd)
    <3>1. logEnd = EndOf(active.base, files[active.base])
      BY DEF Serves
    <3>2. indexes \ {logEnd} \subseteq indexes'
      BY <1>2 DEF Roll
    <3>3. Directory(files, indexes, active.base) /\ active.base \in indexes
             /\ \A x \in files[active.base] : x.whole
      BY DEF Serves
    <3> QED
      BY <2>1, <3>1, <3>2, <3>3, AddSegment
  <2>3. files' = g /\ indexes' = indexes \cup {logEnd}
    BY <1>2 DEF Roll
  <2>4. active' = [base |-> logEnd, fd |-> 0, since |-> -1]
    BY <1>2 DEF Roll
  <2>5. DOMAIN sealed' = DOMAIN sealed \cup {active.base}
    BY <1>2 DEF Roll
  <2>6. logEnd \notin DOMAIN sealed'
    <3>1. \A c \in DOMAIN files : c \in Nat /\ c <= active.base
      BY DEF Serves, Directory
    <3> QED
      BY <2>2, <2>5, <3>1 DEF Serves
  <2>7. g[logEnd] = {} /\ EndOf(logEnd, g[logEnd]) = logEnd
    BY DEF EndOf
  <2>8. DOMAIN g = DOMAIN sealed' \cup {logEnd}
    BY <2>5 DEF Serves
  <2>9. Serves(files', indexes', sealed', active', logEnd)
    <3> HIDE DEF g
    <3> QED
      BY <2>2, <2>3, <2>4, <2>6, <2>7, <2>8 DEF Serves
  <2>10. DOMAIN sealed' \subseteq Nat /\ \A b \in DOMAIN sealed' : sealed'[b] \in Nat
    BY <1>2 DEF Roll, TypeOK
  <2>11. ranges' \in [Readers -> FileRange \cup {NoRange}]
    BY <1>2, RangesType DEF Roll, Fates, TypeOK
  <2> QED
    BY <2>2, <2>3, <2>4, <2>9, <2>10, <2>11 DEF TypeOK
<1> QED
  BY <1>1, <1>2 DEF MaybeRoll

-----------------------------------------------------------------------------
(* Retention takes the oldest segments *)

\* Batches of different segments do not overlap either, and all end below e.
LEMMA Disjoint ==
    ASSUME NEW f, NEW i, NEW s, NEW a, NEW e, Serves(f, i, s, a, e)
    PROVE  /\ e \in Nat
           /\ \A b \in DOMAIN f : b <= e
           /\ \A b \in DOMAIN f : \A x \in f[b] :
                /\ x \in Batch /\ x.whole
                /\ b <= x.first /\ x.first <= x.last /\ x.last < e
                /\ \A c \in DOMAIN f : c <= b \/ x.last < c
           /\ \A b, c \in DOMAIN f : \A x \in f[b], y \in f[c] :
                x.first <= y.last /\ y.first <= x.last => b = c /\ x = y
<1> DEFINE top == a.base
<1>1. Complete(f[top]) = f[top]
  BY DEF Serves, Complete
<1>2. /\ Directory(f, i, top) /\ DOMAIN f \subseteq Nat /\ top \in DOMAIN f
      /\ \A c \in DOMAIN f : c <= top
  BY DEF Serves, Directory
<1>3. Within(top, f[top]) /\ Dense(top, f[top], e)
  BY <1>1, <1>2 DEF Serves, Directory, NewestOK
<1>4. \A b \in DOMAIN f : Within(b, f[b])
  BY <1>2, <1>3 DEF Directory, SealedOK
<1>5. e \in Nat /\ top <= e
  BY <1>3 DEF Dense
<1>6. ASSUME NEW b \in DOMAIN f, NEW x \in f[b]
      PROVE  /\ x \in Batch /\ x.whole
             /\ b <= x.first /\ x.first <= x.last /\ x.last < e
             /\ \A c \in DOMAIN f : c <= b \/ x.last < c
  <2>1. x \in Batch /\ x.whole /\ b <= x.first /\ x.first <= x.last
    BY <1>4 DEF Within
  <2>2. \A c \in DOMAIN f : c <= b \/ x.last < c
    <3>1. CASE b = top
      BY <1>2, <3>1
    <3>2. CASE b # top
      BY <1>2, <3>2 DEF Directory, SealedOK
    <3> QED
      BY <3>1, <3>2
  <2>3. x.last < e
    <3>1. CASE b = top
      BY <1>3, <3>1 DEF Dense
    <3>2. CASE b # top
      <4>1. b < top
        BY <1>2, <3>2
      <4> QED
        BY <1>2, <1>5, <2>1, <2>2, <4>1 DEF Batch
    <3> QED
      BY <3>1, <3>2
  <2> QED
    BY <2>1, <2>2, <2>3
<1>7. ASSUME NEW b \in DOMAIN f, NEW c \in DOMAIN f, NEW x \in f[b], NEW y \in f[c],
             x.first <= y.last, y.first <= x.last
      PROVE  b = c /\ x = y
  <2>1. x \in Batch /\ b <= x.first /\ (c <= b \/ x.last < c)
    BY <1>6
  <2>2. y \in Batch /\ c <= y.first /\ (b <= c \/ y.last < b)
    BY <1>6
  <2>3. b = c
    BY <1>2, <1>7, <2>1, <2>2 DEF Batch
  <2> QED
    BY <1>4, <1>7, <2>3 DEF Within
<1>8. \A b \in DOMAIN f : b <= e
  BY <1>2, <1>5
<1> QED
  BY <1>5, <1>6, <1>7, <1>8

\* The batches of a partition that is served are finitely many: their first
\* offsets are different numbers below the end.
LEMMA FinitelyMany ==
    ASSUME NEW f, NEW i, NEW s, NEW a, NEW e, Serves(f, i, s, a, e),
           NEW D \in SUBSET DOMAIN f
    PROVE  IsFiniteSet(UNION {f[c] : c \in D})
<1> DEFINE U == UNION {f[c] : c \in D}
           h == [x \in U |-> x.first]
<1>1. \A x \in U : x.first \in 0 .. e
  BY Disjoint DEF Batch
<1>2. ASSUME NEW x \in U, NEW y \in U, x.first = y.first
      PROVE  x = y
  <2>1. PICK b \in DOMAIN f, c \in DOMAIN f : x \in f[b] /\ y \in f[c]
    OBVIOUS
  <2>2. x \in Batch /\ y \in Batch /\ x.first <= x.last /\ y.first <= y.last
    BY <2>1, Disjoint
  <2>3. x.first <= y.last /\ y.first <= x.last
    BY <1>2, <2>2 DEF Batch
  <2> QED
    BY <2>1, <2>3, Disjoint
<1> HIDE DEF U
<1>3. h \in Injection(U, 0 .. e)
  BY <1>1, <1>2 DEF Injection, IsInjective
<1>4. IsFiniteSet(0 .. e)
  BY Disjoint, FS_Interval
<1>5. IsFiniteSet(U)
  BY <1>3, <1>4, FS_Injection
<1> QED
  BY <1>5 DEF U

\* What applyRetention() deletes is sealed, and has nothing older than it left.
LEMMA DoomedAreOldest ==
    ASSUME TypeOK, Serves(files, indexes, sealed, active, logEnd), NEW now
    PROVE  /\ Doomed(now) \subseteq DOMAIN sealed
           /\ active.base \notin Doomed(now)
           /\ \A b \in DOMAIN files : \A d \in Doomed(now) : b <= d => b \in Doomed(now)
<1>1. Doomed(now) \subseteq DOMAIN sealed /\ active.base \notin Doomed(now)
  BY DEF Doomed, Serves
<1>2. ASSUME NEW b \in DOMAIN files, NEW d \in Doomed(now), b <= d
      PROVE  b \in Doomed(now)
  <2>1. d \in DOMAIN sealed /\ d \in DOMAIN files /\ d # active.base
    BY <1>1 DEF Serves
  <2>2. b \in Nat /\ d \in Nat /\ b # active.base
    BY <1>2, <2>1 DEF Serves, Directory
  <2>3. b \in DOMAIN sealed
    BY <2>2 DEF Serves
  <2>4. CASE \A c \in DOMAIN sealed : c <= d => AgedOut(c, now)
    <3>1. \A c \in DOMAIN sealed : c <= b => AgedOut(c, now)
      BY <1>2, <2>2, <2>4 DEF TypeOK
    <3> QED
      BY <2>3, <3>1 DEF Doomed
  <2>5. CASE SizeFrom(d) > RetentionBytes
    <3> DEFINE From(k) == {c \in DOMAIN files : c >= k}
    <3>1. From(d) \subseteq From(b)
      BY <1>2, <2>2 DEF TypeOK
    <3>2. UNION {files[c] : c \in From(d)} \subseteq UNION {files[c] : c \in From(b)}
      BY <3>1
    <3>3. IsFiniteSet(UNION {files[c] : c \in From(b)})
      BY FinitelyMany
    <3>4. /\ IsFiniteSet(UNION {files[c] : c \in From(d)})
          /\ SizeFrom(d) <= SizeFrom(b)
      BY <3>2, <3>3, FS_Subset DEF SizeFrom
    <3>5. SizeFrom(d) \in Nat /\ SizeFrom(b) \in Nat
      BY <3>3, <3>4, FS_CardinalityType DEF SizeFrom
    <3>6. SizeFrom(b) > RetentionBytes
      BY <2>5, <3>4, <3>5, BoundsAreNumbers
    <3> QED
      BY <2>3, <3>6 DEF Doomed
  <2> QED
    BY <2>4, <2>5 DEF Doomed
<1> QED
  BY <1>1, <1>2

-----------------------------------------------------------------------------
(* Every step keeps the invariant *)

LEMMA InitInv == Init => Inv
<1> SUFFICES ASSUME Init PROVE Inv
  OBVIOUS
<1>1. TypeOK
  BY DEF Init, TypeOK
<1>2. ~running /\ Up /\ Down
  BY DEF Init, Up, Down, Leaves
<1> QED
  BY <1>1, <1>2, BoundsAreNumbers DEF Init, Inv

\* A first segment: nothing in it, and nothing before it.
LEMMA CreateInv ==
    ASSUME Inv, Create
    PROVE  Inv'
<1> DEFINE g == [b \in {0} |-> {}]
<1>1. /\ files' = g /\ indexes' = {0} /\ running' = TRUE /\ logEnd' = 0
      /\ active' = [base |-> 0, fd |-> 0, since |-> -1]
      /\ DOMAIN sealed = {} /\ appending = NoAppend
      /\ UNCHANGED <<mixed, sealed, graveyard, appending, ranges, clock>>
      /\ ~mixed
  BY DEF Create, Inv, Down
<1>2. g[0] = {} /\ Complete(g[0]) = {} /\ EndOf(0, g[0]) = 0 /\ DOMAIN g = {0}
  BY DEF Complete, EndOf
<1>3. Directory(g, {0}, 0)
  <2>1. NewestOK(0, g[0])
    BY <1>2 DEF NewestOK, Within, Dense
  <2> QED
    BY <1>2, <2>1 DEF Directory
<1>4. Serves(g, {0}, sealed, active', 0)
  <2> HIDE DEF g
  <2> QED
    BY <1>1, <1>2, <1>3 DEF Serves
<1>5. TypeOK'
  BY <1>1 DEF Inv, TypeOK
<1> QED
  BY <1>1, <1>4, <1>5 DEF Inv, Up, Down

LEMMA OpenInv ==
    ASSUME Inv, Open
    PROVE  Inv'
<1>1. PICK top : Directory(files, indexes, top)
  BY DEF Open, Inv, Down, Leaves
<1>2. Newest = top
  BY <1>1, NewestIsTop
<1> DEFINE R == Recovered(top)
<1>3. NewestOK(top, R) /\ (\A x \in R : x.whole) /\ EndOf(top, R) \in Nat
  BY <1>1, RecoveredIsOK
<1> HIDE DEF R
<1>4. /\ files' = [files EXCEPT ![top] = R] /\ indexes' = indexes \cup {top}
      /\ sealed' = [b \in DOMAIN files \ {top} |-> 0]
      /\ active' = [base |-> top, fd |-> 0, since |-> IF R = {} THEN -1 ELSE clock]
      /\ logEnd' = EndOf(top, R) /\ running' = TRUE /\ appending = NoAppend
      /\ UNCHANGED <<mixed, graveyard, appending, ranges, clock>> /\ ~mixed
  BY <1>2 DEF Open, Openable, R, Inv, Down
<1>5. Directory(files', indexes', top)
  BY <1>1, <1>3, <1>4, ChangeNewest
<1>6. top \in DOMAIN files /\ top \in Nat /\ files'[top] = R
  BY <1>1, <1>4 DEF Directory
<1>7. Serves(files', indexes', sealed', active', logEnd')
  BY <1>3, <1>4, <1>5, <1>6 DEF Serves
<1>8. TypeOK'
  <2>1. DOMAIN files' \subseteq Nat /\ \A b \in DOMAIN files' : files'[b] \subseteq Batch
    BY <1>5, DirectoryType
  <2> QED
    BY <1>3, <1>4, <1>6, <2>1 DEF Inv, TypeOK
<1> QED
  BY <1>4, <1>7, <1>8 DEF Inv, Up, Down

LEMMA AppendInv ==
    ASSUME Inv, NEW n \in 1 .. MaxBatch, NEW ts \in Stamps, Append(n, ts)
    PROVE  Inv'
<1>1. running /\ TypeOK /\ Serves(files, indexes, sealed, active, logEnd)
  BY DEF Append, Inv, Up
<1>2. /\ MaybeRoll(clock) /\ appending' = [base |-> logEnd, n |-> n, ts |-> ts]
      /\ UNCHANGED <<mixed, running, logEnd, graveyard, clock>>
  BY DEF Append
<1>3. /\ Serves(files', indexes', sealed', active', logEnd)
      /\ indexes' \subseteq Nat
      /\ DOMAIN sealed' \subseteq Nat
      /\ \A b \in DOMAIN sealed' : sealed'[b] \in Nat
      /\ active' \in [base : Nat, fd : Nat, since : Nat \cup {-1}]
      /\ ranges' \in [Readers -> FileRange \cup {NoRange}]
  BY <1>1, <1>2, MaybeRollServes
<1>4. DOMAIN files' \subseteq Nat /\ \A b \in DOMAIN files' : files'[b] \subseteq Batch
  BY <1>3, DirectoryType DEF Serves
<1>5. ts \in -1 .. (MaxTime + Skew)
  BY BoundsAreNumbers DEF Stamps, Inv, TypeOK
<1>6. n \in Nat \ {0}
  BY BoundsAreNumbers
<1>7. appending' \in [base : Nat, n : Nat \ {0}, ts : Int]
  BY <1>1, <1>2, <1>5, <1>6, BoundsAreNumbers DEF TypeOK
<1>8. TypeOK'
  BY <1>1, <1>2, <1>3, <1>4, <1>7 DEF TypeOK
<1>9. Up' /\ Down'
  BY <1>1, <1>2, <1>3, <1>5 DEF Up, Down
<1> QED
  BY <1>2, <1>8, <1>9 DEF Inv

\* The stamped batch starts where the active segment ends.
LEMMA StampedIsNext ==
    ASSUME Inv, running, appending # NoAppend, NEW whole \in BOOLEAN
    PROVE  LET x == Stamped(whole)
               S == files[active.base]
           IN  /\ x \in Batch
               /\ x.whole = whole
               /\ x.first = EndOf(active.base, S)
               /\ x.first <= x.last
               /\ x.last + 1 = appending.base + appending.n
               /\ NewestOK(active.base, S \cup {x})
               /\ whole => EndOf(active.base, S \cup {x}) = x.last + 1
<1> DEFINE x == Stamped(whole)
           S == files[active.base]
<1>1. /\ appending \in [base : Nat, n : Nat \ {0}, ts : Int] /\ appending.base = logEnd
      /\ Serves(files, indexes, sealed, active, logEnd)
  BY DEF Inv, TypeOK, Up
<1>2. /\ x \in Batch /\ x.whole = whole /\ x.first = logEnd /\ x.first <= x.last
      /\ x.last + 1 = appending.base + appending.n
  BY <1>1, SMTT(30) DEF Stamped, Batch
<1>3. x.first = EndOf(active.base, S) /\ NewestOK(active.base, S) /\ active.base \in Nat
  <2> HIDE DEF x
  <2>1. Directory(files, indexes, active.base) /\ logEnd = EndOf(active.base, S)
    BY <1>1 DEF Serves
  <2> QED
    BY <1>2, <2>1 DEF Directory
<1>4. \A y \in S : y.whole
  BY <1>1 DEF Serves
<1> HIDE DEF x, S
<1>5. NewestOK(active.base, S \cup {x}) /\ (x.whole => EndOf(active.base, S \cup {x}) = x.last + 1)
  BY <1>2, <1>3, <1>4, AddBatch
<1> QED
  BY <1>2, <1>3, <1>5 DEF x, S

LEMMA WriteInv ==
    ASSUME Inv, Write
    PROVE  Inv'
<1> DEFINE x == Stamped(TRUE)
           S == files[active.base]
<1>1. running /\ TypeOK /\ Serves(files, indexes, sealed, active, logEnd) /\ appending # NoAppend
  BY DEF Write, Inv, Up
<1>2. /\ x \in Batch /\ x.whole /\ x.first <= x.last
      /\ x.last + 1 = appending.base + appending.n
      /\ NewestOK(active.base, S \cup {x})
      /\ EndOf(active.base, S \cup {x}) = x.last + 1
  BY <1>1, StampedIsNext
<1> HIDE DEF x
<1>3. /\ files' = [files EXCEPT ![active.base] = S \cup {x}]
      /\ active' = [active EXCEPT !.since = IF @ < 0 THEN clock ELSE @]
      /\ logEnd' = x.last + 1 /\ appending' = NoAppend
      /\ UNCHANGED <<indexes, mixed, running, sealed, graveyard, ranges, clock>>
  BY <1>2 DEF Write, x
<1>4. Directory(files', indexes', active.base)
  BY <1>1, <1>2, <1>3, ChangeNewest DEF Serves
<1>5. active' \in [base : Nat, fd : Nat, since : Nat \cup {-1}] /\ active'.base = active.base
  BY <1>1, <1>3 DEF TypeOK
<1>6. active.base \in DOMAIN files /\ files'[active.base] = S \cup {x} /\ DOMAIN files' = DOMAIN files
  BY <1>1, <1>3 DEF Serves
<1>7. Serves(files', indexes', sealed', active', logEnd')
  <2>1. \A y \in S \cup {x} : y.whole
    BY <1>1, <1>2 DEF Serves
  <2> HIDE DEF S
  <2> QED
    BY <1>1, <1>2, <1>3, <1>4, <1>5, <1>6, <2>1 DEF Serves
<1>8. TypeOK'
  <2>1. DOMAIN files' \subseteq Nat /\ \A b \in DOMAIN files' : files'[b] \subseteq Batch
    BY <1>4, DirectoryType
  <2>2. logEnd' \in Nat
    BY <1>2, <1>3 DEF Batch
  <2> QED
    BY <1>1, <1>3, <1>5, <2>1, <2>2 DEF TypeOK
<1> QED
  BY <1>1, <1>3, <1>7, <1>8 DEF Inv, Up, Down

LEMMA ReadInv ==
    ASSUME Inv, NEW r \in Readers, NEW o \in 0 .. MaxOffset, Read(r, o)
    PROVE  Inv'
<1>1. running /\ TypeOK /\ Serves(files, indexes, sealed, active, logEnd)
  BY DEF Read, Inv, Up
<1>2. PICK b \in Routed(o) :
        ranges' = [ranges EXCEPT ![r] =
            [base |-> b, fd |-> IF b = active.base THEN active.fd ELSE sealed[b],
             at |-> clock, fate |-> "open"]]
  BY DEF Read
<1>3. b \in Nat /\ (b = active.base \/ b \in DOMAIN sealed)
  BY <1>1 DEF Routed, TypeOK
<1>4. [base |-> b, fd |-> IF b = active.base THEN active.fd ELSE sealed[b],
       at |-> clock, fate |-> "open"] \in FileRange
  BY <1>1, <1>3 DEF TypeOK, FileRange, Fates
<1>5. ranges' \in [Readers -> FileRange \cup {NoRange}]
  BY <1>1, <1>2, <1>4 DEF TypeOK
<1>6. UNCHANGED <<files, indexes, mixed, running, sealed, active, logEnd, graveyard, appending, clock>>
  BY DEF Read
<1> QED
  BY <1>1, <1>5, <1>6 DEF Inv, Up, Down, TypeOK

LEMMA SendInv ==
    ASSUME Inv, NEW r \in Readers, Send(r)
    PROVE  Inv'
<1>1. /\ UNCHANGED <<files, indexes, mixed, running, sealed, active, logEnd, graveyard, appending, clock>>
      /\ ranges[r] # NoRange /\ ranges' = [ranges EXCEPT ![r] = NoRange]
  BY DEF Send
<1>2. running
  BY <1>1 DEF Inv, Down
<1>3. ranges' \in [Readers -> FileRange \cup {NoRange}]
  BY <1>1 DEF Inv, TypeOK
<1> QED
  BY <1>1, <1>2, <1>3 DEF Inv, Up, Down, TypeOK

LEMMA TickInv ==
    ASSUME Inv, Tick
    PROVE  Inv'
  BY BoundsAreNumbers DEF Inv, Up, Down, TypeOK, Tick

LEMMA SweepRollsInv ==
    ASSUME Inv, NEW now \in Recent, SweepRolls(now)
    PROVE  Inv'
<1>1. running /\ TypeOK /\ Serves(files, indexes, sealed, active, logEnd)
  BY DEF SweepRolls, Inv, Up
<1>2. MaybeRoll(now) /\ UNCHANGED <<mixed, running, logEnd, graveyard, appending, clock>>
  BY DEF SweepRolls
<1>3. /\ Serves(files', indexes', sealed', active', logEnd)
      /\ indexes' \subseteq Nat
      /\ DOMAIN sealed' \subseteq Nat
      /\ \A b \in DOMAIN sealed' : sealed'[b] \in Nat
      /\ active' \in [base : Nat, fd : Nat, since : Nat \cup {-1}]
      /\ ranges' \in [Readers -> FileRange \cup {NoRange}]
  BY <1>1, <1>2, MaybeRollServes
<1>4. DOMAIN files' \subseteq Nat /\ \A b \in DOMAIN files' : files'[b] \subseteq Batch
  BY <1>3, DirectoryType DEF Serves
<1>5. TypeOK'
  BY <1>1, <1>2, <1>3, <1>4 DEF TypeOK
<1> QED
  BY <1>1, <1>2, <1>3, <1>5 DEF Inv, Up, Down

\* Sealed segments S go, the oldest ones if the policy is Delete.
LEMMA BuryInv ==
    ASSUME Inv, running, NEW now \in Recent, NEW S \in SUBSET DOMAIN sealed,
           ~Compact => \A b \in DOMAIN files : \A d \in S : b <= d => b \in S,
           Bury(S, now), UNCHANGED <<mixed, running, active, logEnd, appending, clock>>
    PROVE  Inv'
<1>1. TypeOK /\ Serves(files, indexes, sealed, active, logEnd) /\ now \in Nat
  BY DEF Inv, Up, TypeOK, Recent
<1>2. /\ files' = [b \in DOMAIN files \ S |-> files[b]]
      /\ indexes' = indexes \ S
      /\ sealed' = [b \in DOMAIN sealed \ S |-> sealed[b]]
      /\ graveyard' = graveyard \cup {[base |-> b, fd |-> sealed[b], at |-> now] : b \in S}
      /\ ranges' = ranges
  BY DEF Bury, Without
<1>3. active.base \notin S /\ Directory(files, indexes, active.base)
  BY <1>1 DEF Serves
<1>4. Directory(files', indexes', active.base)
  BY <1>2, <1>3, DropSegments
<1>5. Serves(files', indexes', sealed', active', logEnd')
  <2>1. DOMAIN files' = DOMAIN sealed' \cup {active.base} /\ active.base \notin DOMAIN sealed'
    BY <1>1, <1>2, <1>3 DEF Serves
  <2>2. files'[active.base] = files[active.base] /\ active.base \in indexes'
    BY <1>1, <1>2, <1>3 DEF Serves
  <2> QED
    BY <1>1, <1>4, <2>1, <2>2 DEF Serves
<1>6. TypeOK'
  <2>1. DOMAIN files' \subseteq Nat /\ \A b \in DOMAIN files' : files'[b] \subseteq Batch
    BY <1>4, DirectoryType
  <2>2. graveyard' \subseteq [base : Nat, fd : Nat, at : Nat]
    BY <1>1, <1>2 DEF TypeOK
  <2>3. DOMAIN sealed' \subseteq Nat /\ \A b \in DOMAIN sealed' : sealed'[b] \in Nat
    BY <1>1, <1>2 DEF TypeOK
  <2> QED
    BY <1>1, <1>2, <2>1, <2>2, <2>3 DEF TypeOK
<1> QED
  BY <1>1, <1>5, <1>6 DEF Inv, Up, Down

LEMMA ApplyRetentionInv ==
    ASSUME Inv, NEW now \in Recent, ApplyRetention(now)
    PROVE  Inv'
<1>1. running /\ TypeOK /\ Serves(files, indexes, sealed, active, logEnd)
  BY DEF ApplyRetention, Inv, Up
<1>2. /\ Bury(Doomed(now), now)
      /\ UNCHANGED <<mixed, running, active, logEnd, appending, clock>>
  BY DEF ApplyRetention
<1> QED
  BY <1>1, <1>2, DoomedAreOldest, BuryInv

LEMMA RemoveSegmentInv ==
    ASSUME Inv, NEW now \in Recent, NEW b \in DOMAIN sealed, RemoveSegment(b, now)
    PROVE  Inv'
<1>1. running /\ Compact /\ Bury({b}, now) /\ UNCHANGED <<mixed, running, active, logEnd, appending, clock>>
  BY DEF RemoveSegment
<1> QED
  BY <1>1, BuryInv

LEMMA SweepGraveyardInv ==
    ASSUME Inv, NEW now \in Recent, SweepGraveyard(now)
    PROVE  Inv'
<1>1. TypeOK /\ running /\ UNCHANGED <<files, indexes, mixed, running, sealed, active, logEnd, appending, clock>>
  BY DEF SweepGraveyard, Inv
<1>2. graveyard' \subseteq graveyard
  BY DEF SweepGraveyard
<1>3. ranges' \in [Readers -> FileRange \cup {NoRange}]
  BY <1>1, RangesType DEF SweepGraveyard, Fates, TypeOK
<1> QED
  BY <1>1, <1>2, <1>3 DEF Inv, Up, Down, TypeOK

LEMMA ReplaceSegmentInv ==
    ASSUME Inv, NEW now \in Recent, NEW b \in DOMAIN sealed, NEW K \in Cleanings(files[b]),
           ReplaceSegment(b, K, now)
    PROVE  Inv'
<1>1. running /\ TypeOK /\ Serves(files, indexes, sealed, active, logEnd) /\ now \in Nat
  BY DEF ReplaceSegment, Inv, Up, TypeOK, Recent
<1>2. /\ Compact /\ K # {} /\ files' = [files EXCEPT ![b] = K]
      /\ sealed' = [sealed EXCEPT ![b] = @ + 1]
      /\ graveyard' = graveyard \cup {[base |-> b, fd |-> sealed[b], at |-> now]}
      /\ UNCHANGED <<indexes, mixed, running, active, logEnd, appending, ranges, clock>>
  BY DEF ReplaceSegment
<1>3. b \in DOMAIN files \ {active.base}
  BY <1>1 DEF Serves
<1>4. Directory(files', indexes', active.base)
  BY <1>1, <1>2, <1>3, SwapSegment DEF Serves
<1>5. Serves(files', indexes', sealed', active', logEnd')
  <2>1. DOMAIN files' = DOMAIN files /\ DOMAIN sealed' = DOMAIN sealed
    BY <1>2
  <2>2. files'[active.base] = files[active.base]
    BY <1>1, <1>2, <1>3 DEF Serves
  <2> QED
    BY <1>1, <1>2, <1>4, <2>1, <2>2 DEF Serves
<1>6. TypeOK'
  <2>1. DOMAIN files' \subseteq Nat /\ \A c \in DOMAIN files' : files'[c] \subseteq Batch
    BY <1>4, DirectoryType
  <2>2. graveyard' \subseteq [base : Nat, fd : Nat, at : Nat]
    BY <1>1, <1>2 DEF TypeOK
  <2>3. DOMAIN sealed' \subseteq Nat /\ \A c \in DOMAIN sealed' : sealed'[c] \in Nat
    BY <1>1, <1>2 DEF TypeOK
  <2> QED
    BY <1>1, <1>2, <2>1, <2>2, <2>3 DEF TypeOK
<1> QED
  BY <1>1, <1>2, <1>5, <1>6 DEF Inv, Up, Down

\* A dead process, with a directory that can be opened.
LEMMA DiesInv ==
    ASSUME Inv, Dies, NEW top, Directory(files', indexes', top), indexes' \subseteq Nat,
           mixed' \in BOOLEAN
    PROVE  Inv'
<1>1. DOMAIN files' \subseteq Nat /\ \A b \in DOMAIN files' : files'[b] \subseteq Batch
  BY DirectoryType
<1>2. TypeOK'
  BY <1>1 DEF Dies, Inv, TypeOK
<1>3. Up' /\ Down'
  BY DEF Dies, Up, Down, Leaves, Directory
<1> QED
  BY <1>2, <1>3 DEF Inv, Dies

\* Wherever the process dies, the directory still has the shape of one.
LEMMA FailureInv ==
    ASSUME Inv, Failure
    PROVE  Inv'
<1>1. running /\ Dies
  BY DEF Failure, Crash, CrashInWrite, CrashInRoll, CrashInRetention, CrashInRemove,
       CrashInReplace, Dies
<1>2. /\ TypeOK /\ Serves(files, indexes, sealed, active, logEnd)
      /\ Directory(files, indexes, active.base)
  BY <1>1 DEF Inv, Up, Serves
<1>3. CASE Crash
  <2>1. files' = files /\ indexes' = indexes /\ mixed' = mixed
    BY <1>3 DEF Crash, disk
  <2> QED
    BY <1>1, <1>2, <2>1, DiesInv DEF TypeOK
<1>4. ASSUME NEW whole \in BOOLEAN, CrashInWrite(whole)
      PROVE  Inv'
  <2> DEFINE S == files[active.base] \cup {Stamped(whole)}
  <2>1. /\ appending # NoAppend /\ files' = [files EXCEPT ![active.base] = S]
        /\ indexes' = indexes /\ mixed' = mixed
    BY <1>4 DEF CrashInWrite
  <2>2. NewestOK(active.base, S)
    BY <1>1, <2>1, StampedIsNext
  <2> HIDE DEF S
  <2>3. Directory(files', indexes', active.base)
    BY <1>2, <2>1, <2>2, ChangeNewest
  <2> QED
    BY <1>1, <1>2, <2>1, <2>3, DiesInv DEF TypeOK
<1>5. ASSUME NEW indexed \in BOOLEAN, CrashInRoll(indexed)
      PROVE  Inv'
  <2>1. files[active.base] # {}
    BY <1>5, FS_EmptySet DEF CrashInRoll, ShouldRoll
  <2>2. /\ files' = [b \in DOMAIN files \cup {logEnd} |-> IF b = logEnd THEN {} ELSE files[b]]
        /\ indexes' = IF indexed THEN indexes \cup {logEnd} ELSE indexes \ {logEnd}
    BY <1>5 DEF CrashInRoll
  <2>3. logEnd = EndOf(active.base, files[active.base]) /\ indexes \ {logEnd} \subseteq indexes'
    BY <1>2, <2>2 DEF Serves
  <2>4. Directory(files', indexes', logEnd)
    BY <1>2, <2>1, <2>2, <2>3, AddSegment DEF Serves
  <2>5. indexes' \subseteq Nat /\ mixed' \in BOOLEAN
    BY <1>2, <1>5, <2>2 DEF CrashInRoll, TypeOK
  <2> QED
    BY <1>1, <2>4, <2>5, DiesInv
<1>6. ASSUME NEW now \in Recent, NEW cut \in DOMAIN sealed, NEW orphan \in BOOLEAN,
             CrashInRetention(now, cut, orphan)
      PROVE  Inv'
  <2> DEFINE D == {b \in Doomed(now) : b <= cut}
  <2>1. files' = [b \in DOMAIN files \ D |-> files[b]] /\ cut \in Doomed(now)
    BY <1>6 DEF CrashInRetention, Without
  <2>2. indexes \ D \subseteq indexes' /\ indexes' \subseteq Nat /\ mixed' \in BOOLEAN
    BY <1>2, <1>6 DEF CrashInRetention, TypeOK
  <2>3. /\ Doomed(now) \subseteq DOMAIN sealed
        /\ active.base \notin Doomed(now)
        /\ \A b \in DOMAIN files : \A d \in Doomed(now) : b <= d => b \in Doomed(now)
    BY <1>2, DoomedAreOldest
  <2>4. \A b \in DOMAIN files : \A d \in D : b <= d => b \in D
    BY <1>2, <2>3 DEF TypeOK
  <2>5. active.base \notin D
    BY <2>3
  <2> HIDE DEF D
  <2>6. Directory(files', indexes', active.base)
    BY <1>2, <2>1, <2>2, <2>4, <2>5, DropSegments
  <2> QED
    BY <1>1, <2>2, <2>6, DiesInv
<1>7. ASSUME NEW b \in DOMAIN sealed, NEW orphan \in BOOLEAN, CrashInRemove(b, orphan)
      PROVE  Inv'
  <2>1. /\ files' = [c \in DOMAIN files \ {b} |-> files[c]] /\ Compact
        /\ indexes \ {b} \subseteq indexes' /\ indexes' \subseteq Nat /\ mixed' \in BOOLEAN
    BY <1>2, <1>7 DEF CrashInRemove, Without, TypeOK
  <2>2. active.base \notin {b}
    BY <1>2 DEF Serves
  <2>3. Directory(files', indexes', active.base)
    BY <1>2, <2>1, <2>2, DropSegments
  <2> QED
    BY <1>1, <2>1, <2>3, DiesInv
<1>8. ASSUME NEW b \in DOMAIN sealed, NEW K \in Cleanings(files[b]), CrashInReplace(b, K)
      PROVE  Inv'
  <2>1. /\ Compact /\ K # {} /\ files' = [files EXCEPT ![b] = K] /\ indexes' = indexes
        /\ mixed' \in BOOLEAN
    BY <1>8 DEF CrashInReplace
  <2>2. b \in DOMAIN files \ {active.base}
    BY <1>2 DEF Serves
  <2>3. Directory(files', indexes', active.base)
    BY <1>2, <2>1, <2>2, SwapSegment
  <2> QED
    BY <1>1, <1>2, <2>1, <2>3, DiesInv DEF TypeOK
<1> QED
  BY <1>3, <1>4, <1>5, <1>6, <1>7, <1>8 DEF Failure

LEMMA NextInv ==
    ASSUME Inv, [Next]_vars
    PROVE  Inv'
<1>1. CASE Next
  <2>1. CASE Background
    BY <2>1, SweepRollsInv, ApplyRetentionInv, SweepGraveyardInv, RemoveSegmentInv,
       ReplaceSegmentInv DEF Background
  <2> QED
    BY <1>1, <2>1, CreateInv, OpenInv, AppendInv, WriteInv, ReadInv, SendInv, FailureInv,
       TickInv DEF Next
<1>2. CASE UNCHANGED vars
  BY <1>2 DEF vars, Inv, Up, Down, TypeOK
<1> QED
  BY <1>1, <1>2

\* The invariant: whatever producers, readers, the maintenance thread, the cleaner
\* and crashes do, the directory keeps the shape Log::open() relies on.
THEOREM Invariance == Spec => []Inv
<1>1. Inv /\ [Next]_vars => Inv'
  BY NextInv
<1> QED
  BY <1>1, InitInv, PTL DEF Spec

\* What a partition keeps in memory always has its type.
THEOREM TypeCorrect == Spec => []TypeOK
<1>1. Inv => TypeOK
  BY DEF Inv
<1> QED
  BY <1>1, Invariance, PTL

\* Log::open() never refuses what a crash left, whatever the sizes and policies
\* and wherever in a write, a roll, retention or a removal the process died.
THEOREM AlwaysReopens == Spec => []Reopens
<1>1. Inv => Reopens
  BY DirectoryOpens DEF Inv, Down, Leaves, Reopens
<1> QED
  BY <1>1, Invariance, PTL

\* ActiveSegment::append() never throws: the batch Log::append() stamped fits,
\* although maintenance may have rolled the segment since.
THEOREM StampAlwaysFits == Spec => []StampFits
<1>1. Inv => StampFits
  BY DEF Inv, Up, Down, Serves, StampFits, NextOffset
<1> QED
  BY <1>1, Invariance, PTL

-----------------------------------------------------------------------------
(* Reads *)

\* A read is routed to the last segment that starts at or below the offset.
LEMMA RoutedToLast ==
    ASSUME Serves(files, indexes, sealed, active, logEnd),
           NEW o \in Nat, NEW b \in DOMAIN files, b <= o,
           \A c \in DOMAIN files : c <= b \/ o < c
    PROVE  UNION {files[c] : c \in Routed(o)} = files[b]
<1>1. /\ DOMAIN files \subseteq Nat /\ DOMAIN files = DOMAIN sealed \cup {active.base}
      /\ active.base \notin DOMAIN sealed /\ \A c \in DOMAIN files : c <= active.base
  BY DEF Serves, Directory
<1>2. Routed(o) = {b}
  <2>1. CASE b = active.base
    BY <2>1, <1>1 DEF Routed
  <2>2. CASE b # active.base
    <3>1. b \in DOMAIN sealed /\ ~(o >= active.base)
      BY <1>1, <2>2
    <3>2. ASSUME NEW c \in DOMAIN sealed, c <= o, \A d \in DOMAIN sealed : d <= o => d <= c
          PROVE  c = b
      BY <1>1, <3>1, <3>2
    <3>3. \A d \in DOMAIN sealed : d <= o => d <= b
      BY <1>1
    <3> QED
      BY <3>1, <3>2, <3>3 DEF Routed
  <2> QED
    BY <2>1, <2>2
<1> QED
  BY <1>2

\* A record is found at its own offset.
LEMMA FoundAtOffset ==
    ASSUME Serves(files, indexes, sealed, active, logEnd),
           NEW b \in DOMAIN files, NEW x \in files[b], NEW o \in x.first .. x.last
    PROVE  Found(o) = {x}
<1>1. /\ x \in Batch /\ b <= x.first /\ x.first <= x.last
      /\ \A c \in DOMAIN files : c <= b \/ x.last < c
  BY Disjoint
<1>2. DOMAIN files \subseteq Nat
  BY DEF Serves, Directory
<1>3. o \in Nat /\ b <= o /\ x.first <= o /\ o <= x.last
  BY <1>1, <1>2 DEF Batch
<1>4. \A c \in DOMAIN files : c <= b \/ o < c
  BY <1>1, <1>2, <1>3 DEF Batch
<1>5. UNION {files[c] : c \in Routed(o)} = files[b]
  BY <1>3, <1>4, RoutedToLast
<1>6. Found(o) = {z \in files[b] : z.last >= o /\ \A y \in files[b] : y.last >= o => z.first <= y.first}
  BY <1>5 DEF Found
<1>7. \A y \in files[b] : /\ y \in Batch /\ y.first <= y.last
                          /\ y.first <= x.last /\ x.first <= y.last => y = x
  BY Disjoint
<1>8. ASSUME NEW y \in files[b], y.last >= o
      PROVE  x.first <= y.first
  BY <1>1, <1>3, <1>7, <1>8 DEF Batch
<1>9. ASSUME NEW z \in files[b], z.last >= o, z.first <= x.first
      PROVE  z = x
  BY <1>1, <1>3, <1>7, <1>9 DEF Batch
<1> QED
  BY <1>1, <1>3, <1>6, <1>8, <1>9 DEF Batch

\* On a Delete log every offset between the start and the end is in some batch.
LEMMA NoHoles ==
    ASSUME Serves(files, indexes, sealed, active, logEnd), ~Compact,
           NEW o \in Nat, NEW s \in DOMAIN files, s <= o, o < logEnd
    PROVE  \E b \in DOMAIN files : \E x \in files[b] : o \in x.first .. x.last
<1>1. DOMAIN files \subseteq Nat /\ Directory(files, indexes, active.base)
  BY DEF Serves, Directory
<1> DEFINE D == {o - c : c \in {d \in DOMAIN files : d <= o}}
<1>2. D \in SUBSET Nat /\ D # {}
  BY <1>1
<1>3. PICK m \in D : \A n \in D : m <= n
  BY <1>2, LeastExists
<1>4. PICK b \in DOMAIN files : b <= o /\ m = o - b
  BY <1>3
<1>5. \A c \in DOMAIN files : c <= b \/ o < c
  <2> SUFFICES ASSUME NEW c \in DOMAIN files, c <= o
               PROVE  c <= b
    BY <1>1
  <2>1. o - c \in D
    OBVIOUS
  <2>2. o - b <= o - c
    BY <1>3, <1>4, <2>1
  <2> QED
    BY <1>1, <2>2
<1> HIDE DEF D
<1>6. PICK e \in Nat : Dense(b, files[b], e) /\ o < e
  <2>1. CASE b = active.base
    <3>1. Complete(files[b]) = files[b]
      BY <2>1 DEF Serves, Complete
    <3>2. Dense(b, files[b], logEnd) /\ logEnd \in Nat
      BY <1>1, <2>1, <3>1 DEF Serves, Directory, NewestOK, Dense
    <3> QED
      BY <3>2
  <2>2. CASE b # active.base
    <3> DEFINE e == EndOf(b, files[b])
    <3>1. SealedOK(files, indexes, b)
      BY <1>1, <2>2 DEF Directory
    <3>2. Dense(b, files[b], e) /\ e \in DOMAIN files /\ Within(b, files[b]) /\ files[b] # {}
      BY <3>1 DEF SealedOK
    <3>3. e # b /\ b <= e /\ e \in Nat /\ b \in Nat
      BY <1>1, <3>2, EndOfDense DEF Dense
    <3> HIDE DEF e
    <3>4. o < e
      BY <1>5, <3>2, <3>3
    <3> QED
      BY <3>2, <3>3, <3>4
  <2> QED
    BY <2>1, <2>2
<1>7. PICK x \in files[b] : x.first <= o /\ o <= x.last
  BY <1>4, <1>6 DEF Dense
<1>8. x \in Batch
  BY Disjoint
<1> QED
  BY <1>7, <1>8 DEF Batch

\* Whatever rolls, retention, swaps and restarts did to the segments, a record
\* that is still in the partition is what Log::read() answers for its offset.
THEOREM SurvivorsAlwaysFound == Spec => []SurvivorsAreFound
<1>1. Inv => SurvivorsAreFound
  BY FoundAtOffset DEF Inv, Up, SurvivorsAreFound
<1> QED
  BY <1>1, Invariance, PTL

\* A partition with the Delete policy has no hole: every offset from the start
\* of the log to its end is answered with the one batch that holds it.
THEOREM EveryOffsetAlwaysFound == Spec => []EveryOffsetIsFound
<1>1. Inv => EveryOffsetIsFound
  <2> SUFFICES ASSUME Inv, running, ~Compact, NEW o \in LogStart .. (logEnd - 1)
               PROVE  \E x \in Found(o) : x.whole /\ x.first <= o /\ \A y \in Found(o) : y = x
    BY DEF EveryOffsetIsFound
  <2>1. Serves(files, indexes, sealed, active, logEnd) /\ logEnd \in Nat
    BY DEF Inv, Up, TypeOK
  <2>2. DOMAIN files \in SUBSET Nat /\ DOMAIN files # {}
    BY <2>1 DEF Serves, Directory
  <2>3. LogStart \in DOMAIN files
    <3>1. \E b \in DOMAIN files : \A c \in DOMAIN files : b <= c
      BY <2>2, LeastExists
    <3> QED
      BY <3>1 DEF LogStart
  <2>4. o \in Nat /\ LogStart <= o /\ o < logEnd
    BY <2>1, <2>2, <2>3
  <2>5. PICK b \in DOMAIN files : \E x \in files[b] : o \in x.first .. x.last
    BY <2>1, <2>3, <2>4, NoHoles
  <2>6. PICK x \in files[b] : o \in x.first .. x.last
    BY <2>5
  <2>7. Found(o) = {x}
    BY <2>1, <2>6, FoundAtOffset
  <2>8. x \in Batch /\ x.whole
    BY <2>1, Disjoint
  <2> QED
    BY <2>4, <2>6, <2>7, <2>8 DEF Batch
<1> QED
  BY <1>1, Invariance, PTL

-----------------------------------------------------------------------------
(* Descriptors *)

\* A descriptor in the graveyard is no longer the one a read would be given, and
\* was buried after every range on it was issued, or so the pass that did it thinks:
\* the time it works with may be Lag behind.
Handles ==
    /\ \A g \in graveyard :
        /\ g.base < active.base
        /\ g.base \in DOMAIN sealed => g.fd < sealed[g.base]
    /\ \A r \in Readers : ranges[r] # NoRange =>
        /\ ranges[r].at <= clock
        /\ ranges[r].fate = "closed" => clock - ranges[r].at >= DeleteDelay - Lag
        /\ \A g \in graveyard :
            g.base = ranges[r].base /\ g.fd = ranges[r].fd => ranges[r].at <= g.at + Lag

\* Nothing is buried or closed, and no descriptor but the active segment's moves.
LEMMA HandlesKept ==
    ASSUME Inv, Handles, UNCHANGED <<graveyard, ranges, clock>>,
           \A g \in graveyard :
              /\ g.base < active'.base
              /\ g.base \in DOMAIN sealed' => g.fd < sealed'[g.base]
    PROVE  Handles'
  BY DEF Handles

\* The descriptor of the active segment is not in the graveyard: a roll that closes
\* it breaks the ranges on it, and no others.
LEMMA RangesHandles ==
    ASSUME TypeOK, Handles, UNCHANGED <<graveyard, clock>>, NEW S,
           ranges' = ranges \/ ranges' = Ranges(S, "rolled"),
           \A g \in graveyard :
              /\ g.base < active'.base
              /\ g.base \in DOMAIN sealed' => g.fd < sealed'[g.base]
    PROVE  Handles'
<1>1. ASSUME NEW r \in Readers, ranges'[r] # NoRange
      PROVE  /\ ranges[r] # NoRange
             /\ ranges'[r].at = ranges[r].at /\ ranges'[r].base = ranges[r].base
             /\ ranges'[r].fd = ranges[r].fd
             /\ ranges'[r].fate = "closed" => ranges[r].fate = "closed"
  <2>1. CASE ranges'[r] = ranges[r]
    BY <1>1, <2>1
  <2>2. CASE ranges'[r] # ranges[r]
    <3>1. ranges[r] # NoRange /\ ranges'[r] = [ranges[r] EXCEPT !.fate = "rolled"]
      BY <2>2 DEF Ranges
    <3>2. ranges[r] \in FileRange
      BY <3>1 DEF TypeOK
    <3> QED
      BY <3>1, <3>2 DEF FileRange
  <2> QED
    BY <2>1, <2>2
<1> QED
  BY <1>1 DEF Handles

LEMMA MaybeRollHandles ==
    ASSUME Inv, running, Handles, NEW now, MaybeRoll(now),
           UNCHANGED <<graveyard, clock>>
    PROVE  Handles'
<1>1. CASE UNCHANGED <<files, indexes, sealed, active, ranges>>
  BY <1>1, HandlesKept DEF Handles
<1>2. ASSUME ShouldRoll(now), NEW reused \in Reuse, Roll(reused)
      PROVE  Handles'
  <2>1. Serves(files, indexes, sealed, active, logEnd) /\ TypeOK
    BY DEF Inv, Up
  <2>2. active.base <= logEnd /\ active.base \in Nat /\ logEnd \in Nat
    BY <2>1, Disjoint DEF Serves, TypeOK
  <2>3. /\ active'.base = logEnd
        /\ DOMAIN sealed' = DOMAIN sealed \cup {active.base}
        /\ \A b \in DOMAIN sealed \ {active.base} : sealed'[b] = sealed[b]
    BY <1>2 DEF Roll
  <2>4. ASSUME NEW g \in graveyard
        PROVE  /\ g.base < active'.base
               /\ g.base \in DOMAIN sealed' => g.fd < sealed'[g.base]
    <3>1. /\ g.base \in Nat /\ g.base < active.base
          /\ g.base \in DOMAIN sealed => g.fd < sealed[g.base]
      BY <2>1 DEF Handles, TypeOK
    <3> QED
      BY <2>2, <2>3, <3>1
  <2>5. ranges' = ranges \/ ranges' = Ranges({<<active.base, active.fd>>}, "rolled")
    BY <1>2 DEF Roll
  <2> QED
    BY <2>1, <2>4, <2>5, RangesHandles
<1> QED
  BY <1>1, <1>2 DEF MaybeRoll

\* Segments S are buried; those that stay in place have a newer descriptor.
LEMMA BuryHandles ==
    ASSUME Inv, running, Handles, NEW S \in SUBSET DOMAIN sealed, NEW now \in Recent,
           graveyard' = graveyard \cup {[base |-> b, fd |-> sealed[b], at |-> now] : b \in S},
           DOMAIN sealed' \subseteq DOMAIN sealed,
           \A b \in DOMAIN sealed' : sealed'[b] = IF b \in S THEN sealed[b] + 1 ELSE sealed[b],
           UNCHANGED <<active, ranges, clock>>
    PROVE  Handles'
<1>1. /\ TypeOK /\ \A b \in DOMAIN sealed : b \in Nat /\ sealed[b] \in Nat /\ b < active.base
  <2>1. TypeOK /\ Serves(files, indexes, sealed, active, logEnd)
    BY DEF Inv, Up
  <2>2. \A b \in DOMAIN sealed : b <= active.base /\ b # active.base
    BY <2>1 DEF Serves, Directory
  <2> QED
    BY <2>1, <2>2 DEF TypeOK
<1>2. ASSUME NEW g \in graveyard'
      PROVE  /\ g.base < active'.base
             /\ g.base \in DOMAIN sealed' => g.fd < sealed'[g.base]
             /\ \A r \in Readers : ranges'[r] # NoRange =>
                  (g.base = ranges'[r].base /\ g.fd = ranges'[r].fd => ranges'[r].at <= g.at + Lag)
  <2>1. CASE g \in graveyard
    <3>1. /\ g.base < active.base /\ g.base \in Nat /\ g.fd \in Nat
          /\ g.base \in DOMAIN sealed => g.fd < sealed[g.base]
      BY <1>1, <2>1 DEF Handles, TypeOK
    <3>2. g.base \in DOMAIN sealed' => g.fd < sealed'[g.base]
      <4> SUFFICES ASSUME g.base \in DOMAIN sealed'
                   PROVE  g.fd < sealed'[g.base]
        OBVIOUS
      <4>1. CASE g.base \in S
        BY <1>1, <3>1, <4>1
      <4>2. CASE g.base \notin S
        BY <3>1, <4>2
      <4> QED
        BY <4>1, <4>2
    <3> QED
      BY <2>1, <3>1, <3>2 DEF Handles
  <2>2. CASE g \in {[base |-> b, fd |-> sealed[b], at |-> now] : b \in S}
    <3>1. PICK b \in S : g = [base |-> b, fd |-> sealed[b], at |-> now]
      BY <2>2
    <3>2. clock \in Nat /\ now \in Nat /\ clock <= now + Lag
      BY <1>1, BoundsAreNumbers DEF TypeOK, Recent
    <3>3. \A r \in Readers : ranges'[r] # NoRange => ranges'[r].at <= now + Lag
      <4> SUFFICES ASSUME NEW r \in Readers, ranges[r] # NoRange PROVE ranges[r].at <= now + Lag
        OBVIOUS
      <4>1. ranges[r].at <= clock /\ ranges[r].at \in Nat
        BY <1>1 DEF Handles, TypeOK, FileRange
      <4> QED
        BY <3>2, <4>1, BoundsAreNumbers
    <3> QED
      BY <1>1, <3>1, <3>3
  <2> QED
    BY <2>1, <2>2
<1> QED
  BY <1>2 DEF Handles

LEMMA HandlesStep ==
    ASSUME Inv, Handles, [Next]_vars
    PROVE  Handles'
<1>1. TypeOK /\ clock \in Nat /\ ranges \in [Readers -> FileRange \cup {NoRange}]
  BY DEF Inv, TypeOK
<1>2. \A now \in Recent : now \in Nat /\ now <= clock /\ clock <= now + Lag
  BY <1>1, BoundsAreNumbers DEF Recent
<1>3. ASSUME graveyard' = {}, ranges' = [r \in Readers |-> NoRange]
      PROVE  Handles'
  BY <1>3 DEF Handles
<1>4. CASE Create \/ Open
  BY <1>3, <1>4 DEF Create, Open, Inv, Down
<1>5. CASE Failure
  BY <1>3, <1>5 DEF Failure, Crash, CrashInWrite, CrashInRoll, CrashInRetention, CrashInRemove,
       CrashInReplace, Dies
<1>6. ASSUME NEW n \in 1 .. MaxBatch, NEW ts \in Stamps, Append(n, ts)
      PROVE  Handles'
  BY <1>6, MaybeRollHandles DEF Append
<1>7. CASE Write
  <2>1. active'.base = active.base /\ UNCHANGED <<graveyard, ranges, sealed, clock>>
    BY <1>1, <1>7 DEF Write, TypeOK
  <2> QED
    BY <2>1, HandlesKept DEF Handles
<1>8. ASSUME NEW r \in Readers, Send(r)
      PROVE  Handles'
  BY <1>1, <1>8 DEF Send, Handles
<1>9. ASSUME NEW r \in Readers, NEW o \in 0 .. MaxOffset, Read(r, o)
      PROVE  Handles'
  <2>1. PICK b \in Routed(o) :
          ranges' = [ranges EXCEPT ![r] =
              [base |-> b, fd |-> IF b = active.base THEN active.fd ELSE sealed[b],
               at |-> clock, fate |-> "open"]]
    BY <1>9 DEF Read
  <2>2. UNCHANGED <<active, sealed, graveyard, clock>>
    BY <1>9 DEF Read
  <2>3. b = active.base \/ b \in DOMAIN sealed
    BY DEF Routed
  <2>4. \A g \in graveyard : g.base \in Nat /\ g.fd \in Nat
    BY <1>1 DEF TypeOK
  <2>5. \A g \in graveyard : ~(g.base = ranges'[r].base /\ g.fd = ranges'[r].fd)
    BY <1>1, <2>1, <2>3, <2>4 DEF Handles, TypeOK
  <2>6. ranges'[r].at = clock /\ ranges'[r].fate = "open"
    BY <1>1, <2>1
  <2>7. \A q \in Readers \ {r} : ranges'[q] = ranges[q]
    BY <1>1, <2>1
  <2> QED
    BY <1>1, <2>2, <2>5, <2>6, <2>7 DEF Handles
<1>10. ASSUME NEW now \in Recent, SweepRolls(now)
       PROVE  Handles'
  BY <1>10, MaybeRollHandles DEF SweepRolls
<1>11. ASSUME NEW now \in Recent, running, NEW S \in SUBSET DOMAIN sealed, Bury(S, now),
              UNCHANGED <<active, clock>>
       PROVE  Handles'
  <2>1. DOMAIN sealed' = DOMAIN sealed \ S /\ \A b \in DOMAIN sealed' : sealed'[b] = sealed[b]
    BY <1>11 DEF Bury
  <2>2. /\ graveyard' = graveyard \cup {[base |-> b, fd |-> sealed[b], at |-> now] : b \in S}
        /\ ranges' = ranges
    BY <1>11 DEF Bury
  <2> QED
    BY <1>11, <2>1, <2>2, BuryHandles
<1>12. ASSUME NEW now \in Recent, ApplyRetention(now)
       PROVE  Handles'
  <2>1. Doomed(now) \in SUBSET DOMAIN sealed
    BY DEF Doomed
  <2> QED
    BY <1>11, <1>12, <2>1 DEF ApplyRetention
<1>13. ASSUME NEW now \in Recent, NEW b \in DOMAIN sealed, RemoveSegment(b, now)
       PROVE  Handles'
  BY <1>11, <1>13 DEF RemoveSegment
<1>14. ASSUME NEW now \in Recent, NEW b \in DOMAIN sealed, NEW K \in Cleanings(files[b]),
              ReplaceSegment(b, K, now)
       PROVE  Handles'
  <2> DEFINE S == {b}
  <2>1. /\ running /\ UNCHANGED <<active, ranges, clock>>
        /\ sealed' = [sealed EXCEPT ![b] = @ + 1]
    BY <1>14 DEF ReplaceSegment
  <2>2. sealed[b] \in Nat
    BY <1>1 DEF TypeOK
  <2>3. DOMAIN sealed' = DOMAIN sealed
    BY <2>1
  <2>4. \A c \in DOMAIN sealed' : sealed'[c] = IF c \in S THEN sealed[c] + 1 ELSE sealed[c]
    BY <2>1, <2>2
  <2>5. graveyard' = graveyard \cup {[base |-> c, fd |-> sealed[c], at |-> now] : c \in S}
    BY <1>14 DEF ReplaceSegment
  <2> HIDE DEF S
  <2>6. S \in SUBSET DOMAIN sealed
    BY DEF S
  <2> QED
    BY <2>1, <2>3, <2>4, <2>5, <2>6, BuryHandles
<1>15. ASSUME NEW now \in Recent, SweepGraveyard(now)
       PROVE  Handles'
  <2> DEFINE C == {<<g.base, g.fd>> : g \in Closable(now)}
  <2>1. /\ graveyard' \subseteq graveyard /\ ranges' = Ranges(C, "closed")
        /\ UNCHANGED <<sealed, active, clock>>
    BY <1>15 DEF SweepGraveyard
  <2>2. ASSUME NEW r \in Readers, ranges'[r] # NoRange
        PROVE  /\ ranges[r] # NoRange
               /\ ranges'[r].at = ranges[r].at /\ ranges'[r].base = ranges[r].base
               /\ ranges'[r].fd = ranges[r].fd
               /\ ranges'[r].fate = "closed" => clock - ranges[r].at >= DeleteDelay - Lag
    <3>1. CASE ranges[r] # NoRange /\ <<ranges[r].base, ranges[r].fd>> \in C
      <4>1. ranges[r] \in FileRange /\ ranges'[r] = [ranges[r] EXCEPT !.fate = "closed"]
        BY <1>1, <2>1, <3>1 DEF Ranges
      <4>2. PICK g \in graveyard :
              /\ g.base = ranges[r].base /\ g.fd = ranges[r].fd
              /\ now - g.at >= DeleteDelay
        BY <3>1 DEF Closable
      <4>3. ranges[r].at <= g.at + Lag /\ g.at \in Nat /\ ranges[r].at \in Nat
        BY <1>1, <3>1, <4>1, <4>2 DEF Handles, TypeOK, FileRange
      <4>4. clock - ranges[r].at >= DeleteDelay - Lag
        BY <1>1, <1>2, <4>2, <4>3, BoundsAreNumbers
      <4> QED
        BY <3>1, <4>1, <4>4 DEF FileRange
    <3>2. CASE ~(ranges[r] # NoRange /\ <<ranges[r].base, ranges[r].fd>> \in C)
      <4>1. ranges'[r] = ranges[r]
        BY <2>1, <3>2 DEF Ranges
      <4> QED
        BY <2>2, <4>1 DEF Handles
    <3> QED
      BY <3>1, <3>2
  <2> QED
    BY <2>1, <2>2 DEF Handles
<1>16. CASE Tick
  <2>1. clock' = clock + 1 /\ UNCHANGED <<graveyard, ranges, active, sealed>>
    BY <1>16 DEF Tick
  <2>2. \A r \in Readers : ranges[r] # NoRange => ranges[r].at \in Nat
    BY <1>1 DEF FileRange
  <2> QED
    BY <1>1, <2>1, <2>2, BoundsAreNumbers DEF Handles
<1>17. CASE UNCHANGED vars
  BY <1>17, HandlesKept DEF vars, Handles
<1> QED
  BY <1>4, <1>5, <1>6, <1>7, <1>8, <1>9, <1>10, <1>12, <1>13, <1>14, <1>15, <1>16, <1>17
  DEF Next, Background

\* Whatever deletes, swaps or sweeps, the graveyard keeps a descriptor open for
\* segmentDeleteDelayMs from the FileRange on it, less what the pass that buried it
\* was behind the clock (Lag).  A range on the active segment has no such window:
\* the roll that seals the segment closes the descriptor, unless the number is
\* reused at once; RangeOutlivesSegment claims nothing of it.
THEOREM RangesOutliveSegments == Spec => []RangeOutlivesSegment
<1>1. Init => Handles
  BY DEF Init, Handles
<1>2. Inv /\ Handles /\ [Next]_vars => Handles'
  BY HandlesStep
<1>3. Inv /\ Handles => RangeOutlivesSegment
  BY DEF Handles, RangeOutlivesSegment
<1> QED
  BY <1>1, <1>2, <1>3, Invariance, PTL DEF Spec

-----------------------------------------------------------------------------
(* Retention by age *)

\* Timestamps follow the clock within Skew, except for batches that have none: so
\* along a segment they go back by no more than two clocks differ, and the part of
\* a sealed segment after its last index entry, which is all that is read of it
\* when it is opened, tells the largest timestamp of the whole to within that.
InTime ==
    /\ \A b \in DOMAIN files : \A x \in files[b] : x.ts \in -1 .. (clock + Skew)
    /\ \A b \in DOMAIN files : \A x, y \in files[b] :
            x.first < y.first /\ y.ts >= 0 => x.ts <= y.ts + 2 * Skew
    /\ appending # NoAppend =>
            /\ appending.ts \in -1 .. (clock + Skew)
            /\ appending.ts >= 0 =>
                    \A b \in DOMAIN files : \A x \in files[b] : x.ts <= appending.ts + 2 * Skew

\* No file gains a batch.
Fewer == \A b \in DOMAIN files' :
            files'[b] = {} \/ (b \in DOMAIN files /\ files'[b] \subseteq files[b])

\* It stays so while files lose batches and time passes.
LEMMA FewerInTime ==
    ASSUME Inv, InTime, Fewer, clock' \in Nat, clock <= clock',
           appending' = appending \/ appending' = NoAppend
    PROVE  InTime'
<1>1. clock \in Nat /\ Skew \in Nat
  BY BoundsAreNumbers DEF Inv, TypeOK
<1>2. ASSUME NEW b \in DOMAIN files', NEW x \in files'[b]
      PROVE  b \in DOMAIN files /\ x \in files[b]
  BY <1>2 DEF Fewer
<1>3. \A b \in DOMAIN files' : \A x \in files'[b] : x.ts \in -1 .. (clock' + Skew)
  BY <1>1, <1>2 DEF InTime
<1>4. \A b \in DOMAIN files' : \A x, y \in files'[b] :
            x.first < y.first /\ y.ts >= 0 => x.ts <= y.ts + 2 * Skew
  BY <1>2 DEF InTime
<1>5. appending' # NoAppend =>
            /\ appending'.ts \in -1 .. (clock' + Skew)
            /\ appending'.ts >= 0 =>
                    \A b \in DOMAIN files' : \A x \in files'[b] : x.ts <= appending'.ts + 2 * Skew
  BY <1>1, <1>2 DEF InTime
<1> QED
  BY <1>3, <1>4, <1>5 DEF InTime

\* A roll adds an empty file.
LEMMA RollsAreFewer ==
    ASSUME NEW now, MaybeRoll(now)
    PROVE  Fewer
  BY DEF MaybeRoll, Roll, Fewer

\* A batch written, whole or torn, is the last of its segment.
LEMMA StampedInTime ==
    ASSUME Inv, InTime, running, appending # NoAppend, NEW whole \in BOOLEAN,
           files' = [files EXCEPT ![active.base] = @ \cup {Stamped(whole)}],
           clock' = clock, appending' = NoAppend
    PROVE  InTime'
<1> DEFINE z == Stamped(whole)
           a == active.base
<1>1. /\ Serves(files, indexes, sealed, active, logEnd) /\ appending.base = logEnd
      /\ clock \in Nat /\ logEnd \in Nat
  BY DEF Inv, TypeOK, Up
<1>2. a \in DOMAIN files
  BY <1>1 DEF Serves
<1>3. z.first = logEnd /\ z.first \in Nat /\ z.ts = appending.ts
  BY <1>1 DEF Stamped
<1>4. \A x \in files[a] : x.first \in Nat /\ x.first < logEnd /\ logEnd \in Nat
  BY <1>1, <1>2, Disjoint DEF Batch
<1> HIDE DEF z, a
<1>5. /\ DOMAIN files' = DOMAIN files
      /\ files'[a] = files[a] \cup {z}
      /\ \A b \in DOMAIN files : b # a => files'[b] = files[b]
  BY <1>2 DEF z, a
<1>6. \A b \in DOMAIN files' : \A x \in files'[b] : x.ts \in -1 .. (clock' + Skew)
  BY <1>3, <1>5 DEF InTime
<1>7. ASSUME NEW b \in DOMAIN files', NEW x \in files'[b], NEW y \in files'[b],
             x.first < y.first, y.ts >= 0
      PROVE  x.ts <= y.ts + 2 * Skew
  <2>1. CASE x \in files[b] /\ y \in files[b]
    BY <1>5, <1>7, <2>1 DEF InTime
  <2>2. CASE y = z
    <3>1. x # z
      BY <1>3, <1>7, <2>2
    <3> QED
      BY <1>3, <1>5, <1>7, <2>2, <3>1 DEF InTime
  <2>3. CASE x = z /\ y # z /\ ~(x \in files[b] /\ y \in files[b])
    <3>1. b = a /\ y \in files[a]
      BY <1>5, <1>7, <2>3 DEF InTime
    <3> QED
      BY <1>3, <1>4, <1>7, <2>3, <3>1
  <2> QED
    BY <1>5, <2>1, <2>2, <2>3
<1> QED
  BY <1>6, <1>7 DEF InTime

\* Every step of a partition with the Delete policy keeps it.
LEMMA InTimeStep ==
    ASSUME ~Compact, Inv, InTime, [Next]_vars
    PROVE  InTime'
<1>1. clock \in Nat /\ Skew \in Nat
  BY BoundsAreNumbers DEF Inv, TypeOK
<1>2. ASSUME files' = files, appending' = appending, clock' = clock
      PROVE  InTime'
  BY <1>1, <1>2, FewerInTime DEF Fewer
<1>3. CASE Create
  BY <1>1, <1>3, FewerInTime DEF Create, Fewer
<1>4. CASE Open
  BY <1>1, <1>4, FewerInTime DEF Open, Fewer, Recovered
<1>5. ASSUME NEW n \in 1 .. MaxBatch, NEW ts \in Stamps, Append(n, ts)
      PROVE  InTime'
  <2>1. Fewer /\ clock' = clock /\ appending' = [base |-> logEnd, n |-> n, ts |-> ts]
    BY <1>5, RollsAreFewer DEF Append
  <2>2. ts = -1 \/ (ts \in Nat /\ clock - Skew <= ts /\ ts <= clock + Skew)
    BY <1>1 DEF Stamps
  <2>3. \A b \in DOMAIN files' : \A x \in files'[b] : b \in DOMAIN files /\ x \in files[b]
    BY <2>1 DEF Fewer
  <2>4. appending'.ts = ts
    BY <2>1
  <2>5. \A b \in DOMAIN files' : \A x \in files'[b] : x.ts \in -1 .. (clock + Skew)
    BY <2>3 DEF InTime
  <2>6. \A b \in DOMAIN files' : \A x, y \in files'[b] :
            x.first < y.first /\ y.ts >= 0 => x.ts <= y.ts + 2 * Skew
    BY <2>3 DEF InTime
  <2>7. /\ appending'.ts \in -1 .. (clock + Skew)
        /\ appending'.ts >= 0 =>
                \A b \in DOMAIN files' : \A x \in files'[b] : x.ts <= appending'.ts + 2 * Skew
    BY <1>1, <2>2, <2>4, <2>5
  <2> QED
    BY <2>1, <2>5, <2>6, <2>7 DEF InTime
<1>6. CASE Write
  BY <1>6, StampedInTime DEF Write
<1>7. ASSUME NEW r \in Readers, Send(r) \/ \E o \in 0 .. MaxOffset : Read(r, o)
      PROVE  InTime'
  BY <1>2, <1>7 DEF Send, Read
<1>8. CASE Background
  <2>1. PICK now \in Recent : SweepRolls(now) \/ ApplyRetention(now) \/ SweepGraveyard(now)
    BY <1>8 DEF Background, RemoveSegment, ReplaceSegment
  <2>2. CASE SweepRolls(now)
    BY <1>1, <2>2, FewerInTime, RollsAreFewer DEF SweepRolls
  <2>3. CASE ApplyRetention(now)
    BY <1>1, <2>3, FewerInTime DEF ApplyRetention, Bury, Without, Fewer
  <2>4. CASE SweepGraveyard(now)
    BY <1>2, <2>4 DEF SweepGraveyard
  <2> QED
    BY <2>1, <2>2, <2>3, <2>4
<1>9. CASE Failure
  <2>1. running /\ appending' = NoAppend /\ clock' = clock
    BY <1>9 DEF Failure, Crash, CrashInWrite, CrashInRoll, CrashInRetention, CrashInRemove,
       CrashInReplace, Dies
  <2>2. ASSUME Fewer PROVE InTime'
    BY <1>1, <2>1, <2>2, FewerInTime
  <2>3. CASE Crash
    BY <2>2, <2>3 DEF Crash, disk, Fewer
  <2>4. ASSUME NEW whole \in BOOLEAN, CrashInWrite(whole) PROVE InTime'
    BY <2>1, <2>4, StampedInTime DEF CrashInWrite
  <2>5. ASSUME NEW indexed \in BOOLEAN, CrashInRoll(indexed) PROVE InTime'
    BY <2>2, <2>5 DEF CrashInRoll, Fewer
  <2>6. ASSUME NEW now, NEW cut, NEW orphan, CrashInRetention(now, cut, orphan) PROVE InTime'
    BY <2>2, <2>6 DEF CrashInRetention, Without, Fewer
  <2> QED
    BY <1>9, <2>3, <2>4, <2>5, <2>6 DEF Failure, CrashInRemove, CrashInReplace
<1>10. CASE Tick
  BY <1>1, <1>10, FewerInTime DEF Tick, Fewer
<1>11. CASE UNCHANGED vars
  BY <1>2, <1>11 DEF vars
<1> QED
  BY <1>3, <1>4, <1>5, <1>6, <1>7, <1>8, <1>9, <1>10, <1>11 DEF Next

\* What a sealed segment says is its largest timestamp is below any of its own by
\* no more than two clocks differ.
LEMMA TailTellsAll ==
    ASSUME Inv, InTime, running, NEW b \in DOMAIN files, LargestTimestamp(b) >= 0
    PROVE  /\ LargestTimestamp(b) \in Nat
           /\ \E x \in files[b] : x.ts = LargestTimestamp(b)
           /\ \A x \in files[b] : x.ts \in Int /\ x.ts <= LargestTimestamp(b) + 2 * Skew
<1> DEFINE T    == {-1} \cup {x.ts : x \in Tail(b)}
           D    == {clock + Skew - t : t \in T}
           from == IndexInterval * Entries(Cardinality(files[b]))
           Before(x) == {y \in files[b] : y.first < x.first}
<1>1. /\ clock \in Nat /\ Skew \in Nat /\ Serves(files, indexes, sealed, active, logEnd)
      /\ \A x \in files[b] : x.ts \in -1 .. (clock + Skew) /\ x.first \in Nat
  BY Disjoint, BoundsAreNumbers DEF Inv, TypeOK, Up, InTime, Batch
<1>2. Tail(b) = {x \in files[b] : Cardinality(Before(x)) >= from}
  BY DEF Tail
<1> HIDE DEF from
<1>3. \A t \in T : t \in -1 .. (clock + Skew)
  <2>1. Tail(b) \subseteq files[b]
    BY <1>2
  <2>2. \A x \in Tail(b) : x.ts \in -1 .. (clock + Skew)
    BY <1>1, <2>1
  <2>3. -1 \in -1 .. (clock + Skew)
    BY <1>1
  <2> QED
    BY <2>2, <2>3
<1>4. D \in SUBSET Nat /\ D # {}
  BY <1>1, <1>3
<1>5. PICK m \in D : \A n \in D : m <= n
  BY <1>4, LeastExists
<1>6. PICK t \in T : m = clock + Skew - t
  <2> HIDE DEF T
  <2> QED
    BY <1>5
<1>7. \A u \in T : t >= u
  <2> SUFFICES ASSUME NEW u \in T PROVE t >= u
    OBVIOUS
  <2>1. clock + Skew - t <= clock + Skew - u
    BY <1>5, <1>6
  <2> QED
    BY <1>1, <1>3, <2>1
<1>8. LargestTimestamp(b) \in T /\ \A u \in T : LargestTimestamp(b) >= u
  BY <1>7 DEF LargestTimestamp, Max
<1> DEFINE L == LargestTimestamp(b)
<1>9. L \in Nat /\ \E x \in Tail(b) : x.ts = L
  <2>1. L \in T /\ L >= 0
    BY <1>8
  <2>2. L \in Int
    <3> HIDE DEF T, L
    <3> QED
      BY <1>1, <1>3, <2>1
  <2> HIDE DEF L
  <2>3. L # -1
    BY <2>1, <2>2
  <2> QED
    BY <2>1, <2>2, <2>3
<1>10. PICK z \in Tail(b) : z.ts = L
  BY <1>9
<1> HIDE DEF L
<1>11. ASSUME NEW x \in files[b] PROVE x.ts <= L + 2 * Skew
  <2>1. CASE x \in Tail(b)
    BY <1>8, <1>9, <1>1, <2>1 DEF L
  <2>2. CASE x \notin Tail(b)
    <3>1. IsFiniteSet(files[b])
      <4> DEFINE one == {b}
      <4>1. UNION {files[c] : c \in one} = files[b] /\ one \in SUBSET DOMAIN files
        OBVIOUS
      <4>2. Serves(files, indexes, sealed, active, logEnd)
        BY <1>1
      <4> HIDE DEF one
      <4>3. IsFiniteSet(UNION {files[c] : c \in one})
        BY <4>1, <4>2, FinitelyMany
      <4> QED
        BY <4>1, <4>3
    <3>2. /\ IsFiniteSet(Before(x)) /\ Cardinality(Before(x)) \in Nat
          /\ IsFiniteSet(Before(z)) /\ Cardinality(Before(z)) \in Nat
      <4>1. Before(x) \in SUBSET files[b] /\ Before(z) \in SUBSET files[b]
        OBVIOUS
      <4> HIDE DEF Before
      <4> QED
        BY <3>1, <4>1, FS_Subset, FS_CardinalityType
    <3>3. z.first \in Nat /\ x.first \in Nat /\ z \in files[b]
      BY <1>1, <1>2
    <3>4. ~(z.first <= x.first)
      <4> SUFFICES ASSUME z.first <= x.first PROVE FALSE
        OBVIOUS
      <4>1. Before(z) \subseteq Before(x)
        BY <1>1, <3>3
      <4>2. Cardinality(Before(z)) <= Cardinality(Before(x))
        BY <3>2, <4>1, FS_Subset
      <4>3. from \in Int
        <5> DEFINE count == Cardinality(files[b])
        <5>1. count \in Nat
          BY <3>1, FS_CardinalityType
        <5>2. IndexInterval \in Nat \ {0}
          BY PartitionLogAssumption
        <5> HIDE DEF count
        <5>3. Entries(count) \in Int
          BY <5>1, <5>2 DEF Entries
        <5>4. IndexInterval * Entries(count) \in Int
          BY <5>2, <5>3
        <5> QED
          BY <5>4 DEF from, count
      <4>4. Cardinality(Before(z)) >= from /\ ~(Cardinality(Before(x)) >= from)
        BY <1>2, <2>2
      <4> QED
        BY <3>2, <4>2, <4>3, <4>4
    <3> QED
      BY <1>9, <1>10, <3>3, <3>4 DEF InTime
  <2> QED
    BY <2>1, <2>2
<1> QED
  BY <1>1, <1>2, <1>9, <1>11 DEF L

\* A segment that retention takes is over the byte limit or nothing in it is young.
LEMMA DoomedAreOld ==
    ASSUME Inv, InTime, running, NEW now \in Recent, NEW b \in Doomed(now)
    PROVE  \/ SizeFrom(b) > RetentionBytes
           \/ /\ \E x \in files[b] : x.ts >= 0
              /\ \A x \in files[b] : clock - x.ts >= RetentionMs - 2 * Skew
<1> SUFFICES ASSUME ~(SizeFrom(b) > RetentionBytes)
             PROVE  /\ \E x \in files[b] : x.ts >= 0
                    /\ \A x \in files[b] : clock - x.ts >= RetentionMs - 2 * Skew
  OBVIOUS
<1>1. TypeOK /\ Serves(files, indexes, sealed, active, logEnd)
  BY DEF Inv, Up
<1>2. b \in DOMAIN sealed /\ b \in DOMAIN files /\ b # active.base
  BY <1>1, DoomedAreOldest DEF Serves
<1>3. AgedOut(b, now)
  BY <1>1, <1>2 DEF Doomed, TypeOK
<1>4. files[b] # {}
  BY <1>1, <1>2 DEF Serves, Directory, SealedOK
<1>5. LargestTimestamp(b) >= 0 /\ now - LargestTimestamp(b) >= RetentionMs
  BY <1>3, <1>4 DEF AgedOut
<1>6. /\ LargestTimestamp(b) \in Nat
      /\ \E x \in files[b] : x.ts = LargestTimestamp(b)
      /\ \A x \in files[b] : x.ts \in Int /\ x.ts <= LargestTimestamp(b) + 2 * Skew
  BY <1>2, <1>5, TailTellsAll
<1>7. now \in Nat /\ clock \in Nat /\ now <= clock /\ RetentionMs \in Nat /\ Skew \in Nat
  BY <1>1, PartitionLogAssumption DEF TypeOK, Recent
<1> QED
  BY <1>5, <1>6, <1>7

\* A Delete partition within its byte limit loses a segment only when all its
\* records are older than retentionMs, give or take two producers' clocks, although
\* retention looks only at the end of a segment, and however long ago its pass read
\* the clock.  Without the allowance it is not so: a record stamped ahead of time
\* before the last index entry is not seen.
THEOREM YoungRecordsAreKept == Spec => YoungRecordsStay
<1> DEFINE Timely == ~Compact => InTime
           Keeps == \A b \in DOMAIN files \ DOMAIN files' :
                        ~Compact => \/ SizeFrom(b) > RetentionBytes
                                    \/ /\ \E x \in files[b] : x.ts >= 0
                                       /\ \A x \in files[b] : clock - x.ts >= RetentionMs - 2 * Skew
<1>1. Init => Timely
  BY DEF Init, InTime
<1>2. Inv /\ Timely /\ [Next]_vars => Timely'
  BY InTimeStep
<1>3. Inv /\ Timely /\ [Next]_vars => [Keeps]_vars
  <2> SUFFICES ASSUME Inv, Timely, Next, NEW b \in DOMAIN files \ DOMAIN files', ~Compact
               PROVE  \/ SizeFrom(b) > RetentionBytes
                      \/ /\ \E x \in files[b] : x.ts >= 0
                         /\ \A x \in files[b] : clock - x.ts >= RetentionMs - 2 * Skew
    OBVIOUS
  <2>1. PICK now \in Recent : b \in Doomed(now) /\ running
    <3>1. CASE Background
      BY <3>1 DEF Background, SweepRolls, MaybeRoll, Roll, ApplyRetention, Bury, Without,
                  SweepGraveyard, RemoveSegment, ReplaceSegment
    <3>2. CASE Failure
      BY <3>2 DEF Failure, Crash, disk, CrashInWrite, CrashInRoll, CrashInRetention, Without,
                  CrashInRemove, CrashInReplace, Dies
    <3>3. CASE ~Background /\ ~Failure
      BY <3>3 DEF Next, Create, Open, Append, MaybeRoll, Roll, Write, Send, Read, Tick
    <3> QED
      BY <3>1, <3>2, <3>3
  <2> QED
    BY <2>1, DoomedAreOld
<1> QED
  BY <1>1, <1>2, <1>3, Invariance, PTL DEF Spec, YoungRecordsStay

-----------------------------------------------------------------------------
(***************************************************************************)
(* A partition with the Delete policy implements RecordLog: to a client,   *)
(* rolls, background sweeps, restarts and crashes do not exist, a batch    *)
(* appears once, at the end, and retention forgets from the old end.       *)
(***************************************************************************)

\* A batch as a client sees it.
Seen(x) == [first |-> x.first, last |-> x.last, ts |-> x.ts]

\* The batches of directory f that are part of the log.
Batches(f) == {Seen(x) : x \in Complete(UNION {f[b] : b \in DOMAIN f})}

\* The end a restart would find, and the end of the log at any time.
FoundEnd == EndOf(Newest, Recovered(Newest))

End == IF running \/ DOMAIN files = {} THEN logEnd ELSE FoundEnd

\* The steps of RecordLog, said of Batches and End.
Stutters == Batches(files') = Batches(files) /\ End' = End

Appends(n, ts) ==
    /\ Batches(files') = Batches(files) \cup {[first |-> End, last |-> End + n - 1, ts |-> ts]}
    /\ End' = End + n

Forgets(o) ==
    /\ Batches(files') = {x \in Batches(files) : x.first >= o}
    /\ End' = End

Promised ==
    \/ Stutters
    \/ \E n \in 1 .. MaxBatch, ts \in -1 .. (MaxTime + Skew) : Appends(n, ts)
    \/ \E o \in 0 .. End : Forgets(o)

-----------------------------------------------------------------------------
\* A restart continues after the last complete batch.
LEMMA FoundEndIs == \A top : Directory(files, indexes, top) =>
                        FoundEnd = EndOf(top, Complete(files[top]))
  BY NewestIsTop, RecoveredIsComplete DEF FoundEnd

LEMMA FoundEndWillBe == (\A top : Directory(files, indexes, top) =>
                        FoundEnd = EndOf(top, Complete(files[top])))'
  BY FoundEndIs, PTL

\* A segment without complete batches more or less makes no difference.
LEMMA SameBatches ==
    ASSUME NEW f, NEW g,
           \A b \in DOMAIN f : Complete(f[b]) # {} => b \in DOMAIN g /\ Complete(g[b]) = Complete(f[b]),
           \A b \in DOMAIN g : Complete(g[b]) # {} => b \in DOMAIN f /\ Complete(g[b]) = Complete(f[b])
    PROVE  Batches(g) = Batches(f)
<1>1. \A x : x \in Complete(UNION {f[b] : b \in DOMAIN f}) <=>
                \E b \in DOMAIN f : x \in Complete(f[b])
  BY DEF Complete
<1>2. \A x : x \in Complete(UNION {g[b] : b \in DOMAIN g}) <=>
                \E b \in DOMAIN g : x \in Complete(g[b])
  BY DEF Complete
<1>3. Complete(UNION {f[b] : b \in DOMAIN f}) = Complete(UNION {g[b] : b \in DOMAIN g})
  <2>1. \A x : (\E b \in DOMAIN f : x \in Complete(f[b])) <=> (\E b \in DOMAIN g : x \in Complete(g[b]))
    <3> HIDE DEF Complete
    <3> QED
      OBVIOUS
  <2> QED
    BY <1>1, <1>2, <2>1 DEF Complete
<1> QED
  BY <1>3 DEF Batches

\* The files do not change, and neither does the end.
LEMMA SameFiles ==
    ASSUME UNCHANGED <<files, running, logEnd>>, running
    PROVE  Stutters
  BY DEF Stutters, End

\* A process that served the log up to e dies, and leaves a directory that ends at e.
LEMMA EndAfterDeath ==
    ASSUME Dies, NEW top, Directory(files', indexes', top),
           EndOf(top, Complete(files'[top])) = logEnd
    PROVE  End = logEnd /\ End' = logEnd
<1>1. FoundEnd' = EndOf(top, Complete(files'[top]))
  BY FoundEndWillBe
<1>2. DOMAIN files' # {}
  BY DEF Directory
<1> QED
  BY <1>1, <1>2 DEF Dies, End

-----------------------------------------------------------------------------
\* A roll adds an empty segment.
LEMMA MaybeRollStutters ==
    ASSUME Inv, running, NEW now, MaybeRoll(now), UNCHANGED <<running, logEnd>>
    PROVE  Stutters
<1>1. CASE UNCHANGED <<files, indexes, sealed, active, ranges>>
  BY <1>1, SameFiles
<1>2. ASSUME ShouldRoll(now), NEW reused \in Reuse, Roll(reused)
      PROVE  Stutters
  <2>1. files' = [b \in DOMAIN files \cup {logEnd} |-> IF b = logEnd THEN {} ELSE files[b]]
    BY <1>2 DEF Roll
  <2>2. files[active.base] # {}
    BY <1>2, FS_EmptySet DEF ShouldRoll
  <2>3. logEnd \notin DOMAIN files
    <3>1. Serves(files, indexes, sealed, active, logEnd)
      BY DEF Inv, Up
    <3>2. active.base < logEnd /\ logEnd \in Nat
      BY <2>2, <3>1, AddSegment DEF Serves
    <3> QED
      BY <3>1, <3>2 DEF Serves, Directory
  <2>4. Complete({}) = {}
    BY DEF Complete
  <2>5. Batches(files') = Batches(files)
    BY <2>1, <2>3, <2>4, SameBatches
  <2> QED
    BY <2>5 DEF Stutters, End
<1> QED
  BY <1>1, <1>2 DEF MaybeRoll

\* A batch written in full appends.
LEMMA WholeBatchAppends ==
    ASSUME Inv, running, appending # NoAppend,
           files' = [files EXCEPT ![active.base] = @ \cup {Stamped(TRUE)}],
           End' = appending.base + appending.n
    PROVE  Promised
<1>1. Serves(files, indexes, sealed, active, logEnd) /\ active.base \in DOMAIN files
  BY DEF Inv, Up, Serves
<1>2. /\ appending.base = logEnd /\ appending.n \in 1 .. MaxBatch
      /\ appending.ts \in -1 .. (MaxTime + Skew)
  BY DEF Inv, Up
<1>3. End = logEnd
  BY DEF End
<1> DEFINE x == Stamped(TRUE)
<1>4. x.whole /\ Seen(x) = [first |-> logEnd, last |-> logEnd + appending.n - 1, ts |-> appending.ts]
  BY <1>2 DEF Stamped, Seen
<1> HIDE DEF x
<1>5. UNION {files'[b] : b \in DOMAIN files'} = (UNION {files[b] : b \in DOMAIN files}) \cup {x}
  <2>1. /\ DOMAIN files' = DOMAIN files
        /\ files'[active.base] = files[active.base] \cup {x}
        /\ \A b \in DOMAIN files \ {active.base} : files'[b] = files[b]
    BY <1>1 DEF x
  <2>2. \A y : (\E b \in DOMAIN files' : y \in files'[b])
              <=> (y = x \/ \E b \in DOMAIN files : y \in files[b])
    BY <1>1, <2>1
  <2> DEFINE U == UNION {files[b] : b \in DOMAIN files}
             V == UNION {files'[b] : b \in DOMAIN files'}
  <2>3. \A y : y \in U <=> \E b \in DOMAIN files : y \in files[b]
    OBVIOUS
  <2>4. \A y : y \in V <=> \E b \in DOMAIN files' : y \in files'[b]
    OBVIOUS
  <2> HIDE DEF U, V
  <2>5. V = U \cup {x}
    BY <2>2, <2>3, <2>4
  <2> QED
    BY <2>5 DEF U, V
<1>6. Batches(files') = Batches(files) \cup {Seen(x)}
  <2> DEFINE U == UNION {files[b] : b \in DOMAIN files}
  <2>1. Complete(U \cup {x}) = Complete(U) \cup {x}
    BY <1>4 DEF Complete
  <2> QED
    BY <1>5, <2>1 DEF Batches
<1>7. Appends(appending.n, appending.ts)
  BY <1>2, <1>3, <1>4, <1>6 DEF Appends
<1> QED
  BY <1>2, <1>7 DEF Promised

\* When the oldest segments go, everything below the first that stays is forgotten.
LEMMA OldestGo ==
    ASSUME Inv, running, NEW D \in SUBSET DOMAIN sealed,
           \A b \in DOMAIN files : \A d \in D : b <= d => b \in D,
           files' = Without(D), End' = End
    PROVE  Promised
<1>1. Serves(files, indexes, sealed, active, logEnd) /\ End = logEnd
  BY DEF Inv, Up, End
<1>2. /\ DOMAIN files \in SUBSET Nat /\ active.base \in DOMAIN files \ D
      /\ files' = [b \in DOMAIN files \ D |-> files[b]]
  BY <1>1 DEF Serves, Directory, Without
<1>3. PICK o \in DOMAIN files \ D : \A c \in DOMAIN files \ D : o <= c
  BY <1>2, LeastExists
<1>4. o \in 0 .. End
  BY <1>1, <1>2, Disjoint
<1>5. ASSUME NEW b \in DOMAIN files, NEW x \in files[b]
      PROVE  x.whole /\ (b \notin D <=> x.first >= o)
  <2>1. /\ x \in Batch /\ x.whole /\ b <= x.first /\ x.first <= x.last
        /\ o <= b \/ x.last < o
    BY <1>1, <1>3, Disjoint
  <2>2. b \notin D => o <= b
    BY <1>3
  <2>3. b \in D => ~(o <= b)
    BY <1>3
  <2> QED
    BY <1>2, <1>3, <2>1, <2>2, <2>3 DEF Batch
<1> DEFINE U == UNION {files[b] : b \in DOMAIN files}
           V == UNION {files'[b] : b \in DOMAIN files'}
<1>6. V = {x \in U : x.first >= o}
  BY <1>2, <1>5
<1>7. Complete(U) = U /\ Complete(V) = V
  BY <1>2, <1>5 DEF Complete
<1>8. Batches(files') = {Seen(x) : x \in V} /\ Batches(files) = {Seen(x) : x \in U}
  BY <1>7 DEF Batches
<1> HIDE DEF U, V
<1>9. Batches(files') = {x \in Batches(files) : x.first >= o}
  BY <1>6, <1>8 DEF Seen
<1> QED
  BY <1>4, <1>9 DEF Promised, Forgets

-----------------------------------------------------------------------------
\* Every step is one the promise allows.
LEMMA StepIsPromised ==
    ASSUME ~Compact, Inv, [Next]_vars
    PROVE  Promised
<1>1. CASE Create
  <2>1. /\ DOMAIN files = {} /\ files' = [b \in {0} |-> {}] /\ logEnd = 0 /\ logEnd' = 0
        /\ running'
    BY <1>1 DEF Create, Inv, Down
  <2>2. Complete({}) = {}
    BY DEF Complete
  <2>3. Batches(files') = Batches(files)
    BY <2>1, <2>2, SameBatches
  <2> QED
    BY <2>1, <2>3 DEF Promised, Stutters, End
<1>2. CASE Open
  <2>1. PICK top : Directory(files, indexes, top)
    BY <1>2 DEF Open, Inv, Down, Leaves
  <2>2. Newest = top /\ Recovered(top) = Complete(files[top]) /\ top \in DOMAIN files
    BY <2>1, NewestIsTop, RecoveredIsComplete DEF Directory
  <2>3. files' = [files EXCEPT ![top] = Complete(files[top])]
    BY <1>2, <2>2 DEF Open
  <2>4. Complete(Complete(files[top])) = Complete(files[top])
    BY DEF Complete
  <2>5. \A b \in DOMAIN files : Complete(files'[b]) = Complete(files[b])
    BY <2>2, <2>3, <2>4
  <2>6. Batches(files') = Batches(files)
    BY <2>3, <2>5, SameBatches
  <2>7. End = EndOf(top, Recovered(top)) /\ End' = EndOf(top, Recovered(top))
    BY <1>2, <2>2 DEF Open, End, FoundEnd
  <2> QED
    BY <2>6, <2>7 DEF Promised, Stutters
<1>3. ASSUME NEW n \in 1 .. MaxBatch, NEW ts \in Stamps, Append(n, ts)
      PROVE  Promised
  BY <1>3, MaybeRollStutters DEF Append, Promised
<1>4. CASE Write
  <2>1. running /\ running' /\ logEnd' = appending.base + appending.n
    BY <1>4 DEF Write
  <2>2. End' = appending.base + appending.n
    BY <2>1 DEF End
  <2> QED
    BY <1>4, <2>1, <2>2, WholeBatchAppends DEF Write
<1>5. ASSUME NEW r \in Readers, Send(r) \/ \E o \in 0 .. MaxOffset : Read(r, o)
      PROVE  Promised
  <2>1. UNCHANGED <<files, running, logEnd>> /\ running
    BY <1>5 DEF Send, Read, Inv, Down
  <2> QED
    BY <2>1, SameFiles DEF Promised
<1>6. CASE Background
  <2>1. PICK now \in Recent : SweepRolls(now) \/ ApplyRetention(now) \/ SweepGraveyard(now)
    BY <1>6 DEF Background, RemoveSegment, ReplaceSegment
  <2>2. CASE SweepRolls(now)
    BY <2>2, MaybeRollStutters DEF SweepRolls, Promised
  <2>3. CASE SweepGraveyard(now)
    BY <2>3, SameFiles DEF SweepGraveyard, Promised
  <2>4. CASE ApplyRetention(now)
    <3>1. /\ running /\ UNCHANGED <<running, logEnd>> /\ files' = Without(Doomed(now))
      BY <2>4 DEF ApplyRetention, Bury
    <3>2. /\ Doomed(now) \in SUBSET DOMAIN sealed
          /\ \A b \in DOMAIN files : \A d \in Doomed(now) : b <= d => b \in Doomed(now)
      BY <3>1, DoomedAreOldest DEF Inv, Up
    <3>3. End' = End
      BY <3>1 DEF End
    <3> QED
      BY <3>1, <3>2, <3>3, OldestGo
  <2> QED
    BY <2>1, <2>2, <2>3, <2>4
<1>7. CASE Failure
  <2>1. Dies /\ running
    BY <1>7 DEF Failure, Crash, CrashInWrite, CrashInRoll, CrashInRetention, CrashInRemove,
       CrashInReplace, Dies
  <2>2. /\ Serves(files, indexes, sealed, active, logEnd) /\ Directory(files, indexes, active.base)
        /\ active.base \in DOMAIN files /\ active.base \in Nat
    BY <2>1 DEF Inv, Up, Serves, Directory
  <2>3. Complete(files[active.base]) = files[active.base]
    BY <2>2 DEF Serves, Complete
  <2>4. logEnd = EndOf(active.base, files[active.base])
    BY <2>2 DEF Serves
  <2>5. CASE Crash
    <3>1. files' = files /\ indexes' = indexes
      BY <2>5 DEF Crash, disk
    <3>2. End = logEnd /\ End' = logEnd
      BY <2>1, <2>2, <2>3, <2>4, <3>1, EndAfterDeath
    <3> QED
      BY <3>1, <3>2 DEF Promised, Stutters
  <2>6. ASSUME NEW whole \in BOOLEAN, CrashInWrite(whole)
        PROVE  Promised
    <3> DEFINE x == Stamped(whole)
               S == files[active.base]
    <3>1. /\ appending # NoAppend /\ files' = [files EXCEPT ![active.base] = S \cup {x}]
          /\ indexes' = indexes
      BY <2>6 DEF CrashInWrite
    <3>2. /\ x.whole = whole
          /\ x.last + 1 = appending.base + appending.n
          /\ NewestOK(active.base, S \cup {x})
          /\ whole => EndOf(active.base, S \cup {x}) = x.last + 1
      BY <2>1, <3>1, StampedIsNext
    <3> HIDE DEF x
    <3>3. Directory(files', indexes', active.base) /\ files'[active.base] = S \cup {x}
      BY <2>2, <3>1, <3>2, ChangeNewest
    <3>4. DOMAIN files' # {} /\ ~running' /\ FoundEnd' = EndOf(active.base, Complete(S \cup {x}))
      BY <2>1, <3>3, FoundEndWillBe DEF Dies, Directory
    <3>5. CASE whole
      <4>1. Complete(S \cup {x}) = S \cup {x}
        BY <2>3, <3>2, <3>5 DEF Complete
      <4>2. End' = appending.base + appending.n
        BY <3>2, <3>4, <3>5, <4>1 DEF End
      <4> QED
        BY <2>1, <3>1, <3>5, <4>2, WholeBatchAppends DEF x
    <3>6. CASE ~whole
      <4>1. Complete(S \cup {x}) = S
        BY <2>3, <3>2, <3>6 DEF Complete
      <4>2. End' = logEnd /\ End = logEnd
        BY <2>1, <2>4, <3>4, <4>1 DEF End
      <4>3. Complete(files'[active.base]) = Complete(files[active.base])
        BY <2>3, <3>3, <4>1
      <4>4. Batches(files') = Batches(files)
        BY <3>1, <4>3, SameBatches
      <4> QED
        BY <4>2, <4>4 DEF Promised, Stutters
    <3> QED
      BY <3>5, <3>6
  <2>7. ASSUME NEW indexed \in BOOLEAN, CrashInRoll(indexed)
        PROVE  Promised
    <3>1. files[active.base] # {}
      BY <2>7, FS_EmptySet DEF CrashInRoll, ShouldRoll
    <3>2. /\ files' = [b \in DOMAIN files \cup {logEnd} |-> IF b = logEnd THEN {} ELSE files[b]]
          /\ indexes' = IF indexed THEN indexes \cup {logEnd} ELSE indexes \ {logEnd}
      BY <2>7 DEF CrashInRoll
    <3>3. indexes \ {logEnd} \subseteq indexes'
      BY <3>2
    <3>4. active.base < logEnd /\ logEnd \in Nat /\ Directory(files', indexes', logEnd)
      <4>1. active.base \in indexes /\ \A x \in files[active.base] : x.whole
        BY <2>2 DEF Serves
      <4> QED
        BY <2>2, <2>4, <3>1, <3>2, <3>3, <4>1, AddSegment
    <3>5. logEnd \notin DOMAIN files
      BY <2>2, <3>4 DEF Directory
    <3>6. files'[logEnd] = {} /\ Complete({}) = {} /\ EndOf(logEnd, {}) = logEnd
      BY <3>2 DEF Complete, EndOf
    <3>7. End = logEnd /\ End' = logEnd
      BY <2>1, <3>4, <3>6, EndAfterDeath
    <3>8. Batches(files') = Batches(files)
      BY <3>2, <3>5, <3>6, SameBatches
    <3> QED
      BY <3>7, <3>8 DEF Promised, Stutters
  <2>8. ASSUME NEW now \in Recent, NEW cut \in DOMAIN sealed, NEW orphan \in BOOLEAN,
               CrashInRetention(now, cut, orphan)
        PROVE  Promised
    <3> DEFINE D == {b \in Doomed(now) : b <= cut}
    <3>1. files' = Without(D) /\ indexes \ D \subseteq indexes'
      BY <2>8 DEF CrashInRetention
    <3>2. /\ Doomed(now) \in SUBSET DOMAIN sealed
          /\ \A b \in DOMAIN files : \A d \in Doomed(now) : b <= d => b \in Doomed(now)
      BY <2>2, DoomedAreOldest DEF Inv
    <3>3. D \in SUBSET DOMAIN sealed /\ \A b \in DOMAIN files : \A d \in D : b <= d => b \in D
      BY <3>2 DEF Inv, TypeOK
    <3>4. active.base \notin D
      BY <2>2, <3>3 DEF Serves
    <3> HIDE DEF D
    <3>5. Directory(files', indexes', active.base) /\ files'[active.base] = files[active.base]
      BY <2>2, <3>1, <3>3, <3>4, DropSegments DEF Without
    <3>6. End = logEnd /\ End' = logEnd
      BY <2>1, <2>3, <2>4, <3>5, EndAfterDeath
    <3> QED
      BY <2>1, <3>1, <3>3, <3>6, OldestGo
  <2> QED
    BY <1>7, <2>5, <2>6, <2>7, <2>8 DEF Failure, CrashInRemove, CrashInReplace
<1>8. CASE Tick
  <2>1. UNCHANGED <<files, indexes, running, logEnd>>
    BY <1>8 DEF Tick
  <2>2. FoundEnd' = FoundEnd
    BY <2>1 DEF FoundEnd, Newest, Recovered, EndOf
  <2> QED
    BY <2>1, <2>2 DEF Promised, Stutters, End
<1>9. CASE UNCHANGED vars
  <2>1. UNCHANGED <<files, indexes, running, logEnd>>
    BY <1>9 DEF vars
  <2>2. FoundEnd' = FoundEnd
    BY <2>1 DEF FoundEnd, Newest, Recovered, EndOf
  <2> QED
    BY <2>1, <2>2 DEF Promised, Stutters, End
<1> QED
  BY <1>1, <1>2, <1>3, <1>4, <1>5, <1>6, <1>7, <1>8, <1>9 DEF Next

\* A partition with the Delete policy, its crashes and restarts included, is to
\* its clients a log that only grows at the end and only shrinks from the start:
\* no record is lost, torn, repeated or given another's offset.
THEOREM DeleteLogKeepsRecords ==
    ASSUME ~Compact
    PROVE  Spec => KeepsRecords
<1>1. Init => Promise!Init
  BY DEF Init, Promise!Init
<1>2. Inv /\ [Next]_vars => [Promise!Next]_Promise!rlvars
  <2> SUFFICES ASSUME Inv, [Next]_vars
               PROVE  [Promise!Next]_Promise!rlvars
    OBVIOUS
  <2>1. Promised
    BY StepIsPromised
  <2> QED
    BY <2>1 DEF Promised, Stutters, Appends, Forgets, Batches, Seen, Complete, End, FoundEnd,
       Promise!Next, Promise!rlvars, Promise!Append, Promise!Forget
<1> QED
  BY <1>1, <1>2, Invariance, PTL DEF Spec, KeepsRecords, Promise!Spec
=============================================================================
